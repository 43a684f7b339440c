---------------------------- MODULE AccessProofs ----------------------------
(* Theorems about Access, for any users, groups, threads and bounds.  A        *)
(* request is judged by what several readings of two files said at different   *)
(* times; the argument follows what seen[t] must hold when thread t has gone   *)
(* past each of these readings.                                                *)
EXTENDS Access, TLAPS

Pcs == {"idle", "users", "signin", "tabs", "groups", "list", "edit", "update"}
RequestKinds == Judged \cup {"none", "login", "join", "leave"}
Outs == {"none", "served", "denied", "cleared", "failed"}

ThreadRecords ==
    [pc : Pcs, kind : RequestKinds, from : Sessions \cup {"none"},
     session : Cookies \cup {SignedOut}, on : Tabs \cup Names \cup {"none"},
     body : [has : SUBSET Fields, members : SUBSET Users, tabs : SUBSET Tabs],
     user : Users \cup {"none"}, copy : Groups, out : Outs]
CliRecords == [pc : {"idle", "loaded", "open"}, copy : [Users -> Accounts]]

TypeInv ==
    /\ users \in [Users -> Accounts]
    /\ usersFile \in {"whole", "empty", "garbage"}
    /\ DOMAIN groups \in SUBSET Names
    /\ \A n \in DOMAIN groups : groups[n] \in Groups
    /\ groupsFile \in {"whole", "empty"}
    /\ cli \in [Clis -> CliRecords]
    /\ cookie \in [Sessions -> Cookies \cup {SignedOut}]
    /\ th \in [Threads -> ThreadRecords]
    /\ runs \in 0..MaxRuns /\ requests \in 0..MaxRequests /\ restarts \in 0..MaxRestarts

\* Where a request of each kind can be, and what it carries.
Flow(r) ==
    /\ r.pc = "users" => r.kind \in Judged
    /\ r.pc = "list" => r.kind \in {"join", "leave"}
    /\ r.pc = "edit" => r.kind \in AdminKinds \cup {"join", "leave"}
    /\ r.pc = "edit" => r.on \in Names
    /\ r.pc = "list" => r.on \in Names
    /\ r.pc = "update" => r.kind \in {"put", "join", "leave"}
    /\ r.kind \in {"join", "leave"} => r.user \in Users
    /\ r.kind \in Judged => r.session \in Cookies
    /\ r.kind \in AdminKinds => r.on \in Names
    /\ r.kind = "tab" => r.on \in KnownTabs

FlowInv == \A t \in Threads : Flow(th[t])

\* What a request has seen by the time it has come to each of its places.
Witnessed(r, s) ==
    /\ r.pc # "users" => "account" \in s \/ r.session.source = "sso"
    /\ r.pc \in {"signin", "edit", "update"} =>
          /\ r.session.role = "admin"
          /\ "admin" \in s \/ (r.session.source = "sso" /\ "carried" \in s)
    /\ r.pc \in {"tabs", "groups"} => "ordinary" \in s

SeenInv ==
    \A t \in Threads : th[t].pc # "idle" /\ th[t].kind \in Judged =>
        Facts(t) \subseteq seen[t] /\ Witnessed(th[t], seen[t])

\* A session with the role of an admin is one of a user whom users.json has
\* called so.
Earned(c, A) == c \in Cookies /\ c.role = "admin" => c.user \in A

CarriedInv ==
    /\ \A u \in Users : Account(u) = "admin" => u \in admins
    /\ \A s \in Sessions : Earned(cookie[s], admins)
    /\ \A t \in Threads : Earned(th[t].session, admins)

Inv == TypeInv /\ FlowInv /\ SeenInv /\ CarriedInv
-----------------------------------------------------------------------------
(* Types and the way of a request *)

LEMMA IdleFacts ==
    /\ IdleThread \in ThreadRecords /\ IdleThread.pc = "idle" /\ IdleThread.kind = "none"
    /\ \A o \in Outs : [IdleThread EXCEPT !.out = o] \in ThreadRecords
    /\ \A o : /\ [IdleThread EXCEPT !.out = o].pc = "idle"
              /\ [IdleThread EXCEPT !.out = o].kind = "none"
              /\ [IdleThread EXCEPT !.out = o].out = o
    /\ IdleCli \in CliRecords
    /\ Flow(IdleThread) /\ \A o : Flow([IdleThread EXCEPT !.out = o])
<1>1. NoGroup \in Groups /\ NoBody \in [has : SUBSET Fields, members : SUBSET Users, tabs : SUBSET Tabs]
    BY DEF NoGroup, Groups, NoBody
<1>2. IdleThread \in ThreadRecords /\ IdleThread.pc = "idle" /\ IdleThread.kind = "none"
    BY <1>1 DEF IdleThread, ThreadRecords, Pcs, RequestKinds, Outs
<1>3. IdleCli \in CliRecords
    BY DEF IdleCli, CliRecords, Accounts
<1>4. \A o \in Outs : [IdleThread EXCEPT !.out = o] \in ThreadRecords
    BY <1>2 DEF ThreadRecords
<1>5. \A o : /\ [IdleThread EXCEPT !.out = o].pc = "idle"
             /\ [IdleThread EXCEPT !.out = o].kind = "none"
             /\ [IdleThread EXCEPT !.out = o].out = o
    BY <1>2 DEF IdleThread
<1>6. Flow(IdleThread) /\ \A o : Flow([IdleThread EXCEPT !.out = o])
    BY <1>2, <1>5 DEF Flow, Judged, AdminKinds
<1> QED
    BY <1>2, <1>3, <1>4, <1>5, <1>6

\* The response: the thread is idle, and the cookie is one the browser may hold.
LEMMA FinishFact ==
    ASSUME TypeInv, NEW t \in Threads, NEW o \in Outs, NEW c \in Cookies \cup {SignedOut},
           Finish(t, o, c)
    PROVE  /\ th' \in [Threads -> ThreadRecords]
           /\ cookie' \in [Sessions -> Cookies \cup {SignedOut}]
           /\ th'[t] = [IdleThread EXCEPT !.out = o]
           /\ \A i \in Threads : i # t => th'[i] = th[i]
           /\ Flow(th'[t])
<1>1. th' = [th EXCEPT ![t] = [IdleThread EXCEPT !.out = o]]
    BY DEF Finish
<1>2. [IdleThread EXCEPT !.out = o] \in ThreadRecords /\ Flow([IdleThread EXCEPT !.out = o])
    BY IdleFacts
<1>3. th[t].from \in Sessions \cup {"none"}
    BY DEF TypeInv, ThreadRecords
<1>4. cookie' \in [Sessions -> Cookies \cup {SignedOut}]
    BY <1>3 DEF Finish, TypeInv
<1> QED
    BY <1>1, <1>2, <1>4 DEF TypeInv

\* What a request is like when it begins.
NewRecord(r) ==
    /\ r \in ThreadRecords /\ Flow(r)
    /\ r.kind \in Judged => r.pc = "users"

LEMMA NewFact ==
    ASSUME TypeInv, NEW t \in Threads, NewRequest(t)
    PROVE  \E r : NewRecord(r) /\ Begin(t, r)
<1> USE IdleFacts
<1>1. ASSUME NEW s \in Sessions, NEW tab \in KnownTabs, Visit(t, s, tab)
      PROVE  \E r : NewRecord(r) /\ Begin(t, r)
    <2> DEFINE r == [IdleThread EXCEPT !.pc = "users", !.kind = "tab", !.from = s,
                                       !.session = cookie[s], !.on = tab]
    <2>1. cookie[s] \in Cookies
        BY <1>1 DEF Visit, TypeInv
    <2>2. tab \in Tabs
        BY AccessAssumption
    <2>3. r \in ThreadRecords
        BY <2>1, <2>2 DEF ThreadRecords, Pcs, RequestKinds, Judged
    <2>4. /\ r.pc = "users" /\ r.kind = "tab" /\ r.session = cookie[s] /\ r.on = tab
        BY DEF ThreadRecords
    <2>5. NewRecord(r)
        BY <2>1, <2>3, <2>4 DEF NewRecord, Flow, Judged, AdminKinds
    <2> QED
        BY <1>1, <2>5 DEF Visit
<1>2. ASSUME NEW s \in Sessions, NEW n \in Names, NEW b \in Bodies \cup {NoBody},
             NEW k \in AdminKinds, Edit(t, s, k, n, b)
      PROVE  \E r : NewRecord(r) /\ Begin(t, r)
    <2> DEFINE r == [IdleThread EXCEPT !.pc = "users", !.kind = k, !.from = s,
                                       !.session = cookie[s], !.on = n, !.body = b]
    <2>1. cookie[s] \in Cookies
        BY <1>2 DEF Edit, TypeInv
    <2>2. b \in [has : SUBSET Fields, members : SUBSET Users, tabs : SUBSET Tabs]
        BY AccessAssumption DEF NoBody
    <2>3. r \in ThreadRecords
        BY <2>1, <2>2 DEF ThreadRecords, Pcs, RequestKinds, Judged
    <2>4. /\ r.pc = "users" /\ r.kind = k /\ r.session = cookie[s] /\ r.on = n
        BY DEF ThreadRecords
    <2>5. NewRecord(r)
        BY <2>1, <2>3, <2>4 DEF NewRecord, Flow, Judged, AdminKinds
    <2> QED
        BY <1>2, <2>5 DEF Edit
<1>3. ASSUME NEW s \in Sessions, NEW u \in Users, Login(t, s, u)
      PROVE  \E r : NewRecord(r) /\ Begin(t, r)
    <2> DEFINE c == [user |-> u, source |-> "local", role |-> Account(u)]
               p == IF Account(u) = "admin" THEN "signin" ELSE "tabs"
               r == [IdleThread EXCEPT !.pc = p, !.kind = "login", !.from = s, !.session = c]
    <2>1. c \in Cookies
        <3>1. Account(u) \in Roles
            BY <1>3 DEF Login, Account, TypeInv, Accounts, Roles
        <3> QED
            BY <3>1 DEF Cookies
    <2>2. p \in {"signin", "tabs"} /\ Begin(t, r)
        BY <1>3 DEF Login
    <2> HIDE DEF c, p
    <2>3. r \in ThreadRecords
        BY <2>1, <2>2 DEF ThreadRecords, Pcs, RequestKinds
    <2>4. r.pc = p /\ r.kind = "login"
        BY DEF ThreadRecords
    <2>5. NewRecord(r)
        BY <2>2, <2>3, <2>4 DEF NewRecord, Flow, Judged, AdminKinds
    <2> QED
        BY <2>2, <2>5
<1>4. ASSUME NEW s \in Sessions, NEW u \in Users, SsoLogin(t, s, u)
      PROVE  \E r : NewRecord(r) /\ Begin(t, r)
    <2> DEFINE c == [user |-> u, source |-> "sso", role |-> "sso"]
               r == [IdleThread EXCEPT !.pc = "tabs", !.kind = "login", !.from = s, !.session = c]
    <2>1. c \in Cookies
        BY DEF Cookies, Roles
    <2>2. Begin(t, r)
        BY <1>4 DEF SsoLogin
    <2> HIDE DEF c
    <2>3. r \in ThreadRecords
        BY <2>1 DEF ThreadRecords, Pcs, RequestKinds
    <2>4. r.pc = "tabs" /\ r.kind = "login"
        BY DEF ThreadRecords
    <2>5. NewRecord(r)
        BY <2>3, <2>4 DEF NewRecord, Flow, Judged, AdminKinds
    <2> QED
        BY <2>2, <2>5
<1>5. ASSUME NEW u \in Users, NEW n \in Names, NEW member \in BOOLEAN, Push(t, u, n, member)
      PROVE  \E r : NewRecord(r) /\ Begin(t, r)
    <2> DEFINE k == IF member THEN "join" ELSE "leave"
               r == [IdleThread EXCEPT !.pc = "list", !.kind = k, !.on = n, !.user = u]
    <2>1. k \in {"join", "leave"} /\ Begin(t, r)
        BY <1>5 DEF Push
    <2> HIDE DEF k
    <2>2. r \in ThreadRecords
        BY <2>1 DEF ThreadRecords, Pcs, RequestKinds
    <2>3. r.pc = "list" /\ r.kind = k /\ r.on = n /\ r.user = u
        BY DEF ThreadRecords
    <2>4. NewRecord(r)
        BY <2>1, <2>2, <2>3 DEF NewRecord, Flow, Judged, AdminKinds
    <2> QED
        BY <2>1, <2>4
<1> QED
    BY <1>1, <1>2, <1>3, <1>4, <1>5 DEF NewRequest, AdminKinds
\* A request goes on: it keeps what it carries but for its place, its role and
\* the group it read.
LEMMA GotoFact ==
    ASSUME TypeInv, NEW t \in Threads, NEW r \in ThreadRecords, Flow(r), Goto(t, r)
    PROVE  /\ th' \in [Threads -> ThreadRecords] /\ th'[t] = r /\ Flow(th'[t])
           /\ \A i \in Threads : i # t => th'[i] = th[i]
           /\ UNCHANGED <<groups, cookie>>
    BY DEF Goto, TypeInv

LEMMA RoleFact ==
    ASSUME TypeInv, NEW c \in Cookies
    PROVE  /\ Role(c) \in Roles
           /\ [c EXCEPT !.role = Role(c)] \in Cookies
<1>1. Role(c) \in Roles
    BY DEF Role, Roles, Account, Accounts, Cookies, TypeInv
<1> QED
    BY <1>1 DEF Cookies

\* The request whose session was looked up in users.json.
LEMMA RevalidateFact ==
    ASSUME TypeInv, FlowInv, NEW t \in Threads, Revalidate(t), ~ GivenUp(th[t].session)
    PROVE  \E r \in ThreadRecords :
              /\ Goto(t, r) /\ Flow(r)
              /\ r.kind = th[t].kind /\ r.on = th[t].on
              /\ r.session = [th[t].session EXCEPT !.role = Role(th[t].session)]
              /\ r.pc = IF Role(th[t].session) # "admin" THEN "tabs"
                        ELSE IF th[t].kind = "tab" THEN "signin" ELSE "edit"
<1> DEFINE p == IF Role(th[t].session) # "admin" THEN "tabs"
                ELSE IF th[t].kind = "tab" THEN "signin" ELSE "edit"
           next == [th[t] EXCEPT !.session.role = Role(th[t].session)]
           r == [next EXCEPT !.pc = p]
<1>1. th[t] \in ThreadRecords /\ th[t].pc = "users" /\ th[t].session \in Cookies
    BY DEF TypeInv, FlowInv, Flow, Revalidate
<1>2. [th[t].session EXCEPT !.role = Role(th[t].session)] \in Cookies
    BY <1>1, RoleFact
<1>3. next \in ThreadRecords /\ next.kind = th[t].kind /\ next.on = th[t].on
      /\ next.session = [th[t].session EXCEPT !.role = Role(th[t].session)]
      /\ next.session \in Cookies /\ next.user = th[t].user
    BY <1>1, <1>2 DEF ThreadRecords
<1>4. p \in {"tabs", "signin", "edit"} /\ (p = "edit" => th[t].kind # "tab")
    OBVIOUS
<1>5. Goto(t, r)
    BY DEF Revalidate
<1> HIDE DEF next, p
<1>6. r \in ThreadRecords /\ r.pc = p /\ r.kind = th[t].kind /\ r.on = th[t].on
      /\ r.session = next.session /\ r.session \in Cookies /\ r.user = th[t].user
    BY <1>3, <1>4 DEF ThreadRecords, Pcs
<1>7. Flow(r)
    BY <1>1, <1>4, <1>6 DEF FlowInv, Flow, Judged, AdminKinds
<1> QED
    BY <1>3, <1>5, <1>6, <1>7 DEF p

LEMMA MoveFact ==
    ASSUME TypeInv, FlowInv, NEW t \in Threads, NEW p \in {"groups", "edit"},
           p = "edit" => th[t].pc = "list"
    PROVE  /\ [th[t] EXCEPT !.pc = p] \in ThreadRecords
           /\ Flow([th[t] EXCEPT !.pc = p])
           /\ [th[t] EXCEPT !.pc = p].kind = th[t].kind
           /\ [th[t] EXCEPT !.pc = p].session = th[t].session
           /\ [th[t] EXCEPT !.pc = p].pc = p
<1> DEFINE r == [th[t] EXCEPT !.pc = p]
<1>1. th[t] \in ThreadRecords /\ Flow(th[t])
    BY DEF TypeInv, FlowInv
<1>2. r \in ThreadRecords /\ r.pc = p /\ r.kind = th[t].kind /\ r.on = th[t].on
      /\ r.session = th[t].session /\ r.user = th[t].user
    BY <1>1 DEF ThreadRecords, Pcs
<1>3. Flow(r)
    BY <1>1, <1>2 DEF Flow, Judged, AdminKinds
<1> QED
    BY <1>2, <1>3

LEMMA GetFact ==
    ASSUME TypeInv, FlowInv, NEW t \in Threads, th[t].pc = "edit",
           th[t].kind \in {"put", "join", "leave"}, th[t].on \in DOMAIN groups
    PROVE  LET r == [th[t] EXCEPT !.pc = "update", !.copy = groups[th[t].on]]
           IN  /\ r \in ThreadRecords /\ Flow(r) /\ r.kind = th[t].kind /\ r.pc = "update"
               /\ r.session = th[t].session
<1> DEFINE r == [th[t] EXCEPT !.pc = "update", !.copy = groups[th[t].on]]
<1>1. th[t] \in ThreadRecords /\ Flow(th[t]) /\ groups[th[t].on] \in Groups
    BY DEF TypeInv, FlowInv
<1>2. r \in ThreadRecords /\ r.pc = "update" /\ r.kind = th[t].kind /\ r.on = th[t].on
      /\ r.session = th[t].session /\ r.user = th[t].user
    BY <1>1 DEF ThreadRecords, Pcs
<1>3. Flow(r)
    BY <1>1, <1>2 DEF Flow, Judged, AdminKinds
<1> QED
    BY <1>2, <1>3

\* What a PUT or a push makes of the group it read is a group.
LEMMA WantedFact ==
    ASSUME TypeInv, FlowInv, NEW t \in Threads, th[t].pc = "update"
    PROVE  Wanted(t) \in Groups /\ [Wanted(t) EXCEPT !.tabs = @ \cap KnownTabs] \in Groups
<1>1. /\ th[t].copy \in Groups /\ th[t].kind \in {"put", "join", "leave"}
      /\ th[t].kind \in {"join", "leave"} => th[t].user \in Users
      /\ th[t].body \in [has : SUBSET Fields, members : SUBSET Users, tabs : SUBSET Tabs]
    BY DEF TypeInv, ThreadRecords, FlowInv, Flow
<1>2. CASE th[t].kind = "put"
    <2>1. Merged(th[t].copy, th[t].body) \in Groups
        BY <1>1 DEF Merged, Groups
    <2> QED
        BY <1>2, <2>1 DEF Wanted, Groups
<1>3. CASE th[t].kind = "join"
    <2>1. th[t].copy.members \cup {th[t].user} \in SUBSET Users
        BY <1>1, <1>3 DEF Groups
    <2> QED
        BY <1>1, <1>3, <2>1 DEF Wanted, Groups
<1>4. CASE th[t].kind = "leave"
    <2>1. th[t].copy.members \ {th[t].user} \in SUBSET Users
        BY <1>1, <1>4 DEF Groups
    <2> QED
        BY <1>1, <1>4, <2>1 DEF Wanted, Groups
<1> QED
    BY <1>1, <1>2, <1>3, <1>4
\* What every step of a request leaves true; n appears among the groups only if
\* the request creates it.
Good(t) ==
    /\ th' \in [Threads -> ThreadRecords]
    /\ cookie' \in [Sessions -> Cookies \cup {SignedOut}]
    /\ \A i \in Threads : i # t => th'[i] = th[i]
    /\ Flow(th'[t])
    /\ DOMAIN groups' \in SUBSET Names
    /\ \A n \in DOMAIN groups' : groups'[n] \in Groups
    /\ \A n \in DOMAIN groups' \ DOMAIN groups :
          th[t].pc = "edit" /\ th[t].kind = "create" /\ th[t].on = n
    /\ UNCHANGED <<users, usersFile, groupsFile, cli, runs, requests, restarts>>
    /\ Observe

LEMMA StepFact ==
    ASSUME TypeInv, FlowInv, NEW t \in Threads, ThreadStep(t)
    PROVE  Good(t)
<1>1. th[t] \in ThreadRecords /\ th[t].session \in Cookies \cup {SignedOut} /\ Flow(th[t])
      /\ cookie \in [Sessions -> Cookies \cup {SignedOut}]
    BY DEF TypeInv, ThreadRecords, FlowInv
<1>2. DOMAIN groups \in SUBSET Names /\ \A n \in DOMAIN groups : groups[n] \in Groups
    BY DEF TypeInv
<1>3. ASSUME NEW o \in Outs, NEW c \in Cookies \cup {SignedOut}, Finish(t, o, c),
             UNCHANGED <<users, usersFile, groups, groupsFile, cli, runs, requests, restarts>>,
             Observe
      PROVE  Good(t)
    BY <1>2, <1>3, FinishFact DEF Good
<1>4. ASSUME NEW o \in Outs, Reply(t, o) PROVE Good(t)
    BY <1>1, <1>3, <1>4 DEF Reply
<1>5. ASSUME NEW r \in ThreadRecords, Flow(r), Goto(t, r) PROVE Good(t)
    BY <1>1, <1>2, <1>5, GotoFact DEF Good, Goto
<1>6. ASSUME NEW new, Save(t, new), DOMAIN new \in SUBSET Names,
             \A n \in DOMAIN new : new[n] \in Groups,
             \A n \in DOMAIN new \ DOMAIN groups :
                th[t].pc = "edit" /\ th[t].kind = "create" /\ th[t].on = n
      PROVE  Good(t)
    <2>1. "served" \in Outs
        BY DEF Outs
    <2> QED
        BY <1>1, <1>6, <2>1, FinishFact DEF Save, Good
<1>7. CASE Expire(t)
    <2>1. "failed" \in Outs
        BY DEF Outs
    <2> QED
        BY <1>3, <1>7, <2>1 DEF Expire
<1>8. CASE Revalidate(t)
    <2>1. CASE GivenUp(th[t].session)
        <3>1. "cleared" \in Outs
            BY DEF Outs
        <3> QED
            BY <1>3, <1>8, <2>1, <3>1 DEF Revalidate
    <2>2. CASE ~ GivenUp(th[t].session)
        BY <1>5, <1>8, <2>2, RevalidateFact
    <2> QED
        BY <2>1, <2>2
<1>9. CASE SignIn(t)
    BY <1>4, <1>9 DEF SignIn, Outs
<1>10. \A tabs : Verdict(t, tabs) \in Outs
    BY DEF Verdict, Outs
<1>11. CASE TabsOfAdmin(t)
    <2>1. CASE Account(th[t].session.user) = "admin"
        BY <1>4, <1>10, <1>11, <2>1 DEF TabsOfAdmin
    <2>2. CASE Account(th[t].session.user) # "admin"
        BY <1>5, <1>11, <2>2, MoveFact DEF TabsOfAdmin
    <2> QED
        BY <2>1, <2>2
<1>12. CASE TabsOfGroups(t)
    BY <1>4, <1>10, <1>12 DEF TabsOfGroups
<1>13. CASE LoadFails(t)
    <2>1. "failed" \in Outs
        BY DEF Outs
    <2> QED
        BY <1>1, <1>3, <1>13, <2>1 DEF LoadFails, Fail
<1>14. CASE CreateGroup(t)
    <2> DEFINE n == th[t].on
               new == [m \in DOMAIN groups \cup {n} |->
                         IF m = n THEN [members |-> th[t].body.members, tabs |-> th[t].body.tabs]
                         ELSE groups[m]]
    <2>1. th[t].pc = "edit" /\ th[t].kind = "create" /\ n \in Names
        BY <1>1, <1>14 DEF CreateGroup, Flow, AdminKinds
    <2>2. [members |-> th[t].body.members, tabs |-> th[t].body.tabs] \in Groups
        BY <1>1 DEF ThreadRecords, Groups
    <2>3. /\ DOMAIN new \in SUBSET Names /\ \A m \in DOMAIN new : new[m] \in Groups
          /\ \A m \in DOMAIN new \ DOMAIN groups : m = n
        BY <1>2, <2>1, <2>2
    <2>4. CASE n \in DOMAIN groups
        BY <1>4, <1>14, <2>4 DEF CreateGroup, Outs
    <2>5. CASE n \notin DOMAIN groups
        <3>1. Save(t, new)
            BY <1>14, <2>5 DEF CreateGroup
        <3> HIDE DEF new
        <3> QED
            BY <1>6, <2>1, <2>3, <3>1
    <2> QED
        BY <2>4, <2>5
<1>15. CASE DeleteGroup(t)
    <2> DEFINE new == [m \in DOMAIN groups \ {th[t].on} |-> groups[m]]
    <2>1. /\ DOMAIN new \in SUBSET Names /\ \A m \in DOMAIN new : new[m] \in Groups
          /\ DOMAIN new \ DOMAIN groups = {}
        BY <1>2
    <2>2. CASE th[t].on \notin DOMAIN groups
        BY <1>4, <1>15, <2>2 DEF DeleteGroup, Outs
    <2>3. CASE th[t].on \in DOMAIN groups
        <3>1. Save(t, new)
            BY <1>15, <2>3 DEF DeleteGroup
        <3> HIDE DEF new
        <3> QED
            BY <1>6, <2>1, <3>1
    <2> QED
        BY <2>2, <2>3
<1>16. CASE PushList(t)
    <2>1. CASE th[t].on \in DOMAIN groups
        BY <1>5, <1>16, <2>1, MoveFact DEF PushList
    <2>2. CASE th[t].on \notin DOMAIN groups
        BY <1>4, <1>16, <2>2 DEF PushList, Outs
    <2> QED
        BY <2>1, <2>2
<1>17. CASE GetGroup(t)
    <2>1. CASE th[t].on \in DOMAIN groups
        BY <1>5, <1>17, <2>1, GetFact DEF GetGroup
    <2>2. CASE th[t].on \notin DOMAIN groups
        BY <1>4, <1>17, <2>2 DEF GetGroup, Outs
    <2> QED
        BY <2>1, <2>2
<1>18. CASE UpdateGroup(t)
    <2> DEFINE w == [Wanted(t) EXCEPT !.tabs = @ \cap KnownTabs]
               new == [groups EXCEPT ![th[t].on] = w]
    <2>1. w \in Groups
        BY <1>18, WantedFact DEF UpdateGroup
    <2>2. CASE th[t].on \notin DOMAIN groups
        BY <1>4, <1>18, <2>2 DEF UpdateGroup, Outs
    <2>3. CASE th[t].on \in DOMAIN groups
        <3>1. Save(t, new)
            BY <1>18, <2>3 DEF UpdateGroup
        <3> HIDE DEF w
        <3>2. DOMAIN new = DOMAIN groups /\ \A m \in DOMAIN new : new[m] \in Groups
            BY <1>2, <2>1
        <3> HIDE DEF new
        <3> QED
            BY <1>2, <1>6, <3>1, <3>2
    <2> QED
        BY <2>2, <2>3
<1> QED
    BY <1>7, <1>8, <1>9, <1>11, <1>12, <1>13, <1>14, <1>15, <1>16, <1>17, <1>18 DEF ThreadStep

LEMMA TypeInit == Init => TypeInv /\ FlowInv
<1> SUFFICES ASSUME Init PROVE TypeInv /\ FlowInv
    OBVIOUS
<1>1. DOMAIN groups \in SUBSET Names /\ \A n \in DOMAIN groups : groups[n] \in Groups
    BY DEF Init
<1> QED
    BY <1>1, IdleFacts, AccessAssumption DEF Init, TypeInv, FlowInv

LEMMA TypeNext == TypeInv /\ FlowInv /\ [Next]_vars => TypeInv' /\ FlowInv'
<1> SUFFICES ASSUME TypeInv, FlowInv, [Next]_vars PROVE TypeInv' /\ FlowInv'
    OBVIOUS
<1>1. ASSUME NEW c \in Clis, CliStep(c) PROVE TypeInv' /\ FlowInv'
    <2>1. UNCHANGED <<groups, groupsFile, cookie, th, requests, restarts>>
        BY <1>1 DEF CliStep, CliLoad, CliOpen, CliDump, CliDies
    <2>2. cli[c] \in CliRecords /\ IdleCli \in CliRecords
        BY IdleFacts DEF TypeInv
    <2>3. CASE CliLoad(c)
        <3>1. PICK u \in Users, r \in Accounts :
                 cli' = [cli EXCEPT ![c] = [pc |-> "loaded", copy |-> [users EXCEPT ![u] = r]]]
            BY <2>3 DEF CliLoad
        <3>2. [pc |-> "loaded", copy |-> [users EXCEPT ![u] = r]] \in CliRecords
            BY DEF TypeInv, CliRecords
        <3>3. cli' \in [Clis -> CliRecords] /\ UNCHANGED <<users, usersFile>>
            BY <2>3, <3>1, <3>2 DEF TypeInv, CliLoad
        <3>4. runs' \in 0..MaxRuns
            BY <2>3, AccessAssumption DEF CliLoad, TypeInv
        <3> QED
            BY <2>1, <3>3, <3>4 DEF TypeInv, FlowInv
    <2>4. CASE CliOpen(c)
        <3>1. cli' \in [Clis -> CliRecords]
            BY <2>2, <2>4 DEF CliOpen, TypeInv, CliRecords
        <3> QED
            BY <2>1, <2>4, <3>1 DEF CliOpen, TypeInv, FlowInv
    <2>5. CASE CliDump(c)
        <3>1. cli' \in [Clis -> CliRecords] /\ users' \in [Users -> Accounts]
            BY <2>2, <2>5 DEF CliDump, TypeInv, CliRecords
        <3>2. usersFile' \in {"whole", "garbage"}
            BY <2>5 DEF CliDump
        <3> QED
            BY <2>1, <2>5, <3>1, <3>2 DEF CliDump, TypeInv, FlowInv
    <2>6. CASE CliDies(c)
        BY <2>1, <2>2, <2>6 DEF CliDies, TypeInv, FlowInv
    <2> QED
        BY <1>1, <2>3, <2>4, <2>5, <2>6 DEF CliStep
<1>2. ASSUME NEW t \in Threads, NewRequest(t) PROVE TypeInv' /\ FlowInv'
    <2>1. PICK r : NewRecord(r) /\ Begin(t, r)
        BY <1>2, NewFact
    <2>2. th' \in [Threads -> ThreadRecords] /\ \A i \in Threads : Flow(th'[i])
        BY <2>1 DEF NewRecord, Begin, TypeInv, FlowInv
    <2>3. requests' \in 0..MaxRequests
        BY <2>1, AccessAssumption DEF Begin, TypeInv
    <2> QED
        BY <2>1, <2>2, <2>3 DEF Begin, TypeInv, FlowInv
<1>3. ASSUME NEW t \in Threads, ThreadStep(t) PROVE TypeInv' /\ FlowInv'
    <2>1. Good(t)
        BY <1>3, StepFact
    <2>2. FlowInv'
        BY <2>1 DEF Good, FlowInv
    <2> QED
        BY <2>1, <2>2 DEF Good, TypeInv
<1>4. CASE Restart
    <2>1. DOMAIN groups' \in SUBSET Names /\ \A n \in DOMAIN groups' : groups'[n] \in Groups
        BY <1>4 DEF Restart, NoGroups, TypeInv
    <2>2. groupsFile' \in {"whole", "empty"}
        BY <1>4 DEF Restart, TypeInv
    <2>3. restarts' \in 0..MaxRestarts
        BY <1>4, AccessAssumption DEF Restart, TypeInv
    <2> QED
        BY <1>4, <2>1, <2>2, <2>3, IdleFacts DEF Restart, TypeInv, FlowInv
<1>5. CASE UNCHANGED vars
    BY <1>5 DEF vars, TypeInv, FlowInv
<1> QED
    BY <1>1, <1>2, <1>3, <1>4, <1>5 DEF Next
-----------------------------------------------------------------------------
(* What a request has seen *)

\* Every step of the system notes what the files say for every request under way.
LEMMA Observes == Next => Observe
    BY DEF Next, CliStep, CliLoad, CliOpen, CliDump, CliDies, NewRequest, Visit, Edit, Login,
           SsoLogin, Push, Begin, ThreadStep, Expire, Revalidate, SignIn, TabsOfAdmin,
           TabsOfGroups, LoadFails, Fail, Reply, Goto, CreateGroup, DeleteGroup, PushList,
           GetGroup, UpdateGroup, Save, Restart

\* What is noted stays noted until the request is answered.
LEMMA Noted ==
    ASSUME Observe, NEW t \in Threads, th'[t].pc # "idle"
    PROVE  seen[t] \subseteq seen'[t] /\ Facts(t)' \subseteq seen'[t]
    BY DEF Observe

\* A step changes a thread's request only if it is a step of that thread, or
\* drops it.
LEMMA WhoseStep ==
    ASSUME TypeInv, FlowInv, Next, NEW t \in Threads
    PROVE  \/ th'[t] = th[t]
           \/ th'[t] = IdleThread
           \/ \E r : NewRecord(r) /\ Begin(t, r) /\ th'[t] = r
           \/ ThreadStep(t)
<1>1. ASSUME NEW c \in Clis, CliStep(c) PROVE th'[t] = th[t]
    BY <1>1 DEF CliStep, CliLoad, CliOpen, CliDump, CliDies
<1>2. ASSUME NEW i \in Threads, NewRequest(i)
      PROVE  \/ th'[t] = th[t]
             \/ \E r : NewRecord(r) /\ Begin(t, r) /\ th'[t] = r
    <2>1. PICK r : NewRecord(r) /\ Begin(i, r)
        BY <1>2, NewFact
    <2> QED
        BY <2>1 DEF Begin, TypeInv
<1>3. ASSUME NEW i \in Threads, ThreadStep(i), i # t PROVE th'[t] = th[t]
    BY <1>3, StepFact DEF Good
<1>4. CASE Restart
    BY <1>4 DEF Restart
<1> QED
    BY <1>1, <1>2, <1>3, <1>4 DEF Next

\* What a whole users.json says about the user of a session.
LEMMA UserFacts ==
    ASSUME NEW t \in Threads, usersFile = "whole", th[t].kind \in Judged
    PROVE  Standing(th[t].session) \subseteq Facts(t)
    BY DEF Facts

\* What a whole groups.json says about the tab.
LEMMA GroupFacts ==
    ASSUME NEW t \in Threads, groupsFile = "whole", th[t].kind \in Judged
    PROVE  IF th[t].on \in GroupTabs(th[t].session.user)
           THEN "granted" \in Facts(t) ELSE "not granted" \in Facts(t)
    BY DEF Facts

\* The role that _revalidate_session gives a session is the one the file
\* justifies, or the one it carries.
LEMMA RoleJustified ==
    ASSUME TypeInv, usersFile = "whole", NEW c \in Cookies, ~ GivenUp(c)
    PROVE  /\ "account" \in Standing(c) \/ c.source = "sso"
           /\ Role(c) = "admin" =>
                "admin" \in Standing(c) \/ (c.source = "sso" /\ "carried" \in Standing(c))
           /\ Role(c) # "admin" => "ordinary" \in Standing(c)
<1>1. Account(c.user) \in {"none", "viewer", "admin"} /\ c.source \in {"local", "sso"}
    BY DEF Account, TypeInv, Accounts, Cookies
<1>2. CASE Account(c.user) = "admin"
    BY <1>2 DEF Role, Standing
<1>3. CASE Account(c.user) = "viewer"
    BY <1>3 DEF Role, Standing
<1>4. CASE Account(c.user) = "none"
    BY <1>1, <1>4 DEF Role, Standing, GivenUp
<1> QED
    BY <1>1, <1>2, <1>3, <1>4

LEMMA SeenNext == Inv /\ [Next]_vars => SeenInv'
<1> SUFFICES ASSUME Inv, [Next]_vars, NEW t \in Threads, th'[t].pc # "idle", th'[t].kind \in Judged
             PROVE  Facts(t)' \subseteq seen'[t] /\ Witnessed(th'[t], seen'[t])
    BY DEF SeenInv
<1>0. TypeInv /\ FlowInv /\ SeenInv
    BY DEF Inv
<1>1. CASE UNCHANGED vars
    <2>1. Facts(t)' = Facts(t)
        BY <1>1 DEF vars, Facts, Standing, Account, GroupTabs
    <2> QED
        BY <1>0, <1>1, <2>1 DEF vars, SeenInv
<1>2. CASE Next
    <2>1. seen[t] \subseteq seen'[t] /\ Facts(t)' \subseteq seen'[t]
        BY <1>2, Observes, Noted
    <2>2. th[t].pc # "idle" /\ th[t].kind \in Judged =>
             Facts(t) \subseteq seen[t] /\ Witnessed(th[t], seen[t])
        BY <1>0 DEF SeenInv
    <2>3. CASE th'[t] = th[t]
        BY <2>1, <2>2, <2>3 DEF Witnessed
    <2>4. th'[t] # IdleThread
        BY IdleFacts
    <2>5. ASSUME NEW r, NewRecord(r), th'[t] = r PROVE Witnessed(th'[t], seen'[t])
        BY <2>5 DEF NewRecord, Witnessed
    <2>6. ASSUME NEW o, NEW c, Finish(t, o, c) PROVE FALSE
        BY <1>0, <2>6, IdleFacts DEF Finish, TypeInv
    <2>7. CASE ThreadStep(t)
        <3>1. CASE Expire(t) \/ SignIn(t) \/ TabsOfGroups(t) \/ LoadFails(t) \/ CreateGroup(t)
                   \/ DeleteGroup(t) \/ UpdateGroup(t)
            BY <2>6, <3>1 DEF Expire, SignIn, TabsOfGroups, LoadFails, CreateGroup, DeleteGroup,
                              UpdateGroup, Reply, Fail, Save
        <3>2. CASE Revalidate(t)
            <4>1. ~ GivenUp(th[t].session)
                BY <2>6, <3>2 DEF Revalidate
            <4>2. PICK r \in ThreadRecords :
                     /\ Goto(t, r) /\ Flow(r)
                     /\ r.kind = th[t].kind /\ r.on = th[t].on
                     /\ r.session = [th[t].session EXCEPT !.role = Role(th[t].session)]
                     /\ r.pc = IF Role(th[t].session) # "admin" THEN "tabs"
                               ELSE IF th[t].kind = "tab" THEN "signin" ELSE "edit"
                BY <1>0, <3>2, <4>1, RevalidateFact
            <4>3. th'[t] = r
                BY <1>0, <4>2, GotoFact
            <4>4. /\ th[t].kind \in Judged /\ th[t].pc = "users" /\ usersFile = "whole"
                  /\ th[t].session \in Cookies
                BY <1>0, <3>2, <4>2, <4>3 DEF Revalidate, CanLoadUsers, FlowInv, Flow
            <4>5. Facts(t) \subseteq seen'[t]
                BY <2>1, <2>2, <4>4
            <4>6. /\ "account" \in seen'[t] \/ th[t].session.source = "sso"
                  /\ Role(th[t].session) = "admin" =>
                        \/ "admin" \in seen'[t]
                        \/ th[t].session.source = "sso" /\ "carried" \in seen'[t]
                  /\ Role(th[t].session) # "admin" => "ordinary" \in seen'[t]
                BY <1>0, <4>1, <4>4, <4>5, UserFacts, RoleJustified
            <4>7. r.session.source = th[t].session.source /\ r.session.role = Role(th[t].session)
                BY <4>2, <4>4 DEF Cookies
            <4> QED
                BY <2>1, <4>2, <4>3, <4>6, <4>7 DEF Witnessed
        <3>3. CASE TabsOfAdmin(t)
            <4>1. Goto(t, [th[t] EXCEPT !.pc = "groups"])
                BY <2>6, <3>3 DEF TabsOfAdmin, Reply
            <4>2. /\ th'[t].pc = "groups" /\ th'[t].kind = th[t].kind /\ th[t].pc = "tabs"
                  /\ th'[t].session = th[t].session
                BY <1>0, <3>3, <4>1, MoveFact, GotoFact DEF TabsOfAdmin
            <4> QED
                BY <2>1, <2>2, <4>2 DEF Witnessed
        <3>4. CASE PushList(t)
            <4>1. Goto(t, [th[t] EXCEPT !.pc = "edit"]) /\ th[t].pc = "list"
                BY <2>6, <3>4 DEF PushList, Reply
            <4>2. th'[t].kind = th[t].kind
                BY <1>0, <4>1, MoveFact, GotoFact
            <4> QED
                BY <1>0, <4>1, <4>2 DEF FlowInv, Flow, Judged, AdminKinds
        <3>5. CASE GetGroup(t)
            <4> DEFINE r == [th[t] EXCEPT !.pc = "update", !.copy = groups[th[t].on]]
            <4>1. /\ th[t].on \in DOMAIN groups /\ Goto(t, r)
                  /\ th[t].pc = "edit" /\ th[t].kind \in {"put", "join", "leave"}
                BY <2>6, <3>5 DEF GetGroup, Reply
            <4>2. /\ r \in ThreadRecords /\ Flow(r) /\ r.kind = th[t].kind /\ r.pc = "update"
                  /\ r.session = th[t].session
                BY <1>0, <4>1, GetFact
            <4> HIDE DEF r
            <4>3. th'[t] = r
                BY <1>0, <4>1, <4>2, GotoFact
            <4> QED
                BY <2>1, <2>2, <4>1, <4>2, <4>3 DEF Witnessed
        <3> QED
            BY <2>1, <2>7, <3>1, <3>2, <3>3, <3>4, <3>5 DEF ThreadStep
    <2> QED
        BY <1>0, <1>2, <2>1, <2>3, <2>4, <2>5, <2>7, WhoseStep
<1> QED
    BY <1>1, <1>2

\* Nobody who is signed out has a role.
LEMMA SignedOutEarned == \A A : Earned(SignedOut, A)
<1>1. SignedOut.source = "none"
    BY DEF SignedOut
<1>2. \A c \in Cookies : c.source # "none"
    BY DEF Cookies
<1>3. SignedOut \notin Cookies
    BY <1>1, <1>2
<1> QED
    BY <1>3 DEF Earned

\* A request begins with the session of a cookie, or one that users.json gives.
LEMMA NewEarned ==
    ASSUME TypeInv, CarriedInv, NEW t \in Threads, NewRequest(t)
    PROVE  \E r : Begin(t, r) /\ Earned(r.session, admins)
<1> USE IdleFacts
<1>1. ASSUME NEW s \in Sessions, NEW tab \in KnownTabs, Visit(t, s, tab)
      PROVE  \E r : Begin(t, r) /\ r.session = cookie[s]
    <2> DEFINE r == [IdleThread EXCEPT !.pc = "users", !.kind = "tab", !.from = s,
                                       !.session = cookie[s], !.on = tab]
    <2>1. r.session = cookie[s]
        BY DEF ThreadRecords
    <2> QED
        BY <1>1, <2>1 DEF Visit
<1>2. ASSUME NEW s \in Sessions, NEW n, NEW b, NEW k, Edit(t, s, k, n, b)
      PROVE  \E r : Begin(t, r) /\ r.session = cookie[s]
    <2> DEFINE r == [IdleThread EXCEPT !.pc = "users", !.kind = k, !.from = s,
                                       !.session = cookie[s], !.on = n, !.body = b]
    <2>1. r.session = cookie[s]
        BY DEF ThreadRecords
    <2> QED
        BY <1>2, <2>1 DEF Edit
<1>3. ASSUME NEW s \in Sessions, NEW u \in Users, Login(t, s, u)
      PROVE  \E r : Begin(t, r) /\ Earned(r.session, admins)
    <2> DEFINE c == [user |-> u, source |-> "local", role |-> Account(u)]
               p == IF Account(u) = "admin" THEN "signin" ELSE "tabs"
               r == [IdleThread EXCEPT !.pc = p, !.kind = "login", !.from = s, !.session = c]
    <2>1. Earned(c, admins)
        BY DEF Earned, CarriedInv
    <2>2. Begin(t, r)
        BY <1>3 DEF Login
    <2> HIDE DEF c, p
    <2>3. r.session = c
        BY DEF ThreadRecords
    <2> QED
        BY <2>1, <2>2, <2>3
<1>4. ASSUME NEW s \in Sessions, NEW u \in Users, SsoLogin(t, s, u)
      PROVE  \E r : Begin(t, r) /\ Earned(r.session, admins)
    <2> DEFINE c == [user |-> u, source |-> "sso", role |-> "sso"]
               r == [IdleThread EXCEPT !.pc = "tabs", !.kind = "login", !.from = s, !.session = c]
    <2>1. Earned(c, admins)
        BY DEF Earned
    <2>2. Begin(t, r)
        BY <1>4 DEF SsoLogin
    <2> HIDE DEF c
    <2>3. r.session = c
        BY DEF ThreadRecords
    <2> QED
        BY <2>1, <2>2, <2>3
<1>5. ASSUME NEW u \in Users, NEW n \in Names, NEW member \in BOOLEAN, Push(t, u, n, member)
      PROVE  \E r : Begin(t, r) /\ r.session = SignedOut
    <2> DEFINE k == IF member THEN "join" ELSE "leave"
               r == [IdleThread EXCEPT !.pc = "list", !.kind = k, !.on = n, !.user = u]
    <2>1. Begin(t, r)
        BY <1>5 DEF Push
    <2> HIDE DEF k
    <2>2. r.session = IdleThread.session /\ IdleThread.session = SignedOut
        BY DEF IdleThread
    <2> QED
        BY <2>1, <2>2
<1> QED
    BY <1>1, <1>2, <1>3, <1>4, <1>5, SignedOutEarned DEF NewRequest, CarriedInv

\* A step of a request answers with the session it has, or none, or goes on with
\* it; only _revalidate_session changes it.
LEMMA SessionStep ==
    ASSUME TypeInv, FlowInv, NEW t \in Threads, ThreadStep(t)
    PROVE  \/ \E o, c : Finish(t, o, c) /\ c \in {SignedOut, th[t].session}
           \/ \E r : /\ th' = [th EXCEPT ![t] = r] /\ UNCHANGED cookie
                    /\ \/ r.session = th[t].session
                       \/ /\ th[t].session \in Cookies
                          /\ r.session = [th[t].session EXCEPT !.role = Role(th[t].session)]
<1> DEFINE Ends == \E o, c : Finish(t, o, c) /\ c \in {SignedOut, th[t].session}
           Goes == \E r : /\ th' = [th EXCEPT ![t] = r] /\ UNCHANGED cookie
                          /\ \/ r.session = th[t].session
                             \/ /\ th[t].session \in Cookies
                                /\ r.session = [th[t].session EXCEPT !.role = Role(th[t].session)]
<1>0. th[t] \in ThreadRecords
    BY DEF TypeInv
<1>1. ASSUME NEW o, NEW c, Finish(t, o, c), c \in {SignedOut, th[t].session} PROVE Ends
    BY <1>1
<1>2. ASSUME NEW r, Goto(t, r), r.session = th[t].session PROVE Goes
    BY <1>2 DEF Goto
<1>3. CASE Expire(t) \/ SignIn(t) \/ TabsOfGroups(t) \/ LoadFails(t) \/ CreateGroup(t)
           \/ DeleteGroup(t) \/ UpdateGroup(t)
    BY <1>1, <1>3 DEF Expire, SignIn, TabsOfGroups, LoadFails, CreateGroup, DeleteGroup,
                      UpdateGroup, Reply, Fail, Save
<1>4. CASE Revalidate(t)
    <2>1. CASE GivenUp(th[t].session)
        BY <1>1, <1>4, <2>1 DEF Revalidate
    <2>2. CASE ~ GivenUp(th[t].session)
        <3>1. PICK r \in ThreadRecords :
                 /\ Goto(t, r)
                 /\ r.session = [th[t].session EXCEPT !.role = Role(th[t].session)]
            BY <1>4, <2>2, RevalidateFact
        <3>2. th[t].session \in Cookies
            BY <1>4 DEF Revalidate, FlowInv, Flow
        <3> QED
            BY <3>1, <3>2 DEF Goto
    <2> QED
        BY <2>1, <2>2
<1>5. CASE TabsOfAdmin(t)
    <2>1. [th[t] EXCEPT !.pc = "groups"].session = th[t].session
        BY <1>0 DEF ThreadRecords
    <2> QED
        BY <1>1, <1>2, <1>5, <2>1 DEF TabsOfAdmin, Reply
<1>6. CASE PushList(t)
    <2>1. [th[t] EXCEPT !.pc = "edit"].session = th[t].session
        BY <1>0 DEF ThreadRecords
    <2> QED
        BY <1>1, <1>2, <1>6, <2>1 DEF PushList, Reply
<1>7. CASE GetGroup(t)
    <2>1. [th[t] EXCEPT !.pc = "update", !.copy = groups[th[t].on]].session = th[t].session
        BY <1>0 DEF ThreadRecords
    <2> QED
        BY <1>1, <1>2, <1>7, <2>1 DEF GetGroup, Reply
<1> QED
    BY <1>3, <1>4, <1>5, <1>6, <1>7, Zenon DEF ThreadStep

\* Every step keeps the roles earned.
LEMMA CarriedNext == Inv /\ [Next]_vars => CarriedInv'
<1> SUFFICES ASSUME Inv, [Next]_vars PROVE CarriedInv'
    OBVIOUS
<1>0. TypeInv /\ FlowInv /\ CarriedInv
    BY DEF Inv
<1>1. CASE UNCHANGED vars
    BY <1>0, <1>1 DEF vars, CarriedInv, Account
<1>2. CASE Next
    <2>1. admins' = admins \cup {u \in Users : Account(u)' = "admin"}
        BY <1>2, Observes DEF Observe
    <2>2. \A u \in Users : Account(u)' = "admin" => u \in admins'
        BY <2>1
    <2>3. \A c : Earned(c, admins) => Earned(c, admins')
        BY <2>1 DEF Earned
    <2>4. /\ \A s \in Sessions : Earned(cookie[s], admins')
          /\ \A i \in Threads : Earned(th[i].session, admins')
        BY <1>0, <2>3 DEF CarriedInv
    <2>5. /\ IdleThread.session = SignedOut /\ Earned(SignedOut, admins')
          /\ \A o : [IdleThread EXCEPT !.out = o].session = SignedOut
        BY SignedOutEarned DEF IdleThread
    <2> SUFFICES /\ \A s \in Sessions : Earned(cookie'[s], admins')
                 /\ \A i \in Threads : Earned(th'[i].session, admins')
        BY <2>2 DEF CarriedInv
    <2>6. ASSUME NEW c \in Clis, CliStep(c) PROVE UNCHANGED <<cookie, th>>
        BY <2>6 DEF CliStep, CliLoad, CliOpen, CliDump, CliDies
    <2>7. CASE UNCHANGED <<cookie, th>>
        BY <2>4, <2>7
    <2>8. ASSUME NEW t \in Threads, NEW r, th' = [th EXCEPT ![t] = r], Earned(r.session, admins')
          PROVE  \A i \in Threads : Earned(th'[i].session, admins')
        BY <1>0, <2>4, <2>8 DEF TypeInv
    <2>9. ASSUME NEW t \in Threads, NewRequest(t)
          PROVE  /\ \A s \in Sessions : Earned(cookie'[s], admins')
                 /\ \A i \in Threads : Earned(th'[i].session, admins')
        <3>1. PICK r : Begin(t, r) /\ Earned(r.session, admins)
            BY <1>0, <2>9, NewEarned
        <3>2. th' = [th EXCEPT ![t] = r] /\ cookie' = cookie
            BY <3>1 DEF Begin
        <3> QED
            BY <2>3, <2>4, <2>8, <3>1, <3>2
    <2>10. ASSUME NEW t \in Threads, ThreadStep(t)
           PROVE  /\ \A s \in Sessions : Earned(cookie'[s], admins')
                  /\ \A i \in Threads : Earned(th'[i].session, admins')
        <3>1. ASSUME NEW o, NEW c, Finish(t, o, c), c \in {SignedOut, th[t].session}
              PROVE  /\ \A s \in Sessions : Earned(cookie'[s], admins')
                     /\ \A i \in Threads : Earned(th'[i].session, admins')
            <4>1. Earned(c, admins')
                BY <2>4, <2>5, <3>1
            <4>2. \A s \in Sessions : Earned(cookie'[s], admins')
                BY <1>0, <2>4, <3>1, <4>1 DEF Finish, TypeInv
            <4>3. th' = [th EXCEPT ![t] = [IdleThread EXCEPT !.out = o]]
                BY <3>1 DEF Finish
            <4> QED
                BY <2>5, <2>8, <4>2, <4>3
        <3>2. ASSUME th[t].session \in Cookies
              PROVE  Earned([th[t].session EXCEPT !.role = Role(th[t].session)], admins')
            <4> DEFINE c == th[t].session
            <4>1. c.user \in Users /\ [c EXCEPT !.role = Role(c)].role = Role(c)
                  /\ [c EXCEPT !.role = Role(c)].user = c.user
                BY <3>2 DEF Cookies
            <4>2. Account(c.user) = "admin" => c.user \in admins
                BY <1>0, <4>1 DEF CarriedInv
            <4>3. c.role = "admin" => c.user \in admins
                BY <1>0, <3>2 DEF CarriedInv, Earned
            <4>4. Role(c) = "admin" => c.user \in admins'
                BY <2>1, <4>2, <4>3 DEF Role
            <4> HIDE DEF c
            <4> QED
                BY <4>1, <4>4 DEF Earned, c
        <3> QED
            BY <1>0, <2>4, <2>8, <2>10, <3>1, <3>2, SessionStep
    <2>11. CASE Restart
        BY <2>4, <2>5, <2>11 DEF Restart
    <2> QED
        BY <1>2, <2>6, <2>7, <2>9, <2>10, <2>11 DEF Next
<1> QED
    BY <1>1, <1>2

LEMMA Invariance == Spec => []Inv
<1>1. Init => Inv
    <2>1. Init => SeenInv
        BY IdleFacts DEF Init, SeenInv
    <2>2. Init => CarriedInv
        <3>1. IdleThread.session = SignedOut
            BY DEF IdleThread
        <3> QED
            BY <3>1, SignedOutEarned DEF Init, CarriedInv, Account
    <2> QED
        BY <2>1, <2>2, TypeInit DEF Inv
<1>2. Inv /\ [Next]_vars => Inv'
    BY TypeNext, SeenNext, CarriedNext DEF Inv
<1> QED
    BY <1>1, <1>2, PTL DEF Spec
-----------------------------------------------------------------------------
(* Theorems *)

\* Every variable holds a value of its kind.
THEOREM TypeCorrect == Spec => []TypeOK
<1>1. TypeInv => TypeOK
    BY DEF TypeInv, TypeOK, CliRecords, ThreadRecords, Pcs, Outs
<1> QED
    BY <1>1, Invariance, PTL DEF Inv

\* A request is answered by a step of its own thread, and this is how.
LEMMA HowAnswered ==
    ASSUME Inv, Next, NEW t \in Threads, NEW o \in {"served", "denied", "cleared"},
           Answered(t, o)
    PROVE  /\ (Facts(t) \subseteq seen[t] /\ Witnessed(th[t], seen[t])) \/ th[t].kind \notin Judged
           /\ \/ o = "cleared" /\ Revalidate(t) /\ GivenUp(th[t].session)
              \/ o = "served" /\ th[t].pc \in {"signin", "edit", "update"}
              \/ /\ TabsOfAdmin(t) /\ Account(th[t].session.user) = "admin"
                 /\ o = Verdict(t, KnownTabs)
              \/ TabsOfGroups(t) /\ o = Verdict(t, GroupTabs(th[t].session.user))
<1>0. TypeInv /\ FlowInv /\ SeenInv
    BY DEF Inv
<1>1. (Facts(t) \subseteq seen[t] /\ Witnessed(th[t], seen[t])) \/ th[t].kind \notin Judged
    BY <1>0 DEF SeenInv, Answered
<1>2. ThreadStep(t)
    <2>1. th'[t] # th[t]
        BY DEF Answered
    <2>2. th'[t] # IdleThread
        BY DEF Answered, IdleThread
    <2>3. ASSUME NEW r, Begin(t, r) PROVE FALSE
        BY <2>3 DEF Begin, Answered
    <2> QED
        BY <1>0, <2>1, <2>2, <2>3, WhoseStep
<1>3. ASSUME NEW out, NEW c, Finish(t, out, c) PROVE o = out
    BY <1>0, <1>3, IdleFacts DEF Finish, TypeInv, Answered
<1>4. ASSUME NEW r \in ThreadRecords, Flow(r), Goto(t, r) PROVE r.pc = "idle"
    BY <1>0, <1>4, GotoFact DEF Answered
<1>5. CASE Revalidate(t)
    <2>1. CASE GivenUp(th[t].session)
        BY <1>1, <1>3, <1>5, <2>1 DEF Revalidate
    <2>2. CASE ~ GivenUp(th[t].session)
        <3>1. PICK r \in ThreadRecords :
                 /\ Goto(t, r) /\ Flow(r)
                 /\ r.pc = IF Role(th[t].session) # "admin" THEN "tabs"
                           ELSE IF th[t].kind = "tab" THEN "signin" ELSE "edit"
            BY <1>0, <1>5, <2>2, RevalidateFact
        <3>2. r.pc = "idle"
            BY <1>4, <3>1
        <3> QED
            BY <3>1, <3>2
    <2> QED
        BY <2>1, <2>2
<1>6. CASE TabsOfAdmin(t)
    <2>1. CASE Account(th[t].session.user) = "admin"
        BY <1>1, <1>3, <1>6, <2>1 DEF TabsOfAdmin, Reply
    <2>2. CASE Account(th[t].session.user) # "admin"
        <3>1. Goto(t, [th[t] EXCEPT !.pc = "groups"])
            BY <1>6, <2>2 DEF TabsOfAdmin
        <3> QED
            BY <1>0, <1>4, <3>1, MoveFact
    <2> QED
        BY <2>1, <2>2
<1>7. CASE TabsOfGroups(t)
    BY <1>1, <1>3, <1>7 DEF TabsOfGroups, Reply
<1>8. CASE SignIn(t)
    BY <1>1, <1>3, <1>8 DEF SignIn, Reply
<1>9. CASE Expire(t) \/ LoadFails(t)
    BY <1>3, <1>9 DEF Expire, LoadFails, Fail
<1>10. CASE CreateGroup(t) \/ DeleteGroup(t) \/ UpdateGroup(t)
    BY <1>1, <1>3, <1>10 DEF CreateGroup, DeleteGroup, UpdateGroup, Reply, Save
<1>11. CASE PushList(t)
    <2>1. CASE th[t].on \in DOMAIN groups
        <3>1. Goto(t, [th[t] EXCEPT !.pc = "edit"]) /\ th[t].pc = "list"
            BY <1>11, <2>1 DEF PushList
        <3> QED
            BY <1>0, <1>4, <3>1, MoveFact
    <2> QED
        BY <1>3, <1>11, <2>1 DEF PushList, Reply
<1>12. CASE GetGroup(t)
    <2>1. CASE th[t].on \in DOMAIN groups
        <3> DEFINE r == [th[t] EXCEPT !.pc = "update", !.copy = groups[th[t].on]]
        <3>1. Goto(t, r) /\ r \in ThreadRecords /\ Flow(r) /\ r.pc = "update"
            BY <1>0, <1>12, <2>1, GetFact DEF GetGroup
        <3> HIDE DEF r
        <3> QED
            BY <1>4, <3>1
    <2> QED
        BY <1>3, <1>12, <2>1 DEF GetGroup, Reply
<1> QED
    BY <1>2, <1>5, <1>6, <1>7, <1>8, <1>9, <1>10, <1>11, <1>12 DEF ThreadStep

\* However the readings of the two files and their rewriting interleave, a tab
\* or an edit is served only to one whom the files entitled to it during the
\* request, or to an SSO session without an account that carries the role of an
\* admin, which users.json once gave to its user.
THEOREM GrantsAreReal == Spec => ServedWasGranted
<1> DEFINE Granted(t) ==
              LET sso == th[t].session.source = "sso" IN
              /\ "account" \in seen[t] \/ sso
              /\ \/ "admin" \in seen[t]
                 \/ th[t].kind = "tab" /\ "granted" \in seen[t]
                 \/ sso /\ "carried" \in seen[t] /\ th[t].session.user \in admins
           Step == \A t \in Threads : Answered(t, "served") /\ th[t].kind \in Judged => Granted(t)
<1>1. Inv /\ [Next]_vars => [Step]_vars
    <2> SUFFICES ASSUME Inv, Next, NEW t \in Threads, Answered(t, "served"), th[t].kind \in Judged
                 PROVE  Granted(t)
        OBVIOUS
    <2>1. Facts(t) \subseteq seen[t] /\ Witnessed(th[t], seen[t])
        BY HowAnswered
    <2>2. CASE th[t].pc \in {"signin", "edit", "update"}
        <3>1. th[t].session \in Cookies /\ Earned(th[t].session, admins)
            BY DEF Inv, FlowInv, Flow, CarriedInv
        <3>2. th[t].session.role = "admin"
            BY <2>1, <2>2 DEF Witnessed
        <3>3. th[t].session.user \in admins
            BY <3>1, <3>2 DEF Earned
        <3> QED
            BY <2>1, <2>2, <3>3 DEF Witnessed
    <2>3. CASE TabsOfAdmin(t) /\ Account(th[t].session.user) = "admin"
        <3>1. usersFile = "whole" /\ "admin" \in Standing(th[t].session) /\ th[t].pc = "tabs"
            BY <2>3 DEF TabsOfAdmin, CanLoadUsers, Standing
        <3> QED
            BY <2>1, <3>1, UserFacts DEF Witnessed
    <2>4. CASE TabsOfGroups(t) /\ "served" = Verdict(t, GroupTabs(th[t].session.user))
        <3>1. /\ groupsFile = "whole" /\ th[t].pc = "groups"
              /\ th[t].kind = "tab" /\ th[t].on \in GroupTabs(th[t].session.user)
            BY <2>4 DEF TabsOfGroups, CanLoadGroups, Verdict, Judged, AdminKinds
        <3> QED
            BY <2>1, <3>1, GroupFacts DEF Witnessed
    <2> QED
        BY <2>2, <2>3, <2>4, HowAnswered
<1> QED
    BY <1>1, Invariance, PTL DEF Spec, ServedWasGranted

\* No request is turned away, and no session given up, by a file that was being
\* rewritten: a whole file said so during the request.
THEOREM RefusalsAreReal == Spec => RefusedForCause
<1> DEFINE Step == \A t \in Threads :
                      /\ Answered(t, "cleared") =>
                            "gone" \in seen[t] /\ th[t].session.source = "local"
                      /\ Answered(t, "denied") /\ th[t].kind = "tab" =>
                            {"ordinary", "not granted"} \subseteq seen[t]
<1>1. Inv /\ [Next]_vars => [Step]_vars
    <2> SUFFICES ASSUME Inv, Next, NEW t \in Threads
                 PROVE  /\ Answered(t, "cleared") =>
                            "gone" \in seen[t] /\ th[t].session.source = "local"
                        /\ Answered(t, "denied") /\ th[t].kind = "tab" =>
                              {"ordinary", "not granted"} \subseteq seen[t]
        OBVIOUS
    <2>0. FlowInv
        BY DEF Inv
    <2>1. ASSUME Answered(t, "cleared")
          PROVE  "gone" \in seen[t] /\ th[t].session.source = "local"
        <3>1. Revalidate(t) /\ GivenUp(th[t].session)
            <4>1. Verdict(t, KnownTabs) # "cleared"
                  /\ Verdict(t, GroupTabs(th[t].session.user)) # "cleared"
                BY DEF Verdict
            <4> QED
                BY <2>1, <4>1, HowAnswered
        <3>2. /\ usersFile = "whole" /\ th[t].kind \in Judged
              /\ "gone" \in Standing(th[t].session) /\ th[t].session.source = "local"
            BY <2>0, <3>1 DEF Revalidate, CanLoadUsers, GivenUp, FlowInv, Flow, Standing
        <3> QED
            BY <2>1, <3>2, UserFacts, HowAnswered
    <2>2. ASSUME Answered(t, "denied"), th[t].kind = "tab"
          PROVE  "ordinary" \in seen[t] /\ "not granted" \in seen[t]
        <3>1. Verdict(t, KnownTabs) = "served"
            BY <2>0, <2>2 DEF FlowInv, Flow, Verdict
        <3>2. TabsOfGroups(t) /\ "denied" = Verdict(t, GroupTabs(th[t].session.user))
            BY <2>2, <3>1, HowAnswered
        <3>3. /\ groupsFile = "whole" /\ th[t].pc = "groups" /\ th[t].kind \in Judged
              /\ th[t].on \notin GroupTabs(th[t].session.user)
            BY <2>2, <3>2 DEF TabsOfGroups, CanLoadGroups, Verdict, Judged
        <3>4. Facts(t) \subseteq seen[t] /\ Witnessed(th[t], seen[t])
            BY <2>2, <3>3, HowAnswered
        <3> QED
            BY <3>3, <3>4, GroupFacts DEF Witnessed
    <2> QED
        BY <2>1, <2>2
<1> QED
    BY <1>1, Invariance, PTL DEF Spec, RefusedForCause

\* Only a POST makes a group: no PUT or push that read a group before it was
\* deleted brings it back.
THEOREM NoGroupComesBack == Spec => DeletedStaysDeleted
<1> DEFINE Step == \A n \in DOMAIN groups' \ DOMAIN groups :
                      \E t \in Threads : th[t].pc = "edit" /\ th[t].kind = "create" /\ th[t].on = n
<1>1. Inv /\ [Next]_vars => [Step]_vars
    <2> SUFFICES ASSUME Inv, Next PROVE Step
        OBVIOUS
    <2>1. ASSUME NEW t \in Threads, ThreadStep(t) PROVE Step
        BY <2>1, StepFact DEF Inv, Good
    <2>2. CASE UNCHANGED groups
        BY <2>2
    <2>3. CASE Restart
        BY <2>3 DEF Restart, NoGroups
    <2>4. ASSUME NEW c \in Clis, CliStep(c) PROVE groups' = groups
        BY <2>4 DEF CliStep, CliLoad, CliOpen, CliDump, CliDies
    <2>5. ASSUME NEW t \in Threads, NewRequest(t) PROVE groups' = groups
        BY <2>5, NewFact DEF Inv, Begin
    <2> HIDE DEF Step
    <2> QED
        BY <2>1, <2>2, <2>3, <2>4, <2>5 DEF Next
<1> QED
    BY <1>1, Invariance, PTL DEF Spec, DeletedStaysDeleted
=============================================================================
