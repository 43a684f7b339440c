------------------------------- MODULE Access -------------------------------
(***************************************************************************)
(* Who may use 4tLog: the accounts of users.json, the groups of            *)
(* groups.json, the session cookies and the requests that are judged by    *)
(* them (app/auth.py, app/groups.py, app/decorators.py,                    *)
(* app/routes/auth_routes.py, admin_routes.py, sync_routes.py).            *)
(*                                                                         *)
(* The web process is one process with several request threads.  A lock    *)
(* makes every single function of groups.py atomic, but a handler calls    *)
(* several of them.  users.json has no lock at all: manage_users.py        *)
(* rewrites it from processes of its own, and open("w") empties the file   *)
(* before the new text is written.                                         *)
(*                                                                         *)
(* A group is its members and its tabs; ad_groups, adom_restrict and       *)
(* allowed_adoms are copied and stored exactly like the tabs.              *)
(***************************************************************************)
EXTENDS Naturals, FiniteSets

CONSTANTS
    Users,        \* user names
    Names,        \* group names
    Tabs,         \* tab keys a group may list
    KnownTabs,    \* the registered ones, KNOWN_TABS
    Threads,      \* request threads of the web process
    Sessions,     \* browsers, each with at most one session cookie
    Clis,         \* runs of manage_users.py that may overlap
    Bodies,       \* what admins send in a POST or PUT for a group
    MaxRuns,      \* bound on the runs of manage_users.py
    MaxRequests,  \* bound on requests
    MaxRestarts   \* bound on restarts of the web process

Fields == {"members", "tabs"}
Groups == [members : SUBSET Users, tabs : SUBSET Tabs]

ASSUME AccessAssumption ==
    /\ KnownTabs \in SUBSET Tabs
    /\ Bodies \in SUBSET [has : SUBSET Fields, members : SUBSET Users, tabs : SUBSET Tabs]
    /\ MaxRuns \in Nat /\ MaxRequests \in Nat /\ MaxRestarts \in Nat

VARIABLES
    users,     \* the accounts in users.json: "none", "viewer" or "admin"
    usersFile, \* "whole", "empty" while it is rewritten, or "garbage"
    groups,    \* the groups in groups.json, a function on their names
    groupsFile,\* "whole", or "empty" after a crash in _save
    cli,       \* cli[c]: a run of manage_users.py
    cookie,    \* cookie[s]: the session the browser holds
    th,        \* th[t]: a request thread
    runs,      \* runs of manage_users.py so far
    requests,  \* requests so far
    restarts,  \* restarts of the web process so far
    seen,      \* auxiliary: what was true at some time of t's request
    admins     \* auxiliary: the users a whole users.json has ever called admin

vars == <<users, usersFile, groups, groupsFile, cli, cookie, th, runs, requests, restarts, seen,
          admins>>

Accounts == {"none", "viewer", "admin"}
Roles == {"viewer", "admin", "sso"}
Cookies == [user : Users, source : {"local", "sso"}, role : Roles]
SignedOut == [source |-> "none"]

AdminKinds == {"create", "put", "delete"}
Judged == AdminKinds \cup {"tab"}      \* requests of a session
NoBody == [has |-> {}, members |-> {}, tabs |-> {}]
NoGroup == [members |-> {}, tabs |-> {}]
NoGroups == [n \in {} |-> NoGroup]

\* A thread between requests: how the last one ended is all that is left of it
\* ("failed" stands for an exception and for a request that found nothing to do).
IdleThread == [pc |-> "idle", kind |-> "none", from |-> "none", session |-> SignedOut,
               on |-> "none", body |-> NoBody, user |-> "none", copy |-> NoGroup, out |-> "none"]
IdleCli == [pc |-> "idle", copy |-> [u \in Users |-> "none"]]

Init ==
    /\ users \in [Users -> Accounts]
    /\ usersFile = "whole"
    /\ groups \in UNION {[ns -> Groups] : ns \in SUBSET Names}
    /\ groupsFile = "whole"
    /\ cli = [c \in Clis |-> IdleCli]
    /\ cookie = [s \in Sessions |-> SignedOut]
    /\ th = [t \in Threads |-> IdleThread]
    /\ runs = 0
    /\ requests = 0
    /\ restarts = 0
    /\ seen = [t \in Threads |-> {}]
    /\ admins = {u \in Users : users[u] = "admin"}

-----------------------------------------------------------------------------
(* Reading the two files.                                                  *)

\* Faulty variant: a damaged file is taken for no accounts.
CanLoadUsers_Lenient == TRUE

\* _load_users: json.load raises on a damaged file.
CanLoadUsers == usersFile = "whole"

Account(u) == IF usersFile = "whole" THEN users[u] ELSE "none"

\* _load of groups.py, under its lock.
CanLoadGroups == groupsFile = "whole"

\* get_allowed_tabs for somebody who is no admin.
GroupTabs(u) == UNION {groups[n].tabs : n \in {m \in DOMAIN groups : u \in groups[m].members}}

\* What a whole users.json says about a session: whether its user has an
\* account, and is an admin or not.  About the user of an SSO session that came
\* with the role of an admin and has no account it says nothing: the session
\* goes on with the role it carries.
Standing(session) ==
    CASE Account(session.user) = "admin"  -> {"account", "admin"}
      [] Account(session.user) = "viewer" -> {"account", "ordinary"}
      [] OTHER -> {"gone", IF session.source = "sso" /\ session.role = "admin"
                           THEN "carried" ELSE "ordinary"}

\* What the files say about thread t's request, and whether some group grants
\* the tab or none does.  A damaged file says nothing.
Facts(t) ==
    LET session == th[t].session
        ofUsers == IF usersFile # "whole" THEN {} ELSE Standing(session)
        ofGroups == IF groupsFile # "whole" THEN {} ELSE
            {IF th[t].on \in GroupTabs(session.user) THEN "granted" ELSE "not granted"}
    IN  IF th[t].kind \in Judged THEN ofUsers \cup ofGroups ELSE {}

\* The last conjunct of every action.
Observe ==
    /\ seen' = [t \in Threads |->
                  IF th'[t].pc = "idle" THEN {} ELSE seen[t] \cup Facts(t)']
    /\ admins' = admins \cup {u \in Users : Account(u)' = "admin"}

-----------------------------------------------------------------------------
(* The command line.                                                       *)

\* add_user and delete_user read the accounts ...
CliLoad(c) ==
    /\ cli[c].pc = "idle"
    /\ usersFile = "whole"
    /\ \E u \in Users, r \in Accounts :
          /\ r = "none" => users[u] # "none"
          /\ cli' = [cli EXCEPT ![c] = [pc |-> "loaded", copy |-> [users EXCEPT ![u] = r]]]
    /\ runs < MaxRuns
    /\ runs' = runs + 1
    /\ UNCHANGED <<users, usersFile, groups, groupsFile, cookie, th, requests, restarts>>
    /\ Observe

\* ... hash the password and open the file, which empties it ...
CliOpen(c) ==
    /\ cli[c].pc = "loaded"
    /\ cli' = [cli EXCEPT ![c].pc = "open"]
    /\ usersFile' = "empty"
    /\ UNCHANGED <<users, groups, groupsFile, cookie, th, runs, requests, restarts>>
    /\ Observe

\* ... and write all accounts.  Over the text of another run that was written
\* since, a shorter text leaves the end of the longer one behind.
CliDump(c) ==
    /\ cli[c].pc = "open"
    /\ users' = cli[c].copy
    /\ usersFile' \in IF usersFile = "empty" THEN {"whole"} ELSE {"whole", "garbage"}
    /\ cli' = [cli EXCEPT ![c] = IdleCli]
    /\ UNCHANGED <<groups, groupsFile, cookie, th, runs, requests, restarts>>
    /\ Observe

\* The run is interrupted; an emptied file stays empty.
CliDies(c) ==
    /\ cli[c].pc # "idle"
    /\ cli' = [cli EXCEPT ![c] = IdleCli]
    /\ UNCHANGED <<users, usersFile, groups, groupsFile, cookie, th, runs, requests, restarts>>
    /\ Observe

-----------------------------------------------------------------------------
(* How requests begin and end.                                             *)

Begin(t, request) ==
    /\ th[t].pc = "idle"
    /\ requests < MaxRequests
    /\ requests' = requests + 1
    /\ th' = [th EXCEPT ![t] = request]
    /\ UNCHANGED <<users, usersFile, groups, groupsFile, cli, cookie, runs, restarts>>
    /\ Observe

\* A page or API call of a signed-in browser: a tab, or an edit of a group.
Visit(t, s, tab) ==
    /\ cookie[s] # SignedOut
    /\ Begin(t, [IdleThread EXCEPT !.pc = "users", !.kind = "tab", !.from = s,
                                   !.session = cookie[s], !.on = tab])

Edit(t, s, k, n, b) ==
    /\ cookie[s] # SignedOut
    /\ Begin(t, [IdleThread EXCEPT !.pc = "users", !.kind = k, !.from = s,
                                   !.session = cookie[s], !.on = n, !.body = b])

\* A login: authenticate finds the account, or verify_token the user.
Login(t, s, u) ==
    /\ CanLoadUsers /\ Account(u) # "none"
    /\ Begin(t, [IdleThread EXCEPT
                    !.pc = IF Account(u) = "admin" THEN "signin" ELSE "tabs",
                    !.kind = "login", !.from = s,
                    !.session = [user |-> u, source |-> "local", role |-> Account(u)]])

SsoLogin(t, s, u) ==
    Begin(t, [IdleThread EXCEPT
                    !.pc = "tabs", !.kind = "login", !.from = s,
                    !.session = [user |-> u, source |-> "sso", role |-> "sso"]])

\* 4tSuite pushes a membership.
Push(t, u, n, member) ==
    Begin(t, [IdleThread EXCEPT !.pc = "list", !.kind = IF member THEN "join" ELSE "leave",
                                !.on = n, !.user = u])

\* The response.  A permanent session's cookie goes out with every response, a
\* 500 included: it replaces the one the browser holds by now.
Finish(t, out, c) ==
    /\ th' = [th EXCEPT ![t] = [IdleThread EXCEPT !.out = out]]
    /\ cookie' = IF th[t].from = "none" THEN cookie ELSE [cookie EXCEPT ![th[t].from] = c]

\* An exception.  A login that meets one has no login_at in its session yet, so
\* the session is worth nothing.
Fail(t) ==
    /\ Finish(t, "failed", IF th[t].kind = "login" THEN SignedOut ELSE th[t].session)
    /\ UNCHANGED <<users, usersFile, groups, groupsFile, cli, runs, requests, restarts>>
    /\ Observe

Reply(t, out) ==
    /\ Finish(t, out, th[t].session)
    /\ UNCHANGED <<users, usersFile, groups, groupsFile, cli, runs, requests, restarts>>
    /\ Observe

Goto(t, next) ==
    /\ th' = [th EXCEPT ![t] = next]
    /\ UNCHANGED <<users, usersFile, groups, groupsFile, cli, cookie, runs, requests, restarts>>
    /\ Observe

-----------------------------------------------------------------------------
(* _revalidate_session and the decorators around it.                       *)

\* Faulty variant: the role in the session is good enough for everybody.
GivenUp_Never(session) == FALSE

\* A session whose user has no account any more is given up if it is local;
\* another one goes on with the role it carries.
GivenUp(session) == Account(session.user) = "none" /\ session.source = "local"

\* The role the session goes on with.
Role(session) ==
    IF Account(session.user) = "none" THEN session.role ELSE Account(session.user)

\* Before anything is read: the absolute lifetime is over, or 4tSuite revoked
\* the session (module SessionChecker).
Expire(t) ==
    /\ th[t].pc = "users"
    /\ Finish(t, "failed", SignedOut)
    /\ UNCHANGED <<users, usersFile, groups, groupsFile, cli, runs, requests, restarts>>
    /\ Observe

\* The first look at users.json: give the session up, or refresh its role.
\* admin_required and tab_required ask an admin for nothing more.
Revalidate(t) ==
    LET session == th[t].session
        next == [th[t] EXCEPT !.session.role = Role(session)]
    IN  /\ th[t].pc = "users"
        /\ CanLoadUsers
        /\ \/ /\ GivenUp(session)
              /\ Finish(t, "cleared", SignedOut)
              /\ UNCHANGED <<users, usersFile, groups, groupsFile, cli, runs, requests, restarts>>
              /\ Observe
           \/ /\ ~ GivenUp(session)
              /\ Goto(t, [next EXCEPT !.pc =
                    IF Role(session) # "admin" THEN "tabs"
                    ELSE IF th[t].kind = "tab" THEN "signin" ELSE "edit"])

\* An admin's tab, and an admin's login, are answered without the groups.
SignIn(t) ==
    /\ th[t].pc = "signin"
    /\ Reply(t, "served")

\* The answer to one whose role is not admin: the edits are for admins only.
Verdict(t, tabs) ==
    IF th[t].kind = "login" \/ (th[t].kind = "tab" /\ th[t].on \in tabs)
    THEN "served" ELSE "denied"

\* get_allowed_tabs looks at users.json once more ...
TabsOfAdmin(t) ==
    /\ th[t].pc = "tabs"
    /\ CanLoadUsers
    /\ IF Account(th[t].session.user) = "admin"
       THEN Reply(t, Verdict(t, KnownTabs))
       ELSE Goto(t, [th[t] EXCEPT !.pc = "groups"])

\* ... and then at the groups.
TabsOfGroups(t) ==
    /\ th[t].pc = "groups"
    /\ CanLoadGroups
    /\ Reply(t, Verdict(t, GroupTabs(th[t].session.user)))

\* A damaged file met on the way.
LoadFails(t) ==
    /\ \/ th[t].pc \in {"users", "tabs"} /\ ~ CanLoadUsers
       \/ th[t].pc \in {"groups", "list", "edit", "update"} /\ ~ CanLoadGroups
    /\ Fail(t)

-----------------------------------------------------------------------------
(* The handlers that read and write groups.json.                           *)

\* One function of groups.py stores the groups and the request is answered.
Save(t, new) ==
    /\ groups' = new
    /\ Finish(t, "served", th[t].session)
    /\ UNCHANGED <<users, usersFile, groupsFile, cli, runs, requests, restarts>>
    /\ Observe

\* create_group: refused if the name is taken; the tabs are stored unfiltered.
CreateGroup(t) ==
    LET n == th[t].on IN
    /\ th[t].pc = "edit" /\ th[t].kind = "create"
    /\ CanLoadGroups
    /\ IF n \in DOMAIN groups
       THEN Reply(t, "failed")
       ELSE Save(t, [m \in DOMAIN groups \cup {n} |->
                       IF m = n THEN [members |-> th[t].body.members, tabs |-> th[t].body.tabs]
                       ELSE groups[m]])

DeleteGroup(t) ==
    LET n == th[t].on IN
    /\ th[t].pc = "edit" /\ th[t].kind = "delete"
    /\ CanLoadGroups
    /\ IF n \notin DOMAIN groups
       THEN Reply(t, "failed")
       ELSE Save(t, [m \in DOMAIN groups \ {n} |-> groups[m]])

\* receive_group_push first asks for the names of all groups ...
PushList(t) ==
    /\ th[t].pc = "list"
    /\ CanLoadGroups
    /\ IF th[t].on \in DOMAIN groups
       THEN Goto(t, [th[t] EXCEPT !.pc = "edit"])
       ELSE Reply(t, "failed")

\* ... and it and PUT then read the group, which may be gone by now ...
GetGroup(t) ==
    /\ th[t].pc = "edit" /\ th[t].kind \in {"put", "join", "leave"}
    /\ CanLoadGroups
    /\ IF th[t].on \in DOMAIN groups
       THEN Goto(t, [th[t] EXCEPT !.pc = "update", !.copy = groups[th[t].on]])
       ELSE Reply(t, "failed")

\* A PUT replaces the fields its body has.
Merged(copy, body) ==
    [members |-> IF "members" \in body.has THEN body.members ELSE copy.members,
     tabs    |-> IF "tabs" \in body.has THEN body.tabs ELSE copy.tabs]

\* What the handler makes of the group it read.
Wanted(t) ==
    LET r == th[t] IN
    CASE r.kind = "join"  -> [r.copy EXCEPT !.members = @ \cup {r.user}]
      [] r.kind = "leave" -> [r.copy EXCEPT !.members = @ \ {r.user}]
      [] r.kind = "put"   -> Merged(r.copy, r.body)

\* Faulty variant: the group is stored whether it still exists or not.
UpdateGroup_Upsert(t) ==
    /\ th[t].pc = "update"
    /\ CanLoadGroups
    /\ Save(t, [m \in DOMAIN groups \cup {th[t].on} |->
                  IF m = th[t].on THEN Wanted(t) ELSE groups[m]])

\* update_group: only a group that still exists, and only registered tabs.
UpdateGroup(t) ==
    LET n == th[t].on IN
    /\ th[t].pc = "update"
    /\ CanLoadGroups
    /\ IF n \in DOMAIN groups
       THEN Save(t, [groups EXCEPT ![n] = [Wanted(t) EXCEPT !.tabs = @ \cap KnownTabs]])
       ELSE Reply(t, "failed")

\* The web process is restarted; in the middle of _save, the file is left empty.
Saving(t) ==
    /\ CanLoadGroups
    /\ \/ th[t].pc = "edit" /\ th[t].kind = "create" /\ th[t].on \notin DOMAIN groups
       \/ th[t].pc = "edit" /\ th[t].kind = "delete" /\ th[t].on \in DOMAIN groups
       \/ th[t].pc = "update" /\ th[t].on \in DOMAIN groups

Restart ==
    /\ restarts < MaxRestarts
    /\ restarts' = restarts + 1
    /\ th' = [t \in Threads |-> IdleThread]
    /\ \/ UNCHANGED <<groups, groupsFile>>
       \/ /\ \E t \in Threads : Saving(t)
          /\ groups' = NoGroups
          /\ groupsFile' = "empty"
    /\ UNCHANGED <<users, usersFile, cli, cookie, runs, requests>>
    /\ Observe

-----------------------------------------------------------------------------
(* The specification.                                                      *)

CliStep(c) == CliLoad(c) \/ CliOpen(c) \/ CliDump(c) \/ CliDies(c)

NewRequest(t) ==
    \/ \E s \in Sessions, tab \in KnownTabs : Visit(t, s, tab)
    \/ \E s \in Sessions, n \in Names, b \in Bodies, k \in {"create", "put"} : Edit(t, s, k, n, b)
    \/ \E s \in Sessions, n \in Names : Edit(t, s, "delete", n, NoBody)
    \/ \E s \in Sessions, u \in Users : Login(t, s, u) \/ SsoLogin(t, s, u)
    \/ \E u \in Users, n \in Names, member \in BOOLEAN : Push(t, u, n, member)

ThreadStep(t) ==
    \/ Expire(t) \/ Revalidate(t) \/ SignIn(t) \/ TabsOfAdmin(t) \/ TabsOfGroups(t) \/ LoadFails(t)
    \/ CreateGroup(t) \/ DeleteGroup(t) \/ PushList(t) \/ GetGroup(t) \/ UpdateGroup(t)

Next ==
    \/ \E c \in Clis : CliStep(c)
    \/ \E t \in Threads : NewRequest(t) \/ ThreadStep(t)
    \/ Restart

Spec == Init /\ [][Next]_vars

-----------------------------------------------------------------------------
(* Properties.                                                             *)

TypeOK ==
    /\ users \in [Users -> Accounts]
    /\ usersFile \in {"whole", "empty", "garbage"}
    /\ DOMAIN groups \in SUBSET Names
    /\ \A n \in DOMAIN groups : groups[n] \in Groups
    /\ groupsFile \in {"whole", "empty"}
    /\ \A c \in Clis : cli[c].pc \in {"idle", "loaded", "open"} /\ cli[c].copy \in [Users -> Accounts]
    /\ \A s \in Sessions : cookie[s] \in Cookies \cup {SignedOut}
    /\ \A t \in Threads :
          /\ th[t].pc \in {"idle", "users", "signin", "tabs", "groups", "list", "edit", "update"}
          /\ th[t].session \in Cookies \cup {SignedOut}
          /\ th[t].copy \in Groups
          /\ th[t].out \in {"none", "served", "denied", "cleared", "failed"}
    /\ runs \in 0..MaxRuns /\ requests \in 0..MaxRequests /\ restarts \in 0..MaxRestarts

\* The request of thread t is answered in this step, and how.
Answered(t, out) == th[t].pc # "idle" /\ th'[t].pc = "idle" /\ th'[t].out = out

\* Nobody gets in on what was never true during the request: a tab or an edit
\* is served only if, at some time between the arrival of the request and its
\* answer, users.json had an account of the user, which an SSO session does not
\* need, and at some time it called the user an admin or (for a tab) groups.json
\* had a group with the user and that tab.  The handler reads users.json twice
\* and groups.json once, without a lock over the three.  The one exception is an
\* SSO session whose user has no account: it is judged by the role it carries
\* from an earlier request, and that was once given to this user by users.json.
ServedWasGranted ==
    [][\A t \in Threads : Answered(t, "served") /\ th[t].kind \in Judged =>
          LET sso == th[t].session.source = "sso" IN
          /\ "account" \in seen[t] \/ sso
          /\ \/ "admin" \in seen[t]
             \/ th[t].kind = "tab" /\ "granted" \in seen[t]
             \/ sso /\ "carried" \in seen[t] /\ th[t].session.user \in admins]_vars

\* Nobody is turned away by a file that is being rewritten: a session is given
\* up only if it is local and a whole users.json lacked the account, and a tab is
\* denied only if the whole files said so, during the request.
RefusedForCause ==
    [][\A t \in Threads :
          /\ Answered(t, "cleared") => "gone" \in seen[t] /\ th[t].session.source = "local"
          /\ Answered(t, "denied") /\ th[t].kind = "tab" =>
                {"ordinary", "not granted"} \subseteq seen[t]]_vars

\* A group appears only when it is created: no PUT or push that read a group
\* before it was deleted brings it back.
DeletedStaysDeleted ==
    [][\A n \in DOMAIN groups' \ DOMAIN groups :
          \E t \in Threads : th[t].pc = "edit" /\ th[t].kind = "create" /\ th[t].on = n]_vars

\* "Any field not present in the incoming body keeps its current value": a PUT
\* without members leaves the members as they are when it is stored.
PutKeepsAbsentMembers ==
    [][\A t \in Threads :
          LET n == th[t].on IN
          /\ th[t].pc = "update" /\ Answered(t, "served")
          /\ th[t].kind = "put" /\ "members" \notin th[t].body.has
          => groups'[n].members = groups[n].members]_vars
=============================================================================
