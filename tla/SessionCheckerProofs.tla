------------------------ MODULE SessionCheckerProofs ------------------------
(* Theorems about SessionChecker, for any number of threads and users, any    *)
(* cache window, grace, retry interval, clock skew and fetch latency.         *)
EXTENDS SessionChecker, TLAPS

Holding == {"fetch", "reply"}

\* No point in time lies in the future, and a reply is not older than its call.
TimeInv ==
    /\ lastGood <= clock
    /\ \A u \in Users : out[u] <= clock
    /\ \A u \in Users : users[u] <= out[u]
    /\ \A t \in Threads :
          /\ th[t].now <= clock
          /\ th[t].pc # "idle" => th[t].now >= 1
          /\ th[t].pc = "reply" =>
                /\ th[t].now <= th[t].reply.at /\ th[t].reply.at <= clock
                /\ \A u \in Users : th[t].reply.users[u] <= out[u]
                /\ \A u \in Users : \/ th[t].reply.users[u] = out[u]
                                    \/ th[t].reply.at <= out[u]

\* At most one thread fetches.
OneFetch ==
    \A s, t \in Threads : th[s].pc \in Holding /\ th[t].pc \in Holding => s = t

\* How long the last fetch, made at `asked`, keeps the next one off.
Gap == IF asked - lastGood > Grace /\ Retry < Cache THEN Retry ELSE Cache

\* The lock: a thread that fetches does so alone and still has reason to; when
\* it is free, the date left behind keeps the next fetch off; a thread whose
\* `now` is older than the last good check finds a fresh cache.
LockInv ==
    /\ OneFetch
    /\ \A t \in Threads : th[t].pc \in Holding => asked = th[t].now
    /\ asked # 0 /\ LockFree => fetchedAt + Cache >= asked + Gap
    /\ \A t \in Threads : th[t].pc \in Holding => Stale(th[t].now)
    /\ \A t \in Threads : th[t].pc # "idle" =>
          th[t].now >= lastGood \/ ~Stale(th[t].now)

\* The measured offset errs on one side only: it includes the fetch's latency.
OffsetInv == \A u \in Users : users[u] # 0 => offset >= Skew

Inv == TypeOK /\ TimeInv /\ LockInv /\ KnowsOldLogouts /\ OffsetInv

\* A thread that has no request yet.
LEMMA FreshThread ==
    ASSUME NEW u \in Users
    PROVE  Fresh(u) \in ThreadStates /\ Fresh(u).pc = "idle" /\ Fresh(u).now = 0
<1>1. NoReply \in [users : [Users -> Nat], at : Nat]
    BY DEF NoReply
<1> QED
    BY <1>1 DEF Fresh, ThreadStates

\* The inductive invariant holds initially.
LEMMA InvInit == Init => Inv
<1> SUFFICES ASSUME Init PROVE Inv
    OBVIOUS
<1>fr. ASSUME NEW u \in Users
       PROVE  Fresh(u) \in ThreadStates /\ Fresh(u).pc = "idle" /\ Fresh(u).now = 0
    BY FreshThread
<1>th. ASSUME NEW t \in Threads
       PROVE  /\ th[t] \in ThreadStates
              /\ th[t].pc = "idle" /\ th[t].now = 0
    <2>1. PICK u \in Users : th[t] = Fresh(u)
        BY DEF Init
    <2> QED
        BY <1>fr, <2>1
<1>fn. th \in [Threads -> ThreadStates]
    BY <1>fr DEF Init
<1>nf. NeverFetched \in Int
    BY CheckerAssumption DEF NeverFetched
<1>sy. synced \in BOOLEAN /\ asked \in Nat
    BY DEF Init
<1>cl. clock \in Nat \ {0} /\ offset \in Int /\ fetchedAt \in Int /\ lastGood \in Nat
    BY <1>nf DEF Init
<1>us. out \in [Users -> Nat] /\ login \in [Users -> Nat] /\ users \in [Users -> Nat]
    BY DEF Init
<1>1. TypeOK
    BY <1>fn, <1>sy, <1>cl, <1>us DEF TypeOK
<1>2. TimeInv
    BY <1>th DEF Init, TimeInv
<1>3. LockInv
    BY <1>th DEF Init, LockInv, OneFetch, Holding
<1>4. KnowsOldLogouts /\ OffsetInv
    BY DEF Init, KnowsOldLogouts, OffsetInv
<1> QED
    BY <1>1, <1>2, <1>3, <1>4 DEF Inv

\* The fields of a well-typed thread.
LEMMA ThreadTypes ==
    ASSUME TypeOK, NEW t \in Threads
    PROVE  /\ th[t].pc \in {"idle", "wait", "fetch", "reply"}
           /\ th[t].user \in Users
           /\ th[t].login \in Nat /\ th[t].now \in Nat
           /\ th[t].reply.users \in [Users -> Nat] /\ th[t].reply.at \in Nat
    BY DEF TypeOK, ThreadStates

\* What Decide does to the thread and to the sessions.
LEMMA DecideStep ==
    ASSUME TypeOK, NEW t \in Threads, Decide(t), users' \in [Users -> Nat]
    PROVE  /\ th' \in [Threads -> ThreadStates]
           /\ login' \in [Users -> Nat]
           /\ th'[t].pc = "idle" /\ th'[t].now = th[t].now
           /\ th'[t].verdict = IF Valid(t) THEN "valid" ELSE "invalid"
           /\ \A s \in Threads : s # t => th'[s] = th[s]
<1> DEFINE v == IF Valid(t) THEN "valid" ELSE "invalid"
           x == [th[t] EXCEPT !.pc = "idle", !.reply = NoReply,
                              !.verdict = v, !.known = users'[th[t].user]]
<1>1. th[t] \in ThreadStates /\ th \in [Threads -> ThreadStates] /\ login \in [Users -> Nat]
    BY DEF TypeOK
<1>2. th' = [th EXCEPT ![t] = x]
    BY <1>1 DEF Decide
<1>3. NoReply \in [users : [Users -> Nat], at : Nat]
    BY DEF NoReply
<1>4. users'[th[t].user] \in Nat
    BY <1>1 DEF ThreadStates
<1>5. v \in {"valid", "invalid"}
    OBVIOUS
<1> HIDE DEF v
<1>6. x \in ThreadStates
    BY <1>1, <1>3, <1>4, <1>5 DEF ThreadStates
<1>7. x.pc = "idle" /\ x.now = th[t].now /\ x.verdict = v
    BY <1>1 DEF ThreadStates
<1>8. login' \in [Users -> Nat]
    BY <1>1 DEF Decide, ThreadStates
<1> HIDE DEF x
<1> QED
    BY <1>1, <1>2, <1>6, <1>7, <1>8 DEF v

\* A step that ends a check, given what it makes of the shared state.
LEMMA InvDecide ==
    ASSUME Inv, NEW t \in Threads, Decide(t), UNCHANGED <<clock, out>>,
           th[t].pc # "idle",
           users' \in [Users -> Nat], offset' \in Int, fetchedAt' \in Int,
           lastGood' \in Nat, synced' \in BOOLEAN, lastGood' <= clock,
           asked' = asked, (asked # 0 /\ LockFree => fetchedAt + Cache >= asked + Gap)',
           \A u \in Users : users'[u] <= out[u],
           \A s \in Threads : s # t /\ th[s].pc # "idle" =>
              th[s].now >= lastGood' \/ th[s].now - fetchedAt' < Cache,
           \A s \in Threads : s # t /\ th[s].pc \in Holding => th[s].now - fetchedAt' >= Cache,
           KnowsOldLogouts', OffsetInv'
    PROVE  Inv'
<1>1. /\ th' \in [Threads -> ThreadStates] /\ login' \in [Users -> Nat]
      /\ th'[t].pc = "idle" /\ th'[t].now = th[t].now
      /\ \A s \in Threads : s # t => th'[s] = th[s]
    BY DecideStep DEF Inv
<1>2. TypeOK'
    BY <1>1 DEF Inv, TypeOK
<1>3. TimeInv'
    <2>1. \A s \in Threads : th'[s] = th[s] \/ (th'[s].pc = "idle" /\ th'[s].now = th[s].now)
        BY <1>1
    <2> QED
        BY <2>1 DEF Inv, TimeInv
<1>4. LockInv'
    <2>1. OneFetch'
        BY <1>1 DEF Inv, LockInv, OneFetch, Holding
    <2>2. ASSUME NEW s \in Threads, th'[s].pc \in Holding PROVE Stale(th[s].now)'
        <3>1. s # t /\ th'[s] = th[s]
            BY <1>1, <2>2 DEF Holding
        <3> QED
            BY <2>2, <3>1 DEF Stale
    <2>3. ASSUME NEW s \in Threads, th'[s].pc # "idle"
          PROVE  th'[s].now >= lastGood' \/ ~Stale(th[s].now)'
        <3>1. s # t /\ th'[s] = th[s]
            BY <1>1, <2>3
        <3>2. th[s].now \in Nat
            BY ThreadTypes DEF Inv
        <3> QED
            BY <2>3, <3>1, <3>2, CheckerAssumption DEF Stale
    <2>4. ASSUME NEW s \in Threads, th'[s].pc \in Holding PROVE asked' = th'[s].now
        BY <1>1, <2>4 DEF Holding, Inv, LockInv
    <2> QED
        BY <2>1, <2>2, <2>3, <2>4 DEF LockInv
<1> QED
    BY <1>2, <1>3, <1>4 DEF Inv

\* Time passes, a session is opened, or a user logs out of 4tSuite.
LEMMA InvOutside ==
    ASSUME Inv, Tick \/ \E u \in Users : Login(u) \/ Logout(u)
    PROVE  Inv'
<1> USE DEF Inv
<1>1. CASE Tick
    <2>1. TypeOK' /\ TimeInv'
        BY <1>1, ThreadTypes DEF Tick, TypeOK, TimeInv, state
    <2>2. LockInv' /\ KnowsOldLogouts' /\ OffsetInv'
        BY <1>1 DEF Tick, LockInv, OneFetch, LockFree, Gap, Stale, KnowsOldLogouts, OffsetInv, state
    <2> QED
        BY <2>1, <2>2
<1>2. ASSUME NEW u \in Users, Login(u) PROVE Inv'
    <2>1. TypeOK' /\ TimeInv'
        BY <1>2 DEF Login, TypeOK, TimeInv, state
    <2>2. LockInv' /\ KnowsOldLogouts' /\ OffsetInv'
        BY <1>2 DEF Login, LockInv, OneFetch, LockFree, Gap, Stale, KnowsOldLogouts, OffsetInv, state
    <2> QED
        BY <2>1, <2>2
<1>3. ASSUME NEW u \in Users, Logout(u) PROVE Inv'
    <2>1. TypeOK'
        BY <1>3 DEF Logout, TypeOK, state
    <2>2. UNCHANGED <<clock, users, offset, fetchedAt, lastGood, synced, asked, th>>
        BY <1>3 DEF Logout, state
    <2>3. \A v \in Users : out'[v] = out[v] \/ (out'[v] = clock /\ out[v] <= clock)
        BY <1>3 DEF Logout, TypeOK, TimeInv
    <2>4. /\ \A v \in Users : out[v] \in Nat /\ users[v] \in Nat
          /\ clock \in Nat /\ lastGood \in Nat
        BY DEF TypeOK
    <2>5. \A v \in Users : out'[v] <= clock /\ users[v] <= out'[v]
        BY <2>3, <2>4 DEF TimeInv
    <2>6. ASSUME NEW t \in Threads, th[t].pc = "reply", NEW v \in Users
          PROVE  /\ th[t].reply.users[v] <= out'[v]
                 /\ th[t].reply.users[v] = out'[v] \/ th[t].reply.at <= out'[v]
        <3>1. th[t].reply.users[v] \in Nat /\ th[t].reply.at \in Nat
            BY ThreadTypes
        <3> QED
            BY <2>3, <2>4, <2>6, <3>1 DEF TimeInv
    <2>7. TimeInv'
        BY <2>2, <2>5, <2>6 DEF TimeInv
    <2>8. KnowsOldLogouts'
        BY <2>2, <2>3, <2>4 DEF KnowsOldLogouts, TimeInv
    <2>9. LockInv' /\ OffsetInv'
        BY <2>2 DEF LockInv, OneFetch, LockFree, Gap, Stale, OffsetInv
    <2> QED
        BY <2>1, <2>7, <2>8, <2>9
<1> QED
    BY <1>1, <1>2, <1>3

\* A thread moves on without touching the shared state.
LEMMA InvThread ==
    ASSUME Inv, NEW t \in Threads,
           (\E u \in Users : Call(t, u)) \/ EnterStale(t) \/ SuiteReplies(t)
    PROVE  Inv'
<1> USE DEF Inv
<1>0. /\ clock \in Nat \ {0} /\ out \in [Users -> Nat] /\ login \in [Users -> Nat]
      /\ lastGood \in Nat /\ fetchedAt \in Int /\ asked \in Nat
      /\ th \in [Threads -> ThreadStates] /\ th[t] \in ThreadStates
    BY DEF TypeOK
<1>u. UNCHANGED <<clock, out, users, offset, fetchedAt, lastGood, synced>>
    BY DEF Call, EnterStale, SuiteReplies, state
<1>k. KnowsOldLogouts' /\ OffsetInv'
    BY <1>u DEF KnowsOldLogouts, OffsetInv
<1>1. ASSUME NEW u \in Users, Call(t, u) PROVE Inv'
    <2> DEFINE x == [th[t] EXCEPT !.pc = "wait", !.user = u, !.login = login[u], !.now = clock]
    <2>1. th' = [th EXCEPT ![t] = x] /\ login' = login /\ asked' = asked /\ th[t].pc = "idle"
        BY <1>1, <1>0 DEF Call, state
    <2>2. x \in ThreadStates /\ x.pc = "wait" /\ x.now = clock
        BY <1>0 DEF ThreadStates
    <2> HIDE DEF x
    <2>3. /\ th' \in [Threads -> ThreadStates]
          /\ th'[t].pc = "wait" /\ th'[t].now = clock
          /\ \A s \in Threads : s # t => th'[s] = th[s]
        BY <1>0, <2>1, <2>2
    <2>4. TypeOK'
        BY <1>u, <2>1, <2>3 DEF TypeOK
    <2>5. TimeInv'
        BY <1>u, <1>0, <2>3 DEF TimeInv
    <2>6. LockInv'
        BY <1>u, <1>0, <2>1, <2>3 DEF LockInv, OneFetch, LockFree, Gap, Stale, Holding, TimeInv
    <2> QED
        BY <1>k, <2>4, <2>5, <2>6
<1>2. CASE EnterStale(t)
    <2> DEFINE x == [th[t] EXCEPT !.pc = "fetch"]
    <2>1. th' = [th EXCEPT ![t] = x] /\ login' = login /\ asked' = th[t].now
        BY <1>2, <1>0 DEF EnterStale
    <2>2. x \in ThreadStates /\ x.pc = "fetch" /\ x.now = th[t].now
        BY <1>0 DEF ThreadStates
    <2> HIDE DEF x
    <2>3. /\ th' \in [Threads -> ThreadStates]
          /\ th'[t].pc = "fetch" /\ th'[t].now = th[t].now
          /\ \A s \in Threads : s # t => th'[s] = th[s]
        BY <1>0, <2>1, <2>2
    <2>4. /\ th[t].pc = "wait" /\ Stale(th[t].now)
          /\ \A s \in Threads : th[s].pc \notin {"fetch", "reply"}
        BY <1>2 DEF EnterStale, LockFree
    <2>5. TypeOK'
        BY <1>u, <1>0, <2>1, <2>3 DEF TypeOK, ThreadStates
    <2>6. TimeInv'
        BY <1>u, <1>0, <2>3, <2>4 DEF TimeInv
    <2>7. LockInv'
        BY <1>u, <1>0, <2>1, <2>3, <2>4 DEF LockInv, OneFetch, LockFree, Stale, Holding
    <2> QED
        BY <1>k, <2>5, <2>6, <2>7
<1>3. CASE SuiteReplies(t)
    <2> DEFINE r == [users |-> out, at |-> clock]
               x == [th[t] EXCEPT !.pc = "reply", !.reply = r]
    <2>1. th' = [th EXCEPT ![t] = x] /\ login' = login /\ asked' = asked
        BY <1>3, <1>0 DEF SuiteReplies, state
    <2>2. /\ x \in ThreadStates /\ x.pc = "reply" /\ x.now = th[t].now
          /\ x.reply.users = out /\ x.reply.at = clock
        BY <1>0 DEF ThreadStates
    <2> HIDE DEF x
    <2>3. /\ th' \in [Threads -> ThreadStates]
          /\ th'[t].pc = "reply" /\ th'[t].now = th[t].now
          /\ th'[t].reply.users = out /\ th'[t].reply.at = clock
          /\ \A s \in Threads : s # t => th'[s] = th[s]
        BY <1>0, <2>1, <2>2
    <2>4. th[t].pc = "fetch"
        BY <1>3 DEF SuiteReplies
    <2>5. TypeOK'
        BY <1>u, <2>1, <2>3 DEF TypeOK
    <2>6. \A u \in Users : out[u] \in Nat
        BY <1>0
    <2>7. TimeInv'
        BY <1>u, <1>0, <2>3, <2>4, <2>6 DEF TimeInv
    <2>8. LockInv'
        BY <1>u, <1>0, <2>1, <2>3, <2>4 DEF LockInv, OneFetch, LockFree, Gap, Stale, Holding
    <2> QED
        BY <1>k, <2>5, <2>7, <2>8
<1> QED
    BY <1>1, <1>2, <1>3

\* The verdict without a refresh, after a good one and after a failed one.
LEMMA InvVerdict ==
    ASSUME Inv, NEW t \in Threads,
           EnterFresh(t) \/ RefreshOk(t) \/ RefreshFails(t)
    PROVE  Inv'
<1> USE DEF Inv
<1>0. /\ clock \in Nat \ {0} /\ out \in [Users -> Nat] /\ users \in [Users -> Nat]
      /\ offset \in Int /\ fetchedAt \in Int /\ lastGood \in Nat /\ synced \in BOOLEAN
      /\ asked \in Nat
    BY DEF TypeOK
<1>t. \A s \in Threads : th[s].now \in Nat /\ th[s].now <= clock
    BY ThreadTypes DEF TimeInv
<1>1. CASE EnterFresh(t)
    <2>1. Decide(t) /\ UNCHANGED <<clock, out, users, offset, fetchedAt, lastGood, synced, asked>>
          /\ th[t].pc = "wait" /\ LockFree
        BY <1>1 DEF EnterFresh, state
    <2>2. KnowsOldLogouts' /\ OffsetInv'
        BY <2>1 DEF KnowsOldLogouts, OffsetInv
    <2>3. \A s \in Threads :
              /\ th[s].pc # "idle" => th[s].now >= lastGood \/ th[s].now - fetchedAt < Cache
              /\ th[s].pc \in Holding => th[s].now - fetchedAt >= Cache
        BY <1>0, <1>t, CheckerAssumption DEF LockInv, Stale
    <2>4. lastGood <= clock /\ \A u \in Users : users[u] <= out[u]
        BY DEF TimeInv
    <2>5. /\ users' \in [Users -> Nat] /\ offset' \in Int /\ fetchedAt' \in Int
          /\ lastGood' \in Nat /\ synced' \in BOOLEAN /\ lastGood' <= clock
          /\ \A u \in Users : users'[u] <= out[u]
          /\ th[t].pc # "idle"
        BY <1>0, <2>1, <2>4
    <2>6. \A s \in Threads :
              /\ th[s].pc # "idle" => th[s].now >= lastGood' \/ th[s].now - fetchedAt' < Cache
              /\ th[s].pc \in Holding => th[s].now - fetchedAt' >= Cache
        BY <2>1, <2>3
    <2>7. fetchedAt' + Cache >= asked' + Gap' \/ asked' = 0
        BY <2>1 DEF LockInv, Gap
    <2> QED
        BY <2>1, <2>2, <2>5, <2>6, <2>7, InvDecide
<1>2. CASE RefreshOk(t)
    <2>1. /\ Decide(t) /\ UNCHANGED <<clock, out, asked>> /\ th[t].pc = "reply"
          /\ users' = th[t].reply.users /\ offset' = th[t].reply.at + Skew - th[t].now
          /\ fetchedAt' = th[t].now /\ lastGood' = th[t].now /\ synced' = TRUE
        BY <1>2 DEF RefreshOk
    <2>2. /\ th[t].reply.users \in [Users -> Nat] /\ th[t].reply.at \in Nat
          /\ th[t].now <= th[t].reply.at
          /\ \A u \in Users : th[t].reply.users[u] <= out[u]
          /\ \A u \in Users : th[t].reply.users[u] = out[u] \/ th[t].reply.at <= out[u]
        BY <2>1, ThreadTypes DEF TimeInv
    <2>3. \A s \in Threads : s # t => th[s].pc \notin Holding
        BY <2>1 DEF LockInv, OneFetch, Holding
    <2>4. \A s \in Threads : th[s].now >= lastGood' \/ th[s].now - fetchedAt' < Cache
        BY <1>t, <2>1, CheckerAssumption
    <2>5. KnowsOldLogouts'
        BY <1>0, <1>t, <2>1, <2>2 DEF KnowsOldLogouts
    <2>6. OffsetInv'
        BY <1>t, <2>1, <2>2, CheckerAssumption DEF OffsetInv
    <2>7. /\ users' \in [Users -> Nat] /\ offset' \in Int /\ fetchedAt' \in Int
          /\ lastGood' \in Nat /\ synced' \in BOOLEAN /\ lastGood' <= clock
          /\ \A u \in Users : users'[u] <= out[u]
        BY <1>t, <2>1, <2>2, CheckerAssumption
    <2>8. fetchedAt' + Cache >= asked' + Gap'
        <3>1. asked' = th[t].now /\ lastGood' = asked'
            BY <2>1 DEF LockInv, Holding
        <3>2. Gap' = Cache
            BY <3>1, <1>t, CheckerAssumption DEF Gap
        <3> QED
            BY <2>1, <3>1, <3>2, <1>t, CheckerAssumption
    <2> QED
        BY <2>1, <2>3, <2>4, <2>5, <2>6, <2>7, <2>8, InvDecide
<1>3. CASE RefreshFails(t)
    <2>1. /\ Decide(t) /\ UNCHANGED <<clock, out, users, offset, lastGood, synced, asked>>
          /\ th[t].pc \in Holding
          /\ fetchedAt' = th[t].now - Cache + RetryAfter(th[t].now)
        BY <1>3 DEF RefreshFails, Holding
    <2>2. RetryAfter(th[t].now) \in Nat
        BY CheckerAssumption DEF RetryAfter
    <2>3. th[t].now - fetchedAt >= Cache
        BY <2>1 DEF LockInv, Stale
    <2>4. fetchedAt' \in Int /\ fetchedAt' >= fetchedAt
        BY <1>0, <1>t, <2>1, <2>2, <2>3, CheckerAssumption
    <2>5. \A s \in Threads : s # t => th[s].pc \notin Holding
        BY <2>1 DEF LockInv, OneFetch, Holding
    <2>6. ASSUME NEW s \in Threads, th[s].pc # "idle"
          PROVE  th[s].now >= lastGood \/ th[s].now - fetchedAt' < Cache
        <3>1. th[s].now >= lastGood \/ ~(th[s].now - fetchedAt >= Cache)
            BY <2>6 DEF LockInv, Stale
        <3> QED
            BY <1>0, <1>t, <2>4, <3>1, CheckerAssumption
    <2>7. KnowsOldLogouts' /\ OffsetInv'
        BY <2>1 DEF KnowsOldLogouts, OffsetInv
    <2>8. th[t].pc # "idle"
        BY <2>1 DEF Holding
    <2>9. fetchedAt' + Cache >= asked' + Gap'
        <3>1. asked' = th[t].now /\ lastGood' = lastGood
            BY <2>1 DEF LockInv
        <3>2. Gap' = RetryAfter(th[t].now)
            BY <3>1 DEF Gap, RetryAfter
        <3> QED
            BY <2>1, <2>2, <3>1, <3>2, <1>t, CheckerAssumption
    <2> QED
        BY <1>0, <2>1, <2>4, <2>5, <2>6, <2>7, <2>8, <2>9, InvDecide DEF TimeInv
<1> QED
    BY <1>1, <1>2, <1>3

\* The web process restarts.
LEMMA InvRestart == ASSUME Inv, Restart PROVE Inv'
<1> USE DEF Inv
<1>1. \A t \in Threads : th'[t] \in ThreadStates /\ th'[t].pc = "idle" /\ th'[t].now = 0
    BY FreshThread, ThreadTypes DEF Restart
<1>nf. NeverFetched \in Int
    BY CheckerAssumption DEF NeverFetched
<1>sy. synced' \in BOOLEAN /\ asked' \in Nat
    BY DEF Restart
<1>fn. th' \in [Threads -> ThreadStates]
    BY <1>1 DEF Restart
<1>cl. /\ clock' \in Nat \ {0} /\ offset' \in Int /\ fetchedAt' \in Int /\ lastGood' \in Nat
       /\ out' \in [Users -> Nat] /\ login' \in [Users -> Nat] /\ users' \in [Users -> Nat]
    BY <1>nf DEF Restart, TypeOK
<1>2. TypeOK'
    BY <1>fn, <1>sy, <1>cl DEF TypeOK
<1>3. TimeInv'
    BY <1>1 DEF Restart, TimeInv, TypeOK
<1>4. LockInv'
    BY <1>1 DEF Restart, LockInv, OneFetch, Holding
<1>5. KnowsOldLogouts' /\ OffsetInv'
    BY DEF Restart, KnowsOldLogouts, OffsetInv
<1> QED
    BY <1>2, <1>3, <1>4, <1>5

\* Every step preserves the inductive invariant.
LEMMA InvStep == Inv /\ [Next]_vars => Inv'
<1> SUFFICES ASSUME Inv, [Next]_vars PROVE Inv'
    OBVIOUS
<1>1. CASE UNCHANGED vars
    BY <1>1 DEF vars, Inv, TypeOK, TimeInv, LockInv, OneFetch, LockFree, Gap, Stale,
                KnowsOldLogouts, OffsetInv
<1>2. CASE Next
    BY <1>2, InvOutside, InvThread, InvVerdict, InvRestart DEF Next
<1> QED
    BY <1>1, <1>2

\* The inductive invariant holds in every reachable state.
THEOREM Invariance == Spec => []Inv
    BY InvInit, InvStep, PTL DEF Spec

\* The checker's state is well typed in every reachable state.
THEOREM TypeCorrect == Spec => []TypeOK
<1>1. Inv => TypeOK
    BY DEF Inv
<1> QED
    BY <1>1, Invariance, PTL

\* After a good fetch, no logout older than last_good is missing from the list.
THEOREM AlwaysKnowsOldLogouts == Spec => []KnowsOldLogouts
<1>1. Inv => KnowsOldLogouts
    BY DEF Inv
<1> QED
    BY <1>1, Invariance, PTL

-----------------------------------------------------------------------------
(* What a step may never do. *)

\* Only the step that decides thread t's check gives t a verdict.
LEMMA JudgeStep ==
    ASSUME Inv, Next, NEW t \in Threads, NEW v \in {"valid", "invalid"}, Judges(t, v)
    PROVE  /\ Decide(t) /\ out' = out
           /\ v = IF Valid(t) THEN "valid" ELSE "invalid"
<1> USE DEF Inv
<1>1. th[t].pc # "idle" /\ th'[t].pc = "idle" /\ th'[t].verdict = v
    BY DEF Judges
<1>2. th \in [Threads -> ThreadStates] /\ \A s \in Threads : th[s] \in ThreadStates
    BY DEF TypeOK
<1>3. ASSUME \/ Tick
             \/ \E u \in Users : Login(u) \/ Logout(u)
             \/ \E s \in Threads, u \in Users : Call(s, u)
             \/ \E s \in Threads : EnterStale(s) \/ SuiteReplies(s)
             \/ Restart
      PROVE  FALSE
    <2>1. CASE Tick \/ \E u \in Users : Login(u) \/ Logout(u)
        BY <1>1, <2>1 DEF Tick, Login, Logout
    <2>2. ASSUME NEW s \in Threads, NEW u \in Users, Call(s, u) PROVE FALSE
        BY <1>1, <1>2, <2>2 DEF Call, ThreadStates
    <2>3. ASSUME NEW s \in Threads, EnterStale(s) PROVE FALSE
        BY <1>1, <1>2, <2>3 DEF EnterStale, ThreadStates
    <2>4. ASSUME NEW s \in Threads, SuiteReplies(s) PROVE FALSE
        BY <1>1, <1>2, <2>4 DEF SuiteReplies, ThreadStates
    <2>5. CASE Restart
        BY <1>1, <2>5 DEF Restart, Fresh
    <2> QED
        BY <1>3, <2>1, <2>2, <2>3, <2>4, <2>5
<1>4. PICK s \in Threads : EnterFresh(s) \/ RefreshOk(s) \/ RefreshFails(s)
    BY <1>3 DEF Next
<1>5. Decide(s) /\ out' = out
    BY <1>4 DEF EnterFresh, RefreshOk, RefreshFails
<1>6. users' \in [Users -> Nat]
    BY <1>4, InvVerdict DEF TypeOK
<1>7. /\ th'[s].verdict = IF Valid(s) THEN "valid" ELSE "invalid"
      /\ \A r \in Threads : r # s => th'[r] = th[r]
    BY <1>5, <1>6, DecideStep
<1> QED
    BY <1>1, <1>5, <1>7

\* A logout older than the grace ends the session at its next check, unless
\* the process never reached 4tSuite and started within the grace.
THEOREM LogoutTakesEffect == Spec => RevokedWithinGrace
<1> DEFINE A == \A t \in Threads : Judges(t, "valid") =>
                  LET u == th[t].user
                  IN  \/ out[u] = 0
                      \/ out[u] + Grace >= th[t].now
                      \/ out[u] + Skew <= th[t].login + offset'
                      \/ ~synced' /\ th[t].now - lastGood' <= Grace
<1>1. ASSUME Inv, Next PROVE A
    <2> SUFFICES ASSUME NEW t \in Threads, Judges(t, "valid"),
                        ~(out[th[t].user] + Grace >= th[t].now),
                        out[th[t].user] # 0,
                        ~(~synced' /\ th[t].now - lastGood' <= Grace)
                 PROVE  out[th[t].user] + Skew <= th[t].login + offset'
        BY Zenon
    <2> DEFINE u == th[t].user
    <2>1. out' = out /\ Valid(t)
        BY <1>1, JudgeStep
    <2>2. Inv'
        BY <1>1, InvStep
    <2>3. /\ u \in Users /\ th[t].now \in Nat /\ th[t].login \in Nat
          /\ out[u] \in Nat /\ lastGood' \in Nat /\ offset' \in Int
        BY <1>1, <2>2, ThreadTypes DEF Inv, TypeOK
    <2>4. th[t].now - lastGood' <= Grace
        BY <2>1 DEF Valid
    <2>a. synced'
        BY <2>4
    <2>5. out[u] < lastGood'
        BY <2>3, <2>4, CheckerAssumption
    <2>6. users'[u] = out[u]
        BY <2>1, <2>2, <2>3, <2>5, <2>a DEF Inv, KnowsOldLogouts
    <2> QED
        BY <2>1, <2>6 DEF Valid
<1>2. Inv /\ [Next]_vars => [A]_vars
    BY <1>1
<1> QED
    BY <1>2, Invariance, PTL DEF Spec, RevokedWithinGrace

\* Neither skew nor latency ends a session that was not revoked.
THEOREM NeverFalseReject == Spec => NoFalseReject
<1> DEFINE A == \A t \in Threads : Judges(t, "invalid") =>
                  \/ out[th[t].user] > th[t].login
                  \/ th[t].now - lastGood' > Grace
<1>1. ASSUME Inv, Next PROVE A
    <2> SUFFICES ASSUME NEW t \in Threads, Judges(t, "invalid"),
                        ~(th[t].now - lastGood' > Grace)
                 PROVE  out[th[t].user] > th[t].login
        OBVIOUS
    <2> DEFINE u == th[t].user
    <2>1. out' = out /\ ~Valid(t)
        BY <1>1, JudgeStep
    <2>2. Inv'
        BY <1>1, InvStep
    <2>3. /\ u \in Users /\ th[t].now \in Nat /\ th[t].login \in Nat
          /\ out[u] \in Nat /\ users'[u] \in Nat /\ lastGood' \in Nat /\ offset' \in Int
        BY <1>1, <2>2, ThreadTypes DEF Inv, TypeOK
    <2>4. users'[u] # 0 /\ users'[u] + Skew > th[t].login + offset'
        BY <2>1, <2>3, CheckerAssumption DEF Valid
    <2>5. users'[u] <= out[u] /\ offset' >= Skew
        BY <2>1, <2>2, <2>3, <2>4 DEF Inv, TimeInv, OffsetInv
    <2> QED
        BY <2>3, <2>4, <2>5, CheckerAssumption
<1>2. Inv /\ [Next]_vars => [A]_vars
    BY <1>1
<1> QED
    BY <1>2, Invariance, PTL DEF Spec, NoFalseReject

\* The time of the last good check never goes back.
THEOREM LastGoodMonotone == Spec => LastGoodAdvances
<1>1. ASSUME Inv, Next PROVE lastGood' >= lastGood
    <2>0. lastGood \in Nat /\ clock \in Nat /\ lastGood <= clock
        BY <1>1 DEF Inv, TypeOK, TimeInv
    <2>1. ASSUME NEW t \in Threads, RefreshOk(t) PROVE lastGood' >= lastGood
        <3>1. th[t].pc = "reply" /\ lastGood' = th[t].now
            BY <2>1 DEF RefreshOk
        <3> QED
            BY <1>1, <3>1 DEF Inv, LockInv, Holding
    <2>2. CASE Restart
        BY <2>0, <2>2 DEF Restart
    <2>3. ASSUME ~Restart, \A t \in Threads : ~RefreshOk(t) PROVE lastGood' = lastGood
        BY <1>1, <2>3 DEF Next, Tick, Login, Logout, Call, EnterFresh, EnterStale,
                          SuiteReplies, RefreshFails, state
    <2> QED
        BY <2>0, <2>1, <2>2, <2>3
<1>2. Inv /\ [Next]_vars => [lastGood' >= lastGood]_vars
    BY <1>1
<1> QED
    BY <1>2, Invariance, PTL DEF Spec, LastGoodAdvances
\* A step that begins a fetch is EnterStale of that thread.
LEMMA FetchBegins ==
    ASSUME Inv, Next, NEW t \in Threads, th[t].pc = "wait", th'[t].pc = "fetch"
    PROVE  LockFree /\ Stale(th[t].now)
<1>1. th \in [Threads -> ThreadStates] /\ \A s \in Threads : th[s] \in ThreadStates
    BY DEF Inv, TypeOK
<1>2. ~(Tick \/ (\E u \in Users : Login(u) \/ Logout(u)) \/ Restart)
    BY DEF Tick, Login, Logout, Restart, Fresh
<1>3. ASSUME NEW s \in Threads, NEW u \in Users, Call(s, u) PROVE FALSE
    BY <1>1, <1>3 DEF Call, ThreadStates
<1>4. ASSUME NEW s \in Threads, SuiteReplies(s) PROVE FALSE
    BY <1>1, <1>4 DEF SuiteReplies, ThreadStates
<1>5. ASSUME NEW s \in Threads, EnterFresh(s) \/ RefreshOk(s) \/ RefreshFails(s) PROVE FALSE
    <2>1. Decide(s)
        BY <1>5 DEF EnterFresh, RefreshOk, RefreshFails
    <2>2. users' \in [Users -> Nat]
        BY <1>5, InvVerdict DEF Inv, TypeOK
    <2>3. th'[s].pc = "idle" /\ \A r \in Threads : r # s => th'[r] = th[r]
        BY <2>1, <2>2, DecideStep DEF Inv
    <2> QED
        BY <2>3
<1>6. PICK s \in Threads : EnterStale(s)
    BY <1>2, <1>3, <1>4, <1>5 DEF Next
<1>7. s = t
    BY <1>1, <1>6 DEF EnterStale
<1> QED
    BY <1>6, <1>7 DEF EnterStale

\* However long fetches take and however many threads queue for the lock, 4tSuite
\* is not asked again before the cache window, or after the grace the retry
\* interval, has passed between the checks that ask.
THEOREM ProbesAreSpaced == Spec => ProbesSpaced
<1> DEFINE A == \A t \in Threads :
                  th[t].pc = "wait" /\ th'[t].pc = "fetch" /\ asked # 0 =>
                     \/ th[t].now >= asked + Cache
                     \/ asked - lastGood > Grace /\ th[t].now >= asked + Retry
<1>1. ASSUME Inv, Next PROVE A
    <2> SUFFICES ASSUME NEW t \in Threads, th[t].pc = "wait", th'[t].pc = "fetch", asked # 0
                 PROVE  \/ th[t].now >= asked + Cache
                        \/ asked - lastGood > Grace /\ th[t].now >= asked + Retry
        OBVIOUS
    <2>1. LockFree /\ Stale(th[t].now)
        BY <1>1, FetchBegins
    <2>2. th[t].now - fetchedAt >= Cache /\ fetchedAt + Cache >= asked + Gap
        BY <1>1, <2>1 DEF Stale, Inv, LockInv
    <2>3. th[t].now \in Nat /\ fetchedAt \in Int /\ asked \in Nat /\ lastGood \in Nat
        BY <1>1, ThreadTypes DEF Inv, TypeOK
    <2> QED
        BY <2>2, <2>3, CheckerAssumption DEF Gap
<1>2. Inv /\ [Next]_vars => [A]_vars
    BY <1>1
<1> QED
    BY <1>2, Invariance, PTL DEF Spec, ProbesSpaced
=============================================================================
