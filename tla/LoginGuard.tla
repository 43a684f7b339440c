----------------------------- MODULE LoginGuard ------------------------------
(***************************************************************************)
(* The sliding-window limit on failed logins of app/routes/auth_routes.py: *)
(* a request thread tests the limit, checks the password for a long time   *)
(* without the lock, and only then records the failure or forgets the      *)
(* earlier ones.  All threads belong to one process.                       *)
(*                                                                         *)
(* Failures are kept by their age in ticks; a list of times is the bag of  *)
(* its ages.  A user stands for all spellings _norm_username makes equal.  *)
(* A form without name or password is refused before anything happens.     *)
(***************************************************************************)
EXTENDS Integers, Sequences, FiniteSets, FiniteSetsExt

CONSTANTS
    Users,     \* user names, normalised
    Ips,       \* client addresses
    Threads,   \* request threads of the web process
    UserMax,   \* _USER_MAX
    IpMax,     \* _IP_MAX
    MaxKeys,   \* _USER_FAILURES_MAX_KEYS
    Window,    \* _WINDOW_SECONDS, in ticks
    MaxLag     \* ticks between a reading of the clock and the lock at most

ASSUME GuardAssumption ==
    /\ {UserMax, IpMax, MaxKeys, Window} \subseteq Nat \ {0}
    /\ MaxLag \in Nat
    /\ IsFiniteSet(Threads)

VARIABLES
    names,    \* the keys of _user_failures, in the order of insertion
    byUser,   \* _user_failures; a name without a key has no failures
    byIp,     \* _ip_failures
    thread,   \* thread[t]: a request of /login
    failed,   \* auxiliary: the refused passwords of each name and address
    raced     \* auxiliary: the names and addresses whose last attempt to pass the
              \* test did so while another one was still to be recorded

vars == <<names, byUser, byIp, thread, failed, raced>>

\* Whatever is older than Oldest is outside every window.
Oldest == Window + MaxLag
Ages == 0..Oldest
NoFailures == [a \in Ages |-> 0]
Count(list) == MapThenSumSet(LAMBDA a : list[a], Ages)

Idle == [pc |-> "idle", user |-> {}, ip |-> {}, lag |-> 0]

Init ==
    /\ names = <<>>
    /\ byUser = [u \in Users |-> NoFailures]
    /\ byIp = [i \in Ips |-> NoFailures]
    /\ thread = [t \in Threads |-> Idle]
    /\ failed = [user |-> byUser, ip |-> byIp]
    /\ raced = [user |-> {}, ip |-> {}]

-----------------------------------------------------------------------------
Older(list) ==
    [a \in Ages |-> IF a = 0 THEN 0
                    ELSE list[a - 1] + IF a = Oldest THEN list[Oldest] ELSE 0]

OlderAll(lists) == [k \in DOMAIN lists |-> Older(lists[k])]

\* Faulty variant: nothing is dropped.
Recent_All(list, lag) == list

\* The entries with t > cutoff, for a clock read lag ticks ago.
Recent(list, lag) == [a \in Ages |-> IF a < Window + lag THEN list[a] ELSE 0]

\* Requests that passed the test and are not yet on record, for a name and for
\* an address.
UnderWay == {t \in Threads : thread[t].pc \in {"auth", "record"}}
UserUnder(u) == {t \in UnderWay : u \in thread[t].user}
IpUnder(i) == {t \in UnderWay : i \in thread[t].ip}

\* Those who read the clock and wait for the lock.
Stamped(t) == thread[t].pc \in {"check", "record"}

Tick ==
    /\ \A t \in Threads : Stamped(t) => thread[t].lag < MaxLag
    /\ byUser' = OlderAll(byUser)
    /\ byIp' = OlderAll(byIp)
    /\ thread' = [t \in Threads |->
                    [thread[t] EXCEPT !.lag = IF Stamped(t) THEN @ + 1 ELSE @]]
    /\ failed' = [user |-> [u \in Users |-> [Older(failed.user[u]) EXCEPT ![Oldest] = 0]],
                  ip |-> [i \in Ips |-> [Older(failed.ip[i]) EXCEPT ![Oldest] = 0]]]
    /\ UNCHANGED <<names, raced>>

\* A login form is posted; _is_rate_limited reads the clock.
Post(t, u, i) ==
    /\ thread[t].pc = "idle"
    /\ thread' = [thread EXCEPT ![t] = [pc |-> "check", user |-> {u}, ip |-> {i}, lag |-> 0]]
    /\ UNCHANGED <<names, byUser, byIp, failed, raced>>

\* Faulty variant: > instead of >=.
Limited_OffByOne(ofUser, ofIp) == Count(ofIp) > IpMax \/ Count(ofUser) > UserMax

Limited(ofUser, ofIp) == Count(ofIp) >= IpMax \/ Count(ofUser) >= UserMax

\* defaultdict: a key that is looked up is there afterwards.
WithKey(ns, u) == IF u \in Range(ns) THEN ns ELSE Append(ns, u)

\* raced, when a request of u from i passes the test.
Racing(u, i) ==
    [user |-> IF UserUnder(u) = {} THEN raced.user \ {u} ELSE raced.user \cup {u},
     ip |-> IF IpUnder(i) = {} THEN raced.ip \ {i} ELSE raced.ip \cup {i}]

\* Faulty variant: a refused attempt is recorded like a failed one.
Check_RecordsRefused(t, u, i) ==
    LET ofUser == Recent(byUser[u], thread[t].lag)
        ofIp == Recent(byIp[i], thread[t].lag)
        more == IF Limited(ofUser, ofIp) /\ Count(ofUser) < 2 * UserMax THEN 1 ELSE 0
    IN  /\ thread[t].pc = "check"
        /\ byUser' = [byUser EXCEPT ![u] = [ofUser EXCEPT ![0] = @ + more]]
        /\ byIp' = [byIp EXCEPT ![i] = ofIp]
        /\ names' = WithKey(names, u)
        /\ thread' = [thread EXCEPT ![t] =
                        IF Limited(ofUser, ofIp) THEN Idle
                        ELSE [@ EXCEPT !.pc = "auth", !.lag = 0]]
        /\ UNCHANGED <<failed, raced>>

\* _is_rate_limited, under _lock.  A refused attempt leaves no trace.
Check(t, u, i) ==
    LET ofUser == Recent(byUser[u], thread[t].lag)
        ofIp == Recent(byIp[i], thread[t].lag)
        limited == Limited(ofUser, ofIp)
    IN  /\ thread[t].pc = "check"
        /\ byUser' = [byUser EXCEPT ![u] = ofUser]
        /\ byIp' = [byIp EXCEPT ![i] = ofIp]
        /\ names' = WithKey(names, u)
        /\ thread' = [thread EXCEPT ![t] =
                        IF limited THEN Idle ELSE [@ EXCEPT !.pc = "auth", !.lag = 0]]
        /\ raced' = IF limited THEN raced ELSE Racing(u, i)
        /\ UNCHANGED failed

\* authenticate, without the lock, raises: users.json is damaged or half written.
\* The answer is a 500, and nothing is recorded.
Raises(t) ==
    /\ thread[t].pc = "auth"
    /\ thread' = [thread EXCEPT ![t] = Idle]
    /\ UNCHANGED <<names, byUser, byIp, failed, raced>>

\* The password is right ...
Accept(t) ==
    /\ thread[t].pc = "auth"
    /\ thread' = [thread EXCEPT ![t].pc = "clear"]
    /\ UNCHANGED <<names, byUser, byIp, failed, raced>>

\* ... or not, and _record_failure reads the clock.  It is enough to know of
\* UserMax (IpMax) failures of one age.
Refuse(t, u, i) ==
    /\ thread[t].pc = "auth"
    /\ thread' = [thread EXCEPT ![t].pc = "record"]
    /\ failed' = [failed EXCEPT !.user[u][0] = Min({@ + 1, UserMax}),
                                !.ip[i][0] = Min({@ + 1, IpMax})]
    /\ UNCHANGED <<names, byUser, byIp, raced>>

\* The names that have to go so that u can come: the oldest key.  The name's own
\* key was inserted by _is_rate_limited, so it is missing only if another
\* request of the same name succeeded in the meantime.
Evicted(u) == IF Len(names) >= MaxKeys /\ u \notin Range(names) THEN {Head(names)} ELSE {}

\* _record_failure, under _lock.
RecordFailure(t, u, i) ==
    /\ thread[t].pc = "record"
    /\ byIp' = [byIp EXCEPT ![i][thread[t].lag] = @ + 1]
    /\ byUser' = [v \in Users |->
                    IF v \in Evicted(u) THEN NoFailures
                    ELSE IF v = u THEN [byUser[u] EXCEPT ![thread[t].lag] = @ + 1]
                    ELSE byUser[v]]
    /\ names' = WithKey(IF Evicted(u) = {} THEN names ELSE Tail(names), u)
    /\ thread' = [thread EXCEPT ![t] = Idle]
    /\ UNCHANGED <<failed, raced>>

\* _clear_failures, under _lock; the session begins.
ClearFailures(t, u, i) ==
    /\ thread[t].pc = "clear"
    /\ byIp' = [byIp EXCEPT ![i] = NoFailures]
    /\ byUser' = [byUser EXCEPT ![u] = NoFailures]
    /\ names' = SelectSeq(names, LAMBDA v : v # u)
    /\ thread' = [thread EXCEPT ![t] = Idle]
    /\ UNCHANGED <<failed, raced>>

Serve(t) ==
    \/ Raises(t)
    \/ Accept(t)
    \/ \E u \in thread[t].user, i \in thread[t].ip :
          Check(t, u, i) \/ Refuse(t, u, i) \/ RecordFailure(t, u, i) \/ ClearFailures(t, u, i)

Next ==
    \/ Tick
    \/ \E t \in Threads, u \in Users, i \in Ips : Post(t, u, i)
    \/ \E t \in Threads : Serve(t)

Spec == Init /\ [][Next]_vars

\* Time passes, and a request that began is served.
FairSpec ==
    /\ Spec
    /\ WF_vars(Tick)
    /\ \A t \in Threads : WF_vars(Serve(t))

-----------------------------------------------------------------------------
(* Properties. *)

Lists == [Ages -> Nat]

\* Every variable holds a value of its kind, no name has two keys, and only
\* names with a key have failures.
TypeOK ==
    /\ names \in Seq(Users) /\ IsInjective(names)
    /\ byUser \in [Users -> Lists]
    /\ byIp \in [Ips -> Lists]
    /\ \A u \in Users : byUser[u] # NoFailures => u \in Range(names)
    /\ thread \in [Threads -> [pc : {"idle", "check", "auth", "record", "clear"},
                               user : SUBSET Users, ip : SUBSET Ips, lag : 0..MaxLag]]
    /\ failed \in [user : [Users -> Lists], ip : [Ips -> Lists]]
    /\ raced \in [user : SUBSET Users, ip : SUBSET Ips]

\* How far the limit may be exceeded: by one for every other thread, but only
\* by attempts that were under way at the same time.
Spare(races, k) == IF k \in races THEN Cardinality(Threads) - 1 ELSE 0

\* The limit of auth_routes.py, and how far it goes: within a window a name (an
\* address) has at most UserMax (IpMax) failures on record and passwords being
\* checked, whatever is cleared, evicted or delayed, if the last attempt to pass
\* the test found no other one between test and record.  If it did, attempts
\* exceed the limit the comment states, by one for every other thread at most,
\* since none of them passes the test twice.
FailuresBounded ==
    /\ \A u \in Users :
          Count(Recent(byUser[u], 0)) + Cardinality(UserUnder(u)) <= UserMax + Spare(raced.user, u)
    /\ \A i \in Ips :
          Count(Recent(byIp[i], 0)) + Cardinality(IpUnder(i)) <= IpMax + Spare(raced.ip, i)

\* The limit is not applied without cause: who is refused did fail UserMax times
\* with this name, or IpMax times from this address, within the window, whatever
\* was cleared, evicted or expired since.
RefusalJustified ==
    [][\A t \in Threads, u \in Users, i \in Ips :
          thread[t].user = {u} /\ thread[t].ip = {i} /\ Check(t, u, i) /\ thread'[t].pc = "idle"
          => LET in(list) == [a \in Ages |-> IF a < Window + thread[t].lag THEN list[a] ELSE 0]
             IN  \/ Count(in(failed.user[u])) >= UserMax
                 \/ Count(in(failed.ip[i])) >= IpMax]_vars

\* No one stays locked out for good, however often the login is tried again in
\* the meantime.
LockoutEnds ==
    /\ \A u \in Users : []<>(Count(Recent(byUser[u], 0)) < UserMax)
    /\ \A i \in Ips : []<>(Count(Recent(byIp[i], 0)) < IpMax)
==============================================================================
