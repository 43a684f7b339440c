--------------------------- MODULE SessionChecker ---------------------------
(***************************************************************************)
(* The revocation check of SSO sessions: make_session_checker in           *)
(* app/tsuite_adapter.py, called by every request of an SSO session        *)
(* through _revalidate_session in app/decorators.py.  The request threads  *)
(* of one web process share the checker's state behind a lock and fetch    *)
(* 4tSuite's list of logouts while holding it.  4tSuite runs on another    *)
(* host, whose clock is Skew ahead; a fetch takes time and may fail.       *)
(*                                                                         *)
(* Points in time are kept on this host's time line: 4tSuite reports a     *)
(* logout made at L as L + Skew, and its server_time as clock + Skew.      *)
(* Zero means "never" throughout.                                          *)
(***************************************************************************)
EXTENDS Integers

CONSTANTS
    Users,        \* users with SSO sessions
    Threads,      \* request threads of the web process
    Cache,        \* CACHE_SECONDS
    Grace,        \* GRACE_SECONDS
    Retry,        \* RETRY_SECONDS
    Skew,         \* 4tSuite's clock minus this host's
    MaxClock      \* bound on the clock

ASSUME CheckerAssumption ==
    /\ Cache \in Nat \ {0}
    /\ Grace \in Nat
    /\ Retry \in Nat
    /\ Skew \in Int
    /\ MaxClock \in Nat

VARIABLES
    clock,      \* time.time() of this host, assumed not to step back
    out,        \* out[u]: when u last logged out of 4tSuite
    login,      \* login[u]: sso_login_at of u's session
    users,      \* state["users"]: the list of logouts fetched last
    offset,     \* state["offset"]
    fetchedAt,  \* state["fetched_at"]
    lastGood,   \* state["last_good"]
    synced,     \* (auxiliary) a fetch succeeded since the process started
    asked,      \* (auxiliary) the `now` of the last fetch since then
    th          \* th[t]: request thread t

vars == <<clock, out, login, users, offset, fetchedAt, lastGood, synced, asked, th>>
state == <<users, offset, fetchedAt, lastGood, synced, asked>>

\* fetched_at is None: older than any cache window.
NeverFetched == -Cache

NoReply == [users |-> [u \in Users |-> 0], at |-> 0]

\* A thread: its place in the handler, the user and login_at it checks, the
\* `now` it read first, the reply it received, its last verdict and
\* (auxiliary) the logout of that user the verdict was based on.
ThreadStates == [pc : {"idle", "wait", "fetch", "reply"}, user : Users,
                 login : Nat, now : Nat, reply : [users : [Users -> Nat], at : Nat],
                 verdict : {"none", "valid", "invalid"}, known : Nat]

Fresh(u) == [pc |-> "idle", user |-> u, login |-> 0, now |-> 0,
             reply |-> NoReply, verdict |-> "none", known |-> 0]

Init ==
    /\ clock = 1
    /\ out = [u \in Users |-> 0]
    /\ login = [u \in Users |-> 0]
    /\ users = [u \in Users |-> 0]
    /\ offset = 0
    /\ fetchedAt = NeverFetched
    /\ lastGood = 1
    /\ synced = FALSE
    /\ asked = 0
    /\ th \in [Threads -> {Fresh(u) : u \in Users}]

Tick ==
    /\ clock < MaxClock
    /\ clock' = clock + 1
    /\ UNCHANGED <<out, login, state, th>>

\* sso_login establishes a session.
Login(u) ==
    /\ login[u] # clock
    /\ login' = [login EXCEPT ![u] = clock]
    /\ UNCHANGED <<clock, out, state, th>>

\* The user logs out of 4tSuite, which records it; nothing is pushed here.
Logout(u) ==
    /\ out[u] # clock
    /\ out' = [out EXCEPT ![u] = clock]
    /\ UNCHANGED <<clock, login, state, th>>

-----------------------------------------------------------------------------
(* sso_session_valid. *)

\* `now` is read before the lock is requested.
Call(t, u) ==
    /\ th[t].pc = "idle"
    /\ login[u] # 0
    /\ th' = [th EXCEPT ![t] = [@ EXCEPT !.pc = "wait", !.user = u,
                                         !.login = login[u], !.now = clock]]
    /\ UNCHANGED <<clock, out, login, state>>

\* The lock is held exactly by a thread that is fetching.
LockFree == \A t \in Threads : th[t].pc \notin {"fetch", "reply"}

\* Faulty variant: no cache window, every check refreshes.
Stale_Always(now) == TRUE

Stale(now) == now - fetchedAt >= Cache

\* Faulty variant: the time stamps are compared without the clock correction.
Valid_NoOffset(t) ==
    LET u == th[t].user
    IN  /\ th[t].now - lastGood' <= Grace
        /\ users'[u] # 0 => users'[u] + Skew <= th[t].login

\* The verdict on the state a refresh may just have changed; a rejected
\* session is cleared by _revalidate_session.
Valid(t) ==
    LET u == th[t].user
    IN  /\ th[t].now - lastGood' <= Grace
        /\ users'[u] # 0 => users'[u] + Skew <= th[t].login + offset'

Decide(t) ==
    LET u == th[t].user
        verdict == IF Valid(t) THEN "valid" ELSE "invalid"
    IN  /\ th' = [th EXCEPT ![t] = [@ EXCEPT !.pc = "idle", !.reply = NoReply,
                                             !.verdict = verdict, !.known = users'[u]]]
        /\ login' = IF verdict = "invalid" /\ login[u] = th[t].login
                    THEN [login EXCEPT ![u] = 0] ELSE login

EnterFresh(t) ==
    /\ th[t].pc = "wait"
    /\ LockFree
    /\ ~Stale(th[t].now)
    /\ UNCHANGED <<clock, out, state>>
    /\ Decide(t)

EnterStale(t) ==
    /\ th[t].pc = "wait"
    /\ LockFree
    /\ Stale(th[t].now)
    /\ th' = [th EXCEPT ![t].pc = "fetch"]
    /\ asked' = th[t].now
    /\ UNCHANGED <<clock, out, login, users, offset, fetchedAt, lastGood, synced>>

\* 4tSuite answers; the reply is under way.
SuiteReplies(t) ==
    /\ th[t].pc = "fetch"
    /\ th' = [th EXCEPT ![t] = [@ EXCEPT !.pc = "reply",
                                         !.reply = [users |-> out, at |-> clock]]]
    /\ UNCHANGED <<clock, out, login, state>>

\* Faulty variant: a good check is dated by the arrival of the reply.
RefreshOk_DatedAtArrival(t) ==
    /\ th[t].pc = "reply"
    /\ users' = th[t].reply.users
    /\ offset' = th[t].reply.at + Skew - th[t].now
    /\ fetchedAt' = th[t].now
    /\ lastGood' = clock
    /\ synced' = TRUE
    /\ UNCHANGED <<clock, out, asked>>
    /\ Decide(t)

\* refresh, success: everything is dated by the `now` read before the lock.
RefreshOk(t) ==
    /\ th[t].pc = "reply"
    /\ users' = th[t].reply.users
    /\ offset' = th[t].reply.at + Skew - th[t].now
    /\ fetchedAt' = th[t].now
    /\ lastGood' = th[t].now
    /\ synced' = TRUE
    /\ UNCHANGED <<clock, out, asked>>
    /\ Decide(t)

\* The wait before the next probe, after a failed one.
RetryAfter(now) ==
    IF now - lastGood > Grace /\ Retry < Cache THEN Retry ELSE Cache

\* Faulty variant: a failed fetch counts as a check.
RefreshFails_CountsAsGood(t) ==
    /\ th[t].pc \in {"fetch", "reply"}
    /\ fetchedAt' = th[t].now
    /\ lastGood' = th[t].now
    /\ UNCHANGED <<clock, out, users, offset, synced, asked>>
    /\ Decide(t)

\* Faulty variant: a failure returns without dating the attempt.
RefreshFails_NotDated(t) ==
    /\ th[t].pc \in {"fetch", "reply"}
    /\ UNCHANGED <<clock, out, state>>
    /\ Decide(t)

\* refresh, failure: unreachable, too slow, too large or malformed.
RefreshFails(t) ==
    /\ th[t].pc \in {"fetch", "reply"}
    /\ fetchedAt' = th[t].now - Cache + RetryAfter(th[t].now)
    /\ UNCHANGED <<clock, out, users, offset, lastGood, synced, asked>>
    /\ Decide(t)

\* The web process restarts: the state is rebuilt by make_session_checker,
\* the sessions live on in their cookies.
Restart ==
    /\ users' = [u \in Users |-> 0]
    /\ offset' = 0
    /\ fetchedAt' = NeverFetched
    /\ lastGood' = clock
    /\ synced' = FALSE
    /\ asked' = 0
    /\ th' = [t \in Threads |-> Fresh(th[t].user)]
    /\ UNCHANGED <<clock, out, login>>

Next ==
    \/ Tick
    \/ \E u \in Users : Login(u) \/ Logout(u)
    \/ \E t \in Threads, u \in Users : Call(t, u)
    \/ \E t \in Threads :
          \/ EnterFresh(t)
          \/ EnterStale(t)
          \/ SuiteReplies(t)
          \/ RefreshOk(t)
          \/ RefreshFails(t)
    \/ Restart

Spec == Init /\ [][Next]_vars

-----------------------------------------------------------------------------
(* Properties. *)

\* Every variable holds a value of its kind.
TypeOK ==
    /\ clock \in Nat \ {0}
    /\ out \in [Users -> Nat]
    /\ login \in [Users -> Nat]
    /\ users \in [Users -> Nat]
    /\ offset \in Int
    /\ fetchedAt \in Int
    /\ lastGood \in Nat
    /\ synced \in BOOLEAN
    /\ asked \in Nat
    /\ th \in [Threads -> ThreadStates]

\* Once a fetch succeeded, the list holds every logout older than last_good,
\* although the reply is made later than the `now` it is dated with, and other
\* logouts happen while it is under way.
KnowsOldLogouts ==
    synced => \A u \in Users : out[u] < lastGood => users[u] = out[u]

Judges(t, verdict) ==
    th[t].pc # "idle" /\ th'[t].pc = "idle" /\ th'[t].verdict = verdict

\* A logout takes effect within the grace: a check that accepts a session
\* either finds no logout older than the grace, or a login that the corrected
\* clocks put after the logout; only a process that has not reached 4tSuite
\* since it started knows no better, and accepts for one grace from its start
\* (last_good is the start then).
RevokedWithinGrace ==
    [][\A t \in Threads : Judges(t, "valid") =>
          LET u == th[t].user
          IN  \/ out[u] = 0
              \/ out[u] + Grace >= th[t].now
              \/ out[u] + Skew <= th[t].login + offset'
              \/ ~synced' /\ th[t].now - lastGood' <= Grace]_vars

\* A session opened at or after its user's last logout is rejected only when
\* no fetch succeeded for longer than the grace: neither the skew nor the
\* latency of the fetch ever ends a session that was not revoked.
NoFalseReject ==
    [][\A t \in Threads : Judges(t, "invalid") =>
          \/ out[th[t].user] > th[t].login
          \/ th[t].now - lastGood' > Grace]_vars

\* "Do not hammer a down server": whatever threads queued up during a slow fetch,
\* the next one asks with a `now` at least a cache window after that of the last
\* fetch, good or failed; only if that one found the grace used up, the shorter
\* retry interval is enough.
ProbesSpaced ==
    [][\A t \in Threads :
          th[t].pc = "wait" /\ th'[t].pc = "fetch" /\ asked # 0 =>
             \/ th[t].now >= asked + Cache
             \/ asked - lastGood > Grace /\ th[t].now >= asked + Retry]_vars

\* While the process lives, the time of the last good check never goes back,
\* although threads read `now` before they queue for the lock.
LastGoodAdvances ==
    [][lastGood' >= lastGood]_vars

\* "Invalid when 4tSuite recorded a logout for that user later than login_at
\* (corrected for clock skew)": no session is accepted on a list that holds a
\* logout made after its login.
RevocationHonoured ==
    \A t \in Threads : th[t].verdict = "valid" /\ th[t].pc = "idle" =>
        th[t].known <= th[t].login
=============================================================================
