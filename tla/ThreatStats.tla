----------------------------- MODULE ThreatStats -----------------------------
(***************************************************************************)
(* What app/threat_stats_cache.py computes: a poll walks through the       *)
(* FortiAnalyzers and asks each a dozen questions one after the other,     *)
(* while logs keep arriving there; the answers are merged, published,      *)
(* stored and rolled up (app/threat_stats_history.py), and the executive   *)
(* summary builds three of its blocks from them.  How snapshots travel     *)
(* between threads and processes is StatsCache's subject, whose get_cached *)
(* is the same; here one poll and one request run at a time and the        *)
(* subject is what the numbers mean.                                       *)
(*                                                                         *)
(* Countries and failing sources are merged like the signatures, and SSL   *)
(* users and devices with failed logins united like the tunnels; they, and *)
(* the plain sum of failed logins, are left out.  A tunnel is its pair     *)
(* (dvid, name); rows without a name are dropped by the code.              *)
(***************************************************************************)
EXTENDS Integers, FiniteSets, FiniteSetsExt

CONSTANTS
    Targets,      \* the FortiAnalyzers of faz_targets.json
    Severities,   \* SEVERITIES
    Signatures,   \* names of IPS signatures
    Tunnels,      \* IPsec tunnels
    TopN,         \* limit of the top lists
    Day,          \* length of a day, in ticks
    Hours,        \* ADMIN_ACCESS_BUSINESS_HOURS: [from |-> ..., to |-> ...]
    Scenarios     \* initial conditions: the instant, the logs a target may have
                  \* and the target settings a behaviour begins with, and bounds
                  \* on what happens in it

Kinds == {"alert", "ips", "login", "vpn", "odd", "poll", "restart"}

\* The logs of a FortiAnalyzer: unacknowledged alerts, detections of each
\* signature and how many were blocked, the times of admin logins, and for
\* each tunnel which kinds of session rows it has (e_time empty or not).
Logs == [alerts : [Severities -> Nat], hits : [Signatures -> Nat], blocked : Nat,
         logins : SUBSET Int, sess : [Tunnels -> SUBSET {"open", "closed"}]]

Total(c) == MapThenSumSet(LAMBDA s : c[s], DOMAIN c)
Smallest(c) == Min({c[s] : s \in DOMAIN c})

ASSUME ThreatAssumption ==
    /\ TopN \in Nat \ {0}
    /\ Day \in Nat \ {0}
    /\ Hours \in [from : 0..Day, to : 0..Day]
    /\ IsFiniteSet(Targets) /\ IsFiniteSet(Severities)
    /\ IsFiniteSet(Signatures) /\ IsFiniteSet(Tunnels)
    /\ \A c \in Scenarios :
          /\ c.now \in Day .. 2 * Day - 1 /\ c.enabled \subseteq Targets
          /\ c.budget \in [Kinds -> Nat]
          /\ \A logs \in c.logs : logs \in Logs /\ logs.blocked <= Total(logs.hits)

VARIABLES
    faz,       \* faz[f]: what the logs and alerts of f say now
    enabled,   \* the targets with threat_poll_enabled
    now,       \* the instant at which polls begin
    budget,    \* how often events of each kind may still happen
    poll,      \* poll_all_targets
    cache,     \* _cache of the collector
    store,     \* the "threat_stats" row of collector_store
    history,   \* the newest row of threat_stats_history
    web,       \* _cache of the web process
    answer     \* executive_summary: a request that found no snapshot is due to
               \* read the rollup, and the source of the last answer

vars == <<faz, enabled, now, budget, poll, cache, store, history, web, answer>>
fleet == <<faz, enabled, now>>

\* A tick is an interval: a login of tick t happened before t + 1.  Logins before
\* the last 24 hours are all alike: one tick stands for them.
Times == {t \in 0 .. now - 1 : t + Day >= now - 1}

NoLogs == [alerts |-> [s \in Severities |-> 0], hits |-> [s \in Signatures |-> 0],
           blocked |-> 0, logins |-> {}, sess |-> [k \in Tunnels |-> {}]]

\* No list, no answer yet.
Nothing == [x \in {} |-> 0]

-----------------------------------------------------------------------------
(* A poll: the targets to come, the one being asked, the calls it has       *)
(* answered (part), the results so far and the merged snapshot.  Auxiliary: *)
(* noise, what disturbed the poll; stay, the tunnels that were up (down) on  *)
(* a target ever since the poll began.                                      *)

NoPart == [total |-> 0, sev |-> Nothing, detections |-> 0, blocked |-> 0, top |-> Nothing,
           logins |-> 0, outside |-> 0, tunnels |-> {}, up |-> {}]

\* collected_at is None.
NoSnap == [at |-> 0, alerts |-> 0, sev |-> [s \in Severities |-> 0], detections |-> 0,
           blocked |-> 0, top |-> Nothing, outside |-> 0, tunnels |-> 0, down |-> 0]

IdlePoll == [pc |-> "idle", n |-> 0, todo |-> {}, part |-> NoPart, shifted |-> FALSE,
             res |-> Nothing, snap |-> NoSnap, noise |-> {}, f |-> {},
             stay |-> [up |-> {}, down |-> {}]]

UpOn(f, k) == "open" \in faz[f].sess[k]
DownOn(f, k) == faz[f].sess[k] = {"closed"}

Init ==
    /\ \E c \in Scenarios :
          /\ faz \in [Targets -> c.logs]
          /\ enabled = c.enabled /\ now = c.now /\ budget = c.budget
    /\ poll = IdlePoll
    /\ cache = NoSnap /\ store = NoSnap /\ history = NoSnap /\ web = NoSnap
    /\ answer = [due |-> FALSE, snap |-> NoSnap]

-----------------------------------------------------------------------------
(* The FortiAnalyzers, whose logs change at any time. *)

Spend(kind) ==
    /\ budget[kind] > 0
    /\ budget' = [budget EXCEPT ![kind] = @ - 1]

Event(kind, f, logs) ==
    /\ Spend(kind)
    /\ faz' = [faz EXCEPT ![f] = logs]
    /\ poll' = [poll EXCEPT
          !.noise = @ \cup {"event"},
          !.stay.up = {x \in @ : "open" \in faz'[x[1]].sess[x[2]]},
          !.stay.down = {x \in @ : faz'[x[1]].sess[x[2]] = {"closed"}}]
    /\ UNCHANGED <<enabled, now, cache, store, history, web, answer>>

AlertRaised(f, s) == Event("alert", f, [faz[f] EXCEPT !.alerts[s] = @ + 1])

Acknowledged(f, s) ==
    /\ faz[f].alerts[s] > 0
    /\ Event("alert", f, [faz[f] EXCEPT !.alerts[s] = @ - 1])

Detected(f, s, blocked) ==
    Event("ips", f, [faz[f] EXCEPT !.hits[s] = @ + 1,
                                   !.blocked = IF blocked THEN @ + 1 ELSE @])

\* Logs arrive late: a login of any earlier time may turn up.
LoginLogged(f, t) ==
    /\ t \notin faz[f].logins
    /\ Event("login", f, [faz[f] EXCEPT !.logins = @ \cup {t}])

SessionOpens(f, k) ==
    /\ ~UpOn(f, k)
    /\ Event("vpn", f, [faz[f] EXCEPT !.sess[k] = @ \cup {"open"}])

\* One of the open sessions ends; it need not be the only one.
SessionCloses(f, k, last) ==
    /\ UpOn(f, k)
    /\ Event("vpn", f, [faz[f] EXCEPT !.sess[k] =
                          (IF last THEN {} ELSE {"open"}) \cup {"closed"}])

\* The closed sessions leave the 24 hours.
SessionForgotten(f, k) ==
    /\ "closed" \in faz[f].sess[k]
    /\ Event("vpn", f, [faz[f] EXCEPT !.sess[k] = @ \ {"closed"}])

-----------------------------------------------------------------------------
(* poll_all_targets and _poll_one_target. *)

StartPoll ==
    /\ poll.pc = "idle"
    /\ Spend("poll")
    /\ poll' = [IdlePoll EXCEPT
          !.pc = "next", !.n = poll.n + 1, !.todo = enabled,
          !.stay = [up |-> {x \in Targets \X Tunnels : UpOn(x[1], x[2])},
                    down |-> {x \in Targets \X Tunnels : DownOn(x[1], x[2])}]]
    /\ UNCHANGED <<fleet, cache, store, history, web, answer>>

Odd(sound, kind) == IF sound THEN {} ELSE {kind}

\* The number of odd answers of a behaviour is bounded.
Noticed(noise) == IF noise = {} THEN UNCHANGED budget ELSE Spend("odd")

\* An answer of the target under way: the next call, what is known after it,
\* and what is wrong with the answer.
Answered(call, next, part, noise) ==
    /\ poll.pc = call
    /\ Noticed(noise)
    /\ poll' = [poll EXCEPT !.pc = next, !.part = part, !.noise = @ \cup noise]
    /\ UNCHANGED <<fleet, cache, store, history, web, answer>>

BeginTarget(f) ==
    /\ poll.pc = "next"
    /\ f \in poll.todo
    /\ poll' = [poll EXCEPT !.pc = "total", !.f = {f}, !.part = NoPart, !.shifted = FALSE,
                            !.todo = @ \ {f}]
    /\ UNCHANGED <<fleet, budget, cache, store, history, web, answer>>

\* get_alert_counts: an answer of an unknown shape counts as zero.
GetTotal(f, sound) ==
    Answered("total", "sev",
             [poll.part EXCEPT !.total = IF sound THEN Total(faz[f].alerts) ELSE 0],
             Odd(sound, "answer"))

GetSeverity(f, s, sound) ==
    LET sev == poll.part.sev
        c == IF sound THEN faz[f].alerts[s] ELSE 0
        sev2 == [x \in DOMAIN sev \cup {s} |-> IF x = s THEN c ELSE sev[x]]
    IN  /\ s \notin DOMAIN sev
        /\ Answered("sev", IF DOMAIN sev2 = Severities THEN "types" ELSE "sev",
                    [poll.part EXCEPT !.sev = sev2], Odd(sound, "answer"))

\* The rows of the time range asked for.  If local_time_range could not learn
\* the appliance's time zone the range is some other one, here one without logs.
Rows(f) == IF poll.shifted THEN NoLogs ELSE faz[f]

\* _last_24h_range, local_time_range and "top-type": both numbers of the ips row.
RunTopType(f, shifted) ==
    /\ poll.pc = "types"
    /\ Noticed(Odd(~shifted, "range"))
    /\ LET r == IF shifted THEN NoLogs ELSE faz[f]
       IN  poll' = [poll EXCEPT !.pc = "threats", !.shifted = shifted,
                      !.noise = @ \cup Odd(~shifted, "range"),
                      !.part.detections = Total(r.hits), !.part.blocked = r.blocked]
    /\ UNCHANGED <<fleet, cache, store, history, web, answer>>

\* The ways to take the n largest counts of c, ties in any order.
Tops(c, n) ==
    {[s \in S |-> c[s]] : S \in {S \in SUBSET DOMAIN c :
        /\ Cardinality(S) = Min({n, Cardinality(DOMAIN c)})
        /\ \A x \in S, y \in DOMAIN c \ S : c[x] >= c[y]}}

\* "top-threats" with limit: the signatures that were detected at all.
RunTopThreats(f, top) ==
    LET hits == Rows(f).hits
        seen == {s \in Signatures : hits[s] > 0}
    IN  /\ top \in Tops([s \in seen |-> hits[s]], TopN)
        /\ Answered("threats", "logins", [poll.part EXCEPT !.top = top], {})

\* "admin-logins" over the 24 hours before now.
RunAdminLogins(f) ==
    Answered("logins", "hours",
             [poll.part EXCEPT !.logins = Cardinality(Rows(f).logins \cap (now - Day .. now - 1))],
             {})

Midnight == now - (now % Day)

\* _business_hours_range: today's hours so far.  None (here: no instant) before
\* they start; a malformed setting, like one that wraps around midnight, has
\* from >= to.
BusinessRange ==
    LET today == Midnight
        from == today + Hours.from
        to == Min({today + Hours.to, now})
    IN  IF from >= to THEN {} ELSE from .. to - 1

\* Faulty variant: no max(..., 0).
RunBusinessLogins_NoFloor(f, shifted) ==
    LET rows == IF shifted THEN {} ELSE faz[f].logins
        outside == poll.part.logins - Cardinality(rows \cap BusinessRange)
    IN  Answered("hours", "vpn", [poll.part EXCEPT !.outside = outside],
                 Odd(~shifted, "range"))

\* "admin-logins" again, over the business hours; the range is converted anew.
RunBusinessLogins(f, shifted) ==
    LET rows == IF shifted THEN {} ELSE faz[f].logins
        outside == Max({poll.part.logins - Cardinality(rows \cap BusinessRange), 0})
    IN  Answered("hours", "vpn", [poll.part EXCEPT !.outside = outside],
                 Odd(~shifted, "range"))

\* tunnel_up: some row of the tunnel has no e_time.
TunnelUp(rows) == "open" \in rows

\* "site-to-site-ipsec"; it is the last question.
RunSiteToSite(f) ==
    LET sess == Rows(f).sess
        seen == {k \in Tunnels : sess[k] # {}}
    IN  Answered("vpn", "answered",
                 [poll.part EXCEPT !.tunnels = seen,
                                   !.up = {k \in seen : TunnelUp(sess[k])}], {})

\* Faulty variant: what a target answered before it failed is kept.
TargetDone_Partial ==
    /\ poll.f # {} /\ DOMAIN poll.part.sev = Severities
    /\ poll' = [poll EXCEPT !.pc = "next", !.f = {}, !.part = NoPart,
          !.res = [x \in DOMAIN @ \cup poll.f |-> IF x \in poll.f THEN poll.part ELSE @[x]]]
    /\ UNCHANGED <<fleet, budget, cache, store, history, web, answer>>

\* results.append
TargetDone ==
    /\ poll.pc = "answered"
    /\ poll' = [poll EXCEPT !.pc = "next", !.f = {}, !.part = NoPart,
          !.res = [x \in DOMAIN @ \cup poll.f |-> IF x \in poll.f THEN poll.part ELSE @[x]]]
    /\ UNCHANGED <<fleet, budget, cache, store, history, web, answer>>

\* A call raises (refused, timed out, or run_fortiview's deadline): nothing of
\* this target is kept and the loop goes on.
TargetFails ==
    /\ poll.f # {}
    /\ poll.pc # "answered"
    /\ poll' = [poll EXCEPT !.pc = "next", !.f = {}, !.part = NoPart, !.shifted = FALSE]
    /\ UNCHANGED <<fleet, budget, cache, store, history, web, answer>>

Answering == DOMAIN poll.res

\* Faulty variant: the merged list is sorted without reverse=True.
MergeTopLists_Ascending(res) ==
    LET names == UNION {DOMAIN res[f].top : f \in DOMAIN res}
        of(s) == {f \in DOMAIN res : s \in DOMAIN res[f].top}
        sum == [s \in names |-> Total([f \in of(s) |-> res[f].top[s]])]
    IN  {[s \in DOMAIN t |-> sum[s]] : t \in Tops([s \in names |-> -sum[s]], TopN)}

\* _merge_top_lists: counts of a name are added up, and the largest kept.
MergeTopLists(res) ==
    LET names == UNION {DOMAIN res[f].top : f \in DOMAIN res}
        of(s) == {f \in DOMAIN res : s \in DOMAIN res[f].top}
    IN  Tops([s \in names |-> Total([f \in of(s) |-> res[f].top[s]])], TopN)

\* Faulty variant: what is down on one target is down.
TunnelsDown_PerTarget(res) ==
    UNION {res[f].tunnels \ res[f].up : f \in DOMAIN res}

\* all_tunnel_names - all_up_tunnel_names
TunnelsDown(res) ==
    (UNION {res[f].tunnels : f \in DOMAIN res}) \ (UNION {res[f].up : f \in DOMAIN res})

\* polled_ok is False: cache and history are left alone.
NothingPolled ==
    /\ poll.pc = "next" /\ poll.todo = {} /\ poll.res = Nothing
    /\ poll' = [IdlePoll EXCEPT !.n = poll.n]
    /\ UNCHANGED <<fleet, budget, cache, store, history, web, answer>>

Merge(top) ==
    /\ poll.pc = "next" /\ poll.todo = {} /\ poll.res # Nothing
    /\ top \in MergeTopLists(poll.res)
    /\ poll' = [poll EXCEPT !.pc = "publish", !.snap =
          [at |-> poll.n,
           alerts |-> Total([f \in Answering |-> poll.res[f].total]),
           sev |-> [s \in Severities |-> Total([f \in Answering |-> poll.res[f].sev[s]])],
           detections |-> Total([f \in Answering |-> poll.res[f].detections]),
           blocked |-> Total([f \in Answering |-> poll.res[f].blocked]),
           top |-> top,
           outside |-> Total([f \in Answering |-> poll.res[f].outside]),
           tunnels |-> Cardinality(UNION {poll.res[f].tunnels : f \in Answering}),
           down |-> Cardinality(TunnelsDown(poll.res))]]
    /\ UNCHANGED <<fleet, budget, cache, store, history, web, answer>>

Publish ==
    /\ poll.pc = "publish"
    /\ cache' = poll.snap
    /\ poll' = [IdlePoll EXCEPT !.pc = "store", !.n = poll.n, !.snap = poll.snap]
    /\ UNCHANGED <<fleet, budget, store, history, web, answer>>

WriteStore ==
    /\ poll.pc = "store"
    /\ store' = poll.snap
    /\ poll' = [poll EXCEPT !.pc = "rollup"]
    /\ UNCHANGED <<fleet, budget, cache, history, web, answer>>

\* init_db, write_rollup and prune_old_rows; the newest row is what is read.
WriteRollup ==
    /\ poll.pc = "rollup"
    /\ history' = poll.snap
    /\ poll' = [IdlePoll EXCEPT !.n = poll.n]
    /\ UNCHANGED <<fleet, budget, cache, store, web, answer>>

\* SQLite refuses a write: the poll ends there.
WriteFails ==
    /\ poll.pc \in {"store", "rollup"}
    /\ poll' = [IdlePoll EXCEPT !.n = poll.n]
    /\ UNCHANGED <<fleet, budget, cache, store, history, web, answer>>

RestartCollector ==
    /\ Spend("restart")
    /\ cache' = NoSnap
    /\ poll' = [IdlePoll EXCEPT !.n = poll.n]
    /\ UNCHANGED <<fleet, store, history, web, answer>>

-----------------------------------------------------------------------------
(* executive_summary in the web process. *)

\* get_cached with its read-through.  _build_threats, _build_admin_access and
\* _build_vpn all take what it returns, if that was ever collected.
GetCached ==
    LET c == IF web.at # 0 THEN web ELSE store
    IN  /\ ~answer.due
        /\ web' = c
        /\ answer' = IF c.at # 0 THEN [answer EXCEPT !.snap = c]
                                 ELSE [answer EXCEPT !.due = TRUE]
        /\ UNCHANGED <<fleet, budget, poll, cache, store, history>>

\* Otherwise the newest rollup is read, some time later, and they take it, or
\* zeros if there is none.
GetLatestRollup ==
    /\ answer.due
    /\ answer' = [due |-> FALSE, snap |-> history]
    /\ UNCHANGED <<fleet, budget, poll, cache, store, history, web>>

RestartWeb ==
    /\ Spend("restart")
    /\ web' = NoSnap
    /\ answer' = [answer EXCEPT !.due = FALSE]
    /\ UNCHANGED <<fleet, poll, cache, store, history>>

-----------------------------------------------------------------------------
FazStep ==
    \E f \in Targets :
        \/ \E s \in Severities : AlertRaised(f, s) \/ Acknowledged(f, s)
        \/ \E s \in Signatures, b \in BOOLEAN : Detected(f, s, b)
        \/ \E t \in Times : LoginLogged(f, t)
        \/ \E k \in Tunnels : \/ SessionOpens(f, k)
                              \/ SessionForgotten(f, k)
                              \/ \E last \in BOOLEAN : SessionCloses(f, k, last)

Ask(f) ==
    \/ \E ok \in BOOLEAN : GetTotal(f, ok) \/ \E s \in Severities : GetSeverity(f, s, ok)
    \/ \E x \in BOOLEAN : RunTopType(f, x) \/ RunBusinessLogins(f, x)
    \/ \E S \in SUBSET Signatures : RunTopThreats(f, [s \in S |-> Rows(f).hits[s]])
    \/ RunAdminLogins(f)
    \/ RunSiteToSite(f)

PollStep ==
    \/ StartPoll
    \/ \E f \in Targets : BeginTarget(f)
    \/ \E f \in poll.f : Ask(f)
    \/ TargetDone
    \/ TargetFails
    \/ NothingPolled
    \/ \E top \in MergeTopLists(poll.res) : Merge(top)
    \/ Publish
    \/ WriteStore
    \/ WriteRollup
    \/ WriteFails

Next == FazStep \/ PollStep \/ RestartCollector \/ GetCached \/ GetLatestRollup \/ RestartWeb

Spec == Init /\ [][Next]_vars

-----------------------------------------------------------------------------
(* Properties. *)

\* The logins before now that fall into the business hours of some day, and
\* those of them the code calls so.
InHours(t) == t % Day \in Hours.from .. Hours.to - 1
Window(f) == faz[f].logins \cap (now - Day .. now - 1)
TrueOutside == Total([f \in Answering |-> Cardinality({t \in Window(f) : ~InHours(t)})])
Yesterday == Total([f \in Answering |->
                Cardinality({t \in Window(f) : InHours(t) /\ t < Midnight})])

Undisturbed == poll.pc = "publish" /\ poll.noise = {}

\* The dozen answers of a poll, taken one after the other from several targets,
\* some of which fail on the way, are what one look at the targets that did
\* answer would show, when nothing changes during the poll and all answers are
\* understood.  Only the logins of yesterday's business hours are taken for
\* outside logins.
UndisturbedPollExact ==
    Undisturbed =>
        /\ poll.snap.alerts = Total([f \in Answering |-> Total(faz[f].alerts)])
        /\ Total(poll.snap.sev) = poll.snap.alerts
        /\ poll.snap.detections = Total([f \in Answering |-> Total(faz[f].hits)])
        /\ poll.snap.tunnels =
              Cardinality({k \in Tunnels : \E f \in Answering : faz[f].sess[k] # {}})
        /\ poll.snap.outside = TrueOutside + Yesterday

\* A tunnel that has an open session on some answering target throughout the
\* poll is not counted as down, also when another target shows it closed; one
\* that is closed on every answering target throughout the poll is.
DownBracketed ==
    poll.pc = "publish" /\ "range" \notin poll.noise =>
        LET up == {x[2] : x \in {y \in poll.stay.up : y[1] \in Answering}}
            down == {k \in Tunnels : \A f \in Answering : <<f, k>> \in poll.stay.down}
        IN  /\ poll.snap.down + Cardinality(up) <= poll.snap.tunnels
            /\ poll.snap.down >= Cardinality(down)

\* No poll publishes and no summary shows impossible numbers, although logs
\* arrive between the questions: no negative count (a late login may turn up in
\* the business hours only), no more blocked detections than detections
\* (ips_blocked_pct is a percentage), no more tunnels down than tunnels, no list
\* beyond its limit.
NumbersPossible ==
    \A s \in {poll.snap, cache, store, history, web, answer.snap} :
        /\ s.alerts \in Nat /\ s.outside \in Nat
        /\ s.blocked \in 0..s.detections
        /\ s.down \in 0..s.tunnels
        /\ Cardinality(DOMAIN s.top) <= TopN

\* The fleet's count of s.
Fleet(s) == Total([f \in Answering |-> faz[f].hits[s]])

\* What the list of f may hide of s: nothing if s is on it or it has room.
Hidden(f, s) ==
    LET top == poll.res[f].top
    IN  IF s \in DOMAIN top \/ Cardinality(DOMAIN top) < TopN THEN 0 ELSE Smallest(top)

\* The fleet's top list is made of the targets' top lists.  It never shows more
\* than the fleet's count, and a signature it does not show has at most the
\* smallest count it shows plus what the targets' own lists cut off.
TopListBounded ==
    Undisturbed =>
        LET top == poll.snap.top
            last == IF Cardinality(DOMAIN top) < TopN THEN 0 ELSE Smallest(top)
        IN  /\ \A s \in DOMAIN top : top[s] <= Fleet(s)
            /\ \A s \in Signatures \ DOMAIN top :
                  Fleet(s) <= last + Total([f \in Answering |-> Hidden(f, s)])

\* What the comment on _business_hours_range claims: only a poll shortly after
\* midnight, before the business hours start, overestimates.
OverestimateOnlyBeforeHours ==
    Undisturbed /\ now % Day > Hours.from => poll.snap.outside <= TrueOutside
==============================================================================
