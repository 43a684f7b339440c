----------------------------- MODULE StatsCache -----------------------------
(***************************************************************************)
(* The snapshot cache of app/log_stats_cache.py, which                     *)
(* app/threat_stats_cache.py repeats line for line, together with what it  *)
(* is wired to: the SQLite store app/collector_store.py, the rollup        *)
(* history app/log_stats_history.py, the schedulers app/collector.py       *)
(* starts, and the log-statistics part of the executive summary in         *)
(* app/routes/external_api_routes.py.                                      *)
(*                                                                         *)
(* One process, Poller, runs two poll threads: the one-shot "now" thread   *)
(* of poll_now and the interval job "sched".  Every process of Web serves  *)
(* requests on several threads.  With Poller \notin Web this is the        *)
(* collector/web split; with Web = {Poller} it is RUN_SCHEDULERS=inline.   *)
(*                                                                         *)
(* A snapshot is abstracted to its collected_at and the set of targets     *)
(* that answered the poll it was built from; the device lists and counts   *)
(* are functions of those.                                                 *)
(***************************************************************************)
EXTENDS Integers

CONSTANTS
    Poller,       \* the process that runs the schedulers
    Web,          \* the processes that answer requests
    Readers,      \* the request threads of a web process
    Targets,      \* the FortiAnalyzers that are configured and polled
    MayOverlap,   \* TRUE: the first interval may elapse before poll_now ends
    Retention,    \* age in ticks beyond which prune_old_rows drops a row
    MaxClock,     \* bound on the clock
    MaxRestarts   \* bound on the restarts of processes

Procs == Web \cup {Poller}
Jobs == {"now", "sched"}

ASSUME BoundsAssumption ==
    /\ Retention \in Nat
    /\ MaxClock \in Nat \ {0}
    /\ MaxRestarts \in Nat
    /\ MayOverlap \in BOOLEAN

VARIABLES
    clock,     \* wall clock, in ticks; collected_at is read from it
    mem,       \* mem[p]: the module-level _cache of process p
    store,     \* the "log_stats" row of collector_store, Empty if absent
    history,   \* the rows of log_volume_history
    job,       \* job[j]: poll thread j of Poller
    reader,    \* reader[p][r]: request thread r of process p
    restarts,  \* how often a process was restarted
    born       \* (auxiliary) born[p]: store's collected_at when p was started

vars == <<clock, mem, store, history, job, reader, restarts, born>>

Snapshots == [at : 1..MaxClock, ok : SUBSET Targets]

\* collected_at is None: the start-up state of _cache, and "no row" in the store.
Empty == [at |-> 0, ok |-> {}]

JobPcs == {"waiting", "polling", "stamped", "published", "stored", "rolled", "done"}
ReaderPcs == {"idle", "miss", "fetched", "rollup"}

\* A request thread: where it stands in the handler, the row it fetched from
\* the store, its last answer, and (auxiliary, read by properties only) the
\* collected_at of the store at the moment its last request began.
ReaderStates == [pc : ReaderPcs, got : Snapshots \cup {Empty},
                 src : {"unasked", "cache", "rollup", "none"},
                 ans : Snapshots \cup {Empty}, base : 0..MaxClock]

IdleReader == [pc |-> "idle", got |-> Empty, src |-> "unasked", ans |-> Empty, base |-> 0]
IdleJob == [pc |-> "waiting", snap |-> Empty]

Init ==
    /\ clock = 1
    /\ mem = [p \in Procs |-> Empty]
    /\ store = Empty
    /\ history = {}
    /\ job = [j \in Jobs |-> IdleJob]
    /\ reader = [p \in Web |-> [r \in Readers |-> IdleReader]]
    /\ restarts = 0
    /\ born = [p \in Procs |-> 0]

Tick ==
    /\ clock < MaxClock
    /\ clock' = clock + 1
    /\ UNCHANGED <<mem, store, history, job, reader, restarts, born>>

-----------------------------------------------------------------------------
(* The poll threads: poll_all_targets. *)

\* Faulty variant: the interval job is not rescheduled after it ran.
Ended_OneShot(j) == "done"

\* poll_now's thread runs once per process start, the interval job for ever;
\* max_instances=1 keeps the job from overlapping itself, not the thread.
Ended(j) == IF j = "now" THEN "done" ELSE "waiting"

\* Its run is over, and its local variables are gone.
Over(j) == [pc |-> Ended(j), snap |-> Empty]

MayStart(j) ==
    /\ job[j].pc = "waiting"
    /\ j = "sched" /\ ~MayOverlap => job["now"].pc = "done"

StartPoll(j) ==
    /\ MayStart(j)
    /\ job' = [job EXCEPT ![j].pc = "polling"]
    /\ UNCHANGED <<clock, mem, store, history, reader, restarts, born>>

\* Faulty variant: no early return when every target failed.
Collect_NoEarlyReturn(j, ok) ==
    /\ job[j].pc = "polling"
    /\ job' = [job EXCEPT ![j] = [pc |-> "stamped", snap |-> [at |-> clock, ok |-> ok]]]
    /\ UNCHANGED <<clock, mem, store, history, reader, restarts, born>>

\* Faulty variant: collected_at is left None.
Collect_NoTimestamp(j, ok) ==
    /\ job[j].pc = "polling"
    /\ job' = [job EXCEPT ![j] = [pc |-> "stamped", snap |-> [at |-> 0, ok |-> ok]]]
    /\ UNCHANGED <<clock, mem, store, history, reader, restarts, born>>

\* The loop over list_targets: any set of targets may fail.  When none
\* answered the function returns, leaving cache, store and history alone;
\* otherwise collected_at is read here, before the lock is taken.
Collect(j, ok) ==
    /\ job[j].pc = "polling"
    /\ job' = [job EXCEPT ![j] =
                 IF ok = {} THEN Over(j)
                 ELSE [pc |-> "stamped", snap |-> [at |-> clock, ok |-> ok]]]
    /\ UNCHANGED <<clock, mem, store, history, reader, restarts, born>>

\* The fields of _cache are assigned and copied under _lock.
Publish(j) ==
    /\ job[j].pc = "stamped"
    /\ mem' = [mem EXCEPT ![Poller] = job[j].snap]
    /\ job' = [job EXCEPT ![j].pc = "published"]
    /\ UNCHANGED <<clock, store, history, reader, restarts, born>>

\* Faulty variant: INSERT ... ON CONFLICT DO NOTHING.
WriteStore_NoUpdate(j) ==
    /\ job[j].pc = "published"
    /\ store' = IF store = Empty THEN job[j].snap ELSE store
    /\ job' = [job EXCEPT ![j].pc = "stored"]
    /\ UNCHANGED <<clock, mem, history, reader, restarts, born>>

\* collector_store.write_cache, after the lock was released.
WriteStore(j) ==
    /\ job[j].pc = "published"
    /\ store' = job[j].snap
    /\ job' = [job EXCEPT ![j].pc = "stored"]
    /\ UNCHANGED <<clock, mem, history, reader, restarts, born>>

\* Faulty variant: the rollup is written before the store.
WriteRollup_BeforeStore(j) ==
    /\ job[j].pc = "published"
    /\ history' = history \cup {job[j].snap}
    /\ UNCHANGED <<clock, mem, store, job, reader, restarts, born>>

\* history.write_rollup, one more transaction after the store's.
WriteRollup(j) ==
    /\ job[j].pc = "stored"
    /\ history' = history \cup {job[j].snap}
    /\ job' = [job EXCEPT ![j].pc = "rolled"]
    /\ UNCHANGED <<clock, mem, store, reader, restarts, born>>

\* DELETE ... WHERE collected_at < cutoff.  The comparison is on text, and the
\* "+00:00" of a row sorts before the "Z" of the cutoff: a row whose age is
\* exactly the retention goes too.
Kept(rows) == {h \in rows : h.at + Retention > clock}

Prune(j) ==
    /\ job[j].pc = "rolled"
    /\ history' = Kept(history)
    /\ job' = [job EXCEPT ![j] = Over(j)]
    /\ UNCHANGED <<clock, mem, store, reader, restarts, born>>

\* sqlite3 raises (a lock held longer than its timeout, a full disk): the
\* exception leaves poll_all_targets and ends this run of the thread or job.
JobDies(j) ==
    /\ job[j].pc \in {"published", "stored", "rolled"}
    /\ job' = [job EXCEPT ![j] = Over(j)]
    /\ UNCHANGED <<clock, mem, store, history, reader, restarts, born>>

-----------------------------------------------------------------------------
(* A request thread: get_cached, then the summary's fall back on history. *)

Answer(rd, src, snap) ==
    [rd EXCEPT !.pc = "idle", !.got = Empty, !.src = src, !.ans = snap]

\* The first test of get_cached, under _lock.
Request(p, r) ==
    /\ reader[p][r].pc = "idle"
    /\ LET rd == [reader[p][r] EXCEPT !.base = store.at]
       IN  reader' = [reader EXCEPT ![p][r] =
                        IF mem[p] # Empty THEN Answer(rd, "cache", mem[p])
                        ELSE [rd EXCEPT !.pc = "miss"]]
    /\ UNCHANGED <<clock, mem, store, history, job, restarts, born>>

\* Faulty variant: the summary goes from an empty _cache straight to the history.
ReadStore_Skipped(p, r) ==
    /\ reader[p][r].pc = "miss"
    /\ reader' = [reader EXCEPT ![p][r].pc = "rollup"]
    /\ UNCHANGED <<clock, mem, store, history, job, restarts, born>>

\* collector_store.read_cache, with _lock released.
ReadStore(p, r) ==
    /\ reader[p][r].pc = "miss"
    /\ reader' = [reader EXCEPT ![p][r].pc = "fetched", ![p][r].got = store]
    /\ UNCHANGED <<clock, mem, store, history, job, restarts, born>>

\* The lock again: _cache.update(stored), whatever _cache holds by now; with
\* no stored row the current _cache is returned, and an empty one sends
\* executive_summary to the history.
Fill(p, r) ==
    /\ reader[p][r].pc = "fetched"
    /\ LET got == reader[p][r].got
       IN  /\ mem' = IF got # Empty THEN [mem EXCEPT ![p] = got] ELSE mem
           /\ reader' = [reader EXCEPT ![p][r] =
                           IF mem'[p] # Empty THEN Answer(@, "cache", mem'[p])
                           ELSE [@ EXCEPT !.pc = "rollup"]]
    /\ UNCHANGED <<clock, store, history, job, restarts, born>>

\* get_latest_rollup: ORDER BY collected_at DESC LIMIT 1.
Newest(rows) == {h \in rows : \A g \in rows : g.at <= h.at}

ReadRollup(p, r) ==
    /\ reader[p][r].pc = "rollup"
    /\ \/ \E h \in Newest(history) :
             reader' = [reader EXCEPT ![p][r] = Answer(@, "rollup", h)]
       \/ /\ history = {}
          /\ reader' = [reader EXCEPT ![p][r] = Answer(@, "none", Empty)]
    /\ UNCHANGED <<clock, mem, store, history, job, restarts, born>>

\* A request that ends without a reading leaves the client with its last one.
Dropped(rd) == [rd EXCEPT !.pc = "idle", !.got = Empty, !.base = 0]

\* sqlite3 raises in read_cache or get_latest_rollup: the client gets a 500, and
\* _cache stays as it is.
ReadFails(p, r) ==
    /\ reader[p][r].pc \in {"miss", "rollup"}
    /\ reader' = [reader EXCEPT ![p][r] = Dropped(reader[p][r])]
    /\ UNCHANGED <<clock, mem, store, history, job, restarts, born>>

-----------------------------------------------------------------------------
\* A process dies and is started again: its memory and threads are gone, what
\* SQLite committed and what clients were told is not.  A restarted Poller
\* runs init_scheduler again.
Restart(p) ==
    /\ restarts < MaxRestarts
    /\ restarts' = restarts + 1
    /\ born' = [born EXCEPT ![p] = store.at]
    /\ mem' = [mem EXCEPT ![p] = Empty]
    /\ job' = IF p = Poller THEN [j \in Jobs |-> IdleJob] ELSE job
    /\ reader' = IF p \in Web
                 THEN [reader EXCEPT ![p] = [r \in Readers |-> Dropped(reader[p][r])]]
                 ELSE reader
    /\ UNCHANGED <<clock, store, history>>

JobStep(j) ==
    \/ StartPoll(j)
    \/ \E ok \in SUBSET Targets : Collect(j, ok)
    \/ Publish(j)
    \/ WriteStore(j)
    \/ WriteRollup(j)
    \/ Prune(j)
    \/ JobDies(j)

ReaderStep(p, r) ==
    \/ Request(p, r)
    \/ ReadStore(p, r)
    \/ Fill(p, r)
    \/ ReadRollup(p, r)
    \/ ReadFails(p, r)

Next ==
    \/ Tick
    \/ \E j \in Jobs : JobStep(j)
    \/ \E p \in Web, r \in Readers : ReaderStep(p, r)
    \/ \E p \in Procs : Restart(p)

Spec == Init /\ [][Next]_vars

\* Scheduling and environment for liveness: threads are scheduled, requests
\* keep coming, a FortiAnalyzer answers infinitely often, and SQLite does not
\* refuse every write and every read of the store.
SomeTargetAnswers(j) == \E ok \in (SUBSET Targets) \ {{}} : Collect(j, ok)

Fairness ==
    /\ \A j \in Jobs : WF_vars(JobStep(j))
    /\ SF_vars(SomeTargetAnswers("sched"))
    /\ SF_vars(WriteStore("sched"))
    /\ \A p \in Web, r \in Readers :
          /\ WF_vars(ReaderStep(p, r))
          /\ SF_vars(ReadStore(p, r))

FairSpec == Spec /\ Fairness

-----------------------------------------------------------------------------
(* Properties. *)

MaybeSnapshots == Snapshots \cup {Empty}

\* Every variable holds a value of its kind; timestamps never run ahead of the
\* clock's bound.
TypeOK ==
    /\ clock \in 1..MaxClock
    /\ mem \in [Procs -> MaybeSnapshots]
    /\ store \in MaybeSnapshots
    /\ history \in SUBSET Snapshots
    /\ job \in [Jobs -> [pc : JobPcs, snap : MaybeSnapshots]]
    /\ reader \in [Web -> [Readers -> ReaderStates]]
    /\ restarts \in 0..MaxRestarts
    /\ born \in [Procs -> 0..MaxClock]

\* "Stale but honest": a poll in which every target was unreachable reaches
\* neither a cache, the store, the history nor an answer, so a reading with a
\* collected_at always rests on a target that answered.
Honest ==
    \A s \in {store} \cup history \cup {mem[p] : p \in Procs}
              \cup {reader[p][r].ans : p \in Web, r \in Readers} :
        s.at # 0 => s.ok # {}

\* Once the collector's result is in the store, a request that begins after
\* that is answered from a snapshot: never with zeros, and never from a rollup
\* without device details, whatever restarts and other threads do meanwhile.
DetailsOnceStored ==
    \A p \in Web, r \in Readers :
        LET rd == reader[p][r]
        IN  \/ rd.pc = "idle" /\ rd.src \in {"none", "rollup"}
            \/ rd.pc = "rollup"
            => rd.base = 0

\* The store is never behind the history: what get_latest_rollup could return
\* is not newer than the snapshot a read-through returns.
StoreCoversHistory == \A h \in history : h.at <= store.at

\* A read-through sees the collector's most recent result: an answer is at
\* least as new as the store was when the request began.
ReadThroughSeesLatest ==
    \A p \in Web, r \in Readers :
        LET rd == reader[p][r]
        IN  rd.pc = "idle" /\ rd.src # "unasked" => rd.ans.at >= rd.base

\* What the executive summary promises its consumer, see SnapshotFeed: whatever
\* the request threads of a process do between their test of _cache and their
\* overwriting it, no answer is older than what the store held when the process
\* started, or newer than the store; so no client's view goes back over a restart.
Feed == INSTANCE SnapshotFeed WITH
            Servers <- Web,
            Threads <- Readers,
            latest <- store.at,
            floor <- [p \in Web |-> born[p]],
            seen <- [p \in Web |-> [r \in Readers |-> reader[p][r].ans.at]]

FeedSpec == Feed!Spec

\* A cold web process ends up serving snapshots, not zeros or rollups, through
\* the first poll that succeeds and any finite number of restarts.
EveryClientGetsDetails ==
    \A p \in Web, r \in Readers : <>[](reader[p][r].src = "cache")
=============================================================================
