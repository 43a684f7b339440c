------------------------------ MODULE FazHealth ------------------------------
(***************************************************************************)
(* The per-appliance health cache app/faz_health_cache.py in the           *)
(* collector/web split, with the two things it shares with the rest: the   *)
(* configured targets (app/faz_targets.py, edited through                  *)
(* app/routes/admin_routes.py) and the "faz_health" row of                 *)
(* app/collector_store.py.  Unlike StatsCache's snapshot, this cache is    *)
(* filled target by target and merged label by label.                      *)
(*                                                                         *)
(* An entry is abstracted to the host it was read from, whether the host   *)
(* could be reached ("up" stands for green, yellow and red) and its        *)
(* last_updated.  faz_targets.json is truncated and then written, under a  *)
(* lock of the web process that the collector's process does not know.     *)
(***************************************************************************)
EXTENDS Integers

CONSTANTS
    Labels,       \* names a target may have
    Hosts,        \* hosts a target may point to
    Readers,      \* request threads of the web process that list the targets
    Admins,       \* request threads of the web process that edit the targets
    Scenarios     \* initial conditions: the targets configured at first, whether
                  \* the first interval may elapse before poll_now ends, and
                  \* bounds on the ticks, edits, requests and restarts

Kinds == {"tick", "edit", "request", "collector", "web"}
Lists == [Labels -> Hosts \cup {"unset"}]

ASSUME HealthAssumption ==
    /\ "unset" \notin Hosts
    /\ \A c \in Scenarios :
          c.targets \in Lists /\ c.overlap \in BOOLEAN /\ c.left \in [Kinds -> Nat]

VARIABLES
    clock,     \* wall clock, in ticks
    left,      \* left[k]: how often events of kind k may still happen
    overlap,   \* the first interval may elapse before poll_now ends
    file,      \* faz_targets.json: does it parse, and what was written last
    edit,      \* edit[e]: request thread e of the admin page
    cache,     \* _cache of the collector
    webCache,  \* _cache of the web process
    store,     \* the "faz_health" row of collector_store
    job,       \* job[j]: poll thread j of the collector
    reader,    \* reader[r]: request thread r of the web process
    due,       \* auxiliary: what the store held when the request of r found the
               \* web process's cache empty, less what a write dropped since
    acked      \* auxiliary: the targets as acknowledged to the administrators,
               \* and whether no save was ever interrupted

files == <<file, edit, acked>>
caches == <<cache, webCache, store>>
vars == <<clock, left, overlap, files, caches, job, reader, due>>

Spend(k) ==
    /\ left[k] > 0
    /\ left' = [left EXCEPT ![k] = @ - 1]

Jobs == {"now", "sched"}

Entries == [host : Hosts, status : {"up", "offline"}, at : 1..clock]
NoEntry == [host |-> "unset", status |-> "gray", at |-> 0]
Caches == [Labels -> Entries \cup {NoEntry}]
NoEntries == [l \in Labels |-> NoEntry]

\* dict.update: the entries of d replace those of c.
Updated(c, d) == [l \in Labels |-> IF d[l] # NoEntry THEN d[l] ELSE c[l]]

\* _load: the host of each label, "unset" if there is none.  A file that does
\* not parse is an empty list of targets.
Load == IF file.ok THEN file.list ELSE [l \in Labels |-> "unset"]

Configured == {l \in Labels : Load[l] # "unset"}

\* Faulty variant: the lock is not taken.
LockFree_Ignored == TRUE

\* _lock of faz_targets, in the web process: edits and listings exclude each other.
LockFree == \A e \in Admins : edit[e].pc = "idle"

IdleEdit == [pc |-> "idle", label |-> {}, list |-> [l \in Labels |-> "unset"]]

\* A poll thread: the list it works through, what is left of it, when it began,
\* the result it is about to record (an entry for one label) and the snapshot
\* it is about to store.
IdleJob == [pc |-> "waiting", list |-> {}, todo |-> {}, start |-> 0,
            result |-> NoEntries, snap |-> NoEntries]

\* A request thread: its copy of _cache, the row it fetched, and the cards it
\* returned (a function on the labels configured then).
IdleReader == [pc |-> "idle", view |-> NoEntries, got |-> NoEntries,
               cards |-> <<>>]

Init ==
    /\ \E c \in Scenarios :
          /\ left = c.left
          /\ overlap = c.overlap
          /\ file = [ok |-> TRUE, list |-> c.targets]
          /\ acked = [list |-> c.targets, intact |-> TRUE]
    /\ clock = 1
    /\ edit = [e \in Admins |-> IdleEdit]
    /\ cache = NoEntries
    /\ webCache = NoEntries
    /\ store = NoEntries
    /\ job = [j \in Jobs |-> IdleJob]
    /\ reader = [r \in Readers |-> IdleReader]
    /\ due = [r \in Readers |-> NoEntries]

Tick ==
    /\ Spend("tick")
    /\ clock' = clock + 1
    /\ UNCHANGED <<overlap, files, caches, job, reader, due>>

-----------------------------------------------------------------------------
(* Administration of the targets. *)

\* create_target, update_target and delete_target (h = "unset") read the file
\* under the lock; a label cannot be created twice, and what is not there is
\* neither updated nor deleted.
EditLoad(e, l, h) ==
    /\ edit[e].pc = "idle"
    /\ LockFree
    /\ h # "unset" \/ Load[l] # "unset"
    /\ Spend("edit")
    /\ edit' = [edit EXCEPT ![e] = [pc |-> "loaded", label |-> {l},
                                   list |-> [Load EXCEPT ![l] = h]]]
    /\ UNCHANGED <<clock, overlap, file, acked, caches, job, reader, due>>

\* _save: open("w") truncates.
EditOpen(e) ==
    /\ edit[e].pc = "loaded"
    /\ edit' = [edit EXCEPT ![e].pc = "opened"]
    /\ file' = [file EXCEPT !.ok = FALSE]
    /\ UNCHANGED <<clock, left, overlap, acked, caches, job, reader, due>>

\* _save: json.dump; the request is acknowledged.  No cache is told.
EditDump(e) ==
    /\ edit[e].pc = "opened"
    /\ file' = [ok |-> TRUE, list |-> edit[e].list]
    /\ edit' = [edit EXCEPT ![e] = IdleEdit]
    /\ acked' = [acked EXCEPT !.list = [l \in Labels |->
                   IF l \in edit[e].label THEN edit[e].list[l] ELSE @[l]]]
    /\ UNCHANGED <<clock, left, overlap, caches, job, reader, due>>

-----------------------------------------------------------------------------
(* The collector: poll_all_targets. *)

\* Faulty variant: the interval job is not rescheduled after it ran.
Ended_OneShot(j) == "done"

Ended(j) == IF j = "now" THEN "done" ELSE "waiting"

\* list_targets is read once, at the start of a cycle.
StartPoll(j) ==
    /\ job[j].pc = "waiting"
    /\ j = "sched" /\ ~overlap => job["now"].pc = "done"
    /\ job' = [job EXCEPT ![j] = [IdleJob EXCEPT
                 !.pc = "polling", !.start = clock,
                 !.list = Configured,
                 !.todo = {<<l, Load[l]>> : l \in Configured}]]
    /\ UNCHANGED <<clock, left, overlap, files, caches, reader, due>>

\* What _poll_target returns for the label and host x.
Polled(x, status) ==
    [NoEntries EXCEPT ![x[1]] = [host |-> x[2], status |-> status, at |-> clock]]

\* Faulty variant: an exception of one target ends the loop.
PollTarget_Aborts(j, x, status) ==
    /\ job[j].pc = "polling"
    /\ x \in job[j].todo
    /\ job' = [job EXCEPT ![j] = [@ EXCEPT
                 !.pc = "polled", !.todo = IF status = "up" THEN @ \ {x} ELSE {},
                 !.result = Polled(x, status)]]
    /\ UNCHANGED <<clock, left, overlap, files, caches, reader, due>>

\* _poll_target: an unreachable, refusing or malformed target yields an
\* "offline" entry and the cycle goes on with the next one.
PollTarget(j, x, status) ==
    /\ job[j].pc = "polling"
    /\ x \in job[j].todo
    /\ job' = [job EXCEPT ![j] = [job[j] EXCEPT
                 !.pc = "polled", !.todo = @ \ {x},
                 !.result = Polled(x, status)]]
    /\ UNCHANGED <<clock, left, overlap, files, caches, reader, due>>

\* _cache[label] = result, under _lock.
Record(j) ==
    /\ job[j].pc = "polled"
    /\ cache' = Updated(cache, job[j].result)
    /\ job' = [job EXCEPT ![j] = [@ EXCEPT !.pc = "polling", !.result = NoEntries]]
    /\ UNCHANGED <<clock, left, overlap, files, webCache, store, reader, due>>

\* Faulty variant: the snapshot is taken and stored before the list is done.
Snapshot_Partial(j) ==
    /\ job[j].pc = "polling"
    /\ job' = [job EXCEPT ![j] = [@ EXCEPT !.pc = "snapped", !.snap = cache]]
    /\ UNCHANGED <<clock, left, overlap, files, caches, reader, due>>

\* snapshot = dict(_cache), under _lock: entries of deleted labels included.
Snapshot(j) ==
    /\ job[j].pc = "polling"
    /\ job[j].todo = {}
    /\ job' = [job EXCEPT ![j] = [@ EXCEPT !.pc = "snapped", !.snap = cache]]
    /\ UNCHANGED <<clock, left, overlap, files, caches, reader, due>>

\* The row is replaced as a whole, after the lock was released.
WriteStore(j) ==
    /\ job[j].pc = "snapped"
    /\ store' = job[j].snap
    /\ job' = [job EXCEPT ![j] = [IdleJob EXCEPT !.pc = Ended(j)]]
    /\ due' = [r \in Readers |-> [l \in Labels |->
                 IF job[j].snap[l] = NoEntry THEN NoEntry ELSE due[r][l]]]
    /\ UNCHANGED <<clock, left, overlap, files, cache, webCache, reader>>

\* SQLite refuses the write; the exception ends this cycle.
WriteFails(j) ==
    /\ job[j].pc = "snapped"
    /\ job' = [job EXCEPT ![j] = [IdleJob EXCEPT !.pc = Ended(j)]]
    /\ UNCHANGED <<clock, left, overlap, files, caches, reader, due>>

-----------------------------------------------------------------------------
(* A request thread: get_all_cached. *)

Request(r) ==
    /\ reader[r].pc = "idle"
    /\ Spend("request")
    /\ reader' = [reader EXCEPT ![r] = [IdleReader EXCEPT
                    !.view = webCache,
                    !.pc = IF webCache = NoEntries THEN "miss" ELSE "list"]]
    /\ due' = [due EXCEPT ![r] = IF webCache = NoEntries THEN store ELSE NoEntries]
    /\ UNCHANGED <<clock, overlap, files, caches, job>>

ReadStore(r) ==
    /\ reader[r].pc = "miss"
    /\ reader' = [reader EXCEPT ![r] = [@ EXCEPT
                    !.got = store,
                    !.pc = IF store = NoEntries THEN "list" ELSE "fill"]]
    /\ UNCHANGED <<clock, left, overlap, files, caches, job, due>>

\* read_cache raises an SQLite error: a 500, and no new cards.
ReadFails(r) ==
    /\ reader[r].pc = "miss"
    /\ reader' = [reader EXCEPT ![r] = [@ EXCEPT !.pc = "idle"]]
    /\ due' = [due EXCEPT ![r] = NoEntries]
    /\ UNCHANGED <<clock, left, overlap, files, caches, job>>

\* Faulty variant: the row fills only the gaps, as with dict.setdefault.
Fill_OnlyGaps(r) ==
    /\ reader[r].pc = "fill"
    /\ webCache' = Updated(reader[r].got, webCache)
    /\ reader' = [reader EXCEPT ![r] = [@ EXCEPT !.view = webCache', !.pc = "list"]]
    /\ UNCHANGED <<clock, left, overlap, files, cache, store, job, due>>

\* _cache.update(stored) and the copy of it, under _lock: other requests may
\* have filled the cache since this one read the row.
Fill(r) ==
    /\ reader[r].pc = "fill"
    /\ webCache' = Updated(webCache, reader[r].got)
    /\ reader' = [reader EXCEPT ![r] = [@ EXCEPT !.view = webCache', !.pc = "list"]]
    /\ UNCHANGED <<clock, left, overlap, files, cache, store, job, due>>

\* Faulty variant: list_targets does not take the lock.
List_Unlocked(r) ==
    /\ reader[r].pc = "list"
    /\ reader' = [reader EXCEPT ![r] = [@ EXCEPT
                    !.pc = "idle", !.view = NoEntries, !.got = NoEntries,
                    !.cards = [l \in Configured |-> reader[r].view[l]]]]
    /\ due' = [due EXCEPT ![r] = NoEntries]
    /\ UNCHANGED <<clock, left, overlap, files, caches, job>>

\* One card per configured target: its entry in the copy, or a gray one.
List(r) ==
    /\ reader[r].pc = "list"
    /\ LockFree
    /\ reader' = [reader EXCEPT ![r] = [@ EXCEPT
                    !.pc = "idle", !.view = NoEntries, !.got = NoEntries,
                    !.cards = [l \in Configured |-> reader[r].view[l]]]]
    /\ due' = [due EXCEPT ![r] = NoEntries]
    /\ UNCHANGED <<clock, left, overlap, files, caches, job>>

-----------------------------------------------------------------------------
RestartCollector ==
    /\ Spend("collector")
    /\ cache' = NoEntries
    /\ job' = [j \in Jobs |-> IdleJob]
    /\ UNCHANGED <<clock, overlap, files, webCache, store, reader, due>>

\* A save under way is cut off and the file stays as it is.
RestartWeb ==
    /\ Spend("web")
    /\ webCache' = NoEntries
    /\ reader' = [r \in Readers |-> IdleReader]
    /\ due' = [r \in Readers |-> NoEntries]
    /\ edit' = [e \in Admins |-> IdleEdit]
    /\ acked' = [acked EXCEPT !.intact = @ /\ file.ok]
    /\ UNCHANGED <<clock, overlap, file, cache, store, job>>

JobStep(j) ==
    \/ StartPoll(j)
    \/ \E x \in job[j].todo, status \in {"up", "offline"} : PollTarget(j, x, status)
    \/ Record(j)
    \/ Snapshot(j)
    \/ WriteStore(j)
    \/ WriteFails(j)

SaveStep(e) == EditOpen(e) \/ EditDump(e)

ReaderStep(r) == Request(r) \/ ReadStore(r) \/ ReadFails(r) \/ Fill(r) \/ List(r)

Next ==
    \/ Tick
    \/ \E e \in Admins, l \in Labels, h \in Hosts \cup {"unset"} : EditLoad(e, l, h)
    \/ \E e \in Admins : SaveStep(e)
    \/ \E j \in Jobs : JobStep(j)
    \/ \E r \in Readers : ReaderStep(r)
    \/ RestartCollector
    \/ RestartWeb

Spec == Init /\ [][Next]_vars

\* Poll threads are scheduled, calls to a target time out, and SQLite does not
\* refuse every write.
FairSpec ==
    /\ Spec
    /\ \A j \in Jobs : WF_vars(JobStep(j)) /\ SF_vars(WriteStore(j))
    /\ \A r \in Readers : WF_vars(ReaderStep(r))
    /\ \A e \in Admins : WF_vars(SaveStep(e))

-----------------------------------------------------------------------------
(* Properties. *)

JobPcs == {"waiting", "polling", "polled", "snapped", "done"}

\* Every variable holds a value of its kind.
TypeOK ==
    /\ clock \in Nat \ {0}
    /\ left \in [Kinds -> Nat]
    /\ overlap \in BOOLEAN
    /\ file \in [ok : BOOLEAN, list : Lists]
    /\ acked \in [list : Lists, intact : BOOLEAN]
    /\ edit \in [Admins -> [pc : {"idle", "loaded", "opened"},
                           label : SUBSET Labels, list : Lists]]
    /\ cache \in Caches
    /\ webCache \in Caches
    /\ store \in Caches
    /\ job \in [Jobs -> [pc : JobPcs, list : SUBSET Labels,
                         todo : SUBSET (Labels \X Hosts), start : 0..clock,
                         result : Caches, snap : Caches]]
    /\ \A r \in Readers :
          /\ reader[r].pc \in {"idle", "miss", "fill", "list"}
          /\ reader[r].view \in Caches /\ reader[r].got \in Caches
          /\ DOMAIN reader[r].cards \in SUBSET Labels
          /\ due[r] \in Caches

\* A failing target freezes no other: what a finished cycle is about to store
\* holds an entry for every target on the list it read, made in this cycle
\* unless the start-up poll and the interval job overlapped (the older result
\* may then be the one recorded last).
CycleRefreshesAll ==
    \A j \in Jobs : job[j].pc = "snapped" =>
        \A l \in job[j].list :
            /\ job[j].snap[l] # NoEntry
            /\ ~overlap => job[j].snap[l].at >= job[j].start

\* A write of the store never replaces an entry of a target on the writer's
\* list by an older one or by none, also when the collector was restarted in
\* the middle of a cycle and came back with an empty cache.  Only the start-up
\* poll and the interval job writing in the other order could do that.
StoreNeverGoesBack ==
    [][\A j \in Jobs : ~overlap /\ job[j].pc = "snapped" /\ store' # store =>
          \A l \in job[j].list : store'[l].at >= store[l].at]_vars

\* The request that finds its process's cache empty shows what the collector
\* stored: other requests may fill the cache meanwhile, with rows they read
\* earlier, and get_all_cached takes no lock around its read of the row, but
\* the cards are for no label older than what the store held when the request
\* began, unless the label has left the store since.  (A request that finds the
\* cache filled gets what is there, however old.)
FirstViewCurrent ==
    \A r \in Readers : reader[r].pc = "list" /\ ~overlap =>
        \A l \in Labels : reader[r].view[l].at >= due[r][l].at

\* Edits made at the same time do not undo each other, although each reads the
\* whole file and writes all of it back: as long as no save was cut off, the
\* file holds what the administrators were told.
EditsNotLost ==
    acked.intact /\ (\A e \in Admins : edit[e].pc = "idle") => file.list = acked.list

\* The dashboard has one card for every target, also while the file is being
\* saved.
DashboardComplete ==
    [][\A r \in Readers : List(r) /\ acked.intact =>
          DOMAIN reader'[r].cards = {l \in Labels : acked.list[l] # "unset"}]_vars

\* An edit of the target list takes effect: when a label stays configured for
\* a host, the store ends up with an entry read from that host, whatever cycle
\* was under way during the edit, also if one met the file half saved and took
\* it for an empty list, and whatever poll wrote last.
EditReachesStore ==
    \A l \in Labels, h \in Hosts :
        <>[](file.ok /\ file.list[l] = h) => <>[](store[l].host = h)
==============================================================================
