--------------------------- MODULE FazHealthProofs ---------------------------
(* Theorems about FazHealth, for any labels, hosts, threads and bounds.  Three *)
(* arguments share the types: the lock around the edits of faz_targets.json,   *)
(* the progress of a cycle through its list, and the ages of the entries on    *)
(* their way from the collector's cache to the web process's.                  *)
EXTENDS FazHealth, TLAPS

\* Types without the clock: an entry and a cache of any time.
Entry == [host : Hosts, status : {"up", "offline"}, at : Nat \ {0}] \cup {NoEntry}
Cache == [Labels -> Entry]
Cards == UNION {[d -> Entry] : d \in SUBSET Labels}

EditRecords == [pc : {"idle", "loaded", "opened"}, label : SUBSET Labels, list : Lists]
JobRecords == [pc : JobPcs, list : SUBSET Labels, todo : SUBSET (Labels \X Hosts),
               start : Nat, result : Cache, snap : Cache]
ReaderRecords == [pc : {"idle", "miss", "fill", "list"}, view : Cache, got : Cache,
                  cards : Cards]

TypeInv ==
    /\ clock \in Nat \ {0}
    /\ left \in [Kinds -> Nat]
    /\ overlap \in BOOLEAN
    /\ file \in [ok : BOOLEAN, list : Lists]
    /\ acked \in [list : Lists, intact : BOOLEAN]
    /\ edit \in [Admins -> EditRecords]
    /\ cache \in Cache /\ webCache \in Cache /\ store \in Cache
    /\ job \in [Jobs -> JobRecords]
    /\ reader \in [Readers -> ReaderRecords]
    /\ due \in [Readers -> Cache]

\* At most one edit holds the lock, the file is truncated only while that edit
\* writes it, and until then the edit agrees with what administrators were told
\* in all labels but its own.
EditInv ==
    /\ \A e, f \in Admins : edit[e].pc # "idle" /\ edit[f].pc # "idle" => e = f
    /\ acked.intact =>
          /\ file.list = acked.list
          /\ ~file.ok => \E e \in Admins : edit[e].pc = "opened"
          /\ \A e \in Admins : edit[e].pc # "idle" =>
                \A l \in Labels \ edit[e].label : edit[e].list[l] = acked.list[l]

\* No entry is from the future, and a cycle did not begin there.
PastInv ==
    /\ \A l \in Labels : cache[l].at <= clock /\ webCache[l].at <= clock /\ store[l].at <= clock
    /\ \A j \in Jobs : /\ job[j].start <= clock
                       /\ \A l \in Labels : /\ job[j].result[l].at <= clock
                                            /\ job[j].snap[l].at <= clock
    /\ \A r \in Readers, l \in Labels : /\ reader[r].view[l].at <= clock
                                        /\ reader[r].got[l].at <= clock
                                        /\ due[r][l].at <= clock

\* A thread that does not poll carries nothing; if polls do not overlap, the
\* start-up poll ends before the interval job begins.
JobInv ==
    /\ \A j \in Jobs : /\ job[j].pc # "polled" => job[j].result = NoEntries
                       /\ job[j].pc # "snapped" => job[j].snap = NoEntries
    /\ ~overlap /\ job["now"].pc # "done" => job["sched"].pc = "waiting"

Active(j) == job[j].pc \in {"polling", "polled", "snapped"}

\* An entry that a cycle has made, or may count as its own.
Fresh(j, x) == x # NoEntry /\ (~overlap => x.at >= job[j].start)

\* Every label of the list is still to be polled, has just been, or is recorded.
CycleInv ==
    \A j \in Jobs : Active(j) =>
        /\ \A l \in job[j].list :
              \/ \E h \in Hosts : <<l, h>> \in job[j].todo
              \/ Fresh(j, job[j].result[l])
              \/ Fresh(j, cache[l])
        /\ \A l \in Labels : job[j].result[l] # NoEntry => Fresh(j, job[j].result[l])
        /\ job[j].pc = "snapped" =>
              /\ job[j].todo = {}
              /\ \A l \in job[j].list : Fresh(j, job[j].snap[l])
              /\ ~overlap => job[j].snap = cache
        /\ ~overlap => \A l \in Labels : store[l].at <= job[j].start

\* x is not newer than y, if there is a y.
Behind(x, y) == y # NoEntry => x.at <= y.at

\* Entries of l on the way to the store.
Sources(l) == {cache[l]} \cup {job[j].result[l] : j \in Jobs} \cup {job[j].snap[l] : j \in Jobs}

\* If polls do not overlap, the store is not newer than what is on the way to it.
AgeInv ==
    ~overlap => \A l \in Labels : \A y \in Sources(l) : Behind(store[l], y)

\* What the request of r is going to copy its cards from.
Pending(r) == CASE reader[r].pc = "miss" -> store
                [] reader[r].pc = "fill" -> reader[r].got
                [] OTHER -> reader[r].view

\* If polls do not overlap, that is as new as it should be; an idle request is
\* due nothing.
DueInv ==
    \A r \in Readers :
        /\ reader[r].pc = "idle" => due[r] = NoEntries
        /\ ~overlap => \A l \in Labels : due[r][l].at <= Pending(r)[l].at

Inv == TypeInv /\ EditInv /\ PastInv /\ JobInv /\ CycleInv /\ AgeInv /\ DueInv
-----------------------------------------------------------------------------
(* Types *)

\* An empty cache is a cache, and entries have a time.
LEMMA CacheFacts ==
    /\ NoEntry \in Entry
    /\ NoEntries \in Cache
    /\ \A l \in Labels : NoEntries[l] = NoEntry
    /\ NoEntry.at = 0
    /\ \A x \in Entry : x.at \in Nat
    /\ \A c \in Cache, l \in Labels : c[l] \in Entry /\ c[l].at \in Nat
<1>1. NoEntry \in Entry /\ NoEntry.at = 0
    BY DEF NoEntry, Entry
<1>2. NoEntries \in Cache /\ \A l \in Labels : NoEntries[l] = NoEntry
    BY <1>1 DEF NoEntries, Cache
<1>3. \A x \in Entry : x.at \in Nat
    BY <1>1 DEF Entry
<1> QED
    BY <1>1, <1>2, <1>3 DEF Cache

\* dict.update, label by label.
LEMMA UpdatedFact ==
    ASSUME NEW c \in Cache, NEW d \in Cache
    PROVE  /\ Updated(c, d) \in Cache
           /\ \A l \in Labels : Updated(c, d)[l] = IF d[l] # NoEntry THEN d[l] ELSE c[l]
    BY DEF Updated, Cache

\* The idle records have their types.
LEMMA IdleTypes ==
    IdleEdit \in EditRecords /\ IdleJob \in JobRecords /\ IdleReader \in ReaderRecords
<1>1. IdleEdit \in EditRecords
    BY DEF IdleEdit, EditRecords, Lists
<1>2. IdleJob \in JobRecords
    BY CacheFacts DEF IdleJob, JobRecords, JobPcs
<1>3. <<>> \in [{} -> Entry]
    BY SMT
<1>4. <<>> \in Cards
    BY <1>3, Zenon DEF Cards
<1>5. IdleReader \in ReaderRecords
    BY <1>4, CacheFacts DEF IdleReader, ReaderRecords
<1> QED
    BY <1>1, <1>2, <1>5

\* What _load returns is a list of targets, and its labels are labels.
LEMMA LoadFact ==
    ASSUME TypeInv
    PROVE  Load \in Lists /\ Configured \in SUBSET Labels
    BY DEF TypeInv, Load, Lists, Configured

\* The result of a poll has an entry for the polled label alone.
LEMMA PolledFact ==
    ASSUME TypeInv, NEW x \in Labels \X Hosts, NEW status \in {"up", "offline"}
    PROVE  /\ Polled(x, status) \in Cache
           /\ Polled(x, status)[x[1]] # NoEntry
           /\ Polled(x, status)[x[1]].at = clock
           /\ \A l \in Labels : l # x[1] => Polled(x, status)[l] = NoEntry
<1> DEFINE new == [host |-> x[2], status |-> status, at |-> clock]
<1>1. x[1] \in Labels /\ x[2] \in Hosts
    OBVIOUS
<1>2. new \in Entry /\ new.at = clock /\ new # NoEntry
    <2>1. clock \in Nat \ {0}
        BY DEF TypeInv
    <2>2. new \in Entry /\ new.at = clock
        BY <1>1, <2>1 DEF Entry
    <2> QED
        BY <2>1, <2>2, CacheFacts
<1>3. Polled(x, status) = [NoEntries EXCEPT ![x[1]] = new]
    BY DEF Polled
<1> HIDE DEF new
<1> QED
    BY <1>1, <1>2, <1>3, CacheFacts DEF Cache

LEMMA TypeInit == Init => TypeInv
<1> SUFFICES ASSUME Init PROVE TypeInv
    OBVIOUS
<1>1. PICK c \in Scenarios : /\ left = c.left
                             /\ overlap = c.overlap
                             /\ file = [ok |-> TRUE, list |-> c.targets]
                             /\ acked = [list |-> c.targets, intact |-> TRUE]
    BY DEF Init
<1>2. c.targets \in Lists /\ c.overlap \in BOOLEAN /\ c.left \in [Kinds -> Nat]
    BY HealthAssumption
<1> QED
    BY <1>1, <1>2, IdleTypes, CacheFacts DEF Init, TypeInv
\* A thread's record after a step of its poll.
LEMMA JobTypes ==
    ASSUME TypeInv, NEW j \in Jobs, JobStep(j)
    PROVE  job' \in [Jobs -> JobRecords]
<1>1. job \in [Jobs -> JobRecords] /\ job[j] \in JobRecords
    BY DEF TypeInv
<1>2. IdleJob \in JobRecords
    BY IdleTypes
<1>3. CASE StartPoll(j)
    <2>1. {<<l, Load[l]>> : l \in Configured} \in SUBSET (Labels \X Hosts)
        BY LoadFact DEF Lists, Configured
    <2>2. clock \in Nat /\ Configured \in SUBSET Labels
        BY LoadFact DEF TypeInv
    <2>3. [IdleJob EXCEPT !.pc = "polling", !.start = clock, !.list = Configured,
                !.todo = {<<l, Load[l]>> : l \in Configured}] \in JobRecords
        BY <1>2, <2>1, <2>2 DEF JobRecords, JobPcs
    <2> QED
        BY <1>1, <1>3, <2>3 DEF StartPoll
<1>4. ASSUME NEW x \in job[j].todo, NEW status \in {"up", "offline"},
             PollTarget(j, x, status)
      PROVE  job' \in [Jobs -> JobRecords]
    <2>1. Polled(x, status) \in Cache
        BY <1>1, PolledFact DEF JobRecords
    <2>2. job[j].todo \ {x} \in SUBSET (Labels \X Hosts)
        BY <1>1 DEF JobRecords
    <2>3. job' = [job EXCEPT ![j] = [job[j] EXCEPT !.pc = "polled",
                    !.todo = job[j].todo \ {x}, !.result = Polled(x, status)]]
        BY <1>4 DEF PollTarget
    <2> QED
        BY <1>1, <2>1, <2>2, <2>3 DEF JobRecords, JobPcs
<1>5. CASE Record(j)
    BY <1>1, <1>5, CacheFacts DEF Record, JobRecords, JobPcs
<1>6. CASE Snapshot(j)
    BY <1>1, <1>6 DEF Snapshot, JobRecords, JobPcs, TypeInv
<1>7. CASE WriteStore(j) \/ WriteFails(j)
    <2>1. Ended(j) \in JobPcs
        BY DEF Ended, JobPcs
    <2> QED
        BY <1>1, <1>2, <1>7, <2>1 DEF WriteStore, WriteFails, JobRecords
<1> QED
    BY <1>3, <1>4, <1>5, <1>6, <1>7 DEF JobStep

\* A request's record after a step of it.
LEMMA ReaderTypes ==
    ASSUME TypeInv, NEW r \in Readers, ReaderStep(r)
    PROVE  /\ reader' \in [Readers -> ReaderRecords] /\ webCache' \in Cache
           /\ due' \in [Readers -> Cache]
<1>1. reader \in [Readers -> ReaderRecords] /\ reader[r] \in ReaderRecords
    BY DEF TypeInv
<1>2. webCache \in Cache /\ store \in Cache /\ due \in [Readers -> Cache] /\ NoEntries \in Cache
    BY CacheFacts DEF TypeInv
<1>3. CASE Request(r)
    BY <1>1, <1>2, <1>3, IdleTypes DEF Request, ReaderRecords, caches
<1>4. CASE ReadStore(r)
    BY <1>1, <1>2, <1>4 DEF ReadStore, ReaderRecords, caches
<1>5. CASE Fill(r)
    <2>1. webCache' \in Cache
        BY <1>1, <1>2, <1>5, UpdatedFact DEF Fill, ReaderRecords
    <2> QED
        BY <1>1, <1>2, <1>5, <2>1 DEF Fill, ReaderRecords
<1>6. CASE List(r)
    <2>1. [l \in Configured |-> reader[r].view[l]] \in Cards
        <3>1. [l \in Configured |-> reader[r].view[l]] \in [Configured -> Entry]
            BY <1>1, LoadFact, CacheFacts DEF ReaderRecords
        <3> QED
            BY <3>1, LoadFact, Zenon DEF Cards
    <2> QED
        BY <1>1, <1>2, <1>6, <2>1, CacheFacts DEF List, ReaderRecords, caches
<1>7. CASE ReadFails(r)
    BY <1>1, <1>2, <1>7 DEF ReadFails, ReaderRecords, caches
<1> QED
    BY <1>3, <1>4, <1>5, <1>6, <1>7 DEF ReaderStep

LEMMA TypeNext == TypeInv /\ [Next]_vars => TypeInv'
<1> SUFFICES ASSUME TypeInv, [Next]_vars PROVE TypeInv'
    OBVIOUS
<1> USE DEF files, caches
<1>1. ASSUME NEW k \in Kinds, Spend(k) PROVE left' \in [Kinds -> Nat]
    BY <1>1 DEF TypeInv, Spend
<1>2. CASE Tick
    BY <1>1, <1>2 DEF Tick, TypeInv, Kinds
<1>3. ASSUME NEW e \in Admins, NEW l \in Labels, NEW h \in Hosts \cup {"unset"},
             EditLoad(e, l, h)
      PROVE  TypeInv'
    <2>1. [Load EXCEPT ![l] = h] \in Lists
        BY LoadFact DEF Lists
    <2>2. edit' \in [Admins -> EditRecords]
        BY <1>3, <2>1 DEF EditLoad, TypeInv, EditRecords
    <2> QED
        BY <1>1, <1>3, <2>2 DEF EditLoad, TypeInv, Kinds
<1>4. ASSUME NEW e \in Admins, EditOpen(e) PROVE TypeInv'
    <2>1. edit' \in [Admins -> EditRecords]
        <3>1. edit \in [Admins -> EditRecords]
            BY DEF TypeInv
        <3> QED
            BY <1>4, <3>1 DEF EditOpen, EditRecords
    <2>2. file' \in [ok : BOOLEAN, list : Lists]
        BY <1>4 DEF EditOpen, TypeInv
    <2> QED
        BY <1>4, <2>1, <2>2 DEF EditOpen, TypeInv
<1>5. ASSUME NEW e \in Admins, EditDump(e) PROVE TypeInv'
    <2>1. edit[e].list \in Lists /\ edit[e].label \in SUBSET Labels
        BY DEF TypeInv, EditRecords
    <2>3. edit' \in [Admins -> EditRecords]
        BY <1>5, IdleTypes DEF EditDump, TypeInv
    <2>4. [l \in Labels |-> IF l \in edit[e].label THEN edit[e].list[l]
                            ELSE acked.list[l]] \in Lists
        BY <2>1 DEF Lists, TypeInv
    <2>5. acked' \in [list : Lists, intact : BOOLEAN]
        BY <1>5, <2>4 DEF EditDump, TypeInv
    <2>6. file' \in [ok : BOOLEAN, list : Lists]
        BY <1>5, <2>1 DEF EditDump
    <2> QED
        BY <1>5, <2>3, <2>5, <2>6 DEF EditDump, TypeInv
<1>6. ASSUME NEW j \in Jobs, JobStep(j) PROVE TypeInv'
    <2>1. job' \in [Jobs -> JobRecords]
        BY <1>6, JobTypes
    <2>2. UNCHANGED <<clock, left, overlap, file, edit, acked, webCache, reader>>
        BY <1>6 DEF JobStep, StartPoll, PollTarget, Record, Snapshot, WriteStore, WriteFails
    <2>3. job[j].result \in Cache /\ job[j].snap \in Cache
        BY DEF TypeInv, JobRecords
    <2>4. \/ cache' = cache /\ store' = store
          \/ cache' = Updated(cache, job[j].result) /\ store' = store
          \/ cache' = cache /\ store' = job[j].snap
        BY <1>6 DEF JobStep, StartPoll, PollTarget, Record, Snapshot, WriteStore, WriteFails
    <2>5. cache' \in Cache /\ store' \in Cache
        BY <2>3, <2>4, UpdatedFact DEF TypeInv
    <2>6. due' \in [Readers -> Cache]
        <3>1. CASE WriteStore(j)
            <4>1. \A r \in Readers : [l \in Labels |-> IF job[j].snap[l] = NoEntry THEN NoEntry
                                                      ELSE due[r][l]] \in Cache
                BY CacheFacts DEF TypeInv, Cache
            <4> QED
                BY <3>1, <4>1 DEF WriteStore
        <3>2. CASE due' = due
            BY <3>2 DEF TypeInv
        <3> QED
            BY <1>6, <3>1, <3>2 DEF JobStep, StartPoll, PollTarget, Record, Snapshot, WriteFails
    <2> QED
        BY <2>1, <2>2, <2>5, <2>6 DEF TypeInv
<1>7. ASSUME NEW r \in Readers, ReaderStep(r) PROVE TypeInv'
    <2>1. /\ reader' \in [Readers -> ReaderRecords] /\ webCache' \in Cache
          /\ due' \in [Readers -> Cache]
        BY <1>7, ReaderTypes
    <2>2. UNCHANGED <<clock, overlap, file, edit, acked, cache, store, job>>
        BY <1>7 DEF ReaderStep, Request, ReadStore, ReadFails, Fill, List
    <2>3. left' \in [Kinds -> Nat]
        BY <1>1, <1>7 DEF ReaderStep, Request, ReadStore, ReadFails, Fill, List, Kinds, TypeInv
    <2> QED
        BY <2>1, <2>2, <2>3 DEF TypeInv
<1>8. CASE RestartCollector
    BY <1>1, <1>8, IdleTypes, CacheFacts DEF RestartCollector, TypeInv, Kinds
<1>9. CASE RestartWeb
    <2>1. acked' \in [list : Lists, intact : BOOLEAN]
        BY <1>9 DEF RestartWeb, TypeInv
    <2> QED
        BY <1>1, <1>9, <2>1, IdleTypes, CacheFacts DEF RestartWeb, TypeInv, Kinds
<1>10. CASE UNCHANGED vars
    BY <1>10 DEF vars, TypeInv
<1> QED
    BY <1>2, <1>3, <1>4, <1>5, <1>6, <1>7, <1>8, <1>9, <1>10 DEF Next, SaveStep
-----------------------------------------------------------------------------
(* Edits of the target list *)

LEMMA EditInit == Init => EditInv
<1> SUFFICES ASSUME Init PROVE EditInv
    OBVIOUS
<1>1. \A e \in Admins : edit[e].pc = "idle"
    BY DEF Init, IdleEdit
<1>2. file.ok /\ file.list = acked.list
    BY DEF Init
<1> QED
    BY <1>1, <1>2 DEF EditInv

\* While nobody holds the lock the file is whole and as acknowledged, unless a
\* save was cut off: what list_targets returns is what administrators were told.
LEMMA LoadAcked ==
    ASSUME TypeInv, EditInv, LockFree, acked.intact
    PROVE  Load = acked.list
    BY DEF TypeInv, EditInv, LockFree, Load

LEMMA EditNext == TypeInv /\ EditInv /\ [Next]_vars => EditInv'
<1> SUFFICES ASSUME TypeInv, EditInv, [Next]_vars PROVE EditInv'
    OBVIOUS
<1>0. edit \in [Admins -> EditRecords] /\ TypeInv'
    BY TypeNext DEF TypeInv
<1>1. CASE UNCHANGED <<file, edit, acked>>
    BY <1>1 DEF EditInv
<1>2. ASSUME NEW e \in Admins, NEW l \in Labels, NEW h \in Hosts \cup {"unset"},
             EditLoad(e, l, h)
      PROVE  EditInv'
    <2>1. /\ UNCHANGED <<file, acked>>
          /\ edit'[e].pc = "loaded" /\ edit'[e].label = {l}
          /\ edit'[e].list = [Load EXCEPT ![l] = h]
          /\ \A f \in Admins : f # e => edit'[f] = edit[f] /\ edit[f].pc = "idle"
        BY <1>0, <1>2 DEF EditLoad, LockFree
    <2>2. acked.intact => Load = acked.list
        BY <1>2, LoadAcked DEF EditLoad
    <2>3. acked.intact => \A k \in Labels \ {l} : edit'[e].list[k] = acked.list[k]
        BY <2>1, <2>2 DEF TypeInv, Lists
    <2>4. acked.intact => file.ok
        BY <1>2 DEF EditInv, EditLoad, LockFree
    <2>5. \A f \in Admins : edit'[f].pc # "idle" => f = e
        BY <2>1
    <2>6. acked'.intact =>
             /\ file'.list = acked'.list /\ file'.ok
             /\ \A f \in Admins : edit'[f].pc # "idle" =>
                   \A k \in Labels \ edit'[f].label : edit'[f].list[k] = acked'.list[k]
        <3>1. Labels \ edit'[e].label = Labels \ {l}
            BY <2>1
        <3> QED
            BY <2>1, <2>3, <2>4, <2>5, <3>1 DEF EditInv
    <2> QED
        BY <2>5, <2>6 DEF EditInv
<1>3. ASSUME NEW e \in Admins, EditOpen(e) PROVE EditInv'
    <2>1. /\ acked' = acked /\ file'.list = file.list
          /\ edit[e].pc = "loaded" /\ edit'[e].pc = "opened"
          /\ edit'[e].label = edit[e].label /\ edit'[e].list = edit[e].list
          /\ \A f \in Admins : f # e => edit'[f] = edit[f]
        BY <1>0, <1>3 DEF EditOpen, EditRecords, TypeInv
    <2> QED
        BY <2>1 DEF EditInv
<1>4. ASSUME NEW e \in Admins, EditDump(e) PROVE EditInv'
    <2>1. /\ file'.ok /\ file'.list = edit[e].list
          /\ edit[e].pc = "opened"
          /\ acked'.intact = acked.intact
          /\ acked'.list = [l \in Labels |-> IF l \in edit[e].label THEN edit[e].list[l]
                                             ELSE acked.list[l]]
          /\ edit' = [edit EXCEPT ![e] = IdleEdit]
        BY <1>4 DEF EditDump, TypeInv
    <2>2. \A f \in Admins : edit'[f].pc = "idle"
        BY <1>0, <2>1 DEF EditInv, IdleEdit, EditRecords
    <2>3. acked.intact => \A l \in Labels : acked'.list[l] = edit[e].list[l]
        BY <2>1 DEF EditInv
    <2>4. acked.intact => acked'.list = edit[e].list
        BY <1>0, <2>1, <2>3 DEF EditRecords, Lists
    <2> QED
        BY <2>1, <2>2, <2>4 DEF EditInv
<1>5. CASE RestartWeb
    <2>1. /\ file' = file /\ acked'.list = acked.list
          /\ acked'.intact => acked.intact /\ file.ok
          /\ \A e \in Admins : edit'[e].pc = "idle"
        BY <1>5 DEF RestartWeb, IdleEdit, TypeInv
    <2> QED
        BY <2>1 DEF EditInv
<1>6. ASSUME NEW j \in Jobs, JobStep(j) PROVE EditInv'
    BY <1>1, <1>6 DEF JobStep, StartPoll, PollTarget, Record, Snapshot, WriteStore,
                      WriteFails, files
<1>7. ASSUME NEW r \in Readers, ReaderStep(r) PROVE EditInv'
    BY <1>1, <1>7 DEF ReaderStep, Request, ReadStore, ReadFails, Fill, List, files
<1>8. CASE Tick \/ RestartCollector \/ UNCHANGED vars
    BY <1>1, <1>8 DEF Tick, RestartCollector, vars, files
<1> QED
    BY <1>2, <1>3, <1>4, <1>5, <1>6, <1>7, <1>8 DEF Next, SaveStep
-----------------------------------------------------------------------------
(* The steps of a cycle, field by field *)

\* A step of thread j leaves the other alone.
Others(j) == \A i \in Jobs : i # j => job'[i] = job[i]

LEMMA StartFact ==
    ASSUME TypeInv, NEW j \in Jobs, StartPoll(j)
    PROVE  /\ job[j].pc = "waiting" /\ job'[j].pc = "polling"
           /\ job'[j].start = clock /\ job'[j].list = Configured
           /\ job'[j].todo = {<<l, Load[l]>> : l \in Configured}
           /\ job'[j].result = NoEntries /\ job'[j].snap = NoEntries
           /\ Others(j)
           /\ UNCHANGED <<clock, overlap, cache, webCache, store, reader, due>>
    BY DEF TypeInv, StartPoll, IdleJob, Others, caches

LEMMA PollFact ==
    ASSUME TypeInv, NEW j \in Jobs, NEW x \in job[j].todo,
           NEW status \in {"up", "offline"}, PollTarget(j, x, status)
    PROVE  /\ job[j].pc = "polling" /\ job'[j].pc = "polled"
           /\ job'[j].start = job[j].start /\ job'[j].list = job[j].list
           /\ job'[j].todo = job[j].todo \ {x}
           /\ job'[j].result = Polled(x, status) /\ job'[j].snap = job[j].snap
           /\ x \in Labels \X Hosts
           /\ Others(j)
           /\ UNCHANGED <<clock, overlap, cache, webCache, store, reader, due>>
    BY DEF TypeInv, PollTarget, JobRecords, Others, caches

LEMMA RecordFact ==
    ASSUME TypeInv, NEW j \in Jobs, Record(j)
    PROVE  /\ job[j].pc = "polled" /\ job'[j].pc = "polling"
           /\ job'[j].start = job[j].start /\ job'[j].list = job[j].list
           /\ job'[j].todo = job[j].todo
           /\ job'[j].result = NoEntries /\ job'[j].snap = job[j].snap
           /\ \A l \in Labels : cache'[l] = IF job[j].result[l] # NoEntry
                                            THEN job[j].result[l] ELSE cache[l]
           /\ Others(j)
           /\ UNCHANGED <<clock, overlap, webCache, store, reader, due>>
<1>1. \A l \in Labels : cache'[l] = IF job[j].result[l] # NoEntry
                                    THEN job[j].result[l] ELSE cache[l]
    BY UpdatedFact DEF TypeInv, JobRecords, Record
<1> QED
    BY <1>1 DEF TypeInv, Record, JobRecords, Others

LEMMA SnapshotFact ==
    ASSUME TypeInv, NEW j \in Jobs, Snapshot(j)
    PROVE  /\ job[j].pc = "polling" /\ job'[j].pc = "snapped"
           /\ job'[j].start = job[j].start /\ job'[j].list = job[j].list
           /\ job[j].todo = {} /\ job'[j].todo = {}
           /\ job'[j].result = job[j].result /\ job'[j].snap = cache
           /\ Others(j)
           /\ UNCHANGED <<clock, overlap, cache, webCache, store, reader, due>>
    BY DEF TypeInv, Snapshot, JobRecords, Others, caches

LEMMA EndFact ==
    ASSUME TypeInv, NEW j \in Jobs, WriteStore(j) \/ WriteFails(j)
    PROVE  /\ job[j].pc = "snapped" /\ job'[j].pc = Ended(j)
           /\ job'[j].start = 0
           /\ job'[j].result = NoEntries /\ job'[j].snap = NoEntries
           /\ store' \in {store, job[j].snap}
           /\ \A r \in Readers, l \in Labels :
                 /\ due'[r][l] \in {due[r][l], NoEntry}
                 /\ store' # store /\ job[j].snap[l] = NoEntry => due'[r][l] = NoEntry
                 /\ reader[r].pc = "idle" /\ due[r] = NoEntries => due'[r] = NoEntries
           /\ Others(j)
           /\ UNCHANGED <<clock, overlap, cache, webCache, reader>>
<1>1. ASSUME WriteStore(j), NEW r \in Readers
      PROVE  /\ \A l \in Labels : due'[r][l] = IF job[j].snap[l] = NoEntry THEN NoEntry
                                                ELSE due[r][l]
             /\ due[r] = NoEntries => due'[r] = NoEntries
    <2>1. due'[r] = [l \in Labels |-> IF job[j].snap[l] = NoEntry THEN NoEntry ELSE due[r][l]]
        BY <1>1 DEF WriteStore
    <2> QED
        BY <2>1 DEF NoEntries
<1>2. WriteFails(j) => due' = due /\ store' = store
    BY DEF WriteFails, caches
<1>3. \A r \in Readers, l \in Labels :
         /\ due'[r][l] \in {due[r][l], NoEntry}
         /\ store' # store /\ job[j].snap[l] = NoEntry => due'[r][l] = NoEntry
         /\ reader[r].pc = "idle" /\ due[r] = NoEntries => due'[r] = NoEntries
    BY <1>1, <1>2
<1> QED
    BY <1>3 DEF TypeInv, WriteStore, WriteFails, IdleJob, Others, caches

\* The steps of a request, field by field; others are left alone.
LEMMA ReaderFact ==
    ASSUME TypeInv, NEW r \in Readers, ReaderStep(r)
    PROVE  /\ \A q \in Readers : q # r => reader'[q] = reader[q]
           /\ \A q \in Readers : q # r => due'[q] = due[q]
           /\ due'[r] \in {due[r], NoEntries, store}
           /\ UNCHANGED <<clock, overlap, cache, store, job>>
           /\ \/ /\ reader'[r].got \in {NoEntries, store, reader[r].got}
                 /\ reader'[r].view \in {NoEntries, webCache, reader[r].view}
                 /\ webCache' = webCache
              \/ /\ reader'[r].got = reader[r].got /\ reader'[r].view = webCache'
                 /\ \A l \in Labels : webCache'[l] \in {webCache[l], reader[r].got[l]}
<1>1. CASE Request(r)
    BY <1>1 DEF TypeInv, Request, IdleReader, caches
<1>2. CASE ReadStore(r)
    BY <1>2 DEF TypeInv, ReadStore, ReaderRecords, caches
<1>3. CASE Fill(r)
    <2>1. \A l \in Labels : webCache'[l] \in {webCache[l], reader[r].got[l]}
        BY <1>3, UpdatedFact DEF TypeInv, Fill, ReaderRecords
    <2> QED
        BY <1>3, <2>1 DEF TypeInv, Fill, ReaderRecords
<1>4. CASE List(r)
    BY <1>4 DEF TypeInv, List, ReaderRecords, caches
<1>5. CASE ReadFails(r)
    BY <1>5 DEF TypeInv, ReadFails, ReaderRecords, caches
<1> QED
    BY <1>1, <1>2, <1>3, <1>4, <1>5 DEF ReaderStep
-----------------------------------------------------------------------------
(* The cycles and the ages of the entries *)

LEMMA CycleInit == Init => PastInv /\ JobInv /\ CycleInv /\ AgeInv /\ DueInv
<1> SUFFICES ASSUME Init PROVE PastInv /\ JobInv /\ CycleInv /\ AgeInv /\ DueInv
    OBVIOUS
<1>1. /\ clock = 1 /\ cache = NoEntries /\ webCache = NoEntries /\ store = NoEntries
      /\ \A j \in Jobs : /\ job[j].pc = "waiting" /\ job[j].start = 0
                         /\ job[j].result = NoEntries /\ job[j].snap = NoEntries
      /\ \A r \in Readers : /\ reader[r].view = NoEntries /\ reader[r].got = NoEntries
                            /\ reader[r].pc = "idle" /\ due[r] = NoEntries
    BY DEF Init, IdleJob, IdleReader
<1>2. \A l \in Labels : NoEntries[l] = NoEntry /\ NoEntry.at = 0
    BY CacheFacts
<1>3. PastInv
    BY <1>1, <1>2 DEF PastInv
<1>4. JobInv /\ CycleInv
    BY <1>1 DEF JobInv, CycleInv, Active, Jobs
<1>5. AgeInv
    BY <1>1, <1>2 DEF AgeInv, Sources, Behind
<1>6. DueInv
    BY <1>1, <1>2 DEF DueInv, Pending
<1> QED
    BY <1>3, <1>4, <1>5, <1>6

\* Times are numbers.
LEMMA Times ==
    ASSUME TypeInv
    PROVE  /\ clock \in Nat
           /\ \A l \in Labels : cache[l].at \in Nat /\ webCache[l].at \in Nat /\ store[l].at \in Nat
           /\ \A j \in Jobs : /\ job[j].start \in Nat
                              /\ \A l \in Labels : /\ job[j].result[l].at \in Nat
                                                   /\ job[j].snap[l].at \in Nat
           /\ \A r \in Readers, l \in Labels : /\ reader[r].view[l].at \in Nat
                                               /\ reader[r].got[l].at \in Nat
                                               /\ due[r][l].at \in Nat
<1>1. \A j \in Jobs : job[j].start \in Nat /\ job[j].result \in Cache /\ job[j].snap \in Cache
    BY DEF TypeInv, JobRecords
<1>2. \A r \in Readers : reader[r].view \in Cache /\ reader[r].got \in Cache
    BY DEF TypeInv, ReaderRecords
<1> QED
    BY <1>1, <1>2, CacheFacts DEF TypeInv

LEMMA PastNext == TypeInv /\ PastInv /\ [Next]_vars => PastInv'
<1> SUFFICES ASSUME TypeInv, PastInv, [Next]_vars PROVE PastInv'
    OBVIOUS
<1>0. \A l \in Labels : NoEntries[l].at = 0
    BY CacheFacts
<1>1. clock \in Nat
    BY Times
<1>2. CASE Tick
    <2>1. clock' = clock + 1 /\ UNCHANGED <<cache, webCache, store, job, reader, due>>
        BY <1>2 DEF Tick, caches
    <2> QED
        BY <2>1, Times DEF PastInv
<1>3. CASE UNCHANGED <<clock, cache, webCache, store, job, reader, due>>
    BY <1>3 DEF PastInv
<1>4. ASSUME NEW j \in Jobs, StartPoll(j) PROVE PastInv'
    BY <1>0, <1>1, <1>4, StartFact DEF PastInv, Others
<1>5. ASSUME NEW j \in Jobs, NEW x \in job[j].todo, NEW status \in {"up", "offline"},
             PollTarget(j, x, status)
      PROVE  PastInv'
    <2>1. \A l \in Labels : Polled(x, status)[l].at <= clock
        BY <1>0, <1>1, <1>5, PollFact, PolledFact, CacheFacts
    <2> QED
        BY <1>5, <2>1, PollFact DEF PastInv, Others
<1>6. ASSUME NEW j \in Jobs, Record(j) PROVE PastInv'
    BY <1>0, <1>1, <1>6, RecordFact DEF PastInv, Others
<1>7. ASSUME NEW j \in Jobs, Snapshot(j) PROVE PastInv'
    BY <1>7, SnapshotFact DEF PastInv, Others
<1>8. ASSUME NEW j \in Jobs, WriteStore(j) \/ WriteFails(j) PROVE PastInv'
    <2>1. \A r \in Readers, l \in Labels : due'[r][l].at <= clock
        BY <1>1, <1>8, EndFact, CacheFacts DEF PastInv
    <2> QED
        BY <1>0, <1>1, <1>8, <2>1, EndFact DEF PastInv, Others
<1>9. ASSUME NEW r \in Readers, ReaderStep(r) PROVE PastInv'
    <2>1. \A l \in Labels : webCache'[l].at <= clock
        BY <1>9, ReaderFact DEF PastInv
    <2>2. \A l \in Labels : reader'[r].got[l].at <= clock /\ reader'[r].view[l].at <= clock
        BY <1>0, <1>1, <1>9, <2>1, ReaderFact DEF PastInv
    <2>3. \A l \in Labels : due'[r][l].at <= clock
        BY <1>0, <1>1, <1>9, ReaderFact DEF PastInv
    <2> QED
        BY <1>9, <2>1, <2>2, <2>3, ReaderFact DEF PastInv
<1>10. CASE RestartCollector
    BY <1>0, <1>1, <1>10 DEF RestartCollector, PastInv, IdleJob
<1>11. CASE RestartWeb
    BY <1>0, <1>1, <1>11 DEF RestartWeb, PastInv, IdleReader
<1>12. ASSUME NEW e \in Admins,
              SaveStep(e) \/ \E l \in Labels, h \in Hosts \cup {"unset"} : EditLoad(e, l, h)
       PROVE  PastInv'
    BY <1>3, <1>12 DEF SaveStep, EditLoad, EditOpen, EditDump, caches
<1>13. CASE UNCHANGED vars
    BY <1>3, <1>13 DEF vars, caches
<1> QED
    BY <1>2, <1>4, <1>5, <1>6, <1>7, <1>8, <1>9, <1>10, <1>11, <1>12, <1>13
    DEF Next, JobStep

LEMMA JobNext == TypeInv /\ JobInv /\ [Next]_vars => JobInv'
<1> SUFFICES ASSUME TypeInv, JobInv, [Next]_vars PROVE JobInv'
    OBVIOUS
<1>1. CASE UNCHANGED <<overlap, job>>
    BY <1>1 DEF JobInv
<1>2. ASSUME NEW j \in Jobs, StartPoll(j) PROVE JobInv'
    <2>1. j = "sched" /\ ~overlap => job["now"].pc = "done"
        BY <1>2 DEF StartPoll
    <2> QED
        BY <1>2, <2>1, StartFact DEF JobInv, Others, Jobs
<1>3. ASSUME NEW j \in Jobs, NEW x \in job[j].todo, NEW status \in {"up", "offline"},
             PollTarget(j, x, status)
      PROVE  JobInv'
    BY <1>3, PollFact DEF JobInv, Others, Jobs
<1>4. ASSUME NEW j \in Jobs, Record(j) PROVE JobInv'
    BY <1>4, RecordFact DEF JobInv, Others, Jobs
<1>5. ASSUME NEW j \in Jobs, Snapshot(j) PROVE JobInv'
    BY <1>5, SnapshotFact DEF JobInv, Others, Jobs
<1>6. ASSUME NEW j \in Jobs, WriteStore(j) \/ WriteFails(j) PROVE JobInv'
    BY <1>6, EndFact DEF JobInv, Others, Jobs, Ended
<1>7. ASSUME NEW r \in Readers, ReaderStep(r) PROVE JobInv'
    BY <1>1, <1>7, ReaderFact
<1>8. CASE RestartCollector
    BY <1>8 DEF RestartCollector, JobInv, IdleJob, Jobs
<1>9. CASE Tick \/ RestartWeb \/ UNCHANGED vars
    BY <1>1, <1>9 DEF Tick, RestartWeb, vars
<1>10. ASSUME NEW e \in Admins,
              SaveStep(e) \/ \E l \in Labels, h \in Hosts \cup {"unset"} : EditLoad(e, l, h)
       PROVE  JobInv'
    BY <1>1, <1>10 DEF SaveStep, EditLoad, EditOpen, EditDump
<1> QED
    BY <1>2, <1>3, <1>4, <1>5, <1>6, <1>7, <1>8, <1>9, <1>10 DEF Next, JobStep
\* If polls do not overlap, one thread at a time is in a cycle.
LEMMA OneActive ==
    ASSUME JobInv, ~overlap, NEW i \in Jobs, NEW j \in Jobs, Active(i), Active(j)
    PROVE  i = j
    BY DEF JobInv, Active, Jobs

LEMMA CycleNext == TypeInv /\ PastInv /\ JobInv /\ CycleInv /\ [Next]_vars => CycleInv'
<1> SUFFICES ASSUME TypeInv, PastInv, JobInv, CycleInv, [Next]_vars PROVE CycleInv'
    OBVIOUS
<1>0. \A l \in Labels : NoEntries[l] = NoEntry
    BY CacheFacts
<1>1. CASE UNCHANGED <<overlap, cache, store, job>>
    BY <1>1 DEF CycleInv, Active, Fresh
<1> DEFINE Part(i) ==
        /\ \A l \in job[i].list :
              \/ \E h \in Hosts : <<l, h>> \in job[i].todo
              \/ Fresh(i, job[i].result[l])
              \/ Fresh(i, cache[l])
        /\ \A l \in Labels : job[i].result[l] # NoEntry => Fresh(i, job[i].result[l])
        /\ job[i].pc = "snapped" =>
              /\ job[i].todo = {}
              /\ \A l \in job[i].list : Fresh(i, job[i].snap[l])
              /\ ~overlap => job[i].snap = cache
        /\ ~overlap => \A l \in Labels : store[l].at <= job[i].start
<1>2. \A i \in Jobs : Active(i) => Part(i)
    BY DEF CycleInv
<1>3. (\A i \in Jobs : Active(i)' => Part(i)') => CycleInv'
    BY DEF CycleInv
<1>4. \A i \in Jobs : job[i].list \in SUBSET Labels /\ \A l \in job[i].list : l \in Labels
    BY DEF TypeInv, JobRecords
\* What the step of one thread leaves of another's cycle.
<1>5. ASSUME NEW i \in Jobs, Active(i), job'[i] = job[i], overlap' = overlap,
             \/ cache' = cache /\ store' = store
             \/ overlap /\ \A l \in Labels : cache[l] # NoEntry => cache'[l] # NoEntry
      PROVE  Part(i)'
    <2>1. Part(i)
        BY <1>2, <1>5
    <2>2. \A l \in Labels : Fresh(i, cache[l]) => Fresh(i, cache[l])'
        BY <1>5 DEF Fresh
    <2> QED
        BY <1>4, <1>5, <2>1, <2>2 DEF Fresh
<1>6. ASSUME NEW j \in Jobs, StartPoll(j) PROVE CycleInv'
    <2>1. Part(j)'
        <3>1. \A l \in Configured : <<l, Load[l]>> \in job'[j].todo /\ Load[l] \in Hosts
            BY <1>6, StartFact, LoadFact DEF Configured, Lists
        <3>2. \A l \in Labels : store'[l].at <= job'[j].start
            BY <1>6, StartFact DEF PastInv
        <3> QED
            BY <1>0, <1>6, <3>1, <3>2, StartFact
    <2>2. ASSUME NEW i \in Jobs, i # j, Active(i)' PROVE Part(i)'
        BY <1>5, <1>6, <2>2, StartFact DEF Others, Active
    <2> QED
        BY <1>3, <2>1, <2>2
<1>7. ASSUME NEW j \in Jobs, NEW x \in job[j].todo, NEW status \in {"up", "offline"},
             PollTarget(j, x, status)
      PROVE  CycleInv'
    <2>0. /\ Part(j) /\ job[j].pc = "polling" /\ job'[j].pc = "polled"
          /\ x \in Labels \X Hosts
          /\ Others(j) /\ UNCHANGED <<overlap, cache, store>>
        BY <1>2, <1>7, PollFact DEF Active
    <2>1. job[j].result = NoEntries
        BY <2>0 DEF JobInv
    <2>2. Fresh(j, job[j].result[x[1]])'
        BY <1>7, <2>0, PollFact, PolledFact, Times DEF Fresh, PastInv
    <2>3. \A l \in Labels : l # x[1] => job'[j].result[l] = NoEntry
        BY <1>7, <2>0, PollFact, PolledFact
    <2>4. \A l \in Labels : Fresh(j, cache[l]) => Fresh(j, cache[l])'
        BY <1>7, <2>0, PollFact DEF Fresh
    <2>5. ASSUME NEW l \in job'[j].list
          PROVE  \/ \E h \in Hosts : <<l, h>> \in job'[j].todo
                 \/ Fresh(j, job[j].result[l])'
                 \/ Fresh(j, cache[l])'
        <3>1. l \in job[j].list /\ l \in Labels
            BY <1>4, <1>7, <2>5, PollFact
        <3>2. CASE l = x[1]
            BY <2>2, <3>2
        <3>3. CASE l # x[1]
            <4>1. ~Fresh(j, job[j].result[l])
                BY <1>0, <2>1, <3>1 DEF Fresh
            <4>2. CASE Fresh(j, cache[l])
                BY <2>4, <3>1, <4>2
            <4>3. ASSUME NEW h \in Hosts, <<l, h>> \in job[j].todo
                  PROVE  <<l, h>> \in job'[j].todo
                BY <1>7, <3>3, <4>3, PollFact
            <4> QED
                BY <2>0, <3>1, <4>1, <4>2, <4>3
        <3> QED
            BY <3>2, <3>3
    <2>6. Part(j)'
        BY <1>7, <2>0, <2>2, <2>3, <2>5, PollFact
    <2>7. ASSUME NEW i \in Jobs, i # j, Active(i)' PROVE Part(i)'
        BY <1>5, <2>0, <2>7 DEF Others, Active
    <2> QED
        BY <1>3, <2>6, <2>7
<1>8. ASSUME NEW j \in Jobs, Record(j) PROVE CycleInv'
    <2>0. Part(j) /\ Active(j) /\ job[j].pc = "polled" /\ job'[j].pc = "polling"
        BY <1>2, <1>8, RecordFact DEF Active
    <2>1. \A l \in Labels : Fresh(j, job[j].result[l]) \/ Fresh(j, cache[l]) => Fresh(j, cache[l])'
        BY <1>8, <2>0, RecordFact DEF Fresh
    <2>2. Part(j)'
        BY <1>0, <1>4, <1>8, <2>0, <2>1, RecordFact
    <2>3. ASSUME NEW i \in Jobs, i # j, Active(i)' PROVE Part(i)'
        <3>1. Active(i) /\ job'[i] = job[i] /\ overlap' = overlap
            BY <1>8, <2>3, RecordFact DEF Others, Active
        <3>2. overlap
            BY <2>0, <2>3, <3>1, OneActive
        <3>3. \A l \in Labels : cache[l] # NoEntry => cache'[l] # NoEntry
            BY <1>8, RecordFact
        <3> QED
            BY <1>5, <3>1, <3>2, <3>3
    <2> QED
        BY <1>3, <2>2, <2>3
<1>9. ASSUME NEW j \in Jobs, Snapshot(j) PROVE CycleInv'
    <2>0. /\ Part(j) /\ job[j].pc = "polling" /\ job[j].todo = {}
          /\ Others(j) /\ UNCHANGED <<overlap, cache, store>>
        BY <1>2, <1>9, SnapshotFact DEF Active
    <2>1. job[j].result = NoEntries
        BY <2>0 DEF JobInv
    <2>2. \A l \in job[j].list : Fresh(j, cache[l])
        BY <1>0, <1>4, <2>0, <2>1 DEF Fresh
    <2>3. \A l \in job[j].list : Fresh(j, cache[l])' /\ Fresh(j, job[j].snap[l])'
        BY <1>9, <2>0, <2>2, SnapshotFact DEF Fresh
    <2>4. Part(j)'
        BY <1>0, <1>9, <2>0, <2>1, <2>3, SnapshotFact
    <2>5. ASSUME NEW i \in Jobs, i # j, Active(i)' PROVE Part(i)'
        BY <1>5, <2>0, <2>5 DEF Others, Active
    <2> QED
        BY <1>3, <2>4, <2>5
<1>10. ASSUME NEW j \in Jobs, WriteStore(j) \/ WriteFails(j) PROVE CycleInv'
    <2>0. Active(j) /\ Others(j) /\ UNCHANGED <<overlap, cache>> /\ ~Active(j)'
        BY <1>10, EndFact DEF Active, Ended
    <2>1. ASSUME NEW i \in Jobs, i # j, Active(i)' PROVE Part(i)'
        <3>1. Active(i) /\ job'[i] = job[i]
            BY <2>0, <2>1 DEF Others, Active
        <3>2. overlap
            BY <2>0, <2>1, <3>1, OneActive
        <3> QED
            BY <1>5, <2>0, <3>1, <3>2
    <2> QED
        BY <1>3, <2>0, <2>1
<1>11. ASSUME NEW r \in Readers, ReaderStep(r) PROVE CycleInv'
    BY <1>1, <1>11, ReaderFact
<1>12. CASE RestartCollector
    BY <1>12 DEF RestartCollector, CycleInv, Active, IdleJob
<1>13. CASE Tick \/ RestartWeb \/ UNCHANGED vars
    BY <1>1, <1>13 DEF Tick, RestartWeb, vars, caches
<1>14. ASSUME NEW e \in Admins,
              SaveStep(e) \/ \E l \in Labels, h \in Hosts \cup {"unset"} : EditLoad(e, l, h)
       PROVE  CycleInv'
    BY <1>1, <1>14 DEF SaveStep, EditLoad, EditOpen, EditDump, caches
<1> QED
    BY <1>6, <1>7, <1>8, <1>9, <1>10, <1>11, <1>12, <1>13, <1>14 DEF Next, JobStep
\* Behind is transitive through entries that exist, and NoEntry is behind all.
LEMMA BehindFacts ==
    /\ \A x \in Entry : Behind(x, NoEntry) /\ Behind(NoEntry, x) /\ Behind(x, x)
    BY CacheFacts DEF Behind

LEMMA AgeNext == Inv /\ [Next]_vars => AgeInv'
<1> SUFFICES ASSUME Inv, [Next]_vars, ~overlap', NEW l \in Labels
             PROVE  \A y \in Sources(l)' : Behind(store'[l], y)
    BY DEF AgeInv
<1>0. TypeInv /\ PastInv /\ JobInv /\ CycleInv /\ AgeInv
    BY DEF Inv
<1>1. ~overlap
    BY DEF Next, vars, Tick, EditLoad, SaveStep, EditOpen, EditDump, JobStep, StartPoll,
           PollTarget, Record, Snapshot, WriteStore, WriteFails, ReaderStep, Request,
           ReadStore, ReadFails, Fill, List, RestartCollector, RestartWeb
<1>2. \A y \in Sources(l) : Behind(store[l], y)
    BY <1>0, <1>1 DEF AgeInv
<1>3. /\ NoEntries[l] = NoEntry
      /\ \A y \in Sources(l) \cup {store[l]} : y \in Entry
    <2>1. \A j \in Jobs : job[j].result \in Cache /\ job[j].snap \in Cache
        BY <1>0 DEF TypeInv, JobRecords
    <2> QED
        BY <1>0, <2>1, CacheFacts DEF Sources, TypeInv
\* Entries that are dropped, or copied from one of the collector's places to
\* another, keep the order.
<1>4. ASSUME store'[l] = store[l],
             \A y \in Sources(l)' : y \in Sources(l) \cup {NoEntry}
      PROVE  \A y \in Sources(l)' : Behind(store'[l], y)
    BY <1>2, <1>3, <1>4, BehindFacts
<1>5. ASSUME UNCHANGED <<cache, store, job>>
      PROVE  \A y \in Sources(l)' : Behind(store'[l], y)
    BY <1>2, <1>5 DEF Sources
<1>6. ASSUME NEW j \in Jobs, StartPoll(j) \/ Record(j) \/ Snapshot(j) \/ WriteFails(j)
      PROVE  \A y \in Sources(l)' : Behind(store'[l], y)
    <2>1. store' = store
        BY <1>6 DEF StartPoll, Record, Snapshot, WriteFails, caches
    <2>2. StartPoll(j) => \A y \in Sources(l)' : y \in Sources(l) \cup {NoEntry}
        BY <1>0, <1>3, StartFact DEF Sources, Others
    <2>3. Record(j) => \A y \in Sources(l)' : y \in Sources(l) \cup {NoEntry}
        BY <1>0, <1>3, RecordFact DEF Sources, Others
    <2>4. Snapshot(j) => \A y \in Sources(l)' : y \in Sources(l) \cup {NoEntry}
        BY <1>0, <1>3, SnapshotFact DEF Sources, Others
    <2>5. WriteFails(j) => \A y \in Sources(l)' : y \in Sources(l) \cup {NoEntry}
        BY <1>0, <1>3, EndFact DEF Sources, Others
    <2> QED
        BY <1>4, <1>6, <2>1, <2>2, <2>3, <2>4, <2>5
\* A poll makes an entry of now, and the store is not newer.
<1>7. ASSUME NEW j \in Jobs, NEW x \in job[j].todo, NEW status \in {"up", "offline"},
             PollTarget(j, x, status)
      PROVE  \A y \in Sources(l)' : Behind(store'[l], y)
    <2>1. /\ UNCHANGED <<cache, store>> /\ Others(j)
          /\ job'[j].result = Polled(x, status) /\ job'[j].snap = job[j].snap
          /\ x \in Labels \X Hosts
        BY <1>0, <1>7, PollFact
    <2>2. \A y \in Sources(l)' : y \in Sources(l) \/ y = Polled(x, status)[l]
        BY <2>1 DEF Sources, Others
    <2>3. Behind(store[l], Polled(x, status)[l])
        BY <1>0, <2>1, PolledFact DEF Behind, PastInv
    <2> QED
        BY <1>2, <2>1, <2>2, <2>3
\* A store that is written gets what the cache holds, and no other thread is
\* under way.
<1>8. ASSUME NEW j \in Jobs, WriteStore(j)
      PROVE  \A y \in Sources(l)' : Behind(store'[l], y)
    <2>1. /\ cache' = cache /\ Others(j)
          /\ job'[j].result = NoEntries /\ job'[j].snap = NoEntries
          /\ job[j].pc = "snapped" /\ Active(j)
        BY <1>0, <1>8, EndFact DEF Active
    <2>2. store'[l] = cache[l] /\ cache[l] \in Entry
        BY <1>0, <1>1, <1>3, <1>8, <2>1 DEF WriteStore, CycleInv, Sources
    <2>3. \A i \in Jobs : i # j => job[i].result = NoEntries /\ job[i].snap = NoEntries
        <3>1. \A i \in Jobs : i # j => ~Active(i)
            BY <1>0, <1>1, <2>1, OneActive
        <3> QED
            BY <1>0, <3>1 DEF JobInv, Active
    <2>4. \A y \in Sources(l)' : y \in {cache[l], NoEntry}
        BY <1>3, <2>1, <2>3 DEF Sources, Others
    <2> QED
        BY <2>2, <2>4, BehindFacts
<1>9. ASSUME NEW r \in Readers, ReaderStep(r)
      PROVE  \A y \in Sources(l)' : Behind(store'[l], y)
    BY <1>0, <1>5, <1>9, ReaderFact
<1>10. CASE RestartCollector
    <2>1. /\ store' = store /\ cache' = NoEntries
          /\ \A j \in Jobs : job'[j].result = NoEntries /\ job'[j].snap = NoEntries
        BY <1>10 DEF RestartCollector, IdleJob
    <2>2. \A y \in Sources(l)' : y = NoEntry
        BY <1>3, <2>1 DEF Sources
    <2> QED
        BY <1>4, <2>1, <2>2
<1>11. CASE Tick \/ RestartWeb \/ UNCHANGED vars
    BY <1>5, <1>11 DEF Tick, RestartWeb, vars, caches
<1>12. ASSUME NEW e \in Admins,
              SaveStep(e) \/ \E k \in Labels, h \in Hosts \cup {"unset"} : EditLoad(e, k, h)
       PROVE  \A y \in Sources(l)' : Behind(store'[l], y)
    BY <1>5, <1>12 DEF SaveStep, EditLoad, EditOpen, EditDump, caches
<1> QED
    BY <1>6, <1>7, <1>8, <1>9, <1>10, <1>11, <1>12 DEF Next, JobStep

\* Without overlap a write of the store makes no entry older, except that it may
\* drop one.
LEMMA StoreForward ==
    ASSUME TypeInv, JobInv, CycleInv, AgeInv, ~overlap, NEW j \in Jobs, WriteStore(j),
           NEW l \in Labels, job[j].snap[l] # NoEntry
    PROVE  store[l].at <= store'[l].at
<1>1. job[j].pc = "snapped" /\ Active(j) /\ store' = job[j].snap
    BY DEF WriteStore, Active
<1>2. job[j].snap[l] \in Sources(l)
    BY DEF Sources
<1> QED
    BY <1>1, <1>2 DEF AgeInv, Behind

LEMMA DueNext == Inv /\ [Next]_vars => DueInv'
<1> DEFINE Good(r) == /\ reader[r].pc = "idle" => due[r] = NoEntries
                      /\ ~overlap => \A l \in Labels : due[r][l].at <= Pending(r)[l].at
<1> SUFFICES ASSUME Inv, [Next]_vars, NEW r \in Readers PROVE Good(r)'
    BY DEF DueInv
<1>0. TypeInv /\ JobInv /\ CycleInv /\ AgeInv /\ Good(r)
    BY DEF Inv, DueInv
<1>1. CASE UNCHANGED <<overlap, store, reader, due>>
    BY <1>0, <1>1 DEF Pending
<1>2. /\ reader[r] \in ReaderRecords /\ reader[r].pc \in {"idle", "miss", "fill", "list"}
      /\ NoEntry.at = 0 /\ \A l \in Labels : NoEntries[l] = NoEntry
      /\ \A l \in Labels : /\ webCache[l].at \in Nat /\ store[l].at \in Nat
                           /\ due[r][l].at \in Nat /\ reader[r].got[l].at \in Nat
                           /\ reader[r].view[l].at \in Nat
    <2>1. reader[r] \in ReaderRecords /\ due[r] \in Cache
        BY <1>0 DEF TypeInv
    <2> QED
        BY <1>0, <2>1, CacheFacts DEF TypeInv, ReaderRecords
<1>3. ASSUME NEW j \in Jobs, WriteStore(j) PROVE Good(r)'
    <2>1. /\ UNCHANGED <<overlap, reader>>
          /\ \A l \in Labels : due'[r][l] \in {due[r][l], NoEntry}
          /\ \A l \in Labels : job[j].snap[l] = NoEntry => due'[r][l] = NoEntry
          /\ due[r] = NoEntries => due'[r] = NoEntries
        <3>1. due'[r] = [l \in Labels |-> IF job[j].snap[l] = NoEntry THEN NoEntry
                                          ELSE due[r][l]]
            BY <1>3 DEF WriteStore
        <3> QED
            BY <1>3, <3>1 DEF WriteStore, NoEntries
    <2>2. ASSUME ~overlap, NEW l \in Labels PROVE due'[r][l].at <= Pending(r)'[l].at
        <3>1. CASE reader[r].pc = "miss"
            <4>1. Pending(r)' = store' /\ Pending(r) = store /\ store' = job[j].snap
                BY <1>3, <2>1, <3>1 DEF Pending, WriteStore
            <4>2. CASE job[j].snap[l] = NoEntry
                BY <1>2, <2>1, <4>1, <4>2
            <4>3. CASE job[j].snap[l] # NoEntry
                <5>1. store[l].at <= store'[l].at /\ store'[l].at \in Nat
                    BY <1>0, <1>3, <2>2, <4>1, <4>3, StoreForward, Times
                <5>2. due[r][l].at <= store[l].at
                    BY <1>0, <2>2, <4>1
                <5>3. due'[r][l].at <= due[r][l].at
                    BY <1>2, <2>1
                <5>4. due'[r][l].at \in Nat
                    BY <1>2, <2>1
                <5> QED
                    BY <1>2, <4>1, <5>1, <5>2, <5>3, <5>4
            <4> QED
                BY <4>2, <4>3
        <3>2. CASE reader[r].pc # "miss"
            <4>1. Pending(r)' = Pending(r) /\ Pending(r)[l].at \in Nat
                BY <1>2, <2>1, <3>2 DEF Pending
            <4>2. due[r][l].at <= Pending(r)[l].at
                BY <1>0, <2>2
            <4> QED
                BY <1>2, <2>1, <4>1, <4>2
        <3> QED
            BY <3>1, <3>2
    <2> QED
        BY <1>0, <2>1, <2>2
<1>4. ASSUME NEW j \in Jobs, JobStep(j), ~WriteStore(j) PROVE Good(r)'
    BY <1>1, <1>4 DEF JobStep, StartPoll, PollTarget, Record, Snapshot, WriteFails, caches
<1>5. ASSUME NEW q \in Readers, ReaderStep(q), q # r PROVE Good(r)'
    <2>1. UNCHANGED <<overlap, store>> /\ reader'[r] = reader[r] /\ due'[r] = due[r]
        BY <1>0, <1>5, ReaderFact
    <2> QED
        BY <1>0, <2>1 DEF Pending
<1>6. CASE Request(r)
    <2>1. /\ UNCHANGED <<overlap, store>>
          /\ IF webCache = NoEntries THEN due'[r] = store /\ reader'[r].pc = "miss"
                                     ELSE due'[r] = NoEntries /\ reader'[r].pc = "list"
          /\ reader'[r].view = webCache
        BY <1>0, <1>6 DEF Request, TypeInv, IdleReader, caches
    <2> QED
        BY <1>2, <2>1 DEF Pending
<1>7. CASE ReadStore(r)
    <2>1. /\ UNCHANGED <<overlap, store, due>> /\ reader[r].pc = "miss"
          /\ reader'[r].got = store /\ reader'[r].view = reader[r].view
          /\ reader'[r].pc = IF store = NoEntries THEN "list" ELSE "fill"
        BY <1>0, <1>2, <1>7 DEF ReadStore, TypeInv, ReaderRecords, caches
    <2>2. Pending(r) = store
        BY <2>1 DEF Pending
    <2>3. CASE store # NoEntries
        BY <1>0, <2>1, <2>2, <2>3 DEF Pending
    <2>4. CASE store = NoEntries
        <3>1. Pending(r)' = reader[r].view
            BY <2>1, <2>4 DEF Pending
        <3>2. ~overlap => \A l \in Labels : due[r][l].at <= 0
            BY <1>0, <1>2, <2>2, <2>4
        <3> QED
            BY <1>2, <2>1, <2>4, <3>1, <3>2
    <2> QED
        BY <2>3, <2>4
<1>8. CASE Fill(r)
    <2>1. /\ UNCHANGED <<overlap, store, due>> /\ reader[r].pc = "fill"
          /\ reader'[r].view = webCache' /\ reader'[r].pc = "list"
          /\ webCache' = Updated(webCache, reader[r].got)
        BY <1>0, <1>2, <1>8 DEF Fill, TypeInv, ReaderRecords
    <2>2. \A l \in Labels : webCache'[l] = IF reader[r].got[l] # NoEntry THEN reader[r].got[l]
                                           ELSE webCache[l]
        BY <1>0, <1>2, <2>1, UpdatedFact DEF TypeInv, ReaderRecords
    <2>3. Pending(r) = reader[r].got /\ Pending(r)' = webCache'
        BY <2>1 DEF Pending
    <2>4. ASSUME ~overlap, NEW l \in Labels PROVE due[r][l].at <= webCache'[l].at
        <3>1. due[r][l].at <= reader[r].got[l].at
            BY <1>0, <2>3, <2>4
        <3> QED
            BY <1>2, <2>2, <3>1
    <2> QED
        BY <2>1, <2>3, <2>4
<1>9. CASE List(r) \/ ReadFails(r)
    <2>1. due'[r] = NoEntries
        BY <1>0, <1>9 DEF List, ReadFails, TypeInv
    <2>2. reader'[r].pc = "idle" /\ reader'[r].view \in {NoEntries, reader[r].view}
        <3>1. reader \in [Readers -> ReaderRecords]
            BY <1>0 DEF TypeInv
        <3>2. CASE List(r)
            BY <3>1, <3>2 DEF List, ReaderRecords
        <3>3. CASE ReadFails(r)
            BY <3>1, <3>3 DEF ReadFails, ReaderRecords
        <3> QED
            BY <1>9, <3>2, <3>3
    <2>3. \A l \in Labels : reader'[r].view[l].at \in Nat
        BY <1>2, <2>2
    <2> QED
        BY <1>2, <2>1, <2>2, <2>3 DEF Pending
<1>10. CASE RestartWeb
    <2>1. /\ due'[r] = NoEntries /\ UNCHANGED overlap
          /\ reader'[r].view = NoEntries /\ reader'[r].pc = "idle"
        BY <1>10 DEF RestartWeb, IdleReader
    <2> QED
        BY <1>2, <2>1 DEF Pending
<1>11. CASE Tick \/ RestartCollector \/ UNCHANGED vars
    BY <1>1, <1>11 DEF Tick, RestartCollector, vars, caches
<1>12. ASSUME NEW e \in Admins,
              SaveStep(e) \/ \E k \in Labels, h \in Hosts \cup {"unset"} : EditLoad(e, k, h)
       PROVE  Good(r)'
    BY <1>1, <1>12 DEF SaveStep, EditLoad, EditOpen, EditDump, caches
<1> HIDE DEF Good
<1> QED
    BY <1>3, <1>4, <1>5, <1>6, <1>7, <1>8, <1>9, <1>10, <1>11, <1>12 DEF Next, ReaderStep
-----------------------------------------------------------------------------
(* Theorems *)

LEMMA Invariance == Spec => []Inv
<1>1. Init => Inv
    BY TypeInit, EditInit, CycleInit DEF Inv
<1>2. Inv /\ [Next]_vars => Inv'
    BY TypeNext, EditNext, PastNext, JobNext, CycleNext, AgeNext, DueNext DEF Inv
<1> QED
    BY <1>1, <1>2, PTL DEF Spec

\* Every variable holds a value of its kind; no entry carries a time that the
\* clock has not reached.
THEOREM TypeCorrect == Spec => []TypeOK
<1>1. ASSUME NEW c \in Cache, \A l \in Labels : c[l].at <= clock, clock \in Nat
      PROVE  c \in Caches
    <2>1. ASSUME NEW l \in Labels PROVE c[l] \in Entries \cup {NoEntry}
        <3>1. c[l] \in Entry /\ c[l].at <= clock
            BY <1>1 DEF Cache
        <3>2. CASE c[l] # NoEntry
            BY <1>1, <3>1, <3>2 DEF Entry, Entries
        <3> QED
            BY <3>2
    <2> QED
        BY <2>1 DEF Cache, Caches
<1>2. Inv => TypeOK
    <2> SUFFICES ASSUME Inv PROVE TypeOK
        OBVIOUS
    <2>1. TypeInv /\ PastInv /\ clock \in Nat
        BY DEF Inv, TypeInv
    <2>2. cache \in Caches /\ webCache \in Caches /\ store \in Caches
        BY <1>1, <2>1 DEF PastInv, TypeInv
    <2>3. ASSUME NEW j \in Jobs
          PROVE  job[j] \in [pc : JobPcs, list : SUBSET Labels,
                             todo : SUBSET (Labels \X Hosts), start : 0..clock,
                             result : Caches, snap : Caches]
        <3>1. job[j] \in JobRecords /\ job[j].start \in 0..clock
            BY <2>1 DEF TypeInv, PastInv, JobRecords
        <3>2. job[j].result \in Caches /\ job[j].snap \in Caches
            BY <1>1, <2>1, <3>1 DEF PastInv, JobRecords
        <3> QED
            BY <3>1, <3>2 DEF JobRecords
    <2>4. ASSUME NEW r \in Readers
          PROVE  /\ reader[r].pc \in {"idle", "miss", "fill", "list"}
                 /\ reader[r].view \in Caches /\ reader[r].got \in Caches
                 /\ due[r] \in Caches
                 /\ DOMAIN reader[r].cards \in SUBSET Labels
        <3>1. reader[r] \in ReaderRecords
            BY <2>1 DEF TypeInv
        <3>2. reader[r].view \in Caches /\ reader[r].got \in Caches
            BY <1>1, <2>1, <3>1 DEF PastInv, ReaderRecords
        <3>3. DOMAIN reader[r].cards \in SUBSET Labels
            BY <3>1 DEF ReaderRecords, Cards
        <3>4. due[r] \in Caches
            BY <1>1, <2>1 DEF PastInv, TypeInv
        <3> QED
            BY <3>1, <3>2, <3>3, <3>4 DEF ReaderRecords
    <2>5. job \in [Jobs -> [pc : JobPcs, list : SUBSET Labels,
                            todo : SUBSET (Labels \X Hosts), start : 0..clock,
                            result : Caches, snap : Caches]]
        BY <2>1, <2>3 DEF TypeInv
    <2> QED
        BY <2>1, <2>2, <2>4, <2>5 DEF TypeOK, TypeInv, EditRecords
<1> QED
    BY <1>2, Invariance, PTL

\* A failing target freezes no other: poll_all_targets stores an entry for every
\* target on the list it read, whatever the others answered.
THEOREM CyclesComplete == Spec => []CycleRefreshesAll
<1>1. Inv => CycleRefreshesAll
    BY DEF Inv, CycleInv, Active, Fresh, CycleRefreshesAll
<1> QED
    BY <1>1, Invariance, PTL

\* The request that fills an empty cache shows nothing older than what was stored
\* when it began, however many requests fill it at the same time.
THEOREM FirstViewsAreCurrent == Spec => []FirstViewCurrent
<1>1. Inv => FirstViewCurrent
    <2> SUFFICES ASSUME Inv, NEW r \in Readers, reader[r].pc = "list", ~overlap,
                        NEW l \in Labels
                 PROVE  reader[r].view[l].at >= due[r][l].at
        BY DEF FirstViewCurrent
    <2>1. due[r][l].at <= Pending(r)[l].at /\ Pending(r) = reader[r].view
        BY DEF Inv, DueInv, Pending
    <2> QED
        BY <2>1
<1> QED
    BY <1>1, Invariance, PTL

\* The lock makes the read-modify-write of faz_targets.json safe for any number
\* of administrators.
THEOREM NoEditIsLost == Spec => []EditsNotLost
<1>1. Inv => EditsNotLost
    BY DEF Inv, EditInv, EditsNotLost
<1> QED
    BY <1>1, Invariance, PTL

\* Without overlapping polls a write of the store never moves a listed target's
\* entry back in time, also after a restart emptied the collector's cache.
THEOREM StoreMovesForward == Spec => StoreNeverGoesBack
<1> DEFINE Step == \A j \in Jobs : ~overlap /\ job[j].pc = "snapped" /\ store' # store =>
                       \A l \in job[j].list : store'[l].at >= store[l].at
<1>1. Inv /\ [Next]_vars => [Step]_vars
    <2> SUFFICES ASSUME Inv, [Next]_vars, NEW j \in Jobs, ~overlap, job[j].pc = "snapped",
                        store' # store, NEW l \in job[j].list
                 PROVE  store'[l].at >= store[l].at
        OBVIOUS
    <2>1. TypeInv /\ JobInv /\ CycleInv
        BY DEF Inv
    <2>2. PICK i \in Jobs : WriteStore(i)
        BY DEF Next, vars, caches, Tick, EditLoad, SaveStep, EditOpen, EditDump, JobStep,
               StartPoll, PollTarget, Record, Snapshot, WriteFails, ReaderStep, Request,
               ReadStore, ReadFails, Fill, List, RestartCollector, RestartWeb
    <2>3. i = j /\ store' = job[j].snap
        BY <2>1, <2>2, OneActive DEF WriteStore, Active
    <2>4. l \in Labels /\ store[l].at <= job[j].start /\ job[j].snap[l].at >= job[j].start
        BY <2>1 DEF CycleInv, Active, Fresh, TypeInv, JobRecords
    <2> QED
        BY <2>1, <2>3, <2>4, Times
<1> QED
    BY <1>1, Invariance, PTL DEF Spec, StoreNeverGoesBack

\* A listing taken while another thread saves the file still has a card for every
\* target, because list_targets waits for the lock.
THEOREM DashboardIsComplete == Spec => DashboardComplete
<1> DEFINE Step == \A r \in Readers : List(r) /\ acked.intact =>
                       DOMAIN reader'[r].cards = {l \in Labels : acked.list[l] # "unset"}
<1>1. Inv => [Step]_vars
    <2> SUFFICES ASSUME Inv, NEW r \in Readers, List(r), acked.intact
                 PROVE  DOMAIN reader'[r].cards = {l \in Labels : acked.list[l] # "unset"}
        OBVIOUS
    <2>1. TypeInv /\ reader[r] \in ReaderRecords
        BY DEF Inv, TypeInv
    <2>2. reader'[r].cards = [l \in Configured |-> reader[r].view[l]]
        BY <2>1 DEF List, TypeInv, ReaderRecords
    <2>3. Load = acked.list
        BY LoadAcked DEF Inv, List
    <2> QED
        BY <2>2, <2>3 DEF Configured
<1> QED
    BY <1>1, Invariance, PTL DEF DashboardComplete
==============================================================================
