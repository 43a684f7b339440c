-------------------------- MODULE StatsCacheProofs --------------------------
(* Theorems about StatsCache, for every set of processes, threads and        *)
(* targets and every bound: types and caches first, then the order of the    *)
(* snapshots when poll_now's thread ends before the first interval elapses,  *)
(* and the refinement of SnapshotFeed in the collector/web split.            *)
EXTENDS StatsCache, TLAPS

-----------------------------------------------------------------------------
(* Type correctness. *)

\* A thread between the stamp and the end of its cycle carries a snapshot.
Carrying == {"stamped", "published", "stored", "rolled"}
CarriesSnapshot == \A j \in Jobs : job[j].pc \in Carrying => job[j].snap \in Snapshots

TypeInv == TypeOK /\ CarriesSnapshot

\* An answer is a state of a request thread.
LEMMA AnswerType ==
    ASSUME NEW rd \in ReaderStates, NEW src \in {"cache", "rollup", "none"},
           NEW s \in MaybeSnapshots
    PROVE  Answer(rd, src, s) \in ReaderStates
    BY DEF Answer, ReaderStates, ReaderPcs, MaybeSnapshots

\* So is a request that ended without one.
LEMMA DroppedType ==
    ASSUME NEW rd \in ReaderStates
    PROVE  Dropped(rd) \in ReaderStates
<1>1. 0 \in 0..MaxClock
    BY BoundsAssumption
<1> QED
    BY <1>1 DEF Dropped, ReaderStates, ReaderPcs

\* Replacing the state of one request thread keeps the type of `reader`.
LEMMA ReaderUpdateType ==
    ASSUME reader \in [Web -> [Readers -> ReaderStates]],
           NEW p \in Web, NEW r \in Readers, NEW x \in ReaderStates
    PROVE  [reader EXCEPT ![p][r] = x] \in [Web -> [Readers -> ReaderStates]]
    OBVIOUS

\* The initial state is well typed.
LEMMA TypeInit == Init => TypeInv
<1> SUFFICES ASSUME Init PROVE TypeInv
    OBVIOUS
<1>1. TypeOK
    BY BoundsAssumption DEF Init, TypeOK, MaybeSnapshots, Snapshots, Empty, IdleJob,
       IdleReader, ReaderStates, ReaderPcs, JobPcs, Jobs
<1>2. CarriesSnapshot
    BY DEF Init, CarriesSnapshot, Carrying, IdleJob
<1> QED
    BY <1>1, <1>2 DEF TypeInv

\* A step of a poll thread keeps the types.
LEMMA TypeJobStep ==
    ASSUME TypeInv, NEW j \in Jobs, JobStep(j)
    PROVE  TypeInv'
<1> USE DEF TypeInv, TypeOK, CarriesSnapshot, Carrying, JobPcs, MaybeSnapshots
<1>1. CASE StartPoll(j)
    BY <1>1 DEF StartPoll, MayStart
<1>2. ASSUME NEW ok \in SUBSET Targets, Collect(j, ok) PROVE TypeInv'
    <2>1. CASE ok = {}
        BY <1>2, <2>1 DEF Collect, Over, Ended
    <2>2. CASE ok # {}
        <3>1. [at |-> clock, ok |-> ok] \in Snapshots
            BY DEF Snapshots
        <3> QED
            BY <1>2, <2>2, <3>1 DEF Collect
    <2> QED
        BY <2>1, <2>2
<1>3. CASE Publish(j)
    BY <1>3 DEF Publish, Procs
<1>4. CASE WriteStore(j)
    BY <1>4 DEF WriteStore
<1>5. CASE WriteRollup(j)
    BY <1>5 DEF WriteRollup
<1>6. CASE Prune(j)
    BY <1>6 DEF Prune, Kept, Over, Ended
<1>7. CASE JobDies(j)
    BY <1>7 DEF JobDies, Over, Ended
<1> QED
    BY <1>1, <1>2, <1>3, <1>4, <1>5, <1>6, <1>7 DEF JobStep

\* A step of a request thread keeps the types.
LEMMA TypeReaderStep ==
    ASSUME TypeInv, NEW p \in Web, NEW r \in Readers, ReaderStep(p, r)
    PROVE  TypeInv'
<1>rd. reader[p][r] \in ReaderStates
    BY DEF TypeInv, TypeOK
<1>mem. mem[p] \in MaybeSnapshots
    BY DEF TypeInv, TypeOK, Procs
<1>1. CASE Request(p, r)
    <2> DEFINE rd == [reader[p][r] EXCEPT !.base = store.at]
               x == IF mem[p] # Empty THEN Answer(rd, "cache", mem[p])
                    ELSE [rd EXCEPT !.pc = "miss"]
    <2>1. store.at \in 0..MaxClock
        BY BoundsAssumption DEF TypeInv, TypeOK, MaybeSnapshots, Snapshots, Empty
    <2>2. rd \in ReaderStates
        BY <1>rd, <2>1 DEF ReaderStates, ReaderPcs
    <2>3. x \in ReaderStates
        <3>1. Answer(rd, "cache", mem[p]) \in ReaderStates
            BY <2>2, <1>mem, AnswerType
        <3>2. [rd EXCEPT !.pc = "miss"] \in ReaderStates
            BY <2>2 DEF ReaderStates, ReaderPcs
        <3> QED
            BY <3>1, <3>2
    <2>4. reader' \in [Web -> [Readers -> ReaderStates]]
        BY <1>1, <2>3, ReaderUpdateType DEF Request, TypeInv, TypeOK
    <2> QED
        BY <1>1, <2>4 DEF Request, TypeInv, TypeOK, CarriesSnapshot
<1>2. CASE ReadStore(p, r)
    <2> DEFINE x == [reader[p][r] EXCEPT !.pc = "fetched", !.got = store]
    <2>1. x \in ReaderStates
        BY <1>rd DEF TypeInv, TypeOK, ReaderStates, ReaderPcs, MaybeSnapshots
    <2>2. reader' = [reader EXCEPT ![p][r] = x]
        BY <1>2 DEF ReadStore, TypeInv, TypeOK
    <2>3. reader' \in [Web -> [Readers -> ReaderStates]]
        BY <2>1, <2>2, ReaderUpdateType DEF TypeInv, TypeOK
    <2> QED
        BY <1>2, <2>3 DEF ReadStore, TypeInv, TypeOK, CarriesSnapshot
<1>3. CASE Fill(p, r)
    <2> DEFINE x == IF mem'[p] # Empty THEN Answer(reader[p][r], "cache", mem'[p])
                    ELSE [reader[p][r] EXCEPT !.pc = "rollup"]
    <2>1. reader[p][r].got \in MaybeSnapshots
        BY <1>rd DEF ReaderStates, MaybeSnapshots
    <2>2. mem' \in [Procs -> MaybeSnapshots]
        BY <1>3, <2>1 DEF Fill, TypeInv, TypeOK
    <2>3. mem'[p] \in MaybeSnapshots
        BY <2>2 DEF Procs
    <2>4. x \in ReaderStates
        <3>1. Answer(reader[p][r], "cache", mem'[p]) \in ReaderStates
            BY <1>rd, <2>3, AnswerType
        <3>2. [reader[p][r] EXCEPT !.pc = "rollup"] \in ReaderStates
            BY <1>rd DEF ReaderStates, ReaderPcs
        <3> QED
            BY <3>1, <3>2
    <2>5. reader' = [reader EXCEPT ![p][r] = x]
        BY <1>3 DEF Fill, TypeInv, TypeOK
    <2>6. reader' \in [Web -> [Readers -> ReaderStates]]
        BY <2>4, <2>5, ReaderUpdateType DEF TypeInv, TypeOK
    <2> QED
        BY <1>3, <2>2, <2>6 DEF Fill, TypeInv, TypeOK, CarriesSnapshot
<1>4. CASE ReadRollup(p, r)
    <2>1. PICK src \in {"rollup", "none"}, s \in MaybeSnapshots :
             reader' = [reader EXCEPT ![p][r] = Answer(@, src, s)]
        BY <1>4 DEF ReadRollup, Newest, TypeInv, TypeOK, MaybeSnapshots
    <2>2. Answer(reader[p][r], src, s) \in ReaderStates
        BY <1>rd, AnswerType
    <2>3. reader' = [reader EXCEPT ![p][r] = Answer(reader[p][r], src, s)]
        BY <2>1 DEF TypeInv, TypeOK
    <2>4. reader' \in [Web -> [Readers -> ReaderStates]]
        BY <2>2, <2>3, ReaderUpdateType DEF TypeInv, TypeOK
    <2> QED
        BY <1>4, <2>4 DEF ReadRollup, TypeInv, TypeOK, CarriesSnapshot
<1>5. CASE ReadFails(p, r)
    <2>1. reader' \in [Web -> [Readers -> ReaderStates]]
        BY <1>5, <1>rd, DroppedType, ReaderUpdateType DEF ReadFails, TypeInv, TypeOK
    <2> QED
        BY <1>5, <2>1 DEF ReadFails, TypeInv, TypeOK, CarriesSnapshot
<1> QED
    BY <1>1, <1>2, <1>3, <1>4, <1>5 DEF ReaderStep

\* A restart keeps the types.
LEMMA TypeRestart ==
    ASSUME TypeInv, NEW p \in Procs, Restart(p)
    PROVE  TypeInv'
<1>1. mem' \in [Procs -> MaybeSnapshots] /\ restarts' \in 0..MaxRestarts
    BY BoundsAssumption DEF Restart, TypeInv, TypeOK, MaybeSnapshots
<1>4. born' \in [Procs -> 0..MaxClock]
    BY BoundsAssumption DEF Restart, TypeInv, TypeOK, MaybeSnapshots, Snapshots, Empty
<1>2. job' \in [Jobs -> [pc : JobPcs, snap : MaybeSnapshots]] /\ CarriesSnapshot'
    BY DEF Restart, IdleJob, JobPcs, TypeInv, TypeOK, CarriesSnapshot, Carrying,
       MaybeSnapshots
<1>3. reader' \in [Web -> [Readers -> ReaderStates]]
    <2>1. ASSUME NEW q \in Web, NEW r \in Readers
          PROVE  Dropped(reader[q][r]) \in ReaderStates
        BY DroppedType DEF TypeInv, TypeOK
    <2>2. CASE p \in Web
        <3> DEFINE rds == [r \in Readers |-> Dropped(reader[p][r])]
        <3>1. rds \in [Readers -> ReaderStates]
            BY <2>1, <2>2
        <3>2. reader' = [reader EXCEPT ![p] = rds]
            BY <2>2 DEF Restart
        <3> QED
            BY <2>2, <3>1, <3>2 DEF TypeInv, TypeOK
    <2>3. CASE p \notin Web
        BY <2>3 DEF Restart, TypeInv, TypeOK
    <2> QED
        BY <2>2, <2>3
<1> QED
    BY <1>1, <1>2, <1>3, <1>4 DEF Restart, TypeInv, TypeOK

\* Every step keeps the types.
LEMMA TypeStep == TypeInv /\ [Next]_vars => TypeInv'
<1> SUFFICES ASSUME TypeInv, [Next]_vars PROVE TypeInv'
    OBVIOUS
<1>1. CASE Tick
    BY <1>1, BoundsAssumption DEF Tick, TypeInv, TypeOK, CarriesSnapshot
<1>2. CASE UNCHANGED vars
    BY <1>2 DEF vars, TypeInv, TypeOK, CarriesSnapshot
<1> QED
    BY <1>1, <1>2, TypeJobStep, TypeReaderStep, TypeRestart DEF Next

\* Type correctness of the snapshot cache, its store, its history and the
\* threads that share them.
THEOREM TypeCorrect == Spec => []TypeOK
<1>1. TypeInv => TypeOK
    BY DEF TypeInv
<1> QED
    BY <1>1, TypeInit, TypeStep, PTL DEF Spec

\* How a step of one request thread changes `reader`.
LEMMA ReaderUpdate ==
    ASSUME reader \in [Web -> [Readers -> ReaderStates]],
           NEW p \in Web, NEW r \in Readers, NEW x,
           NEW q \in Web, NEW s \in Readers
    PROVE  [reader EXCEPT ![p][r] = x][q][s]
             = IF q = p /\ s = r THEN x ELSE reader[q][s]
    OBVIOUS

\* The fields of an answer.
LEMMA AnswerFields ==
    ASSUME NEW rd \in ReaderStates, NEW src, NEW s
    PROVE  LET a == Answer(rd, src, s)
           IN  a.pc = "idle" /\ a.got = Empty /\ a.src = src /\ a.ans = s /\ a.base = rd.base
    BY DEF Answer, ReaderStates

-----------------------------------------------------------------------------
(* Answers rest on targets that answered. *)

Genuine(s) == s.at # 0 => s.ok # {}

\* Honest, carried through the places a snapshot passes on its way.
HonestInv ==
    /\ Genuine(store)
    /\ \A h \in history : Genuine(h)
    /\ \A p \in Procs : Genuine(mem[p])
    /\ \A j \in Jobs : Genuine(job[j].snap)
    /\ \A p \in Web, r \in Readers :
          Genuine(reader[p][r].ans) /\ Genuine(reader[p][r].got)

\* No step lets a reading without an answering target in.
LEMMA HonestStep == TypeInv /\ HonestInv /\ [Next]_vars => HonestInv'
<1> SUFFICES ASSUME TypeInv, HonestInv, [Next]_vars PROVE HonestInv'
    OBVIOUS
<1>type. /\ job \in [Jobs -> [pc : JobPcs, snap : MaybeSnapshots]]
         /\ mem \in [Procs -> MaybeSnapshots]
         /\ reader \in [Web -> [Readers -> ReaderStates]]
    BY DEF TypeInv, TypeOK
<1>empty. Genuine(Empty)
    BY DEF Genuine, Empty
<1>1. CASE Tick
    BY <1>1 DEF Tick, HonestInv
<1>2. ASSUME NEW j \in Jobs, JobStep(j) PROVE HonestInv'
    <2>1. CASE StartPoll(j)
        BY <2>1, <1>type DEF StartPoll, HonestInv
    <2>2. ASSUME NEW ok \in SUBSET Targets, Collect(j, ok) PROVE HonestInv'
        BY <2>2, <1>type DEF Collect, Over, Empty, HonestInv, Genuine
    <2>3. CASE Publish(j)
        BY <2>3, <1>type DEF Publish, HonestInv
    <2>4. CASE WriteStore(j)
        BY <2>4, <1>type DEF WriteStore, HonestInv
    <2>5. CASE WriteRollup(j)
        BY <2>5, <1>type DEF WriteRollup, HonestInv
    <2>6. CASE Prune(j)
        BY <2>6, <1>type, <1>empty DEF Prune, Kept, Over, HonestInv
    <2>7. CASE JobDies(j)
        BY <2>7, <1>type, <1>empty DEF JobDies, Over, HonestInv
    <2> QED
        BY <1>2, <2>1, <2>2, <2>3, <2>4, <2>5, <2>6, <2>7 DEF JobStep
<1>3. ASSUME NEW p \in Web, NEW r \in Readers, ReaderStep(p, r) PROVE HonestInv'
    <2>rd. reader[p][r] \in ReaderStates /\ p \in Procs
        BY <1>type DEF Procs
    <2>1. ASSUME NEW x, reader' = [reader EXCEPT ![p][r] = x],
                 Genuine(x.ans), Genuine(x.got),
                 \A q \in Procs : Genuine(mem'[q]),
                 UNCHANGED <<store, history, job>>
          PROVE  HonestInv'
        BY <2>1, <1>type, ReaderUpdate DEF HonestInv
    <2>2. CASE Request(p, r)
        <3> DEFINE rd == [reader[p][r] EXCEPT !.base = store.at]
                   x == IF mem[p] # Empty THEN Answer(rd, "cache", mem[p])
                        ELSE [rd EXCEPT !.pc = "miss"]
        <3>1. Genuine(x.ans) /\ Genuine(x.got)
            BY <2>rd, <1>empty DEF HonestInv, Answer, ReaderStates
        <3> QED
            BY <2>1, <2>2, <3>1 DEF Request, HonestInv
    <2>3. CASE ReadStore(p, r)
        <3> DEFINE x == [reader[p][r] EXCEPT !.pc = "fetched", !.got = store]
        <3>1. Genuine(x.ans) /\ Genuine(x.got)
            BY <2>rd DEF HonestInv, ReaderStates
        <3>2. reader' = [reader EXCEPT ![p][r] = x]
            BY <2>3, <1>type DEF ReadStore
        <3> QED
            BY <2>1, <2>3, <3>1, <3>2 DEF ReadStore, HonestInv
    <2>4. CASE Fill(p, r)
        <3> DEFINE x == IF mem'[p] # Empty THEN Answer(reader[p][r], "cache", mem'[p])
                        ELSE [reader[p][r] EXCEPT !.pc = "rollup"]
        <3>1. \A q \in Procs : Genuine(mem'[q])
            BY <2>4, <1>type DEF Fill, HonestInv
        <3>2. Genuine(x.ans) /\ Genuine(x.got)
            BY <2>rd, <1>empty, <3>1 DEF HonestInv, Answer, ReaderStates
        <3>3. reader' = [reader EXCEPT ![p][r] = x]
            BY <2>4, <1>type DEF Fill
        <3> QED
            BY <2>1, <2>4, <3>1, <3>2, <3>3 DEF Fill
    <2>5. CASE ReadRollup(p, r)
        <3>1. PICK src \in {"rollup", "none"}, s \in history \cup {Empty} :
                 reader' = [reader EXCEPT ![p][r] = Answer(reader[p][r], src, s)]
            BY <2>5, <1>type DEF ReadRollup, Newest
        <3>2. Genuine(s)
            BY <1>empty DEF HonestInv
        <3>3. Genuine(Answer(reader[p][r], src, s).ans) /\ Genuine(Answer(reader[p][r], src, s).got)
            BY <2>rd, <1>empty, <3>2, AnswerFields
        <3> QED
            BY <2>1, <2>5, <3>1, <3>3 DEF ReadRollup, HonestInv
    <2>6. CASE ReadFails(p, r)
        <3>1. Genuine(Dropped(reader[p][r]).ans) /\ Genuine(Dropped(reader[p][r]).got)
            BY <2>rd, <1>empty DEF Dropped, HonestInv, ReaderStates
        <3> QED
            BY <2>1, <2>6, <3>1 DEF ReadFails, HonestInv
    <2> QED
        BY <1>3, <2>2, <2>3, <2>4, <2>5, <2>6 DEF ReaderStep
<1>4. ASSUME NEW p \in Procs, Restart(p) PROVE HonestInv'
    <2>1. \A q \in Procs : Genuine(mem'[q])
        BY <1>4, <1>type, <1>empty DEF Restart, HonestInv
    <2>2. \A j \in Jobs : Genuine(job'[j].snap)
        BY <1>4, <1>type, <1>empty DEF Restart, HonestInv, IdleJob
    <2>3. ASSUME NEW q \in Web, NEW r \in Readers
          PROVE  Genuine(reader'[q][r].ans) /\ Genuine(reader'[q][r].got)
        <3>1. reader'[q][r] \in {reader[q][r], Dropped(reader[q][r])}
            BY <1>4, <1>type DEF Restart
        <3>2. reader[q][r] \in ReaderStates
            BY <1>type
        <3> QED
            BY <1>empty, <3>1, <3>2 DEF Dropped, HonestInv, ReaderStates
    <2> QED
        BY <1>4, <2>1, <2>2, <2>3 DEF Restart, HonestInv
<1>5. CASE UNCHANGED vars
    BY <1>5 DEF vars, HonestInv
<1> QED
    BY <1>1, <1>2, <1>3, <1>4, <1>5 DEF Next

\* "Stale but honest": no cache, row or answer with a collected_at comes from a
\* poll in which every target failed.
THEOREM AlwaysHonest == Spec => []Honest
<1>1. Init => HonestInv
    BY DEF Init, HonestInv, Genuine, Empty, IdleJob, IdleReader
<1>2. HonestInv => Honest
    BY DEF HonestInv, Honest, Genuine
<1> QED
    BY <1>1, <1>2, HonestStep, TypeInit, TypeStep, PTL DEF Spec

-----------------------------------------------------------------------------
(* Requests made after the first store write are answered with details. *)

\* One thread: if the store had a row when its request began, it still has one,
\* the thread read it, and it neither goes to the history nor answers from it.
Informed(rd) ==
    /\ rd.base # 0 => store.at # 0
    /\ rd.pc = "fetched" /\ rd.base # 0 => rd.got.at # 0
    /\ rd.pc = "rollup" => rd.base = 0
    /\ rd.pc = "idle" /\ rd.src \in {"none", "rollup"} => rd.base = 0

DetailsInv == \A p \in Web, r \in Readers : Informed(reader[p][r])

\* Every step keeps every thread informed.
LEMMA DetailsStep == TypeInv /\ DetailsInv /\ [Next]_vars => DetailsInv'
<1> SUFFICES ASSUME TypeInv, DetailsInv, [Next]_vars PROVE DetailsInv'
    OBVIOUS
<1>type. reader \in [Web -> [Readers -> ReaderStates]]
    BY DEF TypeInv, TypeOK
<1>same. ASSUME reader' = reader, store.at # 0 => store'.at # 0 PROVE DetailsInv'
    BY <1>same DEF DetailsInv, Informed
<1>1. CASE Tick
    BY <1>1, <1>same DEF Tick
<1>2. ASSUME NEW j \in Jobs, JobStep(j) PROVE DetailsInv'
    <2>1. CASE WriteStore(j)
        <3>1. job[j].snap.at # 0
            BY <2>1 DEF WriteStore, TypeInv, CarriesSnapshot, Carrying, Snapshots
        <3> QED
            BY <2>1, <3>1, <1>same DEF WriteStore
    <2>2. CASE ~WriteStore(j)
        BY <1>2, <2>2, <1>same DEF JobStep, StartPoll, Collect, Publish, WriteRollup,
           Prune, JobDies
    <2> QED
        BY <2>1, <2>2
<1>3. ASSUME NEW p \in Web, NEW r \in Readers, ReaderStep(p, r) PROVE DetailsInv'
    <2>rd. reader[p][r] \in ReaderStates /\ Informed(reader[p][r])
        BY <1>type DEF DetailsInv
    <2>1. ASSUME NEW x, reader' = [reader EXCEPT ![p][r] = x], Informed(x),
                 UNCHANGED store
          PROVE  DetailsInv'
        BY <2>1, <1>type, ReaderUpdate DEF DetailsInv, Informed
    <2>2. CASE Request(p, r)
        <3> DEFINE rd == [reader[p][r] EXCEPT !.base = store.at]
                   x == IF mem[p] # Empty THEN Answer(rd, "cache", mem[p])
                        ELSE [rd EXCEPT !.pc = "miss"]
        <3>1. Informed(x)
            BY <2>rd DEF Informed, Answer, ReaderStates
        <3> QED
            BY <2>1, <2>2, <3>1 DEF Request
    <2>3. CASE ReadStore(p, r)
        <3> DEFINE x == [reader[p][r] EXCEPT !.pc = "fetched", !.got = store]
        <3>1. Informed(x)
            BY <2>rd DEF Informed, ReaderStates
        <3>2. reader' = [reader EXCEPT ![p][r] = x]
            BY <2>3, <1>type DEF ReadStore
        <3> QED
            BY <2>1, <2>3, <3>1, <3>2 DEF ReadStore
    <2>4. CASE Fill(p, r)
        <3> DEFINE x == IF mem'[p] # Empty THEN Answer(reader[p][r], "cache", mem'[p])
                        ELSE [reader[p][r] EXCEPT !.pc = "rollup"]
        <3>1. reader[p][r].got # Empty => mem'[p] = reader[p][r].got
            BY <2>4 DEF Fill, TypeInv, TypeOK, Procs
        <3>2. mem'[p] = Empty => reader[p][r].base = 0
            BY <2>4, <2>rd, <3>1 DEF Fill, Informed, Empty
        <3>3. Informed(x)
            BY <2>rd, <3>2 DEF Informed, Answer, ReaderStates
        <3>4. reader' = [reader EXCEPT ![p][r] = x]
            BY <2>4, <1>type DEF Fill
        <3> QED
            BY <2>1, <2>4, <3>3, <3>4 DEF Fill
    <2>5. CASE ReadRollup(p, r)
        <3>1. PICK src \in {"rollup", "none"}, s \in history \cup {Empty} :
                 reader' = [reader EXCEPT ![p][r] = Answer(reader[p][r], src, s)]
            BY <2>5, <1>type DEF ReadRollup, Newest
        <3>2. reader[p][r].base = 0
            BY <2>5, <2>rd DEF ReadRollup, Informed
        <3>3. Informed(Answer(reader[p][r], src, s))
            BY <2>rd, <3>2 DEF Informed, Answer, ReaderStates
        <3> QED
            BY <2>1, <2>5, <3>1, <3>3 DEF ReadRollup
    <2>6. CASE ReadFails(p, r)
        <3>1. Informed(Dropped(reader[p][r]))
            BY <2>rd DEF Informed, Dropped, ReaderStates
        <3> QED
            BY <2>1, <2>6, <3>1 DEF ReadFails
    <2> QED
        BY <1>3, <2>2, <2>3, <2>4, <2>5, <2>6 DEF ReaderStep
<1>4. ASSUME NEW p \in Procs, Restart(p) PROVE DetailsInv'
    <2>1. ASSUME NEW q \in Web, NEW r \in Readers PROVE Informed(reader[q][r])'
        <3>1. reader'[q][r] \in {reader[q][r], Dropped(reader[q][r])}
            BY <1>4, <1>type DEF Restart
        <3>2. reader[q][r] \in ReaderStates /\ Informed(reader[q][r])
            BY <1>type DEF DetailsInv
        <3>3. store' = store
            BY <1>4 DEF Restart
        <3>4. Dropped(reader[q][r]).pc = "idle" /\ Dropped(reader[q][r]).base = 0
            BY <3>2 DEF Dropped, ReaderStates
        <3>5. CASE reader'[q][r] = reader[q][r]
            BY <3>2, <3>3, <3>5 DEF Informed
        <3>6. CASE reader'[q][r] = Dropped(reader[q][r])
            BY <3>3, <3>4, <3>6 DEF Informed
        <3> QED
            BY <3>1, <3>5, <3>6
    <2> QED
        BY <2>1 DEF DetailsInv
<1>5. CASE UNCHANGED vars
    BY <1>5, <1>same DEF vars
<1> QED
    BY <1>1, <1>2, <1>3, <1>4, <1>5 DEF Next

\* Once the collector stored a result, a later request is never answered with
\* zeros or with a rollup that has no device details, in either deployment and
\* with overlapping polls, racing request threads and restarts.
THEOREM AlwaysDetailsOnceStored == Spec => []DetailsOnceStored
<1>1. Init => DetailsInv
    BY DEF Init, DetailsInv, Informed, IdleReader
<1>2. DetailsInv => DetailsOnceStored
    BY DEF DetailsInv, DetailsOnceStored, Informed
<1> QED
    BY <1>1, <1>2, DetailsStep, TypeInit, TypeStep, PTL DEF Spec
-----------------------------------------------------------------------------
(* The store is never behind the history. *)

\* One poll runs at a time, so what it carries is not older than the store; the
\* store is overwritten before the row is added to the history.
OrderInv ==
    /\ job["now"].pc # "done" => job["sched"].pc = "waiting"
    /\ store.at <= clock
    /\ \A j \in Jobs : job[j].pc \in {"stamped", "published"} => store.at <= job[j].snap.at
    /\ \A j \in Jobs : job[j].pc \in {"stored", "rolled"} => store = job[j].snap
    /\ \A j \in Jobs : job[j].snap.at <= clock
    /\ \A h \in history : h.at <= store.at

\* The order holds at the start and is kept by every step.
LEMMA OrderStep ==
    ASSUME ~MayOverlap
    PROVE  TypeInv /\ OrderInv /\ [Next]_vars => OrderInv'
<1> SUFFICES ASSUME TypeInv, OrderInv, [Next]_vars PROVE OrderInv'
    OBVIOUS
<1>type. /\ job \in [Jobs -> [pc : JobPcs, snap : MaybeSnapshots]]
         /\ clock \in Nat
         /\ store.at \in Nat
         /\ \A j \in Jobs : job[j].snap.at \in Nat
         /\ \A h \in history : h.at \in Nat
    BY BoundsAssumption DEF TypeInv, TypeOK, MaybeSnapshots, Snapshots, Empty
<1>jobs. Jobs = {"now", "sched"}
    BY DEF Jobs
<1>1. CASE Tick
    BY <1>1, <1>type DEF Tick, OrderInv
<1>2. ASSUME NEW j \in Jobs, JobStep(j) PROVE OrderInv'
    <2>1. CASE StartPoll(j)
        BY <2>1, <1>type, <1>jobs DEF StartPoll, MayStart, OrderInv
    <2>2. ASSUME NEW ok \in SUBSET Targets, Collect(j, ok) PROVE OrderInv'
        BY <2>2, <1>type, <1>jobs DEF Collect, Over, Ended, Empty, OrderInv
    <2>3. CASE Publish(j)
        BY <2>3, <1>type, <1>jobs DEF Publish, OrderInv
    <2>4. CASE WriteStore(j)
        BY <2>4, <1>type, <1>jobs DEF WriteStore, OrderInv
    <2>5. CASE WriteRollup(j)
        BY <2>5, <1>type, <1>jobs DEF WriteRollup, OrderInv
    <2>6. CASE Prune(j)
        BY <2>6, <1>type, <1>jobs DEF Prune, Kept, Over, Ended, Empty, OrderInv
    <2>7. CASE JobDies(j)
        BY <2>7, <1>type, <1>jobs DEF JobDies, Over, Ended, Empty, OrderInv
    <2> QED
        BY <1>2, <2>1, <2>2, <2>3, <2>4, <2>5, <2>6, <2>7 DEF JobStep
<1>3. ASSUME NEW p \in Web, NEW r \in Readers, ReaderStep(p, r) PROVE OrderInv'
    BY <1>3 DEF ReaderStep, Request, ReadStore, Fill, ReadRollup, ReadFails, OrderInv
<1>4. ASSUME NEW p \in Procs, Restart(p) PROVE OrderInv'
    BY <1>4, <1>type, <1>jobs DEF Restart, IdleJob, Empty, OrderInv
<1>5. CASE UNCHANGED vars
    BY <1>5 DEF vars, OrderInv
<1> QED
    BY <1>1, <1>2, <1>3, <1>4, <1>5 DEF Next

\* The order of the timestamps holds initially.
LEMMA OrderInit == Init => OrderInv
    BY DEF Init, OrderInv, IdleJob, Empty, Jobs

\* When polls do not overlap, no rollup is ever newer than the stored snapshot,
\* whatever fails or restarts between the two writes.
THEOREM StoreAlwaysCoversHistory ==
    ASSUME ~MayOverlap
    PROVE  Spec => []StoreCoversHistory
<1>1. OrderInv => StoreCoversHistory
    BY DEF OrderInv, StoreCoversHistory
<1> QED
    BY <1>1, OrderInit, OrderStep, TypeInit, TypeStep, PTL DEF Spec

-----------------------------------------------------------------------------
(* What clients see lies between the store at the start of their process and  *)
(* the store now.                                                             *)

\* The times a process may answer with.
Since(p, s) == born[p] <= s.at /\ s.at <= store.at

\* One request thread of a web process: what it fetched may be answered with,
\* and it asks the history only in a process that started with an empty store.
Placed(p, rd) ==
    /\ rd.pc = "fetched" => Since(p, rd.got)
    /\ rd.pc = "rollup" => born[p] = 0

FeedInv ==
    /\ \A p \in Web : born[p] <= store.at
    /\ \A p \in Web : mem[p] # Empty => Since(p, mem[p])
    /\ \A p \in Web, r \in Readers : Placed(p, reader[p][r])

\* The time stamps in a well-typed state are numbers.
LEMMA TimeTypes ==
    ASSUME TypeInv
    PROVE  /\ store.at \in Nat
           /\ \A h \in history : h.at \in Nat
           /\ \A p \in Procs : mem[p].at \in Nat /\ born[p] \in Nat
           /\ \A p \in Web, r \in Readers :
                 /\ reader[p][r] \in ReaderStates
                 /\ reader[p][r].ans.at \in Nat
                 /\ reader[p][r].got.at \in Nat
<1>1. \A s \in MaybeSnapshots : s.at \in Nat
    BY BoundsAssumption DEF MaybeSnapshots, Snapshots, Empty
<1>2. \A p \in Web, r \in Readers : reader[p][r] \in ReaderStates
    BY DEF TypeInv, TypeOK
<1>3. \A rd \in ReaderStates : rd.ans \in MaybeSnapshots /\ rd.got \in MaybeSnapshots
    BY DEF ReaderStates, MaybeSnapshots
<1> QED
    BY <1>1, <1>2, <1>3, BoundsAssumption DEF TypeInv, TypeOK, MaybeSnapshots

\* What a step of a request thread does: the thread and _cache stay in place,
\* and its last answer either stays or is one the process may give.
LEMMA ReaderStepPlaced ==
    ASSUME TypeInv, OrderInv, FeedInv, NEW p \in Web, NEW r \in Readers, ReaderStep(p, r)
    PROVE  \E x \in ReaderStates :
             /\ reader' = [reader EXCEPT ![p][r] = x]
             /\ Placed(p, x)
             /\ x.ans = reader[p][r].ans \/ Since(p, x.ans)
             /\ UNCHANGED <<store, born>>
             /\ \A q \in Web : mem'[q] # Empty => Since(q, mem'[q])
<1>time. /\ store.at \in Nat /\ born[p] \in Nat
         /\ reader[p][r] \in ReaderStates
         /\ reader[p][r].got.at \in Nat
         /\ \A h \in history : h.at \in Nat
    BY TimeTypes DEF Procs
<1>type. /\ reader \in [Web -> [Readers -> ReaderStates]]
         /\ mem \in [Procs -> MaybeSnapshots]
         /\ p \in Procs /\ Web \subseteq Procs
    BY DEF TypeInv, TypeOK, Procs
<1>empty. Empty.at = 0
    BY DEF Empty
<1>inv. /\ \A q \in Web : mem[q] # Empty => Since(q, mem[q])
        /\ Placed(p, reader[p][r])
        /\ born[p] <= store.at
    BY DEF FeedInv
<1>new. reader'[p][r] \in ReaderStates
    BY TypeReaderStep DEF TypeInv, TypeOK
<1>1. CASE Request(p, r)
    <2> DEFINE rd == [reader[p][r] EXCEPT !.base = store.at]
               x == IF mem[p] # Empty THEN Answer(rd, "cache", mem[p])
                    ELSE [rd EXCEPT !.pc = "miss"]
    <2>1. reader' = [reader EXCEPT ![p][r] = x] /\ UNCHANGED <<store, mem, born>>
        BY <1>1 DEF Request
    <2>2. reader'[p][r] = x
        BY <2>1, <1>type
    <2>3. mem[p] # Empty => x.pc = "idle" /\ x.ans = mem[p]
        BY <1>time DEF Answer, ReaderStates
    <2>4. mem[p] = Empty => x.pc = "miss" /\ x.ans = reader[p][r].ans
        BY <1>time DEF ReaderStates
    <2>5. x \in ReaderStates
        BY <1>new, <2>2
    <2> HIDE DEF x
    <2>6. Placed(p, x) /\ (x.ans = reader[p][r].ans \/ Since(p, x.ans))
        BY <2>3, <2>4, <1>inv DEF Placed
    <2> QED
        BY <2>1, <2>5, <2>6, <1>inv
<1>2. CASE ReadStore(p, r)
    <2> DEFINE x == [reader[p][r] EXCEPT !.pc = "fetched", !.got = store]
    <2>1. reader' = [reader EXCEPT ![p][r] = x] /\ UNCHANGED <<store, mem, born>>
        BY <1>2, <1>type DEF ReadStore
    <2>2. reader'[p][r] = x
        BY <2>1, <1>type
    <2>3. x.pc = "fetched" /\ x.got = store /\ x.ans = reader[p][r].ans
        BY <1>time DEF ReaderStates
    <2>4. x \in ReaderStates
        BY <1>new, <2>2
    <2> HIDE DEF x
    <2>5. Placed(p, x)
        BY <2>3, <1>inv, <1>time DEF Placed, Since
    <2> QED
        BY <2>1, <2>3, <2>4, <2>5, <1>inv
<1>3. CASE Fill(p, r)
    <2> DEFINE x == IF mem'[p] # Empty THEN Answer(reader[p][r], "cache", mem'[p])
                    ELSE [reader[p][r] EXCEPT !.pc = "rollup"]
    <2>1. reader' = [reader EXCEPT ![p][r] = x] /\ UNCHANGED <<store, born>>
        BY <1>3, <1>type DEF Fill
    <2>2. reader'[p][r] = x
        BY <2>1, <1>type
    <2>3. mem'[p] # Empty => x.pc = "idle" /\ x.ans = mem'[p]
        BY <1>time DEF Answer, ReaderStates
    <2>4. mem'[p] = Empty => x.pc = "rollup" /\ x.ans = reader[p][r].ans
        BY <1>time DEF ReaderStates
    <2>5. x \in ReaderStates
        BY <1>new, <2>2
    <2> HIDE DEF x
    <2>6. Since(p, reader[p][r].got)
        BY <1>3, <1>inv DEF Fill, Placed
    <2>7. \A q \in Web : mem'[q] \in {mem[q], reader[p][r].got} /\ (q # p => mem'[q] = mem[q])
        BY <1>3, <1>type DEF Fill
    <2>8. mem'[p] = Empty => reader[p][r].got = Empty
        BY <1>3, <1>type DEF Fill
    <2>9. \A q \in Web : mem'[q] # Empty => Since(q, mem'[q])
        BY <2>6, <2>7, <1>inv
    <2>10. mem'[p] = Empty => born[p] = 0
        BY <2>6, <2>8, <1>empty, <1>time DEF Since
    <2>11. Placed(p, x) /\ (x.ans = reader[p][r].ans \/ Since(p, x.ans))
        BY <2>3, <2>4, <2>9, <2>10 DEF Placed
    <2> QED
        BY <2>1, <2>5, <2>9, <2>11
<1>4. CASE ReadRollup(p, r)
    <2>1. PICK src \in {"rollup", "none"}, s \in history \cup {Empty} :
             reader' = [reader EXCEPT ![p][r] = Answer(reader[p][r], src, s)]
        BY <1>4, <1>type DEF ReadRollup, Newest
    <2> DEFINE x == Answer(reader[p][r], src, s)
    <2>2. reader'[p][r] = x
        BY <2>1, <1>type
    <2>3. x.pc = "idle" /\ x.ans = s
        BY <1>time, AnswerFields
    <2>4. x \in ReaderStates
        BY <1>new, <2>2
    <2>5. reader' = [reader EXCEPT ![p][r] = x]
        BY <2>1
    <2> HIDE DEF x
    <2>6. 0 <= s.at /\ s.at <= store.at
        BY <1>time, <1>empty DEF OrderInv
    <2>7. born[p] = 0
        BY <1>4, <1>inv DEF ReadRollup, Placed
    <2>8. Placed(p, x) /\ Since(p, x.ans)
        BY <2>3, <2>6, <2>7 DEF Placed, Since
    <2>9. UNCHANGED <<store, mem, born>>
        BY <1>4 DEF ReadRollup
    <2> QED
        BY <2>4, <2>5, <2>8, <2>9, <1>inv
<1>5. CASE ReadFails(p, r)
    <2> DEFINE x == Dropped(reader[p][r])
    <2>1. x.pc = "idle" /\ x.ans = reader[p][r].ans
        BY <1>time DEF Dropped, ReaderStates
    <2>2. x \in ReaderStates
        BY <1>time, DroppedType
    <2>3. reader' = [reader EXCEPT ![p][r] = x] /\ UNCHANGED <<store, mem, born>>
        BY <1>5 DEF ReadFails
    <2> HIDE DEF x
    <2> QED
        BY <2>1, <2>2, <2>3, <1>inv DEF Placed
<1> QED
    BY <1>1, <1>2, <1>3, <1>4, <1>5 DEF ReaderStep

\* A step of a poll thread leaves the web processes alone, and the store can only
\* advance.
LEMMA JobStepAdvances ==
    ASSUME ~MayOverlap, Poller \notin Web, TypeInv, OrderInv, NEW j \in Jobs, JobStep(j)
    PROVE  /\ UNCHANGED <<reader, born>>
           /\ \A p \in Web : mem'[p] = mem[p]
           /\ store'.at \in Nat /\ store.at <= store'.at
<1>type. mem \in [Procs -> MaybeSnapshots] /\ store.at \in Nat
    BY TimeTypes DEF TypeInv, TypeOK
<1>1. UNCHANGED <<reader, born>>
    BY DEF JobStep, StartPoll, Collect, Publish, WriteStore, WriteRollup, Prune, JobDies
<1>2. ASSUME NEW p \in Web PROVE mem'[p] = mem[p]
    <2>1. p # Poller /\ p \in Procs
        BY DEF Procs
    <2> QED
        BY <1>type, <2>1
        DEF JobStep, StartPoll, Collect, Publish, WriteStore, WriteRollup, Prune, JobDies
<1>3. CASE WriteStore(j)
    <2>1. job[j].snap \in Snapshots /\ store.at <= job[j].snap.at
        BY <1>3 DEF WriteStore, OrderInv, TypeInv, CarriesSnapshot, Carrying
    <2> QED
        BY <1>1, <1>2, <1>3, <2>1, BoundsAssumption DEF WriteStore, Snapshots
<1>4. CASE ~WriteStore(j)
    <2>1. store' = store
        BY <1>4 DEF JobStep, StartPoll, Collect, Publish, WriteRollup, Prune, JobDies
    <2> QED
        BY <1>1, <1>2, <2>1, <1>type
<1> QED
    BY <1>3, <1>4

\* A restart changes a web process to one that starts with the store as it is.
LEMMA RestartPlaced ==
    ASSUME TypeInv, FeedInv, NEW p \in Procs, Restart(p)
    PROVE  /\ store' = store
           /\ \A q \in Web : q # p => mem'[q] = mem[q] /\ reader'[q] = reader[q]
           /\ born' = [born EXCEPT ![p] = store.at]
           /\ mem'[p] = Empty
           /\ p \in Web => \A r \in Readers : reader'[p][r].pc = "idle"
           /\ \A q \in Web, r \in Readers : reader'[q][r].ans = reader[q][r].ans
<1>type. /\ reader \in [Web -> [Readers -> ReaderStates]]
         /\ mem \in [Procs -> MaybeSnapshots]
         /\ Web \subseteq Procs
    BY DEF TypeInv, TypeOK, Procs
<1>1. store' = store /\ born' = [born EXCEPT ![p] = store.at]
    BY DEF Restart
<1>2. mem'[p] = Empty /\ \A q \in Web : q # p => mem'[q] = mem[q]
    BY <1>type DEF Restart
<1>3. \A q \in Web : q # p => reader'[q] = reader[q]
    BY <1>type DEF Restart
<1>4. ASSUME p \in Web, NEW r \in Readers
      PROVE  reader'[p][r].pc = "idle" /\ reader'[p][r].ans = reader[p][r].ans
    <2>1. reader'[p][r] = Dropped(reader[p][r])
        BY <1>4, <1>type DEF Restart
    <2>2. reader[p][r] \in ReaderStates
        BY <1>4, <1>type
    <2> QED
        BY <2>1, <2>2 DEF Dropped, ReaderStates
<1>5. \A q \in Web, r \in Readers : reader'[q][r].ans = reader[q][r].ans
    BY <1>3, <1>4
<1> QED
    BY <1>1, <1>2, <1>3, <1>4, <1>5

\* Every step keeps what the web processes hold between their start and now.
LEMMA FeedStep ==
    ASSUME ~MayOverlap, Poller \notin Web
    PROVE  TypeInv /\ OrderInv /\ FeedInv /\ [Next]_vars => FeedInv'
<1> SUFFICES ASSUME TypeInv, OrderInv, FeedInv, [Next]_vars PROVE FeedInv'
    OBVIOUS
<1>time. /\ store.at \in Nat
         /\ \A p \in Web : mem[p].at \in Nat /\ born[p] \in Nat
         /\ \A p \in Web, r \in Readers : reader[p][r].got.at \in Nat
         /\ Web \subseteq Procs
         /\ reader \in [Web -> [Readers -> ReaderStates]]
         /\ born \in [Procs -> 0..MaxClock]
    BY TimeTypes DEF Procs, TypeInv, TypeOK
<1>same. ASSUME UNCHANGED <<reader, born>>, \A p \in Web : mem'[p] = mem[p],
                store'.at \in Nat, store.at <= store'.at
         PROVE  FeedInv'
    BY <1>same, <1>time DEF FeedInv, Placed, Since
<1>1. CASE Tick \/ UNCHANGED vars
    BY <1>1, <1>same, <1>time DEF Tick, vars
<1>2. ASSUME NEW j \in Jobs, JobStep(j) PROVE FeedInv'
    <2>1. /\ UNCHANGED <<reader, born>>
          /\ \A p \in Web : mem'[p] = mem[p]
          /\ store'.at \in Nat /\ store.at <= store'.at
        BY <1>2, JobStepAdvances
    <2> QED
        BY <2>1, <1>same
<1>3. ASSUME NEW p \in Web, NEW r \in Readers, ReaderStep(p, r) PROVE FeedInv'
    <2>1. PICK x \in ReaderStates :
             /\ reader' = [reader EXCEPT ![p][r] = x]
             /\ Placed(p, x)
             /\ UNCHANGED <<store, born>>
             /\ \A q \in Web : mem'[q] # Empty => Since(q, mem'[q])
        BY <1>3, ReaderStepPlaced
    <2>2. ASSUME NEW q \in Web, NEW s \in Readers PROVE Placed(q, reader'[q][s])
        BY <2>1, <1>time, ReaderUpdate DEF FeedInv
    <2> QED
        BY <2>1, <2>2 DEF FeedInv, Placed, Since
<1>4. ASSUME NEW p \in Procs, Restart(p) PROVE FeedInv'
    <2>1. /\ store' = store
          /\ \A q \in Web : q # p => mem'[q] = mem[q] /\ reader'[q] = reader[q]
          /\ born' = [born EXCEPT ![p] = store.at]
          /\ mem'[p] = Empty
          /\ p \in Web => \A r \in Readers : reader'[p][r].pc = "idle"
        BY <1>4, RestartPlaced
    <2>2. ASSUME NEW q \in Web
          PROVE  /\ born'[q] <= store'.at
                 /\ mem'[q] # Empty => Since(q, mem[q])'
                 /\ \A r \in Readers : Placed(q, reader[q][r])'
        <3>1. CASE q = p
            BY <2>1, <3>1, <1>time DEF Placed
        <3>2. CASE q # p
            <4>1. born'[q] = born[q] /\ mem'[q] = mem[q] /\ reader'[q] = reader[q]
                BY <2>1, <3>2, <1>time
            <4> QED
                BY <2>1, <4>1 DEF FeedInv, Placed, Since
        <3> QED
            BY <3>1, <3>2
    <2> QED
        BY <2>2 DEF FeedInv
<1> QED
    BY <1>1, <1>2, <1>3, <1>4 DEF Next

\* The variables of the feed.
FeedFloor == [p \in Web |-> born[p]]
FeedSeen == [p \in Web |-> [r \in Readers |-> reader[p][r].ans.at]]
FeedVars == <<store.at, FeedFloor, FeedSeen>>

\* Every step of the system is a step of the feed, or changes nothing it shows.
LEMMA FeedSimulation ==
    ASSUME ~MayOverlap, Poller \notin Web
    PROVE  TypeInv /\ OrderInv /\ FeedInv /\ TypeInv' /\ [Next]_vars
             => [Feed!Next]_<<store.at, [p \in Web |-> born[p]],
                              [p \in Web |-> [r \in Readers |-> reader[p][r].ans.at]]>>
<1> SUFFICES ASSUME TypeInv, OrderInv, FeedInv, TypeInv', [Next]_vars
             PROVE  Feed!Next \/ UNCHANGED FeedVars
    BY DEF FeedVars, FeedFloor, FeedSeen
<1>type. /\ reader \in [Web -> [Readers -> ReaderStates]]
         /\ born \in [Procs -> 0..MaxClock]
         /\ Web \subseteq Procs
         /\ store.at \in Nat
         /\ \A p \in Web : born[p] \in Nat
         /\ \A p \in Web, r \in Readers : reader[p][r].ans.at \in Nat
    BY TimeTypes DEF TypeInv, TypeOK, Procs
<1>1. CASE Tick \/ UNCHANGED vars
    BY <1>1 DEF Tick, vars, FeedVars, FeedFloor, FeedSeen
<1>2. ASSUME NEW j \in Jobs, JobStep(j) PROVE Feed!Next
    <2>1. UNCHANGED <<reader, born>> /\ store'.at \in Nat /\ store.at <= store'.at
        BY <1>2, JobStepAdvances
    <2> QED
        BY <2>1, <1>type DEF Feed!Next, Feed!Advance
<1>3. ASSUME NEW p \in Web, NEW r \in Readers, ReaderStep(p, r)
      PROVE  Feed!Next \/ UNCHANGED FeedVars
    <2>1. PICK x \in ReaderStates :
             /\ reader' = [reader EXCEPT ![p][r] = x]
             /\ x.ans = reader[p][r].ans \/ Since(p, x.ans)
             /\ UNCHANGED <<store, born>>
        BY <1>3, ReaderStepPlaced
    <2>2. FeedSeen' = [FeedSeen EXCEPT ![p][r] = x.ans.at]
        <3>1. ASSUME NEW q \in Web, NEW s \in Readers
              PROVE  reader'[q][s].ans.at
                       = IF q = p /\ s = r THEN x.ans.at ELSE reader[q][s].ans.at
            BY <2>1, <1>type, ReaderUpdate
        <3> QED
            BY <3>1 DEF FeedSeen
    <2>3. CASE x.ans = reader[p][r].ans
        <3>1. \A q \in Web, s \in Readers : reader'[q][s].ans = reader[q][s].ans
            BY <2>1, <2>3, <1>type, ReaderUpdate
        <3>2. FeedSeen' = FeedSeen
            BY <3>1 DEF FeedSeen
        <3> QED
            BY <2>1, <3>2 DEF FeedVars, FeedFloor
    <2>4. CASE Since(p, x.ans)
        <3>1. x.ans.at \in Nat
            BY BoundsAssumption DEF ReaderStates, Snapshots, Empty
        <3>2. x.ans.at \in FeedFloor[p] .. store.at
            BY <2>4, <3>1, <1>type DEF Since, FeedFloor
        <3>3. UNCHANGED <<store.at, FeedFloor>>
            BY <2>1 DEF FeedFloor
        <3>4. Feed!Observe(p, r)
            BY <2>2, <3>2, <3>3 DEF Feed!Observe, FeedFloor, FeedSeen
        <3> QED
            BY <3>4 DEF Feed!Next
    <2> QED
        BY <2>1, <2>3, <2>4
<1>4. ASSUME NEW p \in Procs, Restart(p) PROVE Feed!Next \/ UNCHANGED FeedVars
    <2>1. /\ store' = store
          /\ born' = [born EXCEPT ![p] = store.at]
          /\ \A q \in Web, r \in Readers : reader'[q][r].ans = reader[q][r].ans
        BY <1>4, RestartPlaced
    <2>2. FeedSeen' = FeedSeen
        BY <2>1 DEF FeedSeen
    <2>3. CASE p \in Web
        <3>1. FeedFloor' = [FeedFloor EXCEPT ![p] = store.at]
            BY <2>1, <2>3, <1>type DEF FeedFloor
        <3> QED
            BY <2>1, <2>2, <2>3, <3>1 DEF Feed!Next, Feed!Restart, FeedFloor, FeedSeen
    <2>4. CASE p \notin Web
        <3>1. FeedFloor' = FeedFloor
            BY <2>1, <2>4, <1>type DEF FeedFloor
        <3> QED
            BY <2>1, <2>2, <3>1 DEF FeedVars
    <2> QED
        BY <2>3, <2>4
<1> QED
    BY <1>1, <1>2, <1>3, <1>4 DEF Next

\* Without overlapping polls and in the collector/web split, the cache, the
\* store, the history and any number of racing request threads implement
\* SnapshotFeed: no answer is older than the store was when its process started,
\* across restarts, failed writes and failed reads.
THEOREM ImplementsFeed ==
    ASSUME ~MayOverlap, Poller \notin Web
    PROVE  Spec => FeedSpec
<1>1. Init => FeedInv
    BY DEF Init, FeedInv, Placed, Since, Empty, IdleReader, Procs
<1>2. Init => Feed!Init
    BY DEF Init, Feed!Init, Empty, IdleReader, Procs
<1> QED
    BY <1>1, <1>2, FeedStep, FeedSimulation, OrderInit, OrderStep, TypeInit, TypeStep, PTL
    DEF Spec, FeedSpec, Feed!Spec
=============================================================================
