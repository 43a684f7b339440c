--------------------------- MODULE LogUsageProofs ---------------------------
(* Theorems about LogUsage, for any set of requested devices, any number of   *)
(* FortiAnalyzers with any device lists, and any deadline and call times.     *)
EXTENDS LogUsage, TLAPS

\* The targets are asked in order, each once.
KnowsInv ==
    \E k \in 0..MaxTargets :
        /\ Targets = 1..k
        /\ idx <= k + 1
        /\ pc = "device" => idx <= k

\* While the request runs, a device is remaining, queried or in error.
BookInv ==
    /\ status = 0 <=> pc # "done"
    /\ queried \cap Failing = {}
    /\ pc # "done" =>
          /\ resolved \subseteq remaining
          /\ pc = "target" => resolved = {}
          /\ remaining \cap queried = {}
          /\ Devices = remaining \cup queried \cup Failing
    /\ \A d \in Devices : searches[d] <= 1
    /\ pc # "done" => \A d \in remaining : searches[d] = 0

\* What is known of target i about a device no search was attempted for.
Asked(n, i) ==
    \/ i \in answered /\ n \notin knows[i]
    \/ i \notin answered /\ n \in Failing

\* Every earlier target was asked for every remaining device, and the current
\* one for those it did not list.
AskedInv ==
    /\ pc = "target" => idx \notin answered /\ \A n \in remaining, i \in Targets : i < idx => Asked(n, i)
    /\ pc = "device" => \A n \in remaining, i \in Targets :
                           i < idx \/ (i = idx /\ n \notin resolved) => Asked(n, i)
    /\ \A i \in answered : i <= idx

Inv == TypeOK /\ KnowsInv /\ BookInv /\ AskedInv /\ EveryDeviceAccounted /\ NotFoundWasAsked

\* A device list is indexed by the targets 1, 2, ...
LEMMA InventoryDomain ==
    ASSUME NEW f \in Inventories
    PROVE  \E k \in 0..MaxTargets : f \in [1..k -> SUBSET Devices]
    BY DEF Inventories

\* The inductive invariant holds initially.
LEMMA InvInit == Init => Inv
<1> SUFFICES ASSUME Init PROVE Inv
    OBVIOUS
<1>1. PICK k \in 0..MaxTargets : knows \in [1..k -> SUBSET Devices]
    BY InventoryDomain DEF Init
<1>2. KnowsInv
    <2>1. Targets = 1..k /\ idx <= k + 1 /\ pc # "device"
        BY <1>1 DEF Init, Targets
    <2> QED
        BY <2>1 DEF KnowsInv
<1>3. TypeOK
    BY DEF Init, TypeOK, Kinds, NoError
<1>4. BookInv
    BY DEF Init, BookInv, Failing, NoError
<1>5. AskedInv /\ EveryDeviceAccounted /\ NotFoundWasAsked
    BY <1>1, UsageAssumption DEF Init, AskedInv, EveryDeviceAccounted, NotFoundWasAsked, Targets
<1> QED
    BY <1>2, <1>3, <1>4, <1>5 DEF Inv

\* A target answers with its device list, or fails.
LEMMA InvResolve ==
    ASSUME Inv, NEW d \in 0..MaxResolve, Resolve(d) \/ ResolveFails(d)
    PROVE  Inv'
<1> USE DEF Inv
<1>m. pc = "target" /\ idx \in Targets
    BY DEF MoreTargets, Resolve, ResolveFails
<1>a. /\ pc = "target" /\ idx \in Targets
      /\ idx \in Nat \ {0} /\ remaining \in SUBSET Devices /\ answered \in SUBSET Targets
      /\ errors \in [Devices -> Kinds \cup {NoError}]
      /\ elapsed + d \in Nat
    BY <1>m, UsageAssumption DEF TypeOK
<1>b. resolved = {} /\ idx \notin answered /\ status = 0
    BY <1>a DEF BookInv, AskedInv
<1>c. \A i \in Targets : i \in Nat
    BY DEF KnowsInv
<1>0. /\ pc = "target" /\ idx \in Targets /\ idx \in Nat \ {0} /\ resolved = {}
      /\ remaining \in SUBSET Devices /\ answered \in SUBSET Targets /\ elapsed + d \in Nat
      /\ idx \notin answered /\ status = 0 /\ \A i \in Targets : i \in Nat
    BY <1>a, <1>b, <1>c
<1>1. CASE Resolve(d)
    <2>1. /\ pc' = "device" /\ resolved' = remaining \cap knows[idx] /\ answered' = answered \cup {idx}
          /\ UNCHANGED <<idx, knows, remaining, queried, errors, notFound, status, searches>>
          /\ elapsed' = elapsed + d
        BY <1>1 DEF Resolve
    <2>2. TypeOK'
        BY <1>0, <2>1 DEF TypeOK, Targets
    <2>3. KnowsInv'
        <3>1. PICK k \in 0..MaxTargets : Targets = 1..k
            BY DEF KnowsInv
        <3>2. Targets' = 1..k /\ idx' <= k + 1 /\ idx' <= k
            BY <1>0, <2>1, <3>1 DEF Targets
        <3> QED
            BY <3>2 DEF KnowsInv
    <2>4. BookInv'
        BY <1>0, <2>1 DEF BookInv, Failing
    <2>5. AskedInv'
        BY <1>0, <2>1 DEF AskedInv, Asked, Failing, Targets
    <2>6. EveryDeviceAccounted' /\ NotFoundWasAsked'
        BY <1>0, <2>1 DEF BookInv, EveryDeviceAccounted, NotFoundWasAsked
    <2> QED
        BY <2>2, <2>3, <2>4, <2>5, <2>6
<1>2. CASE ResolveFails(d)
    <2>e. errors' = [n \in Devices |-> IF n \in remaining /\ errors[n] = NoError
                                          THEN "target failed" ELSE errors[n]]
        BY <1>2 DEF ResolveFails
    <2>1. /\ idx' = idx + 1 /\ elapsed' = elapsed + d
          /\ UNCHANGED <<pc, knows, remaining, resolved, queried, notFound, status,
                         searches, answered>>
        BY <1>2 DEF ResolveFails
    <2>2. TypeOK'
        <3>1. errors' \in [Devices -> Kinds \cup {NoError}]
            BY <1>a, <2>e DEF Kinds
        <3> QED
            BY <1>0, <2>1, <3>1 DEF TypeOK, Targets
    <2>3. KnowsInv'
        <3>1. PICK k \in 0..MaxTargets : Targets = 1..k
            BY DEF KnowsInv
        <3>2. Targets' = 1..k /\ idx' <= k + 1 /\ pc' # "device"
            BY <1>0, <2>1, <3>1 DEF Targets
        <3> QED
            BY <3>2 DEF KnowsInv
    <2>4. Failing' = Failing \cup remaining
        BY <1>a, <2>e DEF Failing, NoError
    <2>5. BookInv'
        BY <1>0, <2>1, <2>4 DEF BookInv
    <2>6. AskedInv'
        <3>1. ASSUME NEW n \in remaining, NEW i \in Targets, i < idx + 1 PROVE Asked(n, i)'
            BY <1>0, <2>1, <2>4, <3>1 DEF AskedInv, Asked
        <3>2. \A i \in answered : i <= idx + 1 /\ i # idx + 1
            BY <1>0 DEF AskedInv
        <3> QED
            BY <1>0, <2>1, <3>1, <3>2 DEF AskedInv, Targets
    <2>7. EveryDeviceAccounted' /\ NotFoundWasAsked'
        <3>1. status' # 200
            BY <1>0, <2>1 DEF BookInv
        <3> QED
            BY <3>1 DEF EveryDeviceAccounted, NotFoundWasAsked
    <2> QED
        BY <2>2, <2>3, <2>5, <2>6, <2>7
<1> QED
    BY <1>1, <1>2

\* One device is searched, with or without success.
LEMMA InvSearch ==
    ASSUME Inv, NEW n \in Devices, NEW d \in 0..MaxSearch, Search(n, d) \/ SearchFails(n, d)
    PROVE  Inv'
<1> USE DEF Inv
<1>0. /\ pc = "device" /\ n \in resolved /\ n \in remaining /\ n \notin queried
      /\ searches[n] = 0 /\ searches \in [Devices -> Nat]
      /\ errors \in [Devices -> Kinds \cup {NoError}]
    BY DEF Search, SearchFails, Attempt, MaySearch, TypeOK, BookInv
<1>1. /\ elapsed' = elapsed + d /\ remaining' = remaining \ {n} /\ resolved' = resolved \ {n}
      /\ searches' = [searches EXCEPT ![n] = @ + 1]
      /\ UNCHANGED <<pc, idx, knows, notFound, status, answered>>
    BY DEF Search, SearchFails, Attempt
<1>2. \/ queried' = queried \cup {n} /\ Failing' = Failing \ {n}
      \/ queried' = queried /\ Failing' = Failing \cup {n}
    BY <1>0 DEF Search, SearchFails, Failing, NoError
<1>3. TypeOK'
    <2>1. elapsed' \in Nat
        BY <1>1, UsageAssumption DEF TypeOK
    <2>2. errors' \in [Devices -> Kinds \cup {NoError}]
        BY <1>0 DEF Search, SearchFails, Kinds
    <2>3. searches' \in [Devices -> Nat]
        BY <1>0, <1>1
    <2>4. /\ remaining' \in SUBSET Devices /\ resolved' \in SUBSET Devices
          /\ queried' \in SUBSET Devices
        BY <1>1, <1>2 DEF TypeOK
    <2>5. /\ pc' \in {"target", "device", "done"} /\ idx' \in Nat \ {0} /\ knows' \in Inventories
          /\ notFound' \in SUBSET Devices /\ status' \in {0, 200, 404, 502}
          /\ answered' \in SUBSET Targets'
        BY <1>1 DEF TypeOK, Targets
    <2> QED
        BY <2>1, <2>2, <2>3, <2>4, <2>5 DEF TypeOK
<1>4. KnowsInv'
    BY <1>1 DEF KnowsInv, Targets
<1>5. BookInv'
    <2>1. \A c \in Devices : searches'[c] = IF c = n THEN 1 ELSE searches[c]
        BY <1>0, <1>1
    <2>2. \A c \in remaining' : c # n /\ c \in Devices
        BY <1>1 DEF TypeOK
    <2>3. /\ \A c \in Devices : searches'[c] <= 1
          /\ \A c \in remaining' : searches'[c] = 0
        BY <1>0, <1>1, <2>1, <2>2 DEF BookInv
    <2>4. /\ queried' \cap Failing' = {}
          /\ resolved' \subseteq remaining'
          /\ remaining' \cap queried' = {}
          /\ Devices = remaining' \cup queried' \cup Failing'
        BY <1>0, <1>1, <1>2 DEF BookInv, TypeOK
    <2>5. status' = 0 /\ pc' = "device"
        BY <1>0, <1>1 DEF BookInv
    <2> QED
        BY <2>3, <2>4, <2>5 DEF BookInv
<1>6. AskedInv'
    BY <1>0, <1>1, <1>2 DEF AskedInv, Asked, Targets
<1>7. EveryDeviceAccounted' /\ NotFoundWasAsked'
    BY <1>0, <1>1 DEF BookInv, EveryDeviceAccounted, NotFoundWasAsked
<1> QED
    BY <1>3, <1>4, <1>5, <1>6, <1>7

\* All devices of a target are done.
LEMMA InvTargetDone == ASSUME Inv, TargetDone PROVE Inv'
<1> USE DEF Inv
<1>0. /\ pc = "device" /\ resolved = {} /\ pc' = "target" /\ idx' = idx + 1
      /\ UNCHANGED <<elapsed, knows, remaining, resolved, queried, errors,
                     notFound, status, searches, answered>>
      /\ idx \in Nat \ {0} /\ \A i \in Targets : i \in Nat
      /\ answered \in SUBSET Targets
    BY DEF TargetDone, TypeOK, KnowsInv
<1>1. TypeOK'
    BY <1>0 DEF TypeOK, Targets
<1>2. KnowsInv'
    <2>1. PICK k \in 0..MaxTargets : Targets = 1..k /\ idx <= k
        BY <1>0 DEF KnowsInv
    <2>2. Targets' = 1..k /\ idx' <= k + 1 /\ pc' # "device"
        BY <1>0, <2>1 DEF Targets
    <2> QED
        BY <2>2 DEF KnowsInv
<1>3. BookInv'
    BY <1>0 DEF BookInv, Failing
<1>4. AskedInv'
    BY <1>0 DEF AskedInv, Asked, Targets, Failing
<1>5. EveryDeviceAccounted' /\ NotFoundWasAsked'
    BY <1>0 DEF BookInv, EveryDeviceAccounted, NotFoundWasAsked
<1> QED
    BY <1>1, <1>2, <1>3, <1>4, <1>5

\* The answer is given: the deadline has passed, or all targets were asked.
LEMMA InvRespond == ASSUME Inv, NoTarget \/ DeadlineHit \/ AllAsked PROVE Inv'
<1> USE DEF Inv
<1>0. /\ idx \in Nat \ {0} /\ remaining \in SUBSET Devices /\ queried \in SUBSET Devices
      /\ errors \in [Devices -> Kinds \cup {NoError}] /\ answered \in SUBSET Targets
      /\ status = 0 /\ Devices = remaining \cup queried \cup Failing
      /\ remaining \cap queried = {} /\ queried \cap Failing = {}
    BY DEF NoTarget, DeadlineHit, AllAsked, TypeOK, BookInv
<1>t. /\ UNCHANGED <<elapsed, idx, knows, resolved, queried, searches, answered>>
      /\ pc' = "done"
    BY DEF NoTarget, DeadlineHit, AllAsked, Respond
<1>k. KnowsInv'
    <2>1. PICK k \in 0..MaxTargets : Targets = 1..k /\ idx <= k + 1
        BY DEF KnowsInv
    <2>2. Targets' = 1..k /\ idx' <= k + 1 /\ pc' # "device"
        BY <1>t, <2>1 DEF Targets
    <2> QED
        BY <2>2 DEF KnowsInv
<1>a. AskedInv'
    BY <1>t DEF AskedInv
<1>y. ASSUME /\ remaining' \in SUBSET Devices /\ notFound' \in SUBSET Devices
             /\ errors' \in [Devices -> Kinds \cup {NoError}]
             /\ status' \in {200, 404, 502}
      PROVE  TypeOK'
    <2>1. /\ elapsed' \in Nat /\ idx' \in Nat \ {0} /\ knows' \in Inventories
          /\ resolved' \in SUBSET Devices /\ queried' \in SUBSET Devices
          /\ searches' \in [Devices -> Nat] /\ answered' \in SUBSET Targets'
        BY <1>t DEF TypeOK, Targets
    <2> QED
        BY <1>t, <1>y, <2>1 DEF TypeOK
<1>b. ASSUME status' # 0, queried \cap Failing' = {} PROVE BookInv'
    <2>1. \A d \in Devices : searches'[d] <= 1
        BY <1>t DEF BookInv
    <2> QED
        BY <1>t, <1>b, <2>1 DEF BookInv
<1>1. CASE NoTarget
    <2>1. status' = 404 /\ UNCHANGED <<remaining, notFound, errors>>
        BY <1>1 DEF NoTarget
    <2>2. Failing' = Failing
        BY <2>1 DEF Failing
    <2>3. TypeOK'
        BY <1>y, <1>0, <2>1 DEF TypeOK
    <2>4. BookInv'
        BY <1>b, <1>0, <2>1, <2>2
    <2>5. EveryDeviceAccounted' /\ NotFoundWasAsked'
        BY <2>1 DEF EveryDeviceAccounted, NotFoundWasAsked
    <2> QED
        BY <1>k, <1>a, <2>3, <2>4, <2>5
<1>2. CASE DeadlineHit
    <2>e. errors' = [n \in Devices |-> IF n \in remaining THEN "skipped" ELSE errors[n]]
        BY <1>2 DEF DeadlineHit, Respond
    <2>1. remaining' = {} /\ notFound' = {}
        BY <1>2 DEF DeadlineHit, Respond
    <2>s. status' \in {200, 502}
        BY <1>2 DEF DeadlineHit, Respond
    <2>2. Failing' = Failing \cup remaining
        BY <1>0, <2>e DEF Failing, NoError
    <2>3. errors' \in [Devices -> Kinds \cup {NoError}]
        BY <1>0, <2>e DEF Kinds
    <2>4. TypeOK'
        BY <1>y, <2>1, <2>s, <2>3
    <2>5. BookInv'
        BY <1>b, <1>0, <2>s, <2>2
    <2>6. EveryDeviceAccounted' /\ NotFoundWasAsked'
        BY <1>0, <1>t, <2>1, <2>2 DEF EveryDeviceAccounted, NotFoundWasAsked
    <2> QED
        BY <1>k, <1>a, <2>4, <2>5, <2>6
<1>3. CASE AllAsked
    <2>1. remaining' = remaining /\ notFound' = remaining /\ errors' = errors
        BY <1>3 DEF AllAsked, Respond
    <2>s. status' \in {200, 502}
        BY <1>3 DEF AllAsked, Respond
    <2>2. Failing' = Failing
        BY <2>1 DEF Failing
    <2>3. TypeOK'
        BY <1>y, <1>0, <2>1, <2>s
    <2>4. BookInv'
        BY <1>b, <1>0, <2>s, <2>2
    <2>5. EveryDeviceAccounted'
        BY <1>0, <1>t, <2>1, <2>2 DEF EveryDeviceAccounted
    <2>6. ASSUME NEW n \in remaining, NEW i \in Targets PROVE Asked(n, i)
        <3>1. pc = "target" /\ idx \notin Targets
            BY <1>3, <2>6 DEF AllAsked
        <3>2. i < idx
            BY <1>0, <3>1, <2>6 DEF KnowsInv
        <3> QED
            BY <3>1, <3>2, <2>6 DEF AskedInv
    <2>7. NotFoundWasAsked'
        BY <1>t, <2>1, <2>2, <2>6 DEF NotFoundWasAsked, Asked, Targets
    <2> QED
        BY <1>k, <1>a, <2>3, <2>4, <2>5, <2>7
<1> QED
    BY <1>1, <1>2, <1>3

\* Every step preserves the inductive invariant.
LEMMA InvStep == Inv /\ [Next]_vars => Inv'
<1> SUFFICES ASSUME Inv, [Next]_vars PROVE Inv'
    OBVIOUS
<1>1. CASE UNCHANGED vars
    BY <1>1 DEF vars, Inv, TypeOK, KnowsInv, BookInv, AskedInv, Asked, Failing, Targets,
                EveryDeviceAccounted, NotFoundWasAsked
<1>2. CASE Next
    BY <1>2, InvResolve, InvSearch, InvTargetDone, InvRespond DEF Next
<1> QED
    BY <1>1, <1>2

\* The inductive invariant holds in every reachable state.
THEOREM Invariance == Spec => []Inv
    BY InvInit, InvStep, PTL DEF Spec

\* The answer accounts for every requested device, and lists it as searched
\* or as in trouble, never as both.
THEOREM AlwaysAccounted == Spec => []EveryDeviceAccounted
<1>1. Inv => EveryDeviceAccounted
    BY DEF Inv
<1> QED
    BY <1>1, Invariance, PTL

\* No device is searched twice.
THEOREM NeverSearchedTwice == Spec => []SearchedAtMostOnce
<1>1. Inv => SearchedAtMostOnce
    BY DEF Inv, BookInv, SearchedAtMostOnce
<1> QED
    BY <1>1, Invariance, PTL

\* A device reported as not found was asked of every target.
THEOREM NotFoundMeansAsked == Spec => []NotFoundWasAsked
<1>1. Inv => NotFoundWasAsked
    BY DEF Inv
<1> QED
    BY <1>1, Invariance, PTL

-----------------------------------------------------------------------------
(* The deadline. *)

\* How late the request may be after n device lists.
Budget(n) == Deadline + n * MaxResolve + MaxSearch

\* Each target asked so far added at most one device list to the deadline.
OverrunInv ==
    /\ pc = "target" => elapsed <= Budget(idx - 1)
    /\ pc = "device" => elapsed <= Budget(idx)
    /\ BoundedOverrun

\* The budget grows by one device list per target.
LEMMA BudgetGrows ==
    ASSUME NEW m \in Nat
    PROVE  /\ Budget(m) \in Nat /\ Budget(m + 1) = Budget(m) + MaxResolve
           /\ Deadline + MaxSearch <= Budget(m)
           /\ \A n \in Nat : m <= n => Budget(m) <= Budget(n)
<1>1. \A a, b \in Nat : a * b \in Nat
    OBVIOUS
<1>2. (m + 1) * MaxResolve = m * MaxResolve + MaxResolve
    BY UsageAssumption
<1>3. ASSUME NEW n \in Nat, m <= n PROVE m * MaxResolve <= n * MaxResolve
    <2>1. n - m \in Nat /\ (n - m) * MaxResolve = n * MaxResolve - m * MaxResolve
        BY <1>3, UsageAssumption
    <2>2. (n - m) * MaxResolve \in Nat /\ m * MaxResolve \in Nat /\ n * MaxResolve \in Nat
        BY <1>1, <2>1, UsageAssumption
    <2> QED
        BY <2>1, <2>2
<1>4. m * MaxResolve \in Nat /\ \A n \in Nat : n * MaxResolve \in Nat
    BY <1>1, UsageAssumption
<1> QED
    BY <1>2, <1>3, <1>4, UsageAssumption DEF Budget

\* Every step respects the budget.
LEMMA OverrunStep == Inv /\ OverrunInv /\ [Next]_vars => OverrunInv'
<1> SUFFICES ASSUME Inv, OverrunInv, [Next]_vars PROVE OverrunInv'
    OBVIOUS
<1>0. /\ elapsed \in Nat /\ idx \in Nat \ {0} /\ idx - 1 \in Nat /\ idx - 1 <= MaxTargets
      /\ pc \in {"target", "device", "done"}
    BY UsageAssumption DEF Inv, TypeOK, KnowsInv
<1>b. BoundedOverrun <=> elapsed <= Budget(MaxTargets)
    BY DEF BoundedOverrun, Budget
<1>c. BoundedOverrun' <=> elapsed' <= Budget(MaxTargets)
    BY DEF BoundedOverrun, Budget
<1>d. /\ Budget(idx) = Budget(idx - 1) + MaxResolve
      /\ Budget(idx) \in Nat /\ Budget(idx - 1) \in Nat /\ Budget(MaxTargets) \in Nat
      /\ Budget(idx - 1) <= Budget(MaxTargets)
      /\ Deadline + MaxSearch <= Budget(idx)
      /\ Deadline + MaxSearch <= Budget(MaxTargets)
      /\ idx <= MaxTargets => Budget(idx) <= Budget(MaxTargets)
    <2>1. idx = (idx - 1) + 1
        BY <1>0
    <2> QED
        BY <1>0, <2>1, BudgetGrows, UsageAssumption
<1> HIDE DEF Budget
<1>1. ASSUME NEW d \in 0..MaxResolve, Resolve(d) \/ ResolveFails(d) PROVE OverrunInv'
    <2>1. elapsed' = elapsed + d /\ pc = "target" /\ idx \in Targets
        BY <1>1 DEF Resolve, ResolveFails, MoreTargets
    <2>2. (pc' = "device" /\ idx' = idx) \/ (pc' = "target" /\ idx' = idx + 1)
        BY <1>1, <2>1 DEF Resolve, ResolveFails
    <2>3. elapsed' <= Budget(idx)
        BY <1>0, <1>d, <2>1, UsageAssumption DEF OverrunInv
    <2>4. idx <= MaxTargets
        BY <1>0, <2>1, UsageAssumption DEF Inv, KnowsInv
    <2>5. elapsed' <= Budget(MaxTargets)
        BY <1>0, <1>d, <2>1, <2>3, <2>4
    <2>6. idx' = idx + 1 => idx' - 1 = idx
        BY <1>0
    <2> QED
        BY <1>c, <2>2, <2>3, <2>5, <2>6 DEF OverrunInv
<1>2. ASSUME NEW n \in Devices, NEW d \in 0..MaxSearch, Search(n, d) \/ SearchFails(n, d)
      PROVE  OverrunInv'
    <2>1. elapsed' = elapsed + d /\ elapsed < Deadline /\ pc = "device" /\ pc' = pc /\ idx' = idx
        BY <1>2 DEF Search, SearchFails, Attempt, MaySearch
    <2>2. elapsed' <= Deadline + MaxSearch /\ elapsed' \in Nat
        BY <1>0, <2>1, UsageAssumption
    <2>3. elapsed' <= Budget(idx) /\ elapsed' <= Budget(MaxTargets)
        BY <1>d, <2>2, UsageAssumption
    <2> QED
        BY <1>c, <2>1, <2>3 DEF OverrunInv
<1>3. CASE TargetDone
    <2>1. elapsed' = elapsed /\ pc = "device" /\ pc' = "target" /\ idx' - 1 = idx
        BY <1>0, <1>3 DEF TargetDone
    <2> QED
        BY <1>b, <1>c, <2>1 DEF OverrunInv
<1>4. CASE NoTarget \/ DeadlineHit \/ AllAsked
    <2>1. elapsed' = elapsed /\ pc' = "done"
        BY <1>4 DEF NoTarget, DeadlineHit, AllAsked, Respond
    <2> QED
        BY <1>b, <1>c, <2>1 DEF OverrunInv
<1>5. CASE UNCHANGED vars
    BY <1>b, <1>c, <1>5 DEF vars, OverrunInv
<1> QED
    BY <1>1, <1>2, <1>3, <1>4, <1>5 DEF Next

\* The request ends at most one search, and one device list per target, after
\* its deadline.
THEOREM OverrunIsBounded == Spec => []BoundedOverrun
<1>1. Init => OverrunInv
    <2> SUFFICES ASSUME Init PROVE OverrunInv
        OBVIOUS
    <2>1. pc = "target" /\ elapsed = 0 /\ idx - 1 = 0
        BY DEF Init
    <2>2. Budget(0) \in Nat /\ Budget(MaxTargets) \in Nat
        BY BudgetGrows, UsageAssumption
    <2>3. BoundedOverrun <=> elapsed <= Budget(MaxTargets)
        BY DEF BoundedOverrun, Budget
    <2> QED
        BY <2>1, <2>2, <2>3 DEF OverrunInv
<1>2. OverrunInv => BoundedOverrun
    BY DEF OverrunInv
<1> QED
    BY <1>1, <1>2, OverrunStep, Invariance, PTL DEF Spec
=============================================================================
