-------------------------- MODULE ThreatStatsProofs --------------------------
(* Theorems about ThreatStats, for any targets, severities, signatures,       *)
(* tunnels, list lengths, business hours and logs.  The numbers of a snapshot *)
(* are sums over the targets, so the sums come first (their first lemmas are  *)
(* those of LoginGuardProofs).  Then follow the inductive invariant, what each*)
(* step does to the fields of the poll, that each step keeps the invariant,   *)
(* and the theorems.                                                          *)
EXTENDS ThreatStats, FiniteSetTheorems, WellFoundedInduction, TLAPS

-----------------------------------------------------------------------------
(* Sums *)

\* The recursive function behind MapThenSumSet, for numbers given by a function.
Pick(s) == CHOOSE x \in s : TRUE
Adder(w, S) == CHOOSE iter : iter = [s \in SUBSET S |->
    IF s = {} THEN 0 ELSE w[Pick(s)] + iter[s \ {Pick(s)}]]
SumOf(w, S) == Adder(w, S)[S]

\* MapThenSumSet is its value for the whole set.
LEMMA SumIs ==
    ASSUME NEW w, NEW S
    PROVE  MapThenSumSet(LAMBDA s : w[s], S) = SumOf(w, S)
    BY Zenon DEF MapThenSumSet, MapThenFoldSet, Adder, SumOf, Pick

\* Of some subsets of a finite set one contains none of the others.
LEMMA HasMinimal ==
    ASSUME NEW U, IsFiniteSet(U), NEW T \in SUBSET SUBSET U, T # {}
    PROVE  \E m \in T : \A s \in T : s \subseteq m => s = m
<1> DEFINE R == StrictSubsetOrdering(U)
<1>1. IsWellFoundedOn(R, SUBSET U)
    BY FS_StrictSubsetOrderingWellFounded, FS_FiniteSubsetsOfFinite
<1> HIDE DEF R
<1>2. PICK m \in T : \A s \in T : <<s, m>> \notin R
    BY <1>1, WFMin
<1>3. ASSUME NEW s \in T, s \subseteq m PROVE s = m
    <2>1. s \in SUBSET U /\ m \in SUBSET U
        OBVIOUS
    <2>2. <<s, m>> \notin R
        BY <1>2
    <2> QED
        BY <1>3, <2>1, <2>2 DEF R, StrictSubsetOrdering
<1> QED
    BY <1>3

\* A set that is not empty has the element picked.
LEMMA PickIn == ASSUME NEW s, s # {} PROVE Pick(s) \in s
    BY DEF Pick

\* g adds up w over the subsets of U.
Adds(g, w, U) ==
    \A s \in SUBSET U : g[s] = IF s = {} THEN 0 ELSE w[Pick(s)] + g[s \ {Pick(s)}]

\* The equation has one solution at most.
LEMMA AddsUnique ==
    ASSUME NEW w, NEW U, IsFiniteSet(U), NEW g, NEW h, Adds(g, w, U), Adds(h, w, U)
    PROVE  \A s \in SUBSET U : g[s] = h[s]
<1> DEFINE Bad == {s \in SUBSET U : g[s] # h[s]}
<1> SUFFICES ASSUME Bad # {} PROVE FALSE
    OBVIOUS
<1>1. PICK m \in Bad : \A s \in Bad : s \subseteq m => s = m
    <2>1. Bad \in SUBSET SUBSET U
        OBVIOUS
    <2> HIDE DEF Bad
    <2> QED
        BY <2>1, HasMinimal
<1>2. m # {}
    BY DEF Adds
<1>3. m \ {Pick(m)} \in SUBSET U /\ m \ {Pick(m)} \notin Bad
    BY <1>1, <1>2, PickIn
<1> QED
    BY <1>2, <1>3 DEF Adds

\* So there is one such function, which MapThenSumSet chooses.
LEMMA AdderAdds ==
    ASSUME NEW w, NEW U, IsFiniteSet(U)
    PROVE  \A S \in SUBSET U : Adds(Adder(w, S), w, S)
<1> DEFINE Bad == {S \in SUBSET U : ~ Adds(Adder(w, S), w, S)}
<1> SUFFICES ASSUME Bad # {} PROVE FALSE
    OBVIOUS
<1>1. PICK m \in Bad : \A s \in Bad : s \subseteq m => s = m
    <2>1. Bad \in SUBSET SUBSET U
        OBVIOUS
    <2> HIDE DEF Bad
    <2> QED
        BY <2>1, HasMinimal
<1>2. \A s \in SUBSET m : s # m => Adds(Adder(w, s), w, s)
    BY <1>1
<1> DEFINE Part(s) == IF s = {} THEN 0 ELSE w[Pick(s)] + SumOf(w, s \ {Pick(s)})
           G == [s \in SUBSET m |-> Part(s)]
<1>3. ASSUME NEW s \in SUBSET m, s # m PROVE SumOf(w, s) = Part(s)
    <2>1. CASE s = {}
        BY <1>2, <1>3, <2>1 DEF Adds, SumOf
    <2>2. CASE s # {}
        <3> DEFINE r == s \ {Pick(s)}
        <3>1. r \in SUBSET s /\ r \in SUBSET m /\ r # m /\ Pick(s) \in s
            BY <2>2, PickIn
        <3>2. Adds(Adder(w, s), w, s) /\ Adds(Adder(w, r), w, r)
            BY <1>2, <1>3, <3>1
        <3>3. Adds(Adder(w, s), w, r)
            <4>1. SUBSET r \subseteq SUBSET s
                OBVIOUS
            <4> HIDE DEF r
            <4> QED
                BY <3>2, <4>1 DEF Adds
        <3>4. IsFiniteSet(r)
            BY <3>1, FS_Subset
        <3>5. Adder(w, s)[r] = Adder(w, r)[r]
            <4> HIDE DEF r
            <4> QED
                BY <3>2, <3>3, <3>4, AddsUnique
        <3>6. SumOf(w, s) = w[Pick(s)] + Adder(w, s)[r]
            BY <2>2, <3>2 DEF Adds, SumOf
        <3> QED
            BY <2>2, <3>5, <3>6 DEF SumOf
    <2> QED
        BY <2>1, <2>2
<1>4. \A s \in SUBSET m : s # {} => s \ {Pick(s)} \in SUBSET m /\ s \ {Pick(s)} # m
    BY PickIn
<1>5. G = [s \in SUBSET m |-> IF s = {} THEN 0 ELSE w[Pick(s)] + G[s \ {Pick(s)}]]
    <2> HIDE DEF Part
    <2>1. \A s \in SUBSET m : s # {} => G[s \ {Pick(s)}] = SumOf(w, s \ {Pick(s)})
        BY <1>3, <1>4
    <2>2. \A s \in SUBSET m : Part(s) = IF s = {} THEN 0 ELSE w[Pick(s)] + G[s \ {Pick(s)}]
        BY <2>1 DEF Part
    <2> QED
        BY <2>2
<1> DEFINE A == Adder(w, m)
<1>6. A = [s \in SUBSET m |-> IF s = {} THEN 0 ELSE w[Pick(s)] + A[s \ {Pick(s)}]]
    <2> HIDE DEF G
    <2> QED
        BY <1>5, Zenon DEF Adder
<1>7. Adds(A, w, m)
    <2> HIDE DEF A
    <2> QED
        BY <1>6 DEF Adds
<1> QED
    BY <1>1, <1>7

\* The sum over a set, and over what is left without one element.
LEMMA SumStep ==
    ASSUME NEW w, NEW S, IsFiniteSet(S)
    PROVE  SumOf(w, S) = IF S = {} THEN 0 ELSE w[Pick(S)] + SumOf(w, S \ {Pick(S)})
<1>1. Adds(Adder(w, S), w, S)
    BY AdderAdds
<1>2. CASE S = {}
    BY <1>1, <1>2 DEF Adds, SumOf
<1>3. CASE S # {}
    <2> DEFINE r == S \ {Pick(S)}
    <2>1. r \in SUBSET S /\ IsFiniteSet(r)
        BY FS_Subset
    <2>2. Adds(Adder(w, r), w, r)
        BY <2>1, AdderAdds
    <2>3. Adds(Adder(w, S), w, r)
        <3>1. SUBSET r \subseteq SUBSET S
            OBVIOUS
        <3> HIDE DEF r
        <3> QED
            BY <1>1, <3>1 DEF Adds
    <2>4. Adder(w, S)[r] = Adder(w, r)[r]
        <3> HIDE DEF r
        <3> QED
            BY <2>1, <2>2, <2>3, AddsUnique
    <2> QED
        BY <1>1, <1>3, <2>4 DEF Adds, SumOf
<1> QED
    BY <1>2, <1>3

\* Nothing adds up to nothing.
LEMMA SumEmpty == \A w : SumOf(w, {}) = 0
    BY SumStep, FS_EmptySet

\* A sum of integers (of natural numbers) is one.
LEMMA SumType ==
    ASSUME NEW w, NEW U, IsFiniteSet(U), NEW N \in {Int, Nat}, \A x \in U : w[x] \in N
    PROVE  SumOf(w, U) \in N
<1> DEFINE Bad == {s \in SUBSET U : SumOf(w, s) \notin N}
<1> SUFFICES ASSUME Bad # {} PROVE FALSE
    OBVIOUS
<1>1. PICK m \in Bad : \A s \in Bad : s \subseteq m => s = m
    <2>1. Bad \in SUBSET SUBSET U
        OBVIOUS
    <2> HIDE DEF Bad
    <2> QED
        BY <2>1, HasMinimal
<1>2. IsFiniteSet(m) /\ m \in SUBSET U
    BY FS_Subset
<1>3. m # {}
    BY SumEmpty
<1>4. Pick(m) \in m /\ SumOf(w, m \ {Pick(m)}) \in N
    BY <1>1, <1>3, PickIn
<1>5. w[Pick(m)] \in N
    BY <1>2, <1>4
<1>6. SumOf(w, m) = w[Pick(m)] + SumOf(w, m \ {Pick(m)})
    BY <1>2, <1>3, SumStep
<1> QED
    BY <1>4, <1>5, <1>6

\* Any element may be taken out first.
LEMMA SumTake ==
    ASSUME NEW w, NEW U, IsFiniteSet(U), \A x \in U : w[x] \in Int, NEW x \in U
    PROVE  SumOf(w, U) = w[x] + SumOf(w, U \ {x})
<1> DEFINE Fails(s, y) == SumOf(w, s) # w[y] + SumOf(w, s \ {y})
           Bad == {s \in SUBSET U : \E y \in s : Fails(s, y)}
<1> SUFFICES ASSUME Bad # {} PROVE FALSE
    OBVIOUS
<1>1. PICK m \in Bad : \A s \in Bad : s \subseteq m => s = m
    <2>1. Bad \in SUBSET SUBSET U
        OBVIOUS
    <2> HIDE DEF Bad
    <2> QED
        BY <2>1, HasMinimal
<1>2. IsFiniteSet(m) /\ m \in SUBSET U /\ m # {}
    BY FS_Subset
<1>3. PICK y \in m : Fails(m, y)
    BY <1>1
<1> DEFINE p == Pick(m)
<1>4. p \in m /\ SumOf(w, m) = w[p] + SumOf(w, m \ {p})
    BY <1>2, SumStep, PickIn
<1>5. p # y
    BY <1>3, <1>4
<1>6. m \ {p} \notin Bad /\ m \ {y} \notin Bad /\ m \ {p} \in SUBSET U /\ m \ {y} \in SUBSET U
    BY <1>1, <1>2, <1>4
<1>7. /\ SumOf(w, m \ {p}) = w[y] + SumOf(w, (m \ {p}) \ {y})
      /\ SumOf(w, m \ {y}) = w[p] + SumOf(w, (m \ {y}) \ {p})
    BY <1>4, <1>5, <1>6
<1>8. (m \ {p}) \ {y} = (m \ {y}) \ {p}
    OBVIOUS
<1>9. /\ w[p] \in Int /\ w[y] \in Int
      /\ SumOf(w, (m \ {y}) \ {p}) \in Int
    <2> DEFINE r == (m \ {y}) \ {p}
    <2>1. r \in SUBSET U /\ IsFiniteSet(r) /\ \A z \in r : w[z] \in Int
        BY <1>2, FS_Subset
    <2>2. SumOf(w, r) \in Int
        <3> HIDE DEF r
        <3> QED
            BY <2>1, SumType
    <2> QED
        BY <1>2, <1>4, <2>2
<1>10. SumOf(w, m) = w[y] + SumOf(w, m \ {y})
    <2> DEFINE all == SumOf(w, m)
               noP == SumOf(w, m \ {p})
               noY == SumOf(w, m \ {y})
               rest == SumOf(w, (m \ {y}) \ {p})
    <2>1. all = w[p] + noP /\ noP = w[y] + rest /\ noY = w[p] + rest
        BY <1>4, <1>7, <1>8, Zenon
    <2>2. rest \in Int /\ w[p] \in Int /\ w[y] \in Int
        BY <1>9
    <2> HIDE DEF all, noP, noY, rest, p
    <2>3. all = w[y] + noY
        BY <2>1, <2>2
    <2> QED
        BY <2>3 DEF all, noY
<1> QED
    BY <1>3, <1>10

\* Sums of smaller numbers are smaller.
LEMMA SumMono ==
    ASSUME NEW v, NEW w, NEW U, IsFiniteSet(U),
           \A x \in U : v[x] \in Int /\ w[x] \in Int /\ v[x] <= w[x]
    PROVE  SumOf(v, U) <= SumOf(w, U)
<1> DEFINE Bad == {s \in SUBSET U : ~ (SumOf(v, s) <= SumOf(w, s))}
<1> SUFFICES ASSUME Bad # {} PROVE FALSE
    OBVIOUS
<1>1. PICK m \in Bad : \A s \in Bad : s \subseteq m => s = m
    <2>1. Bad \in SUBSET SUBSET U
        OBVIOUS
    <2> HIDE DEF Bad
    <2> QED
        BY <2>1, HasMinimal
<1>2. IsFiniteSet(m) /\ m \in SUBSET U
    BY FS_Subset
<1>3. m # {}
    BY SumEmpty
<1> DEFINE p == Pick(m)
           r == m \ {p}
<1>4. p \in m /\ r \in SUBSET U /\ SumOf(v, r) <= SumOf(w, r)
    BY <1>1, <1>2, <1>3, PickIn
<1>5. SumOf(v, m) = v[p] + SumOf(v, r) /\ SumOf(w, m) = w[p] + SumOf(w, r)
    BY <1>2, <1>3, SumStep
<1>6. SumOf(v, r) \in Int /\ SumOf(w, r) \in Int
    <2>1. IsFiniteSet(r) /\ (\A z \in r : v[z] \in Int) /\ (\A z \in r : w[z] \in Int)
        BY <1>4, FS_Subset
    <2> HIDE DEF r
    <2> QED
        BY <2>1, SumType
<1>7. v[p] \in Int /\ w[p] \in Int /\ v[p] <= w[p]
    BY <1>2, <1>4
<1> HIDE DEF p, r
<1> QED
    BY <1>1, <1>4, <1>5, <1>6, <1>7

\* Zeros add up to zero.
LEMMA SumZero ==
    ASSUME NEW w, NEW U, IsFiniteSet(U), \A x \in U : w[x] = 0
    PROVE  SumOf(w, U) = 0
<1> DEFINE Bad == {s \in SUBSET U : SumOf(w, s) # 0}
<1> SUFFICES ASSUME Bad # {} PROVE FALSE
    OBVIOUS
<1>1. PICK m \in Bad : \A s \in Bad : s \subseteq m => s = m
    <2>1. Bad \in SUBSET SUBSET U
        OBVIOUS
    <2> HIDE DEF Bad
    <2> QED
        BY <2>1, HasMinimal
<1>2. IsFiniteSet(m) /\ m \in SUBSET U /\ m # {}
    BY FS_Subset, SumEmpty
<1>3. Pick(m) \in m /\ SumOf(w, m \ {Pick(m)}) = 0
    BY <1>1, <1>2, PickIn
<1>4. SumOf(w, m) = w[Pick(m)] + SumOf(w, m \ {Pick(m)})
    BY <1>2, SumStep
<1> QED
    BY <1>2, <1>3, <1>4

\* A set of natural numbers has a least one.
LEMMA HasLeast ==
    ASSUME NEW T \in SUBSET Nat, T # {}
    PROVE  \E x \in T : \A y \in T : x <= y
<1> DEFINE R == {p \in Nat \X Nat : p[1] < p[2]}
<1>1. IsWellFoundedOn(R, Nat)
    BY NatLessThanWellFounded, Zenon DEF OpToRel
<1>2. PICK x \in T : \A y \in T : <<y, x>> \notin R
    <2> HIDE DEF R
    <2> QED
        BY <1>1, WFMin
<1>3. ASSUME NEW y \in T PROVE x <= y
    <2>1. x \in Nat /\ y \in Nat
        OBVIOUS
    <2>2. <<y, x>> \notin R
        BY <1>2
    <2> QED
        BY <2>1, <2>2
<1> QED
    BY <1>3

\* Sums of sums, place by place.
LEMMA SumAdd ==
    ASSUME NEW u, NEW v, NEW w, NEW U, IsFiniteSet(U),
           \A x \in U : v[x] \in Int /\ w[x] \in Int /\ u[x] = v[x] + w[x]
    PROVE  SumOf(u, U) = SumOf(v, U) + SumOf(w, U)
<1> DEFINE Bad == {s \in SUBSET U : SumOf(u, s) # SumOf(v, s) + SumOf(w, s)}
<1> SUFFICES ASSUME Bad # {} PROVE FALSE
    OBVIOUS
<1>1. PICK m \in Bad : \A s \in Bad : s \subseteq m => s = m
    <2>1. Bad \in SUBSET SUBSET U
        OBVIOUS
    <2> HIDE DEF Bad
    <2> QED
        BY <2>1, HasMinimal
<1>2. IsFiniteSet(m) /\ m \in SUBSET U
    BY FS_Subset
<1>3. m # {}
    <2>1. SumOf(u, {}) = 0 /\ SumOf(v, {}) = 0 /\ SumOf(w, {}) = 0
        BY SumEmpty
    <2>2. SumOf(u, {}) = SumOf(v, {}) + SumOf(w, {})
        BY <2>1
    <2> QED
        BY <1>1, <2>2
<1> DEFINE p == Pick(m)
           r == m \ {p}
<1>4. p \in m /\ r \in SUBSET U /\ SumOf(u, r) = SumOf(v, r) + SumOf(w, r)
    BY <1>1, <1>2, <1>3, PickIn
<1>5. /\ SumOf(u, m) = u[p] + SumOf(u, r)
      /\ SumOf(v, m) = v[p] + SumOf(v, r) /\ SumOf(w, m) = w[p] + SumOf(w, r)
    BY <1>2, <1>3, SumStep
<1>6. SumOf(v, r) \in Int /\ SumOf(w, r) \in Int
    <2>1. IsFiniteSet(r) /\ (\A z \in r : v[z] \in Int) /\ (\A z \in r : w[z] \in Int)
        BY <1>4, FS_Subset
    <2> HIDE DEF r
    <2> QED
        BY <2>1, SumType
<1>7. v[p] \in Int /\ w[p] \in Int /\ u[p] = v[p] + w[p]
    BY <1>2, <1>4
<1> HIDE DEF p, r
<1>8. SumOf(u, m) = SumOf(v, m) + SumOf(w, m)
    BY <1>4, <1>5, <1>6, <1>7
<1> QED
    BY <1>1, <1>8

\* Equal numbers have equal sums, whatever else the functions are.
LEMMA SumSame ==
    ASSUME NEW v, NEW w, NEW U, IsFiniteSet(U), \A x \in U : v[x] \in Int /\ v[x] = w[x]
    PROVE  SumOf(v, U) = SumOf(w, U)
<1>1. /\ \A x \in U : v[x] \in Int /\ w[x] \in Int /\ v[x] <= w[x]
      /\ \A x \in U : w[x] \in Int /\ v[x] \in Int /\ w[x] <= v[x]
      /\ \A x \in U : v[x] \in Int
      /\ \A x \in U : w[x] \in Int
    OBVIOUS
<1>2. SumOf(v, U) \in Int /\ SumOf(w, U) \in Int
    BY <1>1, SumType
<1>3. SumOf(v, U) <= SumOf(w, U) /\ SumOf(w, U) <= SumOf(v, U)
    BY <1>1, SumMono
<1> QED
    BY <1>2, <1>3

\* A set is added up in two parts.
LEMMA SumSplit ==
    ASSUME NEW w, NEW U, IsFiniteSet(U), \A x \in U : w[x] \in Int, NEW A \in SUBSET U
    PROVE  SumOf(w, U) = SumOf(w, A) + SumOf(w, U \ A)
<1> DEFINE Bad == {s \in SUBSET U : SumOf(w, U) # SumOf(w, s) + SumOf(w, U \ s)}
<1> SUFFICES ASSUME Bad # {} PROVE FALSE
    OBVIOUS
<1>1. PICK m \in Bad : \A s \in Bad : s \subseteq m => s = m
    <2>1. Bad \in SUBSET SUBSET U
        OBVIOUS
    <2> HIDE DEF Bad
    <2> QED
        BY <2>1, HasMinimal
<1>2. IsFiniteSet(m) /\ m \in SUBSET U
    BY FS_Subset
<1>3. m # {}
    <2>1. SumOf(w, U) \in Int /\ U \ {} = U
        BY SumType
    <2>2. SumOf(w, {}) = 0
        BY SumEmpty
    <2>3. SumOf(w, U) = SumOf(w, {}) + SumOf(w, U \ {})
        BY <2>1, <2>2
    <2> QED
        BY <1>1, <2>3
<1> DEFINE p == Pick(m)
           r == m \ {p}
           t == U \ m
<1>4. p \in m /\ r \in SUBSET U /\ r \notin Bad
    BY <1>1, <1>2, <1>3, PickIn
<1>5. U \ r = t \cup {p} /\ (t \cup {p}) \ {p} = t /\ t \cup {p} \in SUBSET U /\ p \in t \cup {p}
    BY <1>2, <1>4
<1>6. SumOf(w, U) = SumOf(w, r) + SumOf(w, t \cup {p})
    BY <1>4, <1>5
<1>7. SumOf(w, m) = w[p] + SumOf(w, r)
    BY <1>2, <1>3, SumStep
<1>8. SumOf(w, t \cup {p}) = w[p] + SumOf(w, t)
    <2> DEFINE q == t \cup {p}
    <2>1. IsFiniteSet(q) /\ (\A x \in q : w[x] \in Int) /\ p \in q /\ q \ {p} = t
        BY <1>5, FS_Subset
    <2> HIDE DEF q, p, t
    <2>2. SumOf(w, q) = w[p] + SumOf(w, q \ {p})
        BY <2>1, SumTake
    <2> QED
        BY <2>1, <2>2 DEF q
<1>9. w[p] \in Int /\ SumOf(w, r) \in Int /\ SumOf(w, t) \in Int
    <2>1. /\ IsFiniteSet(r) /\ (\A x \in r : w[x] \in Int)
          /\ IsFiniteSet(t) /\ (\A x \in t : w[x] \in Int)
        BY <1>4, FS_Subset
    <2>2. w[p] \in Int
        BY <1>2, <1>4
    <2> HIDE DEF r, t, p
    <2> QED
        BY <2>1, <2>2, SumType
<1> HIDE DEF p, r, t
<1>10. SumOf(w, U) = SumOf(w, m) + SumOf(w, t)
    BY <1>6, <1>7, <1>8, <1>9
<1> QED
    BY <1>1, <1>10 DEF t

\* A table is added up by rows or by columns.
LEMMA SumSwap ==
    ASSUME NEW a, NEW R, NEW C, IsFiniteSet(R), IsFiniteSet(C),
           \A x \in R, y \in C : a[x][y] \in Int
    PROVE  SumOf([y \in C |-> SumOf([x \in R |-> a[x][y]], R)], C)
              = SumOf([x \in R |-> SumOf(a[x], C)], R)
<1> DEFINE col(y) == [x \in R |-> a[x][y]]
           cols == [y \in C |-> SumOf(col(y), R)]
           row(s) == [x \in R |-> SumOf(a[x], s)]
           Bad == {s \in SUBSET C : SumOf(cols, s) # SumOf(row(s), R)}
<1> SUFFICES ASSUME Bad # {} PROVE FALSE
    OBVIOUS
<1>1. PICK m \in Bad : \A s \in Bad : s \subseteq m => s = m
    <2>1. Bad \in SUBSET SUBSET C
        OBVIOUS
    <2> HIDE DEF Bad
    <2> QED
        BY <2>1, HasMinimal
<1>2. IsFiniteSet(m) /\ m \in SUBSET C
    BY FS_Subset
<1>3. m # {}
    <2>1. \A x \in R : row({})[x] = 0
        BY SumEmpty
    <2> HIDE DEF row, cols
    <2>2. SumOf(row({}), R) = 0 /\ SumOf(cols, {}) = 0
        BY <2>1, SumZero, SumEmpty
    <2> QED
        BY <1>1, <2>2
<1> DEFINE p == Pick(m)
           r == m \ {p}
<1>4. p \in m /\ r \in SUBSET C /\ SumOf(cols, r) = SumOf(row(r), R)
    BY <1>1, <1>2, <1>3, PickIn
<1>5. SumOf(cols, m) = cols[p] + SumOf(cols, r)
    <2> HIDE DEF cols
    <2> QED
        BY <1>2, <1>3, SumStep
<1>6. cols[p] = SumOf(col(p), R)
    BY <1>2, <1>4
<1>7. \A x \in R : col(p)[x] \in Int /\ row(r)[x] \in Int /\ row(m)[x] = col(p)[x] + row(r)[x]
    <2> SUFFICES ASSUME NEW x \in R
                 PROVE  /\ a[x][p] \in Int /\ SumOf(a[x], r) \in Int
                        /\ SumOf(a[x], m) = a[x][p] + SumOf(a[x], r)
        OBVIOUS
    <2>1. IsFiniteSet(r) /\ \A y \in r : a[x][y] \in Int
        BY <1>4, FS_Subset
    <2>2. a[x][p] \in Int
        BY <1>2, <1>4
    <2>3. SumOf(a[x], m) = a[x][p] + SumOf(a[x], r)
        BY <1>2, <1>3, SumStep
    <2>4. SumOf(a[x], r) \in Int
        <3> DEFINE w == a[x]
        <3>1. \A y \in r : w[y] \in Int
            BY <2>1
        <3> HIDE DEF w, r
        <3>2. SumOf(w, r) \in Int
            BY <2>1, <3>1, SumType
        <3> QED
            BY <3>2 DEF w
    <2> QED
        BY <2>2, <2>3, <2>4
<1> DEFINE u == row(m)
           v == col(p)
           w == row(r)
<1>8. \A x \in R : v[x] \in Int /\ w[x] \in Int /\ u[x] = v[x] + w[x]
    BY <1>7
<1>9. SumOf(u, R) = SumOf(v, R) + SumOf(w, R)
    <2> HIDE DEF u, v, w
    <2> QED
        BY <1>8, SumAdd
<1>10. SumOf(cols, m) = SumOf(row(m), R)
    BY <1>4, <1>5, <1>6, <1>9, Zenon
<1> QED
    BY <1>1, <1>10

-----------------------------------------------------------------------------
(* Totals of functions to the natural numbers *)

\* The total of a function is the sum over its domain.
LEMMA TotalIs == ASSUME NEW c PROVE Total(c) = SumOf(c, DOMAIN c)
    BY SumIs, Zenon DEF Total

\* The total of natural numbers is one.
LEMMA TotalNat ==
    ASSUME NEW D, IsFiniteSet(D), NEW c \in [D -> Nat]
    PROVE  Total(c) \in Nat /\ Total(c) = SumOf(c, D)
<1>1. DOMAIN c = D /\ \A x \in D : c[x] \in Nat
    OBVIOUS
<1>2. SumOf(c, D) \in Nat
    BY <1>1, SumType
<1>3. Total(c) = SumOf(c, D)
    BY <1>1, TotalIs, Zenon
<1> QED
    BY <1>2, <1>3

\* Totals of smaller counts are smaller.
LEMMA TotalMono ==
    ASSUME NEW D, IsFiniteSet(D), NEW c \in [D -> Nat], NEW d \in [D -> Nat],
           \A x \in D : c[x] <= d[x]
    PROVE  Total(c) <= Total(d)
<1>1. \A x \in D : c[x] \in Int /\ d[x] \in Int /\ c[x] <= d[x]
    OBVIOUS
<1>2. SumOf(c, D) <= SumOf(d, D)
    BY <1>1, SumMono
<1> QED
    BY <1>2, TotalNat

\* Totals are added place by place.
LEMMA TotalAdd ==
    ASSUME NEW D, IsFiniteSet(D), NEW e \in [D -> Nat], NEW c \in [D -> Nat], NEW d \in [D -> Nat],
           \A x \in D : e[x] = c[x] + d[x]
    PROVE  Total(e) = Total(c) + Total(d)
<1>1. \A x \in D : c[x] \in Int /\ d[x] \in Int /\ e[x] = c[x] + d[x]
    OBVIOUS
<1>2. SumOf(e, D) = SumOf(c, D) + SumOf(d, D)
    BY <1>1, SumAdd
<1>3. Total(e) = SumOf(e, D) /\ Total(c) = SumOf(c, D) /\ Total(d) = SumOf(d, D)
    BY TotalNat
<1> QED
    BY <1>2, <1>3

\* One more of a kind is one more in all.
LEMMA TotalMore ==
    ASSUME NEW D, IsFiniteSet(D), NEW c \in [D -> Nat], NEW x \in D
    PROVE  /\ [c EXCEPT ![x] = @ + 1] \in [D -> Nat]
           /\ Total([c EXCEPT ![x] = @ + 1]) = Total(c) + 1
<1> DEFINE e == [c EXCEPT ![x] = @ + 1]
           r == D \ {x}
<1>1. e \in [D -> Nat] /\ e[x] = c[x] + 1 /\ \A y \in r : e[y] = c[y]
    OBVIOUS
<1> HIDE DEF e
<1>2. (\A y \in D : e[y] \in Int) /\ (\A y \in D : c[y] \in Int)
    BY <1>1
<1>3. SumOf(e, D) = e[x] + SumOf(e, r) /\ SumOf(c, D) = c[x] + SumOf(c, r)
    BY <1>2, SumTake
<1>4. IsFiniteSet(r) /\ (\A y \in r : e[y] \in Int /\ e[y] = c[y]) /\ (\A y \in r : c[y] \in Int)
    BY <1>1, <1>2, FS_Subset
<1> HIDE DEF r
<1>5. SumOf(e, r) = SumOf(c, r) /\ SumOf(c, r) \in Int
    BY <1>4, SumSame, SumType
<1>6. Total(e) = SumOf(e, D) /\ Total(c) = SumOf(c, D) /\ c[x] \in Nat
    BY <1>1, TotalNat
<1>7. Total(e) = Total(c) + 1
    BY <1>1, <1>3, <1>5, <1>6
<1> QED
    BY <1>1, <1>7 DEF e

\* A total in two parts.
LEMMA TotalSplit ==
    ASSUME NEW D, IsFiniteSet(D), NEW c \in [D -> Nat], NEW A \in SUBSET D
    PROVE  /\ Total(c) = Total([x \in A |-> c[x]]) + Total([x \in D \ A |-> c[x]])
           /\ Total([x \in A |-> c[x]]) \in Nat /\ Total([x \in D \ A |-> c[x]]) \in Nat
<1> DEFINE B == D \ A
           u == [x \in A |-> c[x]]
           v == [x \in B |-> c[x]]
<1>1. IsFiniteSet(A) /\ IsFiniteSet(B) /\ u \in [A -> Nat] /\ v \in [B -> Nat]
    BY FS_Subset
<1>2. (\A x \in A : u[x] \in Int /\ u[x] = c[x]) /\ (\A x \in B : v[x] \in Int /\ v[x] = c[x])
    OBVIOUS
<1>3. \A x \in D : c[x] \in Int
    OBVIOUS
<1>4. SumOf(c, D) = SumOf(c, A) + SumOf(c, B)
    BY <1>3, SumSplit
<1> HIDE DEF B, u, v
<1>5. SumOf(u, A) = SumOf(c, A) /\ SumOf(v, B) = SumOf(c, B)
    BY <1>1, <1>2, SumSame
<1>6. Total(u) = SumOf(u, A) /\ Total(u) \in Nat /\ Total(v) = SumOf(v, B) /\ Total(v) \in Nat
    BY <1>1, TotalNat
<1>7. Total(c) = SumOf(c, D)
    BY TotalNat
<1>8. Total(c) = Total(u) + Total(v) /\ Total(u) \in Nat /\ Total(v) \in Nat
    BY <1>4, <1>5, <1>6, <1>7
<1> QED
    BY <1>8 DEF u, v, B

\* The total of a table by rows and by columns.
LEMMA TotalSwap ==
    ASSUME NEW R, NEW C, IsFiniteSet(R), IsFiniteSet(C), NEW a \in [R -> [C -> Nat]]
    PROVE  Total([y \in C |-> Total([x \in R |-> a[x][y]])]) = Total([x \in R |-> Total(a[x])])
<1>1. \A x \in R, y \in C : a[x][y] \in Int
    OBVIOUS
<1>2. ASSUME NEW y \in C
      PROVE  /\ Total([x \in R |-> a[x][y]]) = SumOf([x \in R |-> a[x][y]], R)
             /\ Total([x \in R |-> a[x][y]]) \in Nat
    <2>1. [x \in R |-> a[x][y]] \in [R -> Nat]
        OBVIOUS
    <2> QED
        BY <2>1, TotalNat
<1>3. ASSUME NEW x \in R PROVE Total(a[x]) = SumOf(a[x], C) /\ Total(a[x]) \in Nat
    <2>1. a[x] \in [C -> Nat]
        OBVIOUS
    <2> QED
        BY <2>1, TotalNat
<1> DEFINE cols == [y \in C |-> Total([x \in R |-> a[x][y]])]
           rows == [x \in R |-> Total(a[x])]
<1>4. cols = [y \in C |-> SumOf([x \in R |-> a[x][y]], R)] /\ cols \in [C -> Nat]
    BY <1>2
<1>5. rows = [x \in R |-> SumOf(a[x], C)] /\ rows \in [R -> Nat]
    BY <1>3
<1>6. SumOf([y \in C |-> SumOf([x \in R |-> a[x][y]], R)], C) = SumOf([x \in R |-> SumOf(a[x], C)], R)
    BY <1>1, SumSwap
<1> HIDE DEF cols, rows
<1>7. Total(cols) = SumOf(cols, C) /\ Total(rows) = SumOf(rows, R)
    BY <1>4, <1>5, TotalNat
<1>8. Total(cols) = Total(rows)
    BY <1>4, <1>5, <1>6, <1>7, Zenon
<1> QED
    BY <1>8 DEF cols, rows

-----------------------------------------------------------------------------
(* Extremes and top lists *)

\* The smaller of two numbers.
LEMMA MinFact == \A x, y \in Int : Min({x, y}) = IF x <= y THEN x ELSE y
<1> SUFFICES ASSUME NEW x \in Int, NEW y \in Int PROVE Min({x, y}) = IF x <= y THEN x ELSE y
    OBVIOUS
<1> DEFINE z == IF x <= y THEN x ELSE y
<1>1. z \in {x, y} /\ \A a \in {x, y} : z <= a
    OBVIOUS
<1>2. \A b \in {x, y} : (\A a \in {x, y} : b <= a) => b = z
    OBVIOUS
<1> HIDE DEF z
<1>3. Min({x, y}) = z
    BY <1>1, <1>2 DEF Min
<1> QED
    BY <1>3 DEF z

\* The larger of two numbers.
LEMMA MaxFact == \A x, y \in Int : Max({x, y}) = IF x >= y THEN x ELSE y
<1> SUFFICES ASSUME NEW x \in Int, NEW y \in Int PROVE Max({x, y}) = IF x >= y THEN x ELSE y
    OBVIOUS
<1> DEFINE z == IF x >= y THEN x ELSE y
<1>1. z \in {x, y} /\ \A a \in {x, y} : z >= a
    OBVIOUS
<1>2. \A b \in {x, y} : (\A a \in {x, y} : b >= a) => b = z
    OBVIOUS
<1> HIDE DEF z
<1>3. Max({x, y}) = z
    BY <1>1, <1>2 DEF Max
<1> QED
    BY <1>3 DEF z

\* The smallest count of a list is one of its counts.
LEMMA SmallestFact ==
    ASSUME NEW D, D # {}, NEW c \in [D -> Nat]
    PROVE  /\ Smallest(c) \in Nat /\ \A x \in D : Smallest(c) <= c[x]
           /\ \E x \in D : Smallest(c) = c[x]
<1> DEFINE T == {c[x] : x \in D}
<1>1. T \in SUBSET Nat /\ T # {} /\ DOMAIN c = D
    OBVIOUS
<1>2. PICK m \in T : \A y \in T : m <= y
    <2> HIDE DEF T
    <2> QED
        BY <1>1, HasLeast
<1>3. Min(T) \in T /\ \A y \in T : Min(T) <= y
    <2> HIDE DEF T
    <2> QED
        BY <1>2 DEF Min
<1>4. Smallest(c) = Min(T)
    BY <1>1 DEF Smallest
<1> HIDE DEF T
<1>5. Smallest(c) \in T /\ \A y \in T : Smallest(c) <= y
    BY <1>3, <1>4
<1> QED
    BY <1>1, <1>5 DEF T

\* A top list shows some counts as they are, no more than n, none smaller than
\* what it leaves out, and leaves out nothing if it has room.
LEMMA TopsFact ==
    ASSUME NEW D, IsFiniteSet(D), NEW c \in [D -> Nat], NEW n \in Nat, NEW top \in Tops(c, n)
    PROVE  /\ DOMAIN top \in SUBSET D /\ top \in [DOMAIN top -> Nat]
           /\ \A s \in DOMAIN top : top[s] = c[s]
           /\ IsFiniteSet(DOMAIN top) /\ Cardinality(DOMAIN top) \in Nat
           /\ Cardinality(DOMAIN top) <= n
           /\ Cardinality(DOMAIN top) < n => DOMAIN top = D
           /\ \A x \in DOMAIN top, y \in D \ DOMAIN top : c[x] >= c[y]
<1>1. DOMAIN c = D
    OBVIOUS
<1>2. PICK S \in SUBSET D : /\ Cardinality(S) = Min({n, Cardinality(D)})
                            /\ \A x \in S, y \in D \ S : c[x] >= c[y]
                            /\ top = [s \in S |-> c[s]]
    BY <1>1 DEF Tops
<1>3. DOMAIN top = S /\ top \in [S -> Nat] /\ \A s \in S : top[s] = c[s]
    BY <1>2
<1>4. /\ IsFiniteSet(S) /\ Cardinality(S) \in Nat /\ Cardinality(D) \in Nat
      /\ Cardinality(S) = Cardinality(D) => S = D
    BY FS_Subset, FS_CardinalityType
<1>5. Cardinality(S) = IF n <= Cardinality(D) THEN n ELSE Cardinality(D)
    BY <1>2, <1>4, MinFact
<1>6. Cardinality(S) <= n /\ (Cardinality(S) < n => S = D)
    BY <1>4, <1>5
<1> QED
    BY <1>2, <1>3, <1>4, <1>6

-----------------------------------------------------------------------------
(* The invariant *)

\* Lists of counts of some members of D.
Counts(D) == UNION {[d -> Nat] : d \in SUBSET D}

Parts == [total : Nat, sev : Counts(Severities), detections : Nat, blocked : Nat,
          top : Counts(Signatures), logins : Nat, outside : Nat,
          tunnels : SUBSET Tunnels, up : SUBSET Tunnels]
Results == UNION {[d -> Parts] : d \in SUBSET Targets}
Snaps == [at : Nat, alerts : Nat, sev : [Severities -> Nat], detections : Nat, blocked : Nat,
          top : Counts(Signatures), outside : Nat, tunnels : Nat, down : Nat]

Asking == {"total", "sev", "types", "threats", "logins", "hours", "vpn"}
Later == {"types", "threats", "logins", "hours", "vpn", "answered"}
Pairs == Targets \X Tunnels
Polls == [pc : Asking \cup {"idle", "next", "answered", "publish", "store", "rollup"},
          n : Nat, todo : SUBSET Targets, part : Parts, shifted : BOOLEAN, res : Results,
          snap : Snaps, noise : SUBSET {"event", "answer", "range"}, f : SUBSET Targets,
          stay : [up : SUBSET Pairs, down : SUBSET Pairs]]

\* Possible logs, answers and snapshots.
GoodLogs(l) == l \in Logs /\ l.blocked <= Total(l.hits)
GoodPart(p) == p \in Parts /\ p.blocked <= p.detections /\ p.up \subseteq p.tunnels
Whole(p) == DOMAIN p.sev = Severities
GoodSnap(s) == /\ s \in Snaps /\ s.blocked <= s.detections /\ s.down <= s.tunnels
               /\ Cardinality(DOMAIN s.top) <= TopN

TypeInv ==
    /\ faz \in [Targets -> Logs] /\ \A f \in Targets : GoodLogs(faz[f])
    /\ enabled \in SUBSET Targets
    /\ now \in Day .. 2 * Day - 1
    /\ poll \in Polls
    /\ \A f, g \in poll.f : f = g
    /\ GoodPart(poll.part)
    /\ poll.pc \in Later => Whole(poll.part)
    /\ \A f \in Answering : GoodPart(poll.res[f]) /\ Whole(poll.res[f])
    /\ GoodSnap(poll.snap)

CopyInv ==
    /\ GoodSnap(cache) /\ GoodSnap(store) /\ GoodSnap(history) /\ GoodSnap(web)
    /\ GoodSnap(answer.snap) /\ answer = [due |-> answer.due, snap |-> answer.snap]

\* What one look at the target f shows.
SeenHits(f) == [s \in {s \in Signatures : faz[f].hits[s] > 0} |-> faz[f].hits[s]]
Late(f) == Cardinality(Window(f) \ BusinessRange)
SeenTunnels(f) == {k \in Tunnels : faz[f].sess[k] # {}}

\* The answers of f so far are what one look at it shows.
Known(f, p, pc) ==
    /\ pc # "total" => p.total = Total(faz[f].alerts)
    /\ \A s \in DOMAIN p.sev : p.sev[s] = faz[f].alerts[s]
    /\ pc \notin {"total", "sev", "types"} => p.detections = Total(faz[f].hits)
    /\ pc \in {"logins", "hours", "vpn", "answered"} => p.top \in Tops(SeenHits(f), TopN)
    /\ pc \in {"hours", "vpn", "answered"} => p.logins = Cardinality(Window(f))
    /\ pc \in {"vpn", "answered"} => p.outside = Late(f)
    /\ pc = "answered" => p.tunnels = SeenTunnels(f)

\* Without an event and an odd answer the poll knows the targets as they are.
ExactInv ==
    poll.noise = {} =>
        /\ poll.pc \in Asking \cup {"answered"} => \A f \in poll.f : Known(f, poll.part, poll.pc)
        /\ \A f \in Answering : Known(f, poll.res[f], "answered")

\* What p says of the tunnels that did not change since the poll began.
Brackets(f, p) ==
    \A k \in Tunnels : /\ <<f, k>> \in poll.stay.up => k \in p.up
                       /\ <<f, k>> \in poll.stay.down => k \in p.tunnels \ p.up

\* Only a range the appliance misunderstood hides sessions.
StayInv ==
    /\ \A f \in Targets, k \in Tunnels : <<f, k>> \in poll.stay.up => UpOn(f, k)
    /\ \A f \in Targets, k \in Tunnels : <<f, k>> \in poll.stay.down => DownOn(f, k)
    /\ poll.shifted => "range" \in poll.noise
    /\ "range" \notin poll.noise =>
          /\ poll.pc = "answered" => \A f \in poll.f : Brackets(f, poll.part)
          /\ \A f \in Answering : Brackets(f, poll.res[f])

\* The snapshot about to be published is the merged one.
SnapInv ==
    poll.pc = "publish" =>
        /\ Answering # {}
        /\ poll.snap.alerts = Total([f \in Answering |-> poll.res[f].total])
        /\ poll.snap.sev = [s \in Severities |-> Total([f \in Answering |-> poll.res[f].sev[s]])]
        /\ poll.snap.detections = Total([f \in Answering |-> poll.res[f].detections])
        /\ poll.snap.top \in MergeTopLists(poll.res)
        /\ poll.snap.outside = Total([f \in Answering |-> poll.res[f].outside])
        /\ poll.snap.tunnels = Cardinality(UNION {poll.res[f].tunnels : f \in Answering})
        /\ poll.snap.down = Cardinality(TunnelsDown(poll.res))

Inv == TypeInv /\ CopyInv /\ ExactInv /\ StayInv /\ SnapInv

-----------------------------------------------------------------------------
(* Types *)

\* A list of counts is a function on some members of D.
LEMMA CountsIs ==
    ASSUME NEW D
    PROVE  \A c : c \in Counts(D) <=> DOMAIN c \in SUBSET D /\ c \in [DOMAIN c -> Nat]
    BY DEF Counts

\* The results are a function on some targets.
LEMMA ResultsIs == \A r : r \in Results <=> DOMAIN r \in SUBSET Targets /\ r \in [DOMAIN r -> Parts]
    BY DEF Results

\* What the assumptions say of the constants.
LEMMA Finite ==
    /\ IsFiniteSet(Targets) /\ IsFiniteSet(Severities)
    /\ IsFiniteSet(Signatures) /\ IsFiniteSet(Tunnels)
    /\ TopN \in Nat /\ TopN # 0 /\ Day \in Nat /\ Day # 0
    BY ThreatAssumption

\* The empty list, and the results before any target has answered.
LEMMA NothingFact ==
    /\ DOMAIN Nothing = {} /\ (\A D : Nothing \in Counts(D)) /\ Nothing \in Results
    /\ \A r : DOMAIN r = {} /\ r \in Results => r = Nothing
<1>1. DOMAIN Nothing = {}
    BY DEF Nothing
<1>2. ASSUME NEW D PROVE Nothing \in Counts(D)
    BY CountsIs DEF Nothing
<1>3. Nothing \in Results
    BY ResultsIs DEF Nothing
<1>4. ASSUME NEW r, DOMAIN r = {}, r \in Results PROVE r = Nothing
    <2>1. r \in [{} -> Parts]
        BY <1>4, ResultsIs
    <2>2. Nothing \in [{} -> Parts]
        BY DEF Nothing
    <2> QED
        BY <2>1, <2>2
<1> QED
    BY <1>1, <1>2, <1>3, <1>4

\* The answers of a target before its first answer.
LEMMA NoPartFact ==
    /\ GoodPart(NoPart) /\ DOMAIN NoPart.sev = {}
<1>1. Nothing \in Counts(Severities) /\ Nothing \in Counts(Signatures) /\ DOMAIN Nothing = {}
    BY NothingFact
<1> QED
    BY <1>1 DEF NoPart, GoodPart, Parts

\* The snapshot of a cache never filled.
LEMMA NoSnapFact == GoodSnap(NoSnap)
<1>1. Nothing \in Counts(Signatures) /\ Cardinality(DOMAIN Nothing) = 0 /\ 0 <= TopN
    BY NothingFact, FS_EmptySet, Finite
<1>2. NoSnap \in Snaps
    BY <1>1 DEF NoSnap, Snaps
<1> QED
    BY <1>1, <1>2 DEF NoSnap, GoodSnap

\* No poll under way.
LEMMA IdlePollFact ==
    /\ IdlePoll \in Polls /\ IdlePoll.f = {} /\ IdlePoll.part = NoPart /\ IdlePoll.res = Nothing
    /\ IdlePoll.snap = NoSnap /\ IdlePoll.noise = {} /\ IdlePoll.shifted = FALSE
    /\ IdlePoll.stay.up = {} /\ IdlePoll.stay.down = {} /\ IdlePoll.pc = "idle"
<1>1. NoPart \in Parts /\ NoSnap \in Snaps /\ Nothing \in Results
    BY NoPartFact, NoSnapFact, NothingFact DEF GoodPart, GoodSnap
<1> QED
    BY <1>1 DEF IdlePoll, Polls

-----------------------------------------------------------------------------
(* The steps, field by field *)

Noises == {"event", "answer", "range"}
Pcs == Asking \cup {"idle", "next", "answered", "publish", "store", "rollup"}

\* What a poll has found and is about to publish.
Kept == /\ poll'.res = poll.res /\ poll'.snap = poll.snap /\ poll'.n = poll.n
        /\ poll'.stay = poll.stay

\* The fields of a poll and their values.
LEMMA PollFields ==
    /\ \A p \in Polls :
          /\ p.pc \in Pcs /\ p.n \in Nat /\ p.todo \in SUBSET Targets /\ p.part \in Parts
          /\ p.shifted \in BOOLEAN /\ p.res \in Results /\ p.snap \in Snaps
          /\ p.noise \in SUBSET Noises /\ p.f \in SUBSET Targets
          /\ p.stay.up \in SUBSET Pairs /\ p.stay.down \in SUBSET Pairs
    BY DEF Polls, Noises, Pcs

\* An answer changes the place, the part and the noise.
LEMMA AnsweredFact ==
    ASSUME poll \in Polls, NEW call, NEW next \in Asking \cup {"answered"}, NEW part \in Parts,
           NEW noise \in SUBSET Noises, Answered(call, next, part, noise)
    PROVE  /\ poll' \in Polls /\ Kept /\ poll'.f = poll.f /\ poll'.shifted = poll.shifted
           /\ poll.pc = call /\ poll'.pc = next /\ poll'.part = part
           /\ poll'.noise = poll.noise \cup noise
           /\ UNCHANGED <<faz, now, enabled, cache, store, history, web, answer>>
<1>1. poll' = [poll EXCEPT !.pc = next, !.part = part, !.noise = poll.noise \cup noise]
    BY DEF Answered
<1>2. poll.noise \cup noise \in SUBSET Noises
    BY DEF Polls, Noises
<1>3. poll' \in Polls /\ poll'.pc = next /\ poll'.part = part /\ poll'.noise = poll.noise \cup noise
    BY <1>1, <1>2 DEF Polls, Noises
<1>4. Kept /\ poll'.f = poll.f /\ poll'.shifted = poll.shifted
    BY <1>1 DEF Polls, Kept
<1> QED
    BY <1>3, <1>4 DEF Answered, fleet

\* Both numbers of the ips row are taken from the same rows.
LEMMA TopTypeFact ==
    ASSUME poll \in Polls, GoodPart(poll.part), NEW f, NEW shifted \in BOOLEAN, RunTopType(f, shifted),
           GoodLogs(faz[f])
    PROVE  /\ poll' \in Polls /\ Kept /\ poll'.f = poll.f /\ poll'.shifted = shifted
           /\ poll.pc = "types" /\ poll'.pc = "threats" /\ GoodPart(poll'.part)
           /\ poll'.part.total = poll.part.total /\ poll'.part.sev = poll.part.sev
           /\ ~shifted => poll'.part.detections = Total(faz[f].hits)
           /\ poll'.noise = poll.noise \cup Odd(~shifted, "range")
           /\ UNCHANGED <<faz, now, enabled, cache, store, history, web, answer>>
<1> DEFINE r == IF shifted THEN NoLogs ELSE faz[f]
           d == Total(r.hits)
           part == [poll.part EXCEPT !.detections = d, !.blocked = r.blocked]
           noise == poll.noise \cup Odd(~shifted, "range")
<1>1. r.blocked \in Nat /\ d \in Nat /\ r.blocked <= d
    <2>1. CASE shifted
        <3> DEFINE z == [s \in Signatures |-> 0]
        <3>1. r.blocked = 0 /\ r.hits = z /\ z \in [Signatures -> Nat]
            BY <2>1 DEF NoLogs
        <3>2. Total(z) \in Nat
            <4> HIDE DEF z
            <4> QED
                BY <3>1, TotalNat, Finite
        <3> QED
            BY <3>1, <3>2
    <2>2. CASE ~shifted
        <3>1. faz[f].hits \in [Signatures -> Nat] /\ faz[f].blocked \in Nat
              /\ faz[f].blocked <= Total(faz[f].hits)
            BY DEF GoodLogs, Logs
        <3>2. Total(faz[f].hits) \in Nat
            BY <3>1, TotalNat, Finite
        <3> QED
            BY <2>2, <3>1, <3>2
    <2> QED
        BY <2>1, <2>2
<1>2. /\ poll.pc = "types"
      /\ poll' = [poll EXCEPT !.pc = "threats", !.shifted = shifted, !.noise = noise,
                     !.part.detections = d, !.part.blocked = r.blocked]
      /\ UNCHANGED <<faz, now, enabled, cache, store, history, web, answer>>
    BY DEF RunTopType, fleet
<1>3. noise \in SUBSET Noises
    BY DEF Polls, Noises, Odd
<1>4. ~shifted => d = Total(faz[f].hits)
    OBVIOUS
<1> HIDE DEF r, d, noise
<1>5. /\ part \in Parts /\ GoodPart(part)
      /\ part.total = poll.part.total /\ part.sev = poll.part.sev /\ part.detections = d
    BY <1>1 DEF GoodPart, Parts
<1>6. poll' = [poll EXCEPT !.pc = "threats", !.shifted = shifted, !.noise = noise, !.part = part]
    BY <1>2 DEF Polls, Parts
<1> HIDE DEF part
<1>7. /\ poll' \in Polls /\ poll'.pc = "threats" /\ poll'.part = part /\ poll'.noise = noise
      /\ poll'.shifted = shifted
    BY <1>3, <1>5, <1>6 DEF Polls, Noises, Asking
<1>8. Kept /\ poll'.f = poll.f
    BY <1>6 DEF Polls, Kept
<1> QED
    BY <1>2, <1>4, <1>5, <1>7, <1>8 DEF noise

\* _poll_one_target starts from nothing.
LEMMA BeginFact ==
    ASSUME poll \in Polls, NEW f \in Targets, BeginTarget(f)
    PROVE  /\ poll' \in Polls /\ Kept /\ poll'.f = {f} /\ poll'.shifted = FALSE
           /\ poll.pc = "next" /\ poll'.pc = "total" /\ poll'.part = NoPart
           /\ poll'.noise = poll.noise
           /\ UNCHANGED <<faz, now, enabled, cache, store, history, web, answer>>
<1>1. poll' = [poll EXCEPT !.pc = "total", !.f = {f}, !.part = NoPart, !.shifted = FALSE,
                           !.todo = poll.todo \ {f}]
    BY DEF BeginTarget
<1>2. NoPart \in Parts
    BY NoPartFact DEF GoodPart
<1>3. /\ poll' \in Polls /\ poll'.f = {f} /\ poll'.shifted = FALSE /\ poll'.pc = "total"
      /\ poll'.part = NoPart /\ poll'.noise = poll.noise
    BY <1>1, <1>2 DEF Polls, Asking
<1>4. Kept
    BY <1>1 DEF Polls, Kept
<1> QED
    BY <1>3, <1>4 DEF BeginTarget, fleet

\* A failing target leaves nothing behind.
LEMMA FailFact ==
    ASSUME poll \in Polls, TargetFails
    PROVE  /\ poll' \in Polls /\ Kept /\ poll'.f = {} /\ poll'.shifted = FALSE
           /\ poll'.pc = "next" /\ poll'.part = NoPart /\ poll'.noise = poll.noise
           /\ UNCHANGED <<faz, now, enabled, cache, store, history, web, answer>>
<1>1. poll' = [poll EXCEPT !.pc = "next", !.f = {}, !.part = NoPart, !.shifted = FALSE]
    BY DEF TargetFails
<1>2. NoPart \in Parts
    BY NoPartFact DEF GoodPart
<1>3. /\ poll' \in Polls /\ poll'.f = {} /\ poll'.shifted = FALSE /\ poll'.pc = "next"
      /\ poll'.part = NoPart /\ poll'.noise = poll.noise
    BY <1>1, <1>2 DEF Polls
<1>4. Kept
    BY <1>1 DEF Polls, Kept
<1> QED
    BY <1>3, <1>4 DEF TargetFails, fleet

\* results.append adds the answers of the target under way.
LEMMA DoneFact ==
    ASSUME poll \in Polls, TargetDone
    PROVE  /\ poll' \in Polls /\ poll'.f = {} /\ poll'.shifted = poll.shifted
           /\ poll.pc = "answered" /\ poll'.pc = "next" /\ poll'.part = NoPart
           /\ poll'.noise = poll.noise /\ poll'.snap = poll.snap /\ poll'.stay = poll.stay
           /\ DOMAIN poll'.res = Answering \cup poll.f
           /\ \A f \in DOMAIN poll'.res :
                 poll'.res[f] = IF f \in poll.f THEN poll.part ELSE poll.res[f]
           /\ UNCHANGED <<faz, now, enabled, cache, store, history, web, answer>>
<1> DEFINE res == [x \in DOMAIN poll.res \cup poll.f |-> IF x \in poll.f THEN poll.part ELSE poll.res[x]]
<1>1. poll' = [poll EXCEPT !.pc = "next", !.f = {}, !.part = NoPart, !.res = res]
    BY DEF TargetDone
<1>2. NoPart \in Parts
    BY NoPartFact DEF GoodPart
<1>3. /\ poll.f \in SUBSET Targets /\ poll.part \in Parts
      /\ DOMAIN poll.res \in SUBSET Targets /\ \A x \in DOMAIN poll.res : poll.res[x] \in Parts
    BY ResultsIs DEF Polls
<1>4. /\ DOMAIN res = Answering \cup poll.f /\ DOMAIN res \in SUBSET Targets
      /\ \A x \in DOMAIN res : res[x] = IF x \in poll.f THEN poll.part ELSE poll.res[x]
      /\ res \in [DOMAIN res -> Parts]
    BY <1>3 DEF Answering
<1>5. res \in Results
    BY <1>4, ResultsIs
<1> HIDE DEF res
<1>6. /\ poll' \in Polls /\ poll'.f = {} /\ poll'.shifted = poll.shifted /\ poll'.pc = "next"
      /\ poll'.part = NoPart /\ poll'.noise = poll.noise /\ poll'.res = res
      /\ poll'.snap = poll.snap /\ poll'.stay = poll.stay
    BY <1>1, <1>2, <1>5 DEF Polls
<1> QED
    BY <1>4, <1>6 DEF TargetDone, fleet

\* The poll ends: it forgets everything but its number.
Reset(p) == poll' = [IdlePoll EXCEPT !.n = p.n]

\* What a poll that ended is left with.
LEMMA ResetFact ==
    ASSUME poll \in Polls, Reset(poll)
    PROVE  /\ poll' \in Polls /\ poll'.f = {} /\ poll'.shifted = FALSE /\ poll'.pc = "idle"
           /\ poll'.part = NoPart /\ poll'.noise = {} /\ poll'.res = Nothing
           /\ poll'.snap = NoSnap /\ poll'.stay.up = {} /\ poll'.stay.down = {}
<1>1. poll.n \in Nat
    BY DEF Polls
<1>2. poll' = [IdlePoll EXCEPT !.n = poll.n] /\ poll' \in Polls
    BY <1>1, IdlePollFact DEF Reset, Polls
<1> QED
    BY <1>2, IdlePollFact DEF Polls

-----------------------------------------------------------------------------
(* Logs arrive *)

\* An arriving log changes one target, and what is known to have stayed.
LEMMA EventFact ==
    ASSUME TypeInv, NEW kind, NEW f \in Targets, NEW logs, GoodLogs(logs), Event(kind, f, logs)
    PROVE  /\ faz' \in [Targets -> Logs] /\ \A g \in Targets : GoodLogs(faz'[g])
           /\ poll' \in Polls
           /\ poll'.pc = poll.pc /\ poll'.part = poll.part /\ poll'.shifted = poll.shifted
           /\ poll'.res = poll.res /\ poll'.snap = poll.snap /\ poll'.f = poll.f
           /\ poll'.noise = poll.noise \cup {"event"}
           /\ poll'.stay.up = {x \in poll.stay.up : "open" \in faz'[x[1]].sess[x[2]]}
           /\ poll'.stay.down = {x \in poll.stay.down : faz'[x[1]].sess[x[2]] = {"closed"}}
           /\ UNCHANGED <<now, enabled, cache, store, history, web, answer>>
<1> DEFINE up == {x \in poll.stay.up : "open" \in faz'[x[1]].sess[x[2]]}
           down == {x \in poll.stay.down : faz'[x[1]].sess[x[2]] = {"closed"}}
<1>1. /\ faz' = [faz EXCEPT ![f] = logs]
      /\ poll' = [poll EXCEPT !.noise = poll.noise \cup {"event"},
                              !.stay.up = up, !.stay.down = down]
      /\ UNCHANGED <<now, enabled, cache, store, history, web, answer>>
    BY DEF Event
<1>2. faz' \in [Targets -> Logs] /\ \A g \in Targets : GoodLogs(faz'[g])
    BY <1>1 DEF TypeInv, GoodLogs
<1>3. up \in SUBSET Pairs /\ down \in SUBSET Pairs /\ poll.noise \cup {"event"} \in SUBSET Noises
    BY PollFields DEF TypeInv, Noises
<1> HIDE DEF up, down
<1>4. poll \in Polls
    BY DEF TypeInv
<1>5. poll' \in Polls
    BY <1>1, <1>3, <1>4 DEF Polls, Noises
<1>6. /\ poll'.pc = poll.pc /\ poll'.part = poll.part /\ poll'.shifted = poll.shifted
      /\ poll'.res = poll.res /\ poll'.snap = poll.snap /\ poll'.f = poll.f
      /\ poll'.noise = poll.noise \cup {"event"}
      /\ poll'.stay.up = up /\ poll'.stay.down = down
    BY <1>1, <1>4 DEF Polls
<1> QED
    BY <1>1, <1>2, <1>5, <1>6 DEF up, down

\* Whatever arrives, the logs stay possible.
LEMMA FazStepIs ==
    ASSUME TypeInv, FazStep
    PROVE  \E kind, logs : \E f \in Targets : GoodLogs(logs) /\ Event(kind, f, logs)
<1>1. PICK f \in Targets :
        \/ \E s \in Severities : AlertRaised(f, s) \/ Acknowledged(f, s)
        \/ \E s \in Signatures, b \in BOOLEAN : Detected(f, s, b)
        \/ \E t \in Times : LoginLogged(f, t)
        \/ \E k \in Tunnels : \/ SessionOpens(f, k)
                              \/ SessionForgotten(f, k)
                              \/ \E last \in BOOLEAN : SessionCloses(f, k, last)
    BY DEF FazStep
<1> DEFINE l == faz[f]
<1>2. l \in Logs /\ l.blocked <= Total(l.hits)
    BY DEF TypeInv, GoodLogs
<1>3. CASE \E s \in Severities : AlertRaised(f, s) \/ Acknowledged(f, s)
    <2>1. PICK s \in Severities : AlertRaised(f, s) \/ Acknowledged(f, s)
        BY <1>3
    <2>2. CASE AlertRaised(f, s)
        <3> DEFINE logs == [l EXCEPT !.alerts[s] = @ + 1]
        <3>1. GoodLogs(logs)
            BY <1>2 DEF GoodLogs, Logs
        <3> QED
            BY <2>2, <3>1 DEF AlertRaised
    <2>3. CASE Acknowledged(f, s)
        <3> DEFINE logs == [l EXCEPT !.alerts[s] = @ - 1]
        <3>1. l.alerts[s] > 0
            BY <2>3 DEF Acknowledged
        <3>2. GoodLogs(logs)
            BY <1>2, <3>1 DEF GoodLogs, Logs
        <3> QED
            BY <2>3, <3>2 DEF Acknowledged
    <2> QED
        BY <2>1, <2>2, <2>3
<1>4. CASE \E s \in Signatures, b \in BOOLEAN : Detected(f, s, b)
    <2>1. PICK s \in Signatures, b \in BOOLEAN : Detected(f, s, b)
        BY <1>4
    <2> DEFINE hits == [l.hits EXCEPT ![s] = @ + 1]
               n == IF b THEN l.blocked + 1 ELSE l.blocked
               logs == [l EXCEPT !.hits[s] = @ + 1, !.blocked = IF b THEN @ + 1 ELSE @]
    <2>2. l.hits \in [Signatures -> Nat] /\ l.blocked \in Nat
        BY <1>2 DEF Logs
    <2>3. hits \in [Signatures -> Nat] /\ Total(hits) = Total(l.hits) + 1 /\ Total(l.hits) \in Nat
        BY <2>2, TotalMore, TotalNat, Finite
    <2>4. logs = [l EXCEPT !.hits = hits, !.blocked = n]
        BY <1>2 DEF Logs
    <2>5. n \in Nat /\ n <= Total(hits)
        BY <1>2, <2>2, <2>3
    <2>6. GoodLogs(logs)
        <3> HIDE DEF hits, n, logs, l
        <3>1. logs \in Logs /\ logs.hits = hits /\ logs.blocked = n
            BY <1>2, <2>3, <2>4, <2>5 DEF Logs
        <3> QED
            BY <2>5, <3>1 DEF GoodLogs
    <2> QED
        BY <2>1, <2>6 DEF Detected
<1>5. CASE \E t \in Times : LoginLogged(f, t)
    <2>1. PICK t \in Times : LoginLogged(f, t)
        BY <1>5
    <2> DEFINE logs == [l EXCEPT !.logins = @ \cup {t}]
    <2>2. t \in Int
        BY <2>1 DEF Times
    <2>3. GoodLogs(logs)
        BY <1>2, <2>2 DEF GoodLogs, Logs
    <2> QED
        BY <2>1, <2>3 DEF LoginLogged
<1>6. ASSUME NEW k \in Tunnels, NEW S \in SUBSET {"open", "closed"}
      PROVE  GoodLogs([l EXCEPT !.sess[k] = S])
    BY <1>2 DEF GoodLogs, Logs
<1>7. ASSUME NEW k \in Tunnels
      PROVE  l.sess[k] \in SUBSET {"open", "closed"}
    BY <1>2 DEF Logs
<1>8. ASSUME NEW k \in Tunnels, SessionOpens(f, k)
      PROVE  \E kind, logs : GoodLogs(logs) /\ Event(kind, f, logs)
    <2> DEFINE S == l.sess[k] \cup {"open"}
    <2>1. S \in SUBSET {"open", "closed"}
        BY <1>7
    <2>2. Event("vpn", f, [l EXCEPT !.sess[k] = S])
        BY <1>8 DEF SessionOpens
    <2> QED
        BY <1>6, <2>1, <2>2
<1>9. ASSUME NEW k \in Tunnels, SessionForgotten(f, k)
      PROVE  \E kind, logs : GoodLogs(logs) /\ Event(kind, f, logs)
    <2> DEFINE S == l.sess[k] \ {"closed"}
    <2>1. S \in SUBSET {"open", "closed"}
        BY <1>7
    <2>2. Event("vpn", f, [l EXCEPT !.sess[k] = S])
        BY <1>9 DEF SessionForgotten
    <2> QED
        BY <1>6, <2>1, <2>2
<1>10. ASSUME NEW k \in Tunnels, NEW last \in BOOLEAN, SessionCloses(f, k, last)
       PROVE  \E kind, logs : GoodLogs(logs) /\ Event(kind, f, logs)
    <2> DEFINE S == (IF last THEN {} ELSE {"open"}) \cup {"closed"}
    <2>1. S \in SUBSET {"open", "closed"}
        OBVIOUS
    <2>2. Event("vpn", f, [l EXCEPT !.sess[k] = S])
        BY <1>10 DEF SessionCloses
    <2> QED
        BY <1>6, <2>1, <2>2
<1> QED
    BY <1>1, <1>3, <1>4, <1>5, <1>8, <1>9, <1>10

-----------------------------------------------------------------------------
(* The questions *)

\* What an answer of the target f makes of the poll.
Asked(f) ==
    /\ poll' \in Polls /\ Kept /\ poll'.f = poll.f
    /\ poll.pc \in Asking /\ poll'.pc \in Asking \cup {"answered"}
    /\ GoodPart(poll'.part) /\ (poll'.pc \in Later => Whole(poll'.part))
    /\ poll.noise \subseteq poll'.noise
    /\ poll'.shifted => "range" \in poll'.noise
    /\ poll'.noise = {} => Known(f, poll'.part, poll'.pc)
    /\ poll'.pc = "answered" /\ "range" \notin poll'.noise => Brackets(f, poll'.part)
    /\ UNCHANGED <<faz, now, enabled, cache, store, history, web, answer>>

\* What is left to show of a question that is an Answered step.
LEMMA AskedBy ==
    ASSUME TypeInv, StayInv, NEW f, NEW call \in Asking, NEW next \in Asking \cup {"answered"},
           NEW part, NEW noise \in SUBSET Noises, Answered(call, next, part, noise),
           GoodPart(part), next \in Later => Whole(part),
           poll.noise = {} /\ noise = {} => Known(f, part, next),
           next = "answered" /\ "range" \notin poll.noise => Brackets(f, part)
    PROVE  Asked(f)
<1>1. poll \in Polls /\ part \in Parts
    BY DEF TypeInv, GoodPart
<1>2. /\ poll' \in Polls /\ Kept /\ poll'.f = poll.f /\ poll'.shifted = poll.shifted
      /\ poll.pc = call /\ poll'.pc = next /\ poll'.part = part
      /\ poll'.noise = poll.noise \cup noise
      /\ UNCHANGED <<faz, now, enabled, cache, store, history, web, answer>>
    BY <1>1, AnsweredFact
<1>3. poll'.shifted => "range" \in poll'.noise
    BY <1>2 DEF StayInv
<1>4. poll.noise \subseteq poll'.noise
    BY <1>2
<1>5. poll'.noise = {} => Known(f, poll'.part, poll'.pc)
    BY <1>2
<1>6. poll'.pc = "answered" /\ "range" \notin poll'.noise => Brackets(f, poll'.part)
    BY <1>2
<1> QED
    BY <1>2, <1>3, <1>4, <1>5, <1>6 DEF Asked

\* The target being asked is one of the targets.
LEMMA AskedOne ==
    ASSUME TypeInv, ExactInv, NEW f \in poll.f
    PROVE  /\ f \in Targets /\ GoodLogs(faz[f]) /\ poll.part \in Parts
           /\ poll.noise = {} /\ poll.pc \in Asking => Known(f, poll.part, poll.pc)
<1>1. poll.f \in SUBSET Targets
    BY PollFields DEF TypeInv
<1> QED
    BY <1>1 DEF TypeInv, ExactInv, GoodPart

\* get_alert_counts without a filter.
LEMMA TotalAsked ==
    ASSUME TypeInv, ExactInv, StayInv, NEW f \in poll.f, NEW sound \in BOOLEAN, GetTotal(f, sound)
    PROVE  Asked(f)
<1> DEFINE x == IF sound THEN Total(faz[f].alerts) ELSE 0
           part == [poll.part EXCEPT !.total = x]
           noise == Odd(sound, "answer")
<1>1. Answered("total", "sev", part, noise) /\ poll.pc = "total"
    BY DEF GetTotal, Answered
<1>2. GoodLogs(faz[f]) /\ (poll.noise = {} => Known(f, poll.part, "total"))
    BY <1>1, AskedOne DEF Asking
<1>3. x \in Nat
    <2>1. faz[f].alerts \in [Severities -> Nat]
        BY <1>2 DEF GoodLogs, Logs
    <2>2. Total(faz[f].alerts) \in Nat
        BY <2>1, TotalNat, Finite
    <2> QED
        BY <2>2
<1>4. noise \in SUBSET Noises /\ (noise = {} => x = Total(faz[f].alerts))
    BY DEF Odd, Noises
<1> HIDE DEF x, noise
<1>5. GoodPart(part) /\ part.total = x /\ part.sev = poll.part.sev
    BY <1>3 DEF TypeInv, GoodPart, Parts
<1> HIDE DEF part
<1>6. poll.noise = {} /\ noise = {} => Known(f, part, "sev")
    BY <1>2, <1>4, <1>5 DEF Known
<1> QED
    BY <1>1, <1>4, <1>5, <1>6, AskedBy DEF Asking, Later

\* get_alert_counts of one severity: the others are kept.
LEMMA SeverityAsked ==
    ASSUME TypeInv, ExactInv, StayInv, NEW f \in poll.f, NEW s \in Severities,
           NEW sound \in BOOLEAN, GetSeverity(f, s, sound)
    PROVE  Asked(f)
<1> DEFINE sev == poll.part.sev
           c == IF sound THEN faz[f].alerts[s] ELSE 0
           sev2 == [x \in DOMAIN sev \cup {s} |-> IF x = s THEN c ELSE sev[x]]
           next == IF DOMAIN sev2 = Severities THEN "types" ELSE "sev"
           part == [poll.part EXCEPT !.sev = sev2]
           noise == Odd(sound, "answer")
<1>1. Answered("sev", next, part, noise) /\ poll.pc = "sev"
    BY DEF GetSeverity, Answered
<1>2. GoodLogs(faz[f]) /\ (poll.noise = {} => Known(f, poll.part, "sev"))
    BY <1>1, AskedOne DEF Asking
<1>3. c \in Nat
    BY <1>2 DEF GoodLogs, Logs
<1>4. noise \in SUBSET Noises /\ (noise = {} => c = faz[f].alerts[s])
    BY DEF Odd, Noises
<1> HIDE DEF c, noise
<1>5. DOMAIN sev \in SUBSET Severities /\ \A x \in DOMAIN sev : sev[x] \in Nat
    <2>1. sev \in Counts(Severities)
        BY DEF TypeInv, GoodPart, Parts
    <2> QED
        BY <2>1, CountsIs
<1>6. sev2 \in [DOMAIN sev2 -> Nat] /\ DOMAIN sev2 \in SUBSET Severities
    BY <1>3, <1>5
<1>7. sev2 \in Counts(Severities)
    BY <1>6, CountsIs
<1>8. poll.noise = {} /\ noise = {} => \A x \in DOMAIN sev2 : sev2[x] = faz[f].alerts[x]
    BY <1>2, <1>4 DEF Known
<1>9. next \in {"sev", "types"} /\ (next = "types" => DOMAIN sev2 = Severities)
    OBVIOUS
<1> HIDE DEF sev2, next
<1>10. GoodPart(part) /\ part.total = poll.part.total /\ part.sev = sev2
    BY <1>7 DEF TypeInv, GoodPart, Parts
<1> HIDE DEF part
<1>11. poll.noise = {} /\ noise = {} => Known(f, part, next)
    BY <1>2, <1>8, <1>9, <1>10 DEF Known
<1>12. next \in Asking /\ (next \in Later => Whole(part)) /\ next # "answered"
    BY <1>9, <1>10 DEF Asking, Later, Whole
<1> QED
    BY <1>1, <1>4, <1>10, <1>11, <1>12, AskedBy DEF Asking

\* "top-type", and the range the later questions use.
LEMMA TopTypeAsked ==
    ASSUME TypeInv, ExactInv, StayInv, NEW f \in poll.f, NEW shifted \in BOOLEAN,
           RunTopType(f, shifted)
    PROVE  Asked(f)
<1>1. poll.pc = "types"
    BY DEF RunTopType
<1>2. GoodLogs(faz[f]) /\ (poll.noise = {} => Known(f, poll.part, "types"))
    BY <1>1, AskedOne DEF Asking
<1>3. poll \in Polls /\ GoodPart(poll.part) /\ Whole(poll.part)
    BY <1>1 DEF TypeInv, Later
<1>4. /\ poll' \in Polls /\ Kept /\ poll'.f = poll.f /\ poll'.shifted = shifted
      /\ poll.pc = "types" /\ poll'.pc = "threats" /\ GoodPart(poll'.part)
      /\ poll'.part.total = poll.part.total /\ poll'.part.sev = poll.part.sev
      /\ ~shifted => poll'.part.detections = Total(faz[f].hits)
      /\ poll'.noise = poll.noise \cup Odd(~shifted, "range")
      /\ UNCHANGED <<faz, now, enabled, cache, store, history, web, answer>>
    BY <1>2, <1>3, TopTypeFact
<1>5. poll'.noise = {} => ~shifted /\ poll.noise = {}
    BY <1>4 DEF Odd
<1>6. poll'.noise = {} => Known(f, poll'.part, "threats")
    BY <1>2, <1>4, <1>5 DEF Known
<1>7. poll.noise \subseteq poll'.noise /\ (poll'.shifted => "range" \in poll'.noise)
    BY <1>4 DEF Odd
<1>8. Whole(poll'.part)
    BY <1>3, <1>4 DEF Whole
<1> QED
    BY <1>4, <1>6, <1>7, <1>8 DEF Asked, Asking

\* "site-to-site-ipsec": what stayed up or down is seen so.
LEMMA SiteToSiteAsked ==
    ASSUME TypeInv, ExactInv, StayInv, NEW f \in poll.f, RunSiteToSite(f)
    PROVE  Asked(f)
<1> DEFINE sess == Rows(f).sess
           seen == {k \in Tunnels : sess[k] # {}}
           up == {k \in seen : "open" \in sess[k]}
           part == [poll.part EXCEPT !.tunnels = seen, !.up = up]
<1>1. Answered("vpn", "answered", part, {}) /\ poll.pc = "vpn"
    BY DEF RunSiteToSite, Answered, TunnelUp
<1>2. f \in Targets /\ GoodLogs(faz[f]) /\ (poll.noise = {} => Known(f, poll.part, "vpn"))
    BY <1>1, AskedOne DEF Asking
<1>3. seen \in SUBSET Tunnels /\ up \subseteq seen
    OBVIOUS
<1>4. "range" \notin poll.noise => sess = faz[f].sess
    BY DEF StayInv, Rows
<1>5. poll.noise = {} => seen = SeenTunnels(f)
    BY <1>4 DEF SeenTunnels
<1>6. ASSUME "range" \notin poll.noise, NEW k \in Tunnels
      PROVE  /\ <<f, k>> \in poll.stay.up => k \in up
             /\ <<f, k>> \in poll.stay.down => k \in seen \ up
    <2>1. <<f, k>> \in poll.stay.up => "open" \in sess[k]
        BY <1>2, <1>4, <1>6 DEF StayInv, UpOn
    <2>2. <<f, k>> \in poll.stay.down => sess[k] = {"closed"}
        BY <1>2, <1>4, <1>6 DEF StayInv, DownOn
    <2> QED
        BY <2>1, <2>2
<1> HIDE DEF seen, up
<1>7. /\ GoodPart(part) /\ part.sev = poll.part.sev /\ part.tunnels = seen /\ part.up = up
      /\ part.total = poll.part.total /\ part.detections = poll.part.detections
      /\ part.top = poll.part.top /\ part.logins = poll.part.logins
      /\ part.outside = poll.part.outside
    BY <1>3 DEF TypeInv, GoodPart, Parts
<1> HIDE DEF part
<1>8. poll.noise = {} => Known(f, part, "answered")
    BY <1>2, <1>5, <1>7 DEF Known
<1>9. "range" \notin poll.noise => Brackets(f, part)
    BY <1>6, <1>7 DEF Brackets
<1>10. Whole(part)
    BY <1>1, <1>7 DEF TypeInv, Whole, Later
<1> QED
    BY <1>1, <1>7, <1>8, <1>9, <1>10, AskedBy DEF Asking
\* The rows of a target are possible logs, too.
LEMMA RowsFact ==
    ASSUME TypeInv, ExactInv, StayInv, NEW f \in poll.f
    PROVE  Rows(f) \in Logs /\ ("range" \notin poll.noise => Rows(f) = faz[f])
<1>1. NoLogs \in Logs
    BY DEF NoLogs, Logs
<1>2. faz[f] \in Logs
    BY AskedOne DEF GoodLogs
<1> QED
    BY <1>1, <1>2 DEF Rows, StayInv

\* "top-threats": a top list of the detections.
LEMMA TopThreatsAsked ==
    ASSUME TypeInv, ExactInv, StayInv, NEW f \in poll.f, NEW top, RunTopThreats(f, top)
    PROVE  Asked(f)
<1> DEFINE hits == Rows(f).hits
           seen == {s \in Signatures : hits[s] > 0}
           c == [s \in seen |-> hits[s]]
           part == [poll.part EXCEPT !.top = top]
<1>1. Answered("threats", "logins", part, {}) /\ poll.pc = "threats" /\ top \in Tops(c, TopN)
    BY DEF RunTopThreats, Answered
<1>2. poll.noise = {} => Known(f, poll.part, "threats")
    BY <1>1, AskedOne DEF Asking
<1>3. hits \in [Signatures -> Nat]
    BY RowsFact DEF Logs
<1>4. seen \in SUBSET Signatures /\ c \in [seen -> Nat] /\ IsFiniteSet(seen)
    BY <1>3, FS_Subset, Finite
<1>5. poll.noise = {} => c = SeenHits(f)
    <2>1. poll.noise = {} => hits = faz[f].hits
        BY RowsFact
    <2> QED
        BY <2>1 DEF SeenHits
<1> HIDE DEF c, seen
<1>6. DOMAIN top \in SUBSET seen /\ top \in [DOMAIN top -> Nat]
    BY <1>1, <1>4, TopsFact, Finite
<1>7. top \in Counts(Signatures)
    BY <1>4, <1>6, CountsIs
<1>8. /\ GoodPart(part) /\ part.sev = poll.part.sev /\ part.top = top
      /\ part.total = poll.part.total /\ part.detections = poll.part.detections
    BY <1>7 DEF TypeInv, GoodPart, Parts
<1> HIDE DEF part
<1>9. poll.noise = {} => Known(f, part, "logins")
    BY <1>1, <1>2, <1>5, <1>8 DEF Known
<1>10. Whole(part)
    BY <1>1, <1>8 DEF TypeInv, Whole, Later
<1> QED
    BY <1>1, <1>8, <1>9, <1>10, AskedBy DEF Asking

\* The logins of the last day.
LEMMA WindowFact ==
    ASSUME TypeInv, NEW L \in SUBSET Int
    PROVE  /\ IsFiniteSet(L \cap (now - Day .. now - 1))
           /\ Cardinality(L \cap (now - Day .. now - 1)) \in Nat
<1>1. now - Day \in Int /\ now - 1 \in Int
    BY Finite DEF TypeInv
<1>2. IsFiniteSet(now - Day .. now - 1)
    BY <1>1, FS_Interval
<1>3. IsFiniteSet(L \cap (now - Day .. now - 1))
    BY <1>2, FS_Intersection
<1> QED
    BY <1>3, FS_CardinalityType

\* "admin-logins" of the last day.
LEMMA AdminLoginsAsked ==
    ASSUME TypeInv, ExactInv, StayInv, NEW f \in poll.f, RunAdminLogins(f)
    PROVE  Asked(f)
<1> DEFINE n == Cardinality(Rows(f).logins \cap (now - Day .. now - 1))
           part == [poll.part EXCEPT !.logins = n]
<1>1. Answered("logins", "hours", part, {}) /\ poll.pc = "logins"
    BY DEF RunAdminLogins, Answered
<1>2. poll.noise = {} => Known(f, poll.part, "logins")
    BY <1>1, AskedOne DEF Asking
<1>3. Rows(f).logins \in SUBSET Int
    BY RowsFact DEF Logs
<1>4. n \in Nat
    BY <1>3, WindowFact
<1>5. poll.noise = {} => n = Cardinality(Window(f))
    BY RowsFact DEF Window
<1> HIDE DEF n
<1>6. /\ GoodPart(part) /\ part.sev = poll.part.sev /\ part.logins = n
      /\ part.total = poll.part.total /\ part.detections = poll.part.detections
      /\ part.top = poll.part.top
    BY <1>4 DEF TypeInv, GoodPart, Parts
<1> HIDE DEF part
<1>7. poll.noise = {} => Known(f, part, "hours")
    BY <1>2, <1>5, <1>6 DEF Known
<1>8. Whole(part)
    BY <1>1, <1>6 DEF TypeInv, Whole, Later
<1> QED
    BY <1>1, <1>6, <1>7, <1>8, AskedBy DEF Asking

\* Polls begin on the second day.
LEMMA MidnightFact ==
    ASSUME TypeInv
    PROVE  now \in Nat /\ now >= Day /\ now < 2 * Day /\ now % Day = now - Day /\ Midnight = Day
<1>1. now \in Nat /\ now >= Day /\ now < 2 * Day /\ Day \in Nat /\ Day > 0
    BY Finite DEF TypeInv
<1>2. now % Day = now - Day
    BY <1>1
<1> QED
    BY <1>1, <1>2 DEF Midnight

\* The business hours lie within a day.
LEMMA HoursFact ==
    /\ Hours.from \in Nat /\ Hours.to \in Nat /\ Hours.from <= Day /\ Hours.to <= Day
    BY ThreatAssumption

\* The business hours as they are asked for.
LEMMA BusinessFact ==
    ASSUME TypeInv
    PROVE  \A t : t \in BusinessRange <=>
              t \in Int /\ Day + Hours.from <= t /\ t < Day + Hours.to /\ t < now
<1>1. /\ Midnight = Day /\ now \in Nat /\ Day \in Nat
      /\ Hours.from \in Nat /\ Hours.to \in Nat
    BY MidnightFact, HoursFact, Finite
<1> DEFINE from == Day + Hours.from
           to == Min({Day + Hours.to, now})
<1>2. to = IF Day + Hours.to <= now THEN Day + Hours.to ELSE now
    BY <1>1, MinFact
<1>3. BusinessRange = IF from >= to THEN {} ELSE from .. to - 1
    BY <1>1 DEF BusinessRange
<1>4. from \in Nat /\ to \in Nat
    BY <1>1, <1>2
<1> HIDE DEF to
<1> QED
    BY <1>1, <1>2, <1>3, <1>4

\* "admin-logins" of the business hours: with nothing odd about the poll the
\* difference needs no max(..., 0), and is the number of logins outside of them.
LEMMA BusinessLoginsAsked ==
    ASSUME TypeInv, ExactInv, StayInv, NEW f \in poll.f, NEW shifted \in BOOLEAN,
           RunBusinessLogins(f, shifted)
    PROVE  Asked(f)
<1> DEFINE rows == IF shifted THEN {} ELSE faz[f].logins
           m == Cardinality(rows \cap BusinessRange)
           n == Max({poll.part.logins - m, 0})
           part == [poll.part EXCEPT !.outside = n]
           noise == Odd(~shifted, "range")
<1>1. Answered("hours", "vpn", part, noise) /\ poll.pc = "hours"
    BY DEF RunBusinessLogins, Answered
<1>2. GoodLogs(faz[f]) /\ (poll.noise = {} => Known(f, poll.part, "hours"))
    BY <1>1, AskedOne DEF Asking
<1>3. rows \in SUBSET Int
    BY <1>2 DEF GoodLogs, Logs
<1>4. now \in Nat /\ now < 2 * Day /\ Day \in Nat /\ Hours.from \in Nat
    BY MidnightFact, HoursFact, Finite
<1>5. BusinessRange \subseteq (now - Day .. now - 1)
    BY <1>4, BusinessFact
<1>6. rows \cap BusinessRange = (rows \cap (now - Day .. now - 1)) \cap BusinessRange
    BY <1>5
<1> DEFINE W == rows \cap (now - Day .. now - 1)
<1>7. IsFiniteSet(W) /\ Cardinality(W) \in Nat
    BY <1>3, WindowFact
<1>8. /\ IsFiniteSet(W \cap BusinessRange) /\ m = Cardinality(W \cap BusinessRange)
      /\ Cardinality(W \ BusinessRange) = Cardinality(W) - Cardinality(W \cap BusinessRange)
      /\ IsFiniteSet(W \ BusinessRange)
    BY <1>6, <1>7, FS_Intersection, FS_Difference, FS_Subset
<1>9. m \in Nat /\ Cardinality(W \ BusinessRange) \in Nat
    BY <1>8, FS_CardinalityType
<1>10. poll.part.logins \in Nat
    BY DEF TypeInv, GoodPart, Parts
<1>11. n = IF poll.part.logins - m >= 0 THEN poll.part.logins - m ELSE 0
    <2> HIDE DEF m
    <2> QED
        BY <1>9, <1>10, MaxFact
<1>12. n \in Nat
    <2> HIDE DEF m, n
    <2> QED
        BY <1>9, <1>10, <1>11
<1>13. noise \in SUBSET Noises /\ (noise = {} => ~shifted)
    BY DEF Odd, Noises
<1>14. ASSUME poll.noise = {}, noise = {} PROVE n = Late(f)
    <2>1. W = Window(f)
        BY <1>13, <1>14 DEF Window
    <2>2. poll.part.logins = Cardinality(W)
        BY <1>2, <1>14, <2>1 DEF Known
    <2> DEFINE l == poll.part.logins
               r == Cardinality(W \ BusinessRange)
    <2>3. r = l - m
        BY <1>8, <2>2
    <2>4. r = n
        <3> HIDE DEF m, n, l, r
        <3>1. n = IF l - m >= 0 THEN l - m ELSE 0
            BY <1>11 DEF l
        <3> QED
            BY <1>9, <2>3, <3>1 DEF r
    <2> QED
        BY <2>1, <2>4 DEF Late
<1> HIDE DEF n, noise
<1>15. /\ GoodPart(part) /\ part.sev = poll.part.sev /\ part.outside = n
       /\ part.total = poll.part.total /\ part.detections = poll.part.detections
       /\ part.top = poll.part.top /\ part.logins = poll.part.logins
    BY <1>12 DEF TypeInv, GoodPart, Parts
<1> HIDE DEF part
<1>16. poll.noise = {} /\ noise = {} => Known(f, part, "vpn")
    BY <1>2, <1>14, <1>15 DEF Known
<1>17. Whole(part)
    BY <1>1, <1>15 DEF TypeInv, Whole, Later
<1> QED
    BY <1>1, <1>13, <1>15, <1>16, <1>17, AskedBy DEF Asking

\* All questions.
LEMMA AskFact ==
    ASSUME TypeInv, ExactInv, StayInv, NEW f \in poll.f, Ask(f)
    PROVE  Asked(f)
<1>1. CASE \E ok \in BOOLEAN : GetTotal(f, ok) \/ \E s \in Severities : GetSeverity(f, s, ok)
    BY <1>1, TotalAsked, SeverityAsked
<1>2. CASE \E x \in BOOLEAN : RunTopType(f, x) \/ RunBusinessLogins(f, x)
    BY <1>2, TopTypeAsked, BusinessLoginsAsked
<1>3. CASE \E S \in SUBSET Signatures : RunTopThreats(f, [s \in S |-> Rows(f).hits[s]])
    BY <1>3, TopThreatsAsked
<1>4. CASE RunAdminLogins(f)
    BY <1>4, AdminLoginsAsked
<1>5. CASE RunSiteToSite(f)
    BY <1>5, SiteToSiteAsked
<1> QED
    BY <1>1, <1>2, <1>3, <1>4, <1>5 DEF Ask

-----------------------------------------------------------------------------
(* Merging *)

\* What MergeTopLists adds up.
Names(res) == UNION {DOMAIN res[f].top : f \in DOMAIN res}
Listing(res, s) == {f \in DOMAIN res : s \in DOMAIN res[f].top}
Summed(res) == [s \in Names(res) |-> Total([f \in Listing(res, s) |-> res[f].top[s]])]

\* The results of the targets that answered.
LEMMA ResultFact ==
    ASSUME TypeInv
    PROVE  /\ Answering \in SUBSET Targets /\ IsFiniteSet(Answering)
           /\ \A f \in Answering :
                 /\ poll.res[f].total \in Nat /\ poll.res[f].detections \in Nat
                 /\ poll.res[f].blocked \in Nat /\ poll.res[f].outside \in Nat
                 /\ poll.res[f].blocked <= poll.res[f].detections
                 /\ poll.res[f].sev \in [Severities -> Nat]
                 /\ poll.res[f].tunnels \in SUBSET Tunnels
                 /\ poll.res[f].up \subseteq poll.res[f].tunnels
                 /\ DOMAIN poll.res[f].top \in SUBSET Signatures
                 /\ \A s \in DOMAIN poll.res[f].top : poll.res[f].top[s] \in Nat
<1>1. poll.res \in Results
    BY PollFields DEF TypeInv
<1>2. Answering \in SUBSET Targets
    BY <1>1, ResultsIs DEF Answering
<1>3. IsFiniteSet(Answering)
    BY <1>2, Finite, FS_Subset
<1>4. ASSUME NEW f \in Answering
      PROVE  /\ poll.res[f].total \in Nat /\ poll.res[f].detections \in Nat
             /\ poll.res[f].blocked \in Nat /\ poll.res[f].outside \in Nat
             /\ poll.res[f].blocked <= poll.res[f].detections
             /\ poll.res[f].sev \in [Severities -> Nat]
             /\ poll.res[f].tunnels \in SUBSET Tunnels
             /\ poll.res[f].up \subseteq poll.res[f].tunnels
             /\ DOMAIN poll.res[f].top \in SUBSET Signatures
             /\ \A s \in DOMAIN poll.res[f].top : poll.res[f].top[s] \in Nat
    <2> DEFINE p == poll.res[f]
    <2>1. GoodPart(p) /\ DOMAIN p.sev = Severities
        BY DEF TypeInv, Whole
    <2> HIDE DEF p
    <2>2. p.sev \in Counts(Severities) /\ p.top \in Counts(Signatures)
        BY <2>1 DEF GoodPart, Parts
    <2>3. p.sev \in [Severities -> Nat]
        BY <2>1, <2>2, CountsIs
    <2>4. DOMAIN p.top \in SUBSET Signatures /\ \A s \in DOMAIN p.top : p.top[s] \in Nat
        BY <2>2, CountsIs
    <2>5. /\ p.total \in Nat /\ p.detections \in Nat /\ p.blocked \in Nat /\ p.outside \in Nat
          /\ p.blocked <= p.detections /\ p.tunnels \in SUBSET Tunnels /\ p.up \subseteq p.tunnels
        BY <2>1 DEF GoodPart, Parts
    <2> QED
        BY <2>3, <2>4, <2>5 DEF p
<1> QED
    BY <1>2, <1>3, <1>4

\* The counts _merge_top_lists adds up.
LEMMA SummedFact ==
    ASSUME TypeInv
    PROVE  /\ Names(poll.res) \in SUBSET Signatures /\ IsFiniteSet(Names(poll.res))
           /\ Summed(poll.res) \in [Names(poll.res) -> Nat]
           /\ MergeTopLists(poll.res) = Tops(Summed(poll.res), TopN)
<1>1. Names(poll.res) \in SUBSET Signatures
    BY ResultFact DEF Names, Answering
<1>2. IsFiniteSet(Names(poll.res))
    BY <1>1, Finite, FS_Subset
<1>3. ASSUME NEW s \in Names(poll.res)
      PROVE  Total([f \in Listing(poll.res, s) |-> poll.res[f].top[s]]) \in Nat
    <2> DEFINE L == Listing(poll.res, s)
               c == [f \in L |-> poll.res[f].top[s]]
    <2>1. L \in SUBSET Answering /\ IsFiniteSet(L)
        BY ResultFact, FS_Subset DEF Listing, Answering
    <2>2. c \in [L -> Nat]
        BY ResultFact DEF Listing, Answering
    <2> HIDE DEF c, L
    <2>3. Total(c) \in Nat
        BY <2>1, <2>2, TotalNat
    <2> QED
        BY <2>3 DEF c, L
<1>4. Summed(poll.res) \in [Names(poll.res) -> Nat]
    BY <1>3 DEF Summed
<1>5. MergeTopLists(poll.res) = Tops(Summed(poll.res), TopN)
    BY Zenon DEF MergeTopLists, Summed, Names, Listing
<1> QED
    BY <1>1, <1>2, <1>4, <1>5

\* The merged snapshot.
Merged(top) ==
    [at |-> poll.n,
     alerts |-> Total([f \in Answering |-> poll.res[f].total]),
     sev |-> [s \in Severities |-> Total([f \in Answering |-> poll.res[f].sev[s]])],
     detections |-> Total([f \in Answering |-> poll.res[f].detections]),
     blocked |-> Total([f \in Answering |-> poll.res[f].blocked]),
     top |-> top,
     outside |-> Total([f \in Answering |-> poll.res[f].outside]),
     tunnels |-> Cardinality(UNION {poll.res[f].tunnels : f \in Answering}),
     down |-> Cardinality(TunnelsDown(poll.res))]

\* Merging possible answers gives a possible snapshot.
LEMMA MergedGood ==
    ASSUME TypeInv, NEW top \in MergeTopLists(poll.res)
    PROVE  GoodSnap(Merged(top))
<1> DEFINE A == Answering
           alerts == [f \in A |-> poll.res[f].total]
           col(s) == [f \in A |-> poll.res[f].sev[s]]
           detections == [f \in A |-> poll.res[f].detections]
           blocked == [f \in A |-> poll.res[f].blocked]
           outside == [f \in A |-> poll.res[f].outside]
           seen == UNION {poll.res[f].tunnels : f \in A}
           down == TunnelsDown(poll.res)
<1>1. IsFiniteSet(A)
    BY ResultFact
<1>2. /\ alerts \in [A -> Nat] /\ detections \in [A -> Nat] /\ blocked \in [A -> Nat]
      /\ outside \in [A -> Nat] /\ \A f \in A : blocked[f] <= detections[f]
    BY ResultFact
<1>3. ASSUME NEW s \in Severities PROVE Total(col(s)) \in Nat
    <2>1. col(s) \in [A -> Nat]
        BY ResultFact
    <2> HIDE DEF col, A
    <2> QED
        BY <1>1, <2>1, TotalNat
<1>4. seen \in SUBSET Tunnels /\ down \subseteq seen
    BY ResultFact DEF TunnelsDown, Answering
<1>5. /\ Cardinality(seen) \in Nat /\ Cardinality(down) \in Nat
      /\ Cardinality(down) <= Cardinality(seen)
    <2> HIDE DEF seen, down
    <2>1. IsFiniteSet(seen) /\ IsFiniteSet(down)
        BY <1>4, Finite, FS_Subset
    <2> QED
        BY <1>4, <2>1, FS_Subset, FS_CardinalityType
<1>6. /\ top \in Counts(Signatures) /\ Cardinality(DOMAIN top) <= TopN
    <2>1. DOMAIN top \in SUBSET Names(poll.res) /\ top \in [DOMAIN top -> Nat]
          /\ Cardinality(DOMAIN top) <= TopN
        BY SummedFact, TopsFact, Finite
    <2> QED
        BY <2>1, SummedFact, CountsIs
<1>7. poll.n \in Nat
    BY PollFields DEF TypeInv
<1>8. [s \in Severities |-> Total(col(s))] \in [Severities -> Nat]
    BY <1>3
<1> DEFINE sev == [s \in Severities |-> Total(col(s))]
<1>9. Merged(top) = [at |-> poll.n, alerts |-> Total(alerts), sev |-> sev,
                     detections |-> Total(detections), blocked |-> Total(blocked), top |-> top,
                     outside |-> Total(outside), tunnels |-> Cardinality(seen),
                     down |-> Cardinality(down)]
    BY Zenon DEF Merged
<1> HIDE DEF alerts, detections, blocked, outside, A, sev, seen, down
<1>10. /\ Total(alerts) \in Nat /\ Total(detections) \in Nat /\ Total(blocked) \in Nat
       /\ Total(outside) \in Nat /\ Total(blocked) <= Total(detections)
    BY <1>1, <1>2, TotalNat, TotalMono
<1>11. sev \in [Severities -> Nat]
    BY <1>8 DEF sev
<1> QED
    BY <1>5, <1>6, <1>7, <1>9, <1>10, <1>11 DEF GoodSnap, Snaps

\* Merging changes the place and the snapshot.
LEMMA MergeFact ==
    ASSUME TypeInv, NEW top, Merge(top)
    PROVE  /\ poll' \in Polls /\ poll'.pc = "publish" /\ poll'.f = poll.f
           /\ poll.pc = "next" /\ Answering # {}
           /\ poll'.part = poll.part /\ poll'.shifted = poll.shifted /\ poll'.res = poll.res
           /\ poll'.noise = poll.noise /\ poll'.stay = poll.stay /\ poll'.snap = Merged(top)
           /\ GoodSnap(Merged(top)) /\ top \in MergeTopLists(poll.res)
           /\ UNCHANGED <<faz, now, enabled, cache, store, history, web, answer>>
<1>1. /\ poll.pc = "next" /\ poll.res # Nothing /\ top \in MergeTopLists(poll.res)
      /\ UNCHANGED <<faz, now, enabled, cache, store, history, web, answer>>
    BY DEF Merge, fleet
<1>2. poll' = [poll EXCEPT !.pc = "publish", !.snap = Merged(top)]
    BY Zenon DEF Merge, Merged
<1>3. GoodSnap(Merged(top))
    BY <1>1, MergedGood
<1>4. Merged(top) \in Snaps
    BY <1>3 DEF GoodSnap
<1>5. poll \in Polls
    BY DEF TypeInv
<1>6. Answering # {}
    BY <1>1, <1>5, NothingFact, PollFields DEF Answering
<1>7. /\ poll' \in Polls /\ poll'.pc = "publish" /\ poll'.f = poll.f
      /\ poll'.part = poll.part /\ poll'.shifted = poll.shifted /\ poll'.res = poll.res
      /\ poll'.noise = poll.noise /\ poll'.stay = poll.stay /\ poll'.snap = Merged(top)
    BY <1>2, <1>4, <1>5 DEF Polls
<1> QED
    BY <1>1, <1>3, <1>6, <1>7

-----------------------------------------------------------------------------
(* The other steps of a poll *)

\* A poll starts without results and remembers the tunnels as they are.
LEMMA StartFact ==
    ASSUME TypeInv, StartPoll
    PROVE  /\ poll' \in Polls /\ poll'.f = {} /\ poll'.shifted = FALSE /\ poll'.pc = "next"
           /\ poll'.part = NoPart /\ poll'.noise = {} /\ poll'.res = Nothing
           /\ poll'.snap = NoSnap
           /\ poll'.stay.up = {x \in Pairs : UpOn(x[1], x[2])}
           /\ poll'.stay.down = {x \in Pairs : DownOn(x[1], x[2])}
           /\ UNCHANGED <<faz, now, enabled, cache, store, history, web, answer>>
<1> DEFINE stay == [up |-> {x \in Pairs : UpOn(x[1], x[2])},
                    down |-> {x \in Pairs : DownOn(x[1], x[2])}]
<1>1. /\ poll' = [IdlePoll EXCEPT !.pc = "next", !.n = poll.n + 1, !.todo = enabled, !.stay = stay]
      /\ UNCHANGED <<faz, now, enabled, cache, store, history, web, answer>>
    BY DEF StartPoll, fleet, Pairs
<1>2. poll.n + 1 \in Nat /\ enabled \in SUBSET Targets
    BY PollFields DEF TypeInv
<1>3. stay \in [up : SUBSET Pairs, down : SUBSET Pairs]
    OBVIOUS
<1>4. /\ stay.up = {x \in Pairs : UpOn(x[1], x[2])}
      /\ stay.down = {x \in Pairs : DownOn(x[1], x[2])}
    OBVIOUS
<1> HIDE DEF stay
<1>5. IdlePoll \in Polls
    BY IdlePollFact
<1>6. poll' \in Polls
    BY <1>1, <1>2, <1>3, <1>5 DEF Polls
<1>7. /\ poll'.f = IdlePoll.f /\ poll'.shifted = IdlePoll.shifted /\ poll'.pc = "next"
      /\ poll'.part = IdlePoll.part /\ poll'.noise = IdlePoll.noise
      /\ poll'.res = IdlePoll.res /\ poll'.snap = IdlePoll.snap /\ poll'.stay = stay
    BY <1>1, <1>5 DEF Polls
<1> QED
    BY <1>1, <1>4, <1>6, <1>7, IdlePollFact

\* Publishing forgets the results and keeps the snapshot.
LEMMA PublishFact ==
    ASSUME TypeInv, Publish
    PROVE  /\ poll' \in Polls /\ poll'.f = {} /\ poll'.shifted = FALSE /\ poll'.pc = "store"
           /\ poll'.part = NoPart /\ poll'.noise = {} /\ poll'.res = Nothing
           /\ poll'.snap = poll.snap /\ poll'.stay.up = {} /\ poll'.stay.down = {}
           /\ cache' = poll.snap
           /\ UNCHANGED <<faz, now, enabled, store, history, web, answer>>
<1>1. /\ poll' = [IdlePoll EXCEPT !.pc = "store", !.n = poll.n, !.snap = poll.snap]
      /\ cache' = poll.snap /\ UNCHANGED <<faz, now, enabled, store, history, web, answer>>
    BY DEF Publish, fleet
<1>2. IdlePoll \in Polls /\ poll.n \in Nat /\ poll.snap \in Snaps
    BY IdlePollFact, PollFields DEF TypeInv
<1>3. poll' \in Polls
    BY <1>1, <1>2 DEF Polls
<1>4. /\ poll'.f = IdlePoll.f /\ poll'.shifted = IdlePoll.shifted /\ poll'.pc = "store"
      /\ poll'.part = IdlePoll.part /\ poll'.noise = IdlePoll.noise
      /\ poll'.res = IdlePoll.res /\ poll'.snap = poll.snap /\ poll'.stay = IdlePoll.stay
    BY <1>1, <1>2 DEF Polls
<1> QED
    BY <1>1, <1>3, <1>4, IdlePollFact

\* Writing the store keeps the snapshot for the rollup.
LEMMA StoreFact ==
    ASSUME TypeInv, WriteStore
    PROVE  /\ poll' \in Polls /\ Kept /\ poll'.f = poll.f /\ poll'.shifted = poll.shifted
           /\ poll.pc = "store" /\ poll'.pc = "rollup" /\ poll'.part = poll.part
           /\ poll'.noise = poll.noise /\ store' = poll.snap
           /\ UNCHANGED <<faz, now, enabled, cache, history, web, answer>>
<1>1. poll \in Polls
    BY DEF TypeInv
<1> QED
    BY <1>1 DEF WriteStore, fleet, Polls, Kept

\* The steps that end a poll, and what they write.
LEMMA EndFact ==
    ASSUME TypeInv, NothingPolled \/ WriteRollup \/ WriteFails \/ RestartCollector
    PROVE  /\ poll' \in Polls /\ poll'.f = {} /\ poll'.shifted = FALSE /\ poll'.pc = "idle"
           /\ poll'.part = NoPart /\ poll'.noise = {} /\ poll'.res = Nothing
           /\ poll'.snap = NoSnap /\ poll'.stay.up = {} /\ poll'.stay.down = {}
           /\ history' \in {history, poll.snap} /\ cache' \in {cache, NoSnap}
           /\ UNCHANGED <<faz, now, enabled, store, web, answer>>
<1>1. Reset(poll) /\ poll \in Polls
    BY DEF TypeInv, Reset, NothingPolled, WriteRollup, WriteFails, RestartCollector
<1>2. /\ history' \in {history, poll.snap} /\ cache' \in {cache, NoSnap}
      /\ UNCHANGED <<faz, now, enabled, store, web, answer>>
    BY DEF NothingPolled, WriteRollup, WriteFails, RestartCollector, fleet
<1> QED
    BY <1>1, <1>2, ResetFact

-----------------------------------------------------------------------------
(* The invariant is kept *)

Core == TypeInv /\ ExactInv /\ StayInv /\ SnapInv

\* The poll has no results, and remembers the tunnels as they are.
Fresh ==
    /\ poll' \in Polls /\ poll'.f = {} /\ poll'.shifted = FALSE
    /\ poll'.pc \in {"idle", "next", "store"} /\ poll'.part = NoPart /\ poll'.res = Nothing
    /\ GoodSnap(poll'.snap)
    /\ poll'.stay.up \in SUBSET {x \in Pairs : UpOn(x[1], x[2])}
    /\ poll'.stay.down \in SUBSET {x \in Pairs : DownOn(x[1], x[2])}
    /\ UNCHANGED <<faz, now, enabled>>

\* A poll without results satisfies the invariant.
LEMMA FreshKeeps ==
    ASSUME TypeInv, Fresh
    PROVE  Core'
<1>1. DOMAIN poll'.res = {} /\ GoodPart(poll'.part)
    BY NothingFact, NoPartFact DEF Fresh
<1>2. TypeInv'
    BY <1>1 DEF TypeInv, Fresh, Later, Answering
<1>3. ExactInv'
    BY <1>1 DEF ExactInv, Fresh, Asking, Answering
<1>4. StayInv'
    <2>1. \A g \in Targets, k \in Tunnels : <<g, k>> \in poll'.stay.up => UpOn(g, k)
        BY DEF Fresh
    <2>2. \A g \in Targets, k \in Tunnels : <<g, k>> \in poll'.stay.down => DownOn(g, k)
        BY DEF Fresh
    <2> QED
        BY <1>1, <2>1, <2>2 DEF StayInv, Fresh, UpOn, DownOn, Answering
<1>5. SnapInv'
    BY DEF SnapInv, Fresh
<1> QED
    BY <1>2, <1>3, <1>4, <1>5 DEF Core

\* The same for a step of the poll that keeps its results.
LEMMA KeptStay ==
    ASSUME TypeInv, StayInv, poll'.res = poll.res, poll'.stay = poll.stay, faz' = faz,
           poll.noise \subseteq poll'.noise, poll'.shifted => "range" \in poll'.noise,
           poll'.pc = "answered" /\ "range" \notin poll'.noise =>
              \A f \in poll'.f : Brackets(f, poll'.part)
    PROVE  StayInv'
<1>1. \A f \in Targets, k \in Tunnels : <<f, k>> \in poll'.stay.up => UpOn(f, k)'
    BY DEF StayInv, UpOn
<1>2. \A f \in Targets, k \in Tunnels : <<f, k>> \in poll'.stay.down => DownOn(f, k)'
    BY DEF StayInv, DownOn
<1>3. ASSUME "range" \notin poll'.noise
      PROVE  /\ poll'.pc = "answered" => \A f \in poll'.f : Brackets(f, poll.part)'
             /\ \A f \in Answering' : Brackets(f, poll.res[f])'
    <2>1. "range" \notin poll.noise
        BY <1>3
    <2>2. \A f \in Answering : Brackets(f, poll.res[f])
        BY <2>1 DEF StayInv
    <2>3. \A f \in Answering' : Brackets(f, poll.res[f])'
        BY <2>2 DEF Brackets, Answering
    <2>4. poll'.pc = "answered" => \A f \in poll'.f : Brackets(f, poll.part)'
        BY <1>3 DEF Brackets
    <2> QED
        BY <2>3, <2>4
<1> QED
    BY <1>1, <1>2, <1>3 DEF StayInv

\* One look shows the same as long as nothing changes.
LEMMA LookSame ==
    ASSUME faz' = faz, now' = now
    PROVE  \A f : /\ SeenHits(f)' = SeenHits(f) /\ Late(f)' = Late(f)
                  /\ Window(f)' = Window(f) /\ SeenTunnels(f)' = SeenTunnels(f)
<1>1. BusinessRange' = BusinessRange
    BY DEF BusinessRange, Midnight
<1>2. \A f : Window(f)' = Window(f)
    BY DEF Window
<1>3. \A f : Late(f)' = Late(f)
    BY <1>1, <1>2 DEF Late
<1> QED
    BY <1>2, <1>3 DEF SeenHits, SeenTunnels

\* Results that were what one look shows still are.
LEMMA KeptExact ==
    ASSUME TypeInv, ExactInv, poll'.res = poll.res, faz' = faz, now' = now,
           poll.noise \subseteq poll'.noise,
           poll'.noise = {} /\ poll'.pc \in Asking \cup {"answered"} =>
              \A f \in poll'.f : Known(f, poll'.part, poll'.pc)
    PROVE  ExactInv'
<1> SUFFICES ASSUME poll'.noise = {}
             PROVE  /\ poll'.pc \in Asking \cup {"answered"} =>
                          \A f \in poll'.f : Known(f, poll.part, poll.pc)'
                    /\ \A f \in Answering' : Known(f, poll.res[f], "answered")'
    BY DEF ExactInv
<1>1. poll.noise = {}
    OBVIOUS
<1>2. \A f \in Answering : Known(f, poll.res[f], "answered")
    BY <1>1 DEF ExactInv
<1>3. \A f \in Answering' : Known(f, poll.res[f], "answered")'
    BY <1>2, LookSame DEF Known, Answering
<1>4. poll'.pc \in Asking \cup {"answered"} => \A f \in poll'.f : Known(f, poll.part, poll.pc)'
    BY LookSame DEF Known
<1> QED
    BY <1>3, <1>4

\* The types, for a step that keeps results and snapshot.
LEMMA KeptType ==
    ASSUME TypeInv, poll' \in Polls, poll'.res = poll.res, poll'.snap = poll.snap,
           faz' = faz, now' = now, enabled' = enabled, \A f, g \in poll'.f : f = g,
           GoodPart(poll'.part), poll'.pc \in Later => Whole(poll'.part)
    PROVE  TypeInv'
    BY DEF TypeInv, Answering

\* Every question keeps the invariant.
LEMMA AskKeeps ==
    ASSUME Core, NEW f \in poll.f, Ask(f)
    PROVE  Core' /\ UNCHANGED <<cache, store, history, web, answer>>
<1>1. Asked(f) /\ TypeInv /\ ExactInv /\ StayInv
    BY AskFact DEF Core
<1>2. \A g \in poll'.f : g = f
    BY <1>1 DEF Asked, TypeInv
<1>3. TypeInv'
    <2>1. \A g, h \in poll'.f : g = h
        BY <1>2
    <2> QED
        BY <1>1, <2>1, KeptType DEF Asked, Kept
<1>4. ExactInv'
    BY <1>1, <1>2, KeptExact DEF Asked, Kept
<1>5. StayInv'
    BY <1>1, <1>2, KeptStay DEF Asked, Kept
<1>6. SnapInv'
    BY <1>1 DEF Asked, SnapInv, Asking
<1> QED
    BY <1>1, <1>3, <1>4, <1>5, <1>6 DEF Core, Asked

\* Going on to the next target keeps it.
LEMMA BeginKeeps ==
    ASSUME Core, NEW f \in Targets, BeginTarget(f)
    PROVE  Core' /\ UNCHANGED <<cache, store, history, web, answer>>
<1>1. TypeInv /\ ExactInv /\ StayInv /\ poll \in Polls
    BY DEF Core, TypeInv
<1>2. /\ poll' \in Polls /\ Kept /\ poll'.f = {f} /\ poll'.shifted = FALSE
      /\ poll.pc = "next" /\ poll'.pc = "total" /\ poll'.part = NoPart
      /\ poll'.noise = poll.noise
      /\ UNCHANGED <<faz, now, enabled, cache, store, history, web, answer>>
    BY <1>1, BeginFact
<1>3. GoodPart(poll'.part)
    BY <1>2, NoPartFact
<1>4. TypeInv'
    BY <1>1, <1>2, <1>3, KeptType DEF Kept, Later
<1>5. Known(f, NoPart, "total")
    BY NoPartFact DEF Known
<1>6. ExactInv'
    BY <1>1, <1>2, <1>5, KeptExact DEF Kept
<1>7. StayInv'
    BY <1>1, <1>2, KeptStay DEF Kept
<1>8. SnapInv'
    BY <1>2 DEF SnapInv
<1> QED
    BY <1>2, <1>4, <1>6, <1>7, <1>8 DEF Core

\* A target that fails keeps it.
LEMMA FailKeeps ==
    ASSUME Core, TargetFails
    PROVE  Core' /\ UNCHANGED <<cache, store, history, web, answer>>
<1>1. TypeInv /\ ExactInv /\ StayInv /\ poll \in Polls
    BY DEF Core, TypeInv
<1>2. /\ poll' \in Polls /\ Kept /\ poll'.f = {} /\ poll'.shifted = FALSE
      /\ poll'.pc = "next" /\ poll'.part = NoPart /\ poll'.noise = poll.noise
      /\ UNCHANGED <<faz, now, enabled, cache, store, history, web, answer>>
    BY <1>1, FailFact
<1>3. GoodPart(poll'.part)
    BY <1>2, NoPartFact
<1>4. TypeInv'
    BY <1>1, <1>2, <1>3, KeptType DEF Kept, Later
<1>5. ExactInv'
    BY <1>1, <1>2, KeptExact DEF Kept
<1>6. StayInv'
    BY <1>1, <1>2, KeptStay DEF Kept
<1>7. SnapInv'
    BY <1>2 DEF SnapInv
<1> QED
    BY <1>2, <1>4, <1>5, <1>6, <1>7 DEF Core

\* Writing the store keeps it.
LEMMA StoreKeeps ==
    ASSUME Core, WriteStore
    PROVE  Core'
<1>1. TypeInv /\ ExactInv /\ StayInv /\ poll \in Polls
    BY DEF Core, TypeInv
<1>2. /\ poll' \in Polls /\ Kept /\ poll'.f = poll.f /\ poll'.shifted = poll.shifted
      /\ poll'.pc = "rollup" /\ poll'.part = poll.part /\ poll'.noise = poll.noise
      /\ UNCHANGED <<faz, now, enabled>>
    BY <1>1, StoreFact
<1>3. TypeInv'
    <2>1. GoodPart(poll'.part) /\ \A g, h \in poll'.f : g = h
        BY <1>1, <1>2 DEF TypeInv
    <2> QED
        BY <1>1, <1>2, <2>1, KeptType DEF Kept, Later
<1>4. ExactInv'
    BY <1>1, <1>2, KeptExact DEF Kept, Asking
<1>5. StayInv'
    <2>1. poll'.shifted => "range" \in poll'.noise
        BY <1>1, <1>2 DEF StayInv
    <2> QED
        BY <1>1, <1>2, <2>1, KeptStay DEF Kept
<1>6. SnapInv'
    BY <1>2 DEF SnapInv
<1> QED
    BY <1>3, <1>4, <1>5, <1>6 DEF Core

\* Appending the answers keeps it: they are whole.
LEMMA DoneKeeps ==
    ASSUME Core, TargetDone
    PROVE  Core' /\ UNCHANGED <<cache, store, history, web, answer>>
<1>1. TypeInv /\ ExactInv /\ StayInv /\ poll \in Polls
    BY DEF Core, TypeInv
<1>2. /\ poll' \in Polls /\ poll'.f = {} /\ poll'.shifted = poll.shifted
      /\ poll.pc = "answered" /\ poll'.pc = "next" /\ poll'.part = NoPart
      /\ poll'.noise = poll.noise /\ poll'.snap = poll.snap /\ poll'.stay = poll.stay
      /\ DOMAIN poll'.res = Answering \cup poll.f
      /\ \A f \in DOMAIN poll'.res :
            poll'.res[f] = IF f \in poll.f THEN poll.part ELSE poll.res[f]
      /\ UNCHANGED <<faz, now, enabled, cache, store, history, web, answer>>
    BY <1>1, DoneFact
<1>3. GoodPart(poll'.part)
    BY <1>2, NoPartFact
<1>4. TypeInv'
    <2>1. ASSUME NEW f \in DOMAIN poll'.res PROVE GoodPart(poll'.res[f]) /\ Whole(poll'.res[f])
        BY <1>1, <1>2 DEF TypeInv, Later
    <2> QED
        BY <1>1, <1>2, <1>3, <2>1 DEF TypeInv, Answering, Later
<1>5. ExactInv'
    <2> SUFFICES ASSUME poll'.noise = {}, NEW f \in DOMAIN poll'.res
                 PROVE  Known(f, poll.res[f], "answered")'
        BY <1>2 DEF ExactInv, Asking, Answering
    <2>1. Known(f, poll'.res[f], "answered")
        <3>1. f \in poll.f => Known(f, poll.part, "answered")
            BY <1>1, <1>2 DEF ExactInv
        <3>2. f \notin poll.f => Known(f, poll.res[f], "answered")
            BY <1>1, <1>2 DEF ExactInv, Answering
        <3> QED
            BY <1>2, <3>1, <3>2
    <2> QED
        BY <1>2, <2>1, LookSame DEF Known
<1>6. StayInv'
    <2>1. \A f \in Targets, k \in Tunnels : <<f, k>> \in poll'.stay.up => UpOn(f, k)'
        BY <1>1, <1>2 DEF StayInv, UpOn
    <2>2. \A f \in Targets, k \in Tunnels : <<f, k>> \in poll'.stay.down => DownOn(f, k)'
        BY <1>1, <1>2 DEF StayInv, DownOn
    <2>3. poll'.shifted => "range" \in poll'.noise
        BY <1>1, <1>2 DEF StayInv
    <2>4. ASSUME "range" \notin poll'.noise, NEW f \in DOMAIN poll'.res
          PROVE  Brackets(f, poll.res[f])'
        <3>1. f \in poll.f => Brackets(f, poll.part)
            BY <1>1, <1>2, <2>4 DEF StayInv
        <3>2. f \notin poll.f => Brackets(f, poll.res[f])
            BY <1>1, <1>2, <2>4 DEF StayInv, Answering
        <3>3. Brackets(f, poll'.res[f])
            BY <1>2, <3>1, <3>2
        <3> QED
            BY <1>2, <3>3 DEF Brackets
    <2> QED
        BY <1>2, <2>1, <2>2, <2>3, <2>4 DEF StayInv, Answering
<1>7. SnapInv'
    BY <1>2 DEF SnapInv
<1> QED
    BY <1>2, <1>4, <1>5, <1>6, <1>7 DEF Core

\* Merging keeps it.
LEMMA MergeKeeps ==
    ASSUME Core, NEW top, Merge(top)
    PROVE  Core' /\ UNCHANGED <<cache, store, history, web, answer>>
<1>1. TypeInv /\ ExactInv /\ StayInv /\ poll \in Polls
    BY DEF Core, TypeInv
<1>2. /\ poll' \in Polls /\ poll'.pc = "publish" /\ poll'.f = poll.f
      /\ poll.pc = "next" /\ Answering # {}
      /\ poll'.part = poll.part /\ poll'.shifted = poll.shifted /\ poll'.res = poll.res
      /\ poll'.noise = poll.noise /\ poll'.stay = poll.stay /\ poll'.snap = Merged(top)
      /\ GoodSnap(Merged(top)) /\ top \in MergeTopLists(poll.res)
      /\ UNCHANGED <<faz, now, enabled, cache, store, history, web, answer>>
    BY <1>1, MergeFact
<1>3. TypeInv'
    BY <1>1, <1>2 DEF TypeInv, Answering, Later
<1>4. ExactInv'
    BY <1>1, <1>2, KeptExact DEF Asking
<1>5. StayInv'
    <2>1. poll'.shifted => "range" \in poll'.noise
        BY <1>1, <1>2 DEF StayInv
    <2> QED
        BY <1>1, <1>2, <2>1, KeptStay
<1>6. SnapInv'
    <2>1. Answering' = Answering
        BY <1>2 DEF Answering
    <2>2. /\ Merged(top).alerts = Total([f \in Answering |-> poll.res[f].total])
          /\ Merged(top).sev = [s \in Severities |-> Total([f \in Answering |-> poll.res[f].sev[s]])]
          /\ Merged(top).detections = Total([f \in Answering |-> poll.res[f].detections])
          /\ Merged(top).top = top
          /\ Merged(top).outside = Total([f \in Answering |-> poll.res[f].outside])
          /\ Merged(top).tunnels = Cardinality(UNION {poll.res[f].tunnels : f \in Answering})
          /\ Merged(top).down = Cardinality(TunnelsDown(poll.res))
        BY DEF Merged
    <2> QED
        BY <1>2, <2>1, <2>2 DEF SnapInv
<1> QED
    BY <1>2, <1>3, <1>4, <1>5, <1>6 DEF Core

\* An arriving log keeps it: it is noise, and shrinks what has stayed.
LEMMA FazKeeps ==
    ASSUME Core, FazStep
    PROVE  Core' /\ UNCHANGED <<cache, store, history, web, answer>>
<1>1. TypeInv /\ StayInv /\ SnapInv /\ poll \in Polls
    BY DEF Core, TypeInv
<1>2. PICK kind, logs : \E f \in Targets : GoodLogs(logs) /\ Event(kind, f, logs)
    BY <1>1, FazStepIs
<1>3. /\ faz' \in [Targets -> Logs] /\ \A g \in Targets : GoodLogs(faz'[g])
      /\ poll' \in Polls
      /\ poll'.pc = poll.pc /\ poll'.part = poll.part /\ poll'.shifted = poll.shifted
      /\ poll'.res = poll.res /\ poll'.snap = poll.snap /\ poll'.f = poll.f
      /\ poll'.noise = poll.noise \cup {"event"}
      /\ poll'.stay.up = {x \in poll.stay.up : "open" \in faz'[x[1]].sess[x[2]]}
      /\ poll'.stay.down = {x \in poll.stay.down : faz'[x[1]].sess[x[2]] = {"closed"}}
      /\ UNCHANGED <<now, enabled, cache, store, history, web, answer>>
    BY <1>1, <1>2, EventFact
<1>4. TypeInv'
    BY <1>1, <1>3 DEF TypeInv, Answering
<1>5. ExactInv'
    BY <1>3 DEF ExactInv
<1>6. StayInv'
    <2>1. \A g \in Targets, k \in Tunnels : <<g, k>> \in poll'.stay.up => UpOn(g, k)'
        BY <1>3 DEF UpOn
    <2>2. \A g \in Targets, k \in Tunnels : <<g, k>> \in poll'.stay.down => DownOn(g, k)'
        BY <1>3 DEF DownOn
    <2>3. poll'.stay.up \subseteq poll.stay.up /\ poll'.stay.down \subseteq poll.stay.down
        BY <1>3
    <2>4. (poll'.shifted => "range" \in poll'.noise)
          /\ ("range" \notin poll'.noise => "range" \notin poll.noise)
        BY <1>1, <1>3 DEF StayInv
    <2>5. ASSUME "range" \notin poll'.noise
          PROVE  /\ poll'.pc = "answered" => \A g \in poll'.f : Brackets(g, poll.part)'
                 /\ \A g \in Answering' : Brackets(g, poll.res[g])'
        <3>1. /\ poll.pc = "answered" => \A g \in poll.f : Brackets(g, poll.part)
              /\ \A g \in Answering : Brackets(g, poll.res[g])
            BY <1>1, <2>4, <2>5 DEF StayInv
        <3>2. poll'.pc = "answered" => \A g \in poll'.f : Brackets(g, poll.part)'
            BY <1>3, <2>3, <3>1 DEF Brackets
        <3>3. \A g \in Answering' : Brackets(g, poll.res[g])'
            BY <1>3, <2>3, <3>1 DEF Brackets, Answering
        <3> QED
            BY <3>2, <3>3
    <2> QED
        BY <2>1, <2>2, <2>4, <2>5 DEF StayInv
<1>7. SnapInv'
    BY <1>1, <1>3 DEF SnapInv, Answering
<1> QED
    BY <1>3, <1>4, <1>5, <1>6, <1>7 DEF Core
\* The invariant holds at the start.
LEMMA InitInv == Init => Inv
<1> SUFFICES ASSUME Init PROVE Inv
    OBVIOUS
<1>1. PICK c \in Scenarios : faz \in [Targets -> c.logs] /\ enabled = c.enabled /\ now = c.now
    BY DEF Init
<1>2. \A f \in Targets : GoodLogs(faz[f])
    BY <1>1, ThreatAssumption DEF GoodLogs
<1>3. faz \in [Targets -> Logs]
    BY <1>1, <1>2 DEF GoodLogs
<1>4. enabled \in SUBSET Targets /\ now \in Day .. 2 * Day - 1
    BY <1>1, ThreatAssumption
<1>5. /\ poll = IdlePoll /\ cache = NoSnap /\ store = NoSnap /\ history = NoSnap /\ web = NoSnap
      /\ answer = [due |-> FALSE, snap |-> NoSnap]
    BY DEF Init
<1>6. /\ poll \in Polls /\ poll.f = {} /\ poll.part = NoPart /\ poll.snap = NoSnap
      /\ poll.noise = {} /\ poll.shifted = FALSE /\ poll.stay.up = {} /\ poll.stay.down = {}
      /\ poll.pc = "idle" /\ DOMAIN poll.res = {}
    BY <1>5, IdlePollFact, NothingFact
<1>7. TypeInv
    BY <1>2, <1>3, <1>4, <1>6, NoPartFact, NoSnapFact DEF TypeInv, Answering, Later
<1>8. CopyInv
    BY <1>5, NoSnapFact DEF CopyInv
<1>9. ExactInv /\ StayInv /\ SnapInv
    BY <1>6 DEF ExactInv, StayInv, SnapInv, Answering, Asking
<1> QED
    BY <1>7, <1>8, <1>9 DEF Inv

\* Every step keeps the invariant.
LEMMA StepInv == Inv /\ [Next]_vars => Inv'
<1> SUFFICES ASSUME Inv, [Next]_vars PROVE Core' /\ CopyInv'
    BY DEF Inv, Core
<1>1. Core /\ TypeInv /\ CopyInv /\ GoodSnap(poll.snap) /\ GoodSnap(NoSnap)
    BY NoSnapFact DEF Inv, Core, TypeInv
<1>2. CASE FazStep
    BY <1>1, <1>2, FazKeeps DEF CopyInv
<1>3. CASE StartPoll
    <2>1. Fresh
        BY <1>1, <1>3, StartFact DEF Fresh
    <2> QED
        BY <1>1, <1>3, <2>1, FreshKeeps, StartFact DEF CopyInv
<1>4. CASE \E f \in Targets : BeginTarget(f)
    BY <1>1, <1>4, BeginKeeps DEF CopyInv
<1>5. CASE \E f \in poll.f : Ask(f)
    BY <1>1, <1>5, AskKeeps DEF CopyInv
<1>6. CASE TargetDone
    BY <1>1, <1>6, DoneKeeps DEF CopyInv
<1>7. CASE TargetFails
    BY <1>1, <1>7, FailKeeps DEF CopyInv
<1>8. CASE \E top \in MergeTopLists(poll.res) : Merge(top)
    BY <1>1, <1>8, MergeKeeps DEF CopyInv
<1>9. CASE Publish
    <2>1. Fresh
        BY <1>1, <1>9, PublishFact DEF Fresh
    <2> QED
        BY <1>1, <1>9, <2>1, FreshKeeps, PublishFact DEF CopyInv
<1>10. CASE WriteStore
    BY <1>1, <1>10, StoreKeeps, StoreFact DEF CopyInv
<1>11. CASE NothingPolled \/ WriteRollup \/ WriteFails \/ RestartCollector
    <2>1. Fresh
        BY <1>1, <1>11, EndFact DEF Fresh
    <2>2. GoodSnap(history') /\ GoodSnap(cache') /\ UNCHANGED <<store, web, answer>>
        BY <1>1, <1>11, EndFact DEF CopyInv
    <2> QED
        BY <1>1, <2>1, <2>2, FreshKeeps DEF CopyInv
<1>12. CASE GetCached \/ GetLatestRollup \/ RestartWeb \/ UNCHANGED vars
    <2>1. /\ UNCHANGED <<faz, enabled, now, poll, cache, store, history>>
          /\ web' \in {web, store, NoSnap}
        BY <1>12 DEF GetCached, GetLatestRollup, RestartWeb, vars, fleet
    <2>2. TypeInv'
        BY <1>1, <2>1 DEF TypeInv, Answering
    <2>3. ExactInv'
        BY <1>1, <2>1, LookSame DEF Core, ExactInv, Known, Answering
    <2>4. StayInv'
        BY <1>1, <2>1 DEF Core, StayInv, Brackets, Answering, UpOn, DownOn
    <2>5. SnapInv'
        BY <1>1, <2>1 DEF Core, SnapInv, Answering
    <2>6. CopyInv'
        <3>1. /\ answer = [due |-> answer.due, snap |-> answer.snap]
              /\ GoodSnap(answer.snap)
            BY <1>1 DEF CopyInv
        <3>2. \E b, s : answer' = [due |-> b, snap |-> s] /\ s \in {answer.snap, web, store, history}
            BY <1>12, <3>1 DEF GetCached, GetLatestRollup, RestartWeb, vars
        <3> QED
            BY <1>1, <2>1, <3>1, <3>2 DEF CopyInv
    <2> QED
        BY <2>2, <2>3, <2>4, <2>5, <2>6 DEF Core
<1> QED
    BY <1>2, <1>3, <1>4, <1>5, <1>6, <1>7, <1>8, <1>9, <1>10, <1>11, <1>12 DEF Next, PollStep

\* It always holds.
LEMMA InvAlways == Spec => []Inv
<1>1. Init => Inv
    BY InitInv
<1>2. Inv /\ [Next]_vars => Inv'
    BY StepInv
<1> QED
    BY <1>1, <1>2, PTL DEF Spec

-----------------------------------------------------------------------------
(* The theorems *)

\* No poll publishes impossible numbers, whatever arrives between its questions,
\* and no copy of a snapshot holds any: no negative counts, no more detections
\* blocked than made, no more tunnels down than there are, no list too long.
THEOREM NumbersArePossible == Spec => []NumbersPossible
<1>1. Inv => NumbersPossible
    <2> SUFFICES ASSUME Inv, NEW s \in {poll.snap, cache, store, history, web, answer.snap}
                 PROVE  /\ s.alerts \in Nat /\ s.outside \in Nat
                        /\ s.blocked \in 0..s.detections
                        /\ s.down \in 0..s.tunnels
                        /\ Cardinality(DOMAIN s.top) <= TopN
        BY DEF NumbersPossible
    <2>1. GoodSnap(s)
        BY DEF Inv, TypeInv, CopyInv
    <2> QED
        BY <2>1 DEF GoodSnap, Snaps
<1> QED
    BY <1>1, InvAlways, PTL

\* A tunnel with an open session on an answering target throughout the poll is
\* not counted as down, one closed on all of them throughout the poll is.
THEOREM DownIsBracketed == Spec => []DownBracketed
<1>1. Inv => DownBracketed
    <2> SUFFICES ASSUME Inv, poll.pc = "publish", "range" \notin poll.noise
                 PROVE  LET up == {x[2] : x \in {y \in poll.stay.up : y[1] \in Answering}}
                            down == {k \in Tunnels : \A f \in Answering : <<f, k>> \in poll.stay.down}
                        IN  /\ poll.snap.down + Cardinality(up) <= poll.snap.tunnels
                            /\ poll.snap.down >= Cardinality(down)
        BY DEF DownBracketed
    <2> DEFINE up == {x[2] : x \in {y \in poll.stay.up : y[1] \in Answering}}
               down == {k \in Tunnels : \A f \in Answering : <<f, k>> \in poll.stay.down}
               seen == UNION {poll.res[f].tunnels : f \in Answering}
               open == UNION {poll.res[f].up : f \in Answering}
               lost == TunnelsDown(poll.res)
    <2>1. TypeInv /\ StayInv /\ SnapInv
        BY DEF Inv
    <2>2. /\ Answering # {} /\ Answering \in SUBSET Targets
          /\ \A f \in Answering : /\ poll.res[f].tunnels \in SUBSET Tunnels
                                  /\ poll.res[f].up \subseteq poll.res[f].tunnels
        BY <2>1, ResultFact DEF SnapInv
    <2>3. poll.snap.tunnels = Cardinality(seen) /\ poll.snap.down = Cardinality(lost)
        BY <2>1 DEF SnapInv
    <2>4. lost = seen \ open
        BY DEF TunnelsDown, Answering
    <2>5. \A f \in Answering : Brackets(f, poll.res[f])
        BY <2>1 DEF StayInv
    <2>6. ASSUME NEW k \in up PROVE k \in open /\ k \in seen
        <3>1. PICK x \in poll.stay.up : x[1] \in Answering /\ k = x[2]
            OBVIOUS
        <3>2. x \in Pairs
            BY <2>1, PollFields DEF TypeInv
        <3>3. x[2] \in Tunnels /\ x = <<x[1], x[2]>>
            BY <3>2 DEF Pairs
        <3>4. k \in poll.res[x[1]].up
            BY <2>5, <3>1, <3>3 DEF Brackets
        <3> QED
            BY <2>2, <3>1, <3>4
    <2>7. ASSUME NEW k \in down PROVE k \in lost
        <3>1. \A f \in Answering : k \in poll.res[f].tunnels \ poll.res[f].up
            BY <2>5 DEF Brackets
        <3>2. k \in seen /\ k \notin open
            BY <2>2, <3>1
        <3> QED
            BY <2>4, <3>2
    <2>8. seen \in SUBSET Tunnels
        BY <2>2
    <2>9. /\ up \subseteq seen /\ lost \subseteq seen /\ up \cap lost = {} /\ down \subseteq lost
        BY <2>4, <2>6, <2>7
    <2> HIDE DEF up, down, seen, open, lost
    <2>10. /\ IsFiniteSet(seen) /\ IsFiniteSet(up) /\ IsFiniteSet(lost) /\ IsFiniteSet(down)
        BY <2>8, <2>9, Finite, FS_Subset
    <2>11. /\ Cardinality(seen) \in Nat /\ Cardinality(up) \in Nat
           /\ Cardinality(lost) \in Nat /\ Cardinality(down) \in Nat
        BY <2>10, FS_CardinalityType
    <2>12. Cardinality(down) <= Cardinality(lost)
        BY <2>9, <2>10, FS_Subset
    <2>13. Cardinality(lost \cup up) = Cardinality(lost) + Cardinality(up)
        <3>1. Cardinality(lost \cap up) = 0
            <4>1. lost \cap up = {}
                BY <2>9
            <4> QED
                BY <4>1, FS_EmptySet
        <3>2. Cardinality(lost \cup up)
                = Cardinality(lost) + Cardinality(up) - Cardinality(lost \cap up)
            BY <2>10, FS_Union
        <3> QED
            BY <2>11, <3>1, <3>2
    <2>14. Cardinality(lost \cup up) <= Cardinality(seen)
        <3>1. lost \cup up \subseteq seen
            BY <2>9
        <3> QED
            BY <2>10, <3>1, FS_Subset
    <2>15. /\ poll.snap.down + Cardinality(up) <= poll.snap.tunnels
           /\ poll.snap.down >= Cardinality(down)
        BY <2>3, <2>11, <2>12, <2>13, <2>14
    <2> QED
        BY <2>15 DEF up, down
<1> QED
    BY <1>1, InvAlways, PTL

\* In an undisturbed poll all that answered is what one look shows.
LEMMA AllKnown ==
    ASSUME Inv, Undisturbed
    PROVE  /\ TypeInv /\ SnapInv /\ poll.pc = "publish" /\ Answering # {}
           /\ Answering \in SUBSET Targets /\ IsFiniteSet(Answering)
           /\ \A f \in Answering : Known(f, poll.res[f], "answered")
           /\ \A f \in Answering : GoodLogs(faz[f])
<1>1. TypeInv /\ SnapInv /\ ExactInv /\ poll.pc = "publish" /\ poll.noise = {}
    BY DEF Inv, Undisturbed
<1>2. Answering # {} /\ Answering \in SUBSET Targets /\ IsFiniteSet(Answering)
    BY <1>1, ResultFact DEF SnapInv
<1>3. \A f \in Answering : GoodLogs(faz[f])
    BY <1>1, <1>2 DEF TypeInv
<1> QED
    BY <1>1, <1>2, <1>3 DEF ExactInv

\* The logins the poll calls outside are those outside of the hours and those of
\* yesterday's hours.
LEMMA LateFact ==
    ASSUME TypeInv, NEW f, faz[f].logins \in SUBSET Int
    PROVE  /\ Late(f) = Cardinality({t \in Window(f) : ~InHours(t)})
                        + Cardinality({t \in Window(f) : InHours(t) /\ t < Midnight})
           /\ Late(f) \in Nat
           /\ Cardinality({t \in Window(f) : ~InHours(t)}) \in Nat
           /\ Cardinality({t \in Window(f) : InHours(t) /\ t < Midnight}) \in Nat
<1> DEFINE W == Window(f)
           A == {t \in W : ~InHours(t)}
           B == {t \in W : InHours(t) /\ t < Midnight}
           L == W \ BusinessRange
<1>1. IsFiniteSet(W)
    BY WindowFact DEF Window
<1>2. /\ now \in Nat /\ now >= Day /\ now < 2 * Day /\ Midnight = Day /\ Day \in Nat /\ Day > 0
      /\ Hours.from \in Nat /\ Hours.to \in Nat /\ Hours.from <= Day /\ Hours.to <= Day
    BY MidnightFact, HoursFact, Finite
<1>3. ASSUME NEW t \in W PROVE t \in Int /\ now - Day <= t /\ t < now
    BY <1>2 DEF Window
<1>4. ASSUME NEW t \in W PROVE t \in BusinessRange <=> InHours(t) /\ ~(t < Midnight)
    <2>1. CASE t < Day
        BY <1>2, <1>3, <2>1, BusinessFact
    <2>2. CASE ~(t < Day)
        <3>1. t \in Nat /\ t >= Day /\ t < 2 * Day
            BY <1>2, <1>3, <2>2
        <3>2. t % Day = t - Day
            BY <1>2, <3>1
        <3>3. InHours(t) <=> Hours.from <= t - Day /\ t - Day < Hours.to
            BY <1>2, <3>1, <3>2 DEF InHours
        <3> QED
            BY <1>2, <1>3, <3>1, <3>3, BusinessFact
    <2> QED
        BY <2>1, <2>2
<1>5. L = A \cup B /\ A \cap B = {} /\ A \in SUBSET W /\ B \in SUBSET W /\ L \in SUBSET W
    BY <1>4
<1>6. Late(f) = Cardinality(L)
    BY DEF Late
<1> HIDE DEF W, A, B, L
<1>7. IsFiniteSet(A) /\ IsFiniteSet(B) /\ IsFiniteSet(L)
    BY <1>1, <1>5, FS_Subset
<1>8. Cardinality(A) \in Nat /\ Cardinality(B) \in Nat /\ Cardinality(L) \in Nat
    BY <1>7, FS_CardinalityType
<1>9. Cardinality(L) = Cardinality(A) + Cardinality(B)
    <2>1. Cardinality(A \cup B) = Cardinality(A) + Cardinality(B) - Cardinality(A \cap B)
        BY <1>7, FS_Union
    <2>2. Cardinality(A \cap B) = 0
        BY <1>5, FS_EmptySet
    <2> QED
        BY <1>5, <1>8, <2>1, <2>2
<1>10. /\ Late(f) = Cardinality(A) + Cardinality(B)
       /\ Late(f) \in Nat /\ Cardinality(A) \in Nat /\ Cardinality(B) \in Nat
    BY <1>6, <1>8, <1>9
<1> QED
    BY <1>10 DEF A, B, W
\* An undisturbed poll publishes what one look at the targets that answered
\* shows, but for the logins of yesterday's business hours.
THEOREM UndisturbedIsExact == Spec => []UndisturbedPollExact
<1>1. Inv => UndisturbedPollExact
    <2> SUFFICES ASSUME Inv, Undisturbed
                 PROVE  /\ poll.snap.alerts = Total([f \in Answering |-> Total(faz[f].alerts)])
                        /\ Total(poll.snap.sev) = poll.snap.alerts
                        /\ poll.snap.detections = Total([f \in Answering |-> Total(faz[f].hits)])
                        /\ poll.snap.tunnels =
                              Cardinality({k \in Tunnels : \E f \in Answering : faz[f].sess[k] # {}})
                        /\ poll.snap.outside = TrueOutside + Yesterday
        BY DEF UndisturbedPollExact
    <2> DEFINE A == Answering
    <2>1. /\ TypeInv /\ SnapInv /\ poll.pc = "publish" /\ IsFiniteSet(A)
          /\ \A f \in A : Known(f, poll.res[f], "answered")
          /\ \A f \in A : GoodLogs(faz[f])
        BY AllKnown
    <2>2. \A f \in A : /\ poll.res[f].total = Total(faz[f].alerts)
                       /\ poll.res[f].detections = Total(faz[f].hits)
                       /\ poll.res[f].outside = Late(f)
                       /\ poll.res[f].tunnels = SeenTunnels(f)
        BY <2>1 DEF Known
    <2>3. poll.snap.alerts = Total([f \in Answering |-> Total(faz[f].alerts)])
        <3>1. [f \in A |-> poll.res[f].total] = [f \in A |-> Total(faz[f].alerts)]
            BY <2>2
        <3> QED
            BY <2>1, <3>1 DEF SnapInv
    <2>4. poll.snap.detections = Total([f \in Answering |-> Total(faz[f].hits)])
        <3>1. [f \in A |-> poll.res[f].detections] = [f \in A |-> Total(faz[f].hits)]
            BY <2>2
        <3> QED
            BY <2>1, <3>1 DEF SnapInv
    <2>5. Total(poll.snap.sev) = poll.snap.alerts
        <3> DEFINE a == [f \in A |-> poll.res[f].sev]
                   cols == [s \in Severities |-> Total([f \in A |-> a[f][s]])]
        <3>1. ASSUME NEW f \in A
              PROVE  poll.res[f].sev \in [Severities -> Nat] /\ poll.res[f].sev = faz[f].alerts
            <4>1. poll.res[f].sev \in [Severities -> Nat]
                BY <2>1, ResultFact
            <4>2. faz[f].alerts \in [Severities -> Nat]
                BY <2>1 DEF GoodLogs, Logs
            <4>3. \A s \in Severities : poll.res[f].sev[s] = faz[f].alerts[s]
                BY <2>1, <4>1 DEF Known
            <4> QED
                BY <4>1, <4>2, <4>3
        <3>2. a \in [A -> [Severities -> Nat]]
            BY <3>1
        <3>3. Total(cols) = Total([f \in A |-> Total(a[f])])
            <4> HIDE DEF a, A
            <4> QED
                BY <2>1, <3>2, TotalSwap, Finite
        <3>4. [f \in A |-> Total(a[f])] = [f \in A |-> Total(faz[f].alerts)]
            BY <3>1
        <3>5. poll.snap.sev = cols
            <4>1. poll.snap.sev = [s \in Severities |-> Total([f \in A |-> poll.res[f].sev[s]])]
                BY <2>1 DEF SnapInv
            <4>2. \A s \in Severities : [f \in A |-> poll.res[f].sev[s]] = [f \in A |-> a[f][s]]
                OBVIOUS
            <4> QED
                BY <4>1, <4>2
        <3> QED
            BY <2>3, <3>3, <3>4, <3>5, Zenon
    <2>6. poll.snap.tunnels =
              Cardinality({k \in Tunnels : \E f \in Answering : faz[f].sess[k] # {}})
        <3>1. UNION {poll.res[f].tunnels : f \in A}
                = {k \in Tunnels : \E f \in A : faz[f].sess[k] # {}}
            BY <2>2 DEF SeenTunnels
        <3> QED
            BY <2>1, <3>1 DEF SnapInv
    <2>7. poll.snap.outside = TrueOutside + Yesterday
        <3> DEFINE e == [f \in A |-> poll.res[f].outside]
                   c == [f \in A |-> Cardinality({t \in Window(f) : ~InHours(t)})]
                   d == [f \in A |-> Cardinality({t \in Window(f) : InHours(t) /\ t < Midnight})]
        <3>1. ASSUME NEW f \in A
              PROVE  e[f] \in Nat /\ c[f] \in Nat /\ d[f] \in Nat /\ e[f] = c[f] + d[f]
            <4>1. faz[f].logins \in SUBSET Int
                BY <2>1 DEF GoodLogs, Logs
            <4> QED
                BY <2>1, <2>2, <4>1, LateFact
        <3>2. e \in [A -> Nat] /\ c \in [A -> Nat] /\ d \in [A -> Nat]
            BY <3>1
        <3>3. Total(e) = Total(c) + Total(d)
            <4> HIDE DEF e, c, d, A
            <4> QED
                BY <2>1, <3>1, <3>2, TotalAdd
        <3> QED
            BY <2>1, <3>3 DEF SnapInv, TrueOutside, Yesterday
    <2> QED
        BY <2>3, <2>4, <2>5, <2>6, <2>7
<1> QED
    BY <1>1, InvAlways, PTL
\* What a list of n counts may leave out at most.
Last(top, n) == IF Cardinality(DOMAIN top) < n THEN 0 ELSE Smallest(top)

\* A list leaves out nothing larger than that.
LEMMA LastFact ==
    ASSUME NEW D, IsFiniteSet(D), NEW c \in [D -> Nat], NEW n \in Nat, n # 0, NEW top \in Tops(c, n)
    PROVE  Last(top, n) \in Nat /\ \A y \in D \ DOMAIN top : c[y] <= Last(top, n)
<1> DEFINE S == DOMAIN top
<1>1. /\ S \in SUBSET D /\ top \in [S -> Nat] /\ \A s \in S : top[s] = c[s]
      /\ IsFiniteSet(S) /\ Cardinality(S) \in Nat
      /\ Cardinality(S) < n => S = D
      /\ \A x \in S, y \in D \ S : c[x] >= c[y]
    BY TopsFact
<1>2. CASE Cardinality(S) < n
    BY <1>1, <1>2 DEF Last
<1>3. CASE ~(Cardinality(S) < n)
    <2>1. S # {}
        BY <1>1, <1>3, FS_EmptySet
    <2>2. Smallest(top) \in Nat /\ \E x \in S : Smallest(top) = top[x]
        <3> HIDE DEF S
        <3> QED
            BY <1>1, <2>1, SmallestFact
    <2>3. Last(top, n) = Smallest(top)
        BY <1>3 DEF Last
    <2>4. PICK x \in S : Smallest(top) = top[x]
        BY <2>2
    <2>5. ASSUME NEW y \in D \ S PROVE c[y] <= Smallest(top)
        <3>1. c[x] >= c[y] /\ top[x] = c[x] /\ c[x] \in Nat /\ c[y] \in Nat
            BY <1>1
        <3> QED
            BY <2>4, <3>1
    <2> QED
        BY <2>2, <2>3, <2>5
<1> QED
    BY <1>2, <1>3

\* The list of a target shows its counts, and hides no more than Hidden.
LEMMA HiddenFact ==
    ASSUME Inv, Undisturbed, NEW f \in Answering, NEW s \in Signatures
    PROVE  /\ s \in DOMAIN poll.res[f].top => poll.res[f].top[s] = faz[f].hits[s]
           /\ s \notin DOMAIN poll.res[f].top => faz[f].hits[s] <= Hidden(f, s)
           /\ faz[f].hits[s] \in Nat /\ Hidden(f, s) \in Nat
<1> DEFINE D == {x \in Signatures : faz[f].hits[x] > 0}
           c == SeenHits(f)
           top == poll.res[f].top
<1>1. top \in Tops(c, TopN)
    BY AllKnown DEF Known
<1>2. faz[f].hits \in [Signatures -> Nat]
    BY AllKnown DEF GoodLogs, Logs
<1>3. IsFiniteSet(D) /\ c \in [D -> Nat] /\ (\A x \in D : c[x] = faz[f].hits[x])
    BY <1>2, Finite, FS_Subset DEF SeenHits
<1>4. s \notin D => faz[f].hits[s] = 0
    BY <1>2
<1>5. Hidden(f, s) = IF s \in DOMAIN top THEN 0 ELSE Last(top, TopN)
    BY DEF Hidden, Last
<1> HIDE DEF D, c, top
<1>6. DOMAIN top \in SUBSET D /\ \A x \in DOMAIN top : top[x] = c[x]
    BY <1>1, <1>3, Finite, TopsFact
<1>7. Last(top, TopN) \in Nat /\ \A y \in D \ DOMAIN top : c[y] <= Last(top, TopN)
    BY <1>1, <1>3, Finite, LastFact
<1>8. s \notin DOMAIN top => faz[f].hits[s] <= Hidden(f, s)
    <2> SUFFICES ASSUME s \notin DOMAIN top PROVE faz[f].hits[s] <= Last(top, TopN)
        BY <1>5
    <2> QED
        BY <1>3, <1>4, <1>7
<1>9. s \in DOMAIN top => top[s] = faz[f].hits[s]
    BY <1>3, <1>6
<1>10. faz[f].hits[s] \in Nat /\ Hidden(f, s) \in Nat
    BY <1>2, <1>5, <1>7
<1> QED
    BY <1>8, <1>9, <1>10 DEF top

\* The fleet's top list never shows more than the fleet's count, and what it does
\* not show has at most its smallest count plus what the targets' lists cut off.
THEOREM TopListIsBounded == Spec => []TopListBounded
<1>1. Inv => TopListBounded
    <2> SUFFICES ASSUME Inv, Undisturbed
                 PROVE  LET top == poll.snap.top
                            last == IF Cardinality(DOMAIN top) < TopN THEN 0 ELSE Smallest(top)
                        IN  /\ \A s \in DOMAIN top : top[s] <= Fleet(s)
                            /\ \A s \in Signatures \ DOMAIN top :
                                  Fleet(s) <= last + Total([f \in Answering |-> Hidden(f, s)])
        BY DEF TopListBounded
    <2> DEFINE top == poll.snap.top
               sum == Summed(poll.res)
               D == Names(poll.res)
               A == Answering
    <2>1. TypeInv /\ SnapInv /\ poll.pc = "publish" /\ IsFiniteSet(A) /\ A = DOMAIN poll.res
        BY AllKnown DEF Answering
    <2>2. D \in SUBSET Signatures /\ IsFiniteSet(D) /\ sum \in [D -> Nat]
        BY <2>1, SummedFact
    <2>3. top \in Tops(sum, TopN)
        BY <2>1, SummedFact DEF SnapInv
    <2>4. DOMAIN top \in SUBSET D /\ \A s \in DOMAIN top : top[s] = sum[s]
        <3> HIDE DEF top, sum, D
        <3> QED
            BY <2>2, <2>3, Finite, TopsFact
    <2>5. Last(top, TopN) \in Nat /\ \A s \in D \ DOMAIN top : sum[s] <= Last(top, TopN)
        <3> HIDE DEF top, sum, D
        <3> QED
            BY <2>2, <2>3, Finite, LastFact
    <2> DEFINE L(s) == Listing(poll.res, s)
               shown(s) == Total([f \in L(s) |-> faz[f].hits[s]])
               rest(s) == Total([f \in A \ L(s) |-> faz[f].hits[s]])
    <2>6. ASSUME NEW s \in Signatures
          PROVE  /\ Fleet(s) = shown(s) + rest(s) /\ shown(s) \in Nat /\ rest(s) \in Nat
                 /\ s \in D => sum[s] = shown(s)
                 /\ s \notin D => shown(s) = 0
                 /\ rest(s) <= Total([f \in A |-> Hidden(f, s)])
                 /\ Total([f \in A |-> Hidden(f, s)]) \in Nat
        <3> DEFINE M == L(s)
                   N == A \ M
                   h == [f \in A |-> faz[f].hits[s]]
                   g == [f \in A |-> Hidden(f, s)]
        <3>1. M \in SUBSET A /\ N \in SUBSET A /\ IsFiniteSet(M) /\ IsFiniteSet(N)
            BY <2>1, FS_Subset DEF Listing
        <3>2. h \in [A -> Nat] /\ g \in [A -> Nat]
            BY HiddenFact
        <3>3. /\ [f \in M |-> h[f]] = [f \in M |-> faz[f].hits[s]]
              /\ [f \in N |-> h[f]] = [f \in N |-> faz[f].hits[s]]
            BY <3>1
        <3>4. \A f \in N : h[f] <= g[f]
            BY <2>1, HiddenFact DEF Listing
        <3>5. \A f \in M : poll.res[f].top[s] = faz[f].hits[s]
            BY <2>1, HiddenFact DEF Listing
        <3>6. s \in D => sum[s] = shown(s)
            <4>1. [f \in M |-> poll.res[f].top[s]] = [f \in M |-> faz[f].hits[s]]
                BY <3>5
            <4> QED
                BY <4>1 DEF Summed
        <3>7. s \notin D => M = {}
            BY DEF Names, Listing
        <3>8. Fleet(s) = Total(h)
            BY DEF Fleet
        <3> DEFINE hm == [f \in M |-> h[f]]
                   hn == [f \in N |-> h[f]]
                   gn == [f \in N |-> g[f]]
        <3>9. hm \in [M -> Nat] /\ hn \in [N -> Nat] /\ gn \in [N -> Nat] /\ \A f \in N : hn[f] <= gn[f]
            BY <3>1, <3>2, <3>4
        <3>10. shown(s) = Total(hm) /\ rest(s) = Total(hn)
            BY <3>3
        <3> HIDE DEF h, g, M, A
        <3>11. Total(h) = Total(hm) + Total(hn) /\ Total(hm) \in Nat /\ Total(hn) \in Nat
            BY <2>1, <3>1, <3>2, TotalSplit
        <3>12. /\ Total(g) = Total([f \in M |-> g[f]]) + Total(gn)
               /\ Total([f \in M |-> g[f]]) \in Nat /\ Total(gn) \in Nat
            <4>1. IsFiniteSet(A) /\ g \in [A -> Nat] /\ M \in SUBSET A
                BY <2>1, <3>1, <3>2
            <4> QED
                BY <4>1, TotalSplit
        <3>13. M = {} => Total(hm) = 0
            <4> HIDE DEF hm
            <4>1. Total(hm) = SumOf(hm, M)
                BY <3>1, <3>9, TotalNat
            <4> QED
                BY <4>1, SumEmpty
        <3>14. Total(hn) <= Total(gn)
            <4> HIDE DEF hn, gn, N
            <4> QED
                BY <3>1, <3>9, TotalMono
        <3>15. Total(hn) <= Total(g) /\ Total(g) \in Nat
            <4> HIDE DEF hn, gn
            <4> QED
                BY <3>11, <3>12, <3>14
        <3> QED
            BY <3>6, <3>7, <3>8, <3>10, <3>11, <3>13, <3>15 DEF g, A
    <2> HIDE DEF shown, rest
    <2>7. ASSUME NEW s \in DOMAIN top PROVE top[s] <= Fleet(s)
        <3>1. s \in D /\ s \in Signatures /\ top[s] = sum[s]
            BY <2>2, <2>4
        <3>2. /\ Fleet(s) = shown(s) + rest(s) /\ shown(s) \in Nat /\ rest(s) \in Nat
              /\ sum[s] = shown(s)
            BY <2>6, <3>1
        <3> HIDE DEF top, sum
        <3> QED
            BY <3>1, <3>2
    <2>8. ASSUME NEW s \in Signatures \ DOMAIN top
          PROVE  Fleet(s) <= Last(top, TopN) + Total([f \in A |-> Hidden(f, s)])
        <3> DEFINE z == Total([f \in A |-> Hidden(f, s)])
                   m == Last(top, TopN)
        <3>1. shown(s) <= m
            <4> HIDE DEF top, sum, D
            <4>1. CASE s \in D
                BY <2>5, <2>6, <4>1
            <4>2. CASE s \notin D
                <5>1. shown(s) = 0 /\ m \in Nat
                    BY <2>5, <2>6, <4>2
                <5> HIDE DEF m
                <5> QED
                    BY <5>1
            <4> QED
                BY <4>1, <4>2
        <3>2. /\ Fleet(s) = shown(s) + rest(s) /\ shown(s) \in Nat /\ rest(s) \in Nat
              /\ rest(s) <= z /\ z \in Nat /\ m \in Nat
            BY <2>5, <2>6
        <3> HIDE DEF z, m
        <3>3. Fleet(s) <= m + z
            BY <3>1, <3>2
        <3> QED
            BY <3>3 DEF z, m
    <2> QED
        BY <2>7, <2>8 DEF Last
<1> QED
    BY <1>1, InvAlways, PTL
==============================================================================
