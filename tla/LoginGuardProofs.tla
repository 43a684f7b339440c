-------------------------- MODULE LoginGuardProofs ---------------------------
(* Theorems about LoginGuard, for any users, addresses, threads, limits and    *)
(* windows.  Failures are counted by sums over ages, so the sums come first:   *)
(* what holds of all of them is shown by taking a least counterexample.        *)
EXTENDS LoginGuard, FiniteSetTheorems, WellFoundedInduction, TLAPS

-----------------------------------------------------------------------------
(* Sums *)

\* The recursive function behind MapThenSumSet, for numbers given by a function.
Pick(s) == CHOOSE x \in s : TRUE
Adder(w, S) == CHOOSE iter : iter = [s \in SUBSET S |->
    IF s = {} THEN 0 ELSE w[Pick(s)] + iter[s \ {Pick(s)}]]
SumOf(w, S) == Adder(w, S)[S]

\* MapThenSumSet is its value for the whole set.
LEMMA SumIs ==
    ASSUME NEW w, NEW S
    PROVE  MapThenSumSet(LAMBDA s : w[s], S) = SumOf(w, S)
    BY Zenon DEF MapThenSumSet, MapThenFoldSet, Adder, SumOf, Pick

\* Of some subsets of a finite set one contains none of the others.
LEMMA HasMinimal ==
    ASSUME NEW U, IsFiniteSet(U), NEW T \in SUBSET SUBSET U, T # {}
    PROVE  \E m \in T : \A s \in T : s \subseteq m => s = m
<1> DEFINE R == StrictSubsetOrdering(U)
<1>1. IsWellFoundedOn(R, SUBSET U)
    BY FS_StrictSubsetOrderingWellFounded, FS_FiniteSubsetsOfFinite
<1> HIDE DEF R
<1>2. PICK m \in T : \A s \in T : <<s, m>> \notin R
    BY <1>1, WFMin
<1>3. ASSUME NEW s \in T, s \subseteq m PROVE s = m
    <2>1. s \in SUBSET U /\ m \in SUBSET U
        OBVIOUS
    <2>2. <<s, m>> \notin R
        BY <1>2
    <2> QED
        BY <1>3, <2>1, <2>2 DEF R, StrictSubsetOrdering
<1> QED
    BY <1>3

\* A set that is not empty has the element picked.
LEMMA PickIn == ASSUME NEW s, s # {} PROVE Pick(s) \in s
    BY DEF Pick

\* g adds up w over the subsets of U.
Adds(g, w, U) ==
    \A s \in SUBSET U : g[s] = IF s = {} THEN 0 ELSE w[Pick(s)] + g[s \ {Pick(s)}]

\* The equation has one solution at most.
LEMMA AddsUnique ==
    ASSUME NEW w, NEW U, IsFiniteSet(U), NEW g, NEW h, Adds(g, w, U), Adds(h, w, U)
    PROVE  \A s \in SUBSET U : g[s] = h[s]
<1> DEFINE Bad == {s \in SUBSET U : g[s] # h[s]}
<1> SUFFICES ASSUME Bad # {} PROVE FALSE
    OBVIOUS
<1>1. PICK m \in Bad : \A s \in Bad : s \subseteq m => s = m
    <2>1. Bad \in SUBSET SUBSET U
        OBVIOUS
    <2> HIDE DEF Bad
    <2> QED
        BY <2>1, HasMinimal
<1>2. m # {}
    BY DEF Adds
<1>3. m \ {Pick(m)} \in SUBSET U /\ m \ {Pick(m)} \notin Bad
    BY <1>1, <1>2, PickIn
<1> QED
    BY <1>2, <1>3 DEF Adds

\* So there is one such function, which MapThenSumSet chooses.
LEMMA AdderAdds ==
    ASSUME NEW w, NEW U, IsFiniteSet(U)
    PROVE  \A S \in SUBSET U : Adds(Adder(w, S), w, S)
<1> DEFINE Bad == {S \in SUBSET U : ~ Adds(Adder(w, S), w, S)}
<1> SUFFICES ASSUME Bad # {} PROVE FALSE
    OBVIOUS
<1>1. PICK m \in Bad : \A s \in Bad : s \subseteq m => s = m
    <2>1. Bad \in SUBSET SUBSET U
        OBVIOUS
    <2> HIDE DEF Bad
    <2> QED
        BY <2>1, HasMinimal
<1>2. \A s \in SUBSET m : s # m => Adds(Adder(w, s), w, s)
    BY <1>1
<1> DEFINE Part(s) == IF s = {} THEN 0 ELSE w[Pick(s)] + SumOf(w, s \ {Pick(s)})
           G == [s \in SUBSET m |-> Part(s)]
<1>3. ASSUME NEW s \in SUBSET m, s # m PROVE SumOf(w, s) = Part(s)
    <2>1. CASE s = {}
        BY <1>2, <1>3, <2>1 DEF Adds, SumOf
    <2>2. CASE s # {}
        <3> DEFINE r == s \ {Pick(s)}
        <3>1. r \in SUBSET s /\ r \in SUBSET m /\ r # m /\ Pick(s) \in s
            BY <2>2, PickIn
        <3>2. Adds(Adder(w, s), w, s) /\ Adds(Adder(w, r), w, r)
            BY <1>2, <1>3, <3>1
        <3>3. Adds(Adder(w, s), w, r)
            <4>1. SUBSET r \subseteq SUBSET s
                OBVIOUS
            <4> HIDE DEF r
            <4> QED
                BY <3>2, <4>1 DEF Adds
        <3>4. IsFiniteSet(r)
            BY <3>1, FS_Subset
        <3>5. Adder(w, s)[r] = Adder(w, r)[r]
            <4> HIDE DEF r
            <4> QED
                BY <3>2, <3>3, <3>4, AddsUnique
        <3>6. SumOf(w, s) = w[Pick(s)] + Adder(w, s)[r]
            BY <2>2, <3>2 DEF Adds, SumOf
        <3> QED
            BY <2>2, <3>5, <3>6 DEF SumOf
    <2> QED
        BY <2>1, <2>2
<1>4. \A s \in SUBSET m : s # {} => s \ {Pick(s)} \in SUBSET m /\ s \ {Pick(s)} # m
    BY PickIn
<1>5. G = [s \in SUBSET m |-> IF s = {} THEN 0 ELSE w[Pick(s)] + G[s \ {Pick(s)}]]
    <2> HIDE DEF Part
    <2>1. \A s \in SUBSET m : s # {} => G[s \ {Pick(s)}] = SumOf(w, s \ {Pick(s)})
        BY <1>3, <1>4
    <2>2. \A s \in SUBSET m : Part(s) = IF s = {} THEN 0 ELSE w[Pick(s)] + G[s \ {Pick(s)}]
        BY <2>1 DEF Part
    <2> QED
        BY <2>2
<1> DEFINE A == Adder(w, m)
<1>6. A = [s \in SUBSET m |-> IF s = {} THEN 0 ELSE w[Pick(s)] + A[s \ {Pick(s)}]]
    <2> HIDE DEF G
    <2> QED
        BY <1>5, Zenon DEF Adder
<1>7. Adds(A, w, m)
    <2> HIDE DEF A
    <2> QED
        BY <1>6 DEF Adds
<1> QED
    BY <1>1, <1>7
\* The sum over a set, and over what is left without one element.
LEMMA SumStep ==
    ASSUME NEW w, NEW S, IsFiniteSet(S)
    PROVE  SumOf(w, S) = IF S = {} THEN 0 ELSE w[Pick(S)] + SumOf(w, S \ {Pick(S)})
<1>1. Adds(Adder(w, S), w, S)
    BY AdderAdds
<1>2. CASE S = {}
    BY <1>1, <1>2 DEF Adds, SumOf
<1>3. CASE S # {}
    <2> DEFINE r == S \ {Pick(S)}
    <2>1. r \in SUBSET S /\ IsFiniteSet(r)
        BY FS_Subset
    <2>2. Adds(Adder(w, r), w, r)
        BY <2>1, AdderAdds
    <2>3. Adds(Adder(w, S), w, r)
        <3>1. SUBSET r \subseteq SUBSET S
            OBVIOUS
        <3> HIDE DEF r
        <3> QED
            BY <1>1, <3>1 DEF Adds
    <2>4. Adder(w, S)[r] = Adder(w, r)[r]
        <3> HIDE DEF r
        <3> QED
            BY <2>1, <2>2, <2>3, AddsUnique
    <2> QED
        BY <1>1, <1>3, <2>4 DEF Adds, SumOf
<1> QED
    BY <1>2, <1>3

\* Nothing adds up to nothing.
LEMMA SumEmpty == \A w : SumOf(w, {}) = 0
    BY SumStep, FS_EmptySet

\* A sum of integers (of natural numbers) is one.
LEMMA SumType ==
    ASSUME NEW w, NEW U, IsFiniteSet(U), NEW N \in {Int, Nat}, \A x \in U : w[x] \in N
    PROVE  SumOf(w, U) \in N
<1> DEFINE Bad == {s \in SUBSET U : SumOf(w, s) \notin N}
<1> SUFFICES ASSUME Bad # {} PROVE FALSE
    OBVIOUS
<1>1. PICK m \in Bad : \A s \in Bad : s \subseteq m => s = m
    <2>1. Bad \in SUBSET SUBSET U
        OBVIOUS
    <2> HIDE DEF Bad
    <2> QED
        BY <2>1, HasMinimal
<1>2. IsFiniteSet(m) /\ m \in SUBSET U
    BY FS_Subset
<1>3. m # {}
    BY SumEmpty
<1>4. Pick(m) \in m /\ SumOf(w, m \ {Pick(m)}) \in N
    BY <1>1, <1>3, PickIn
<1>5. w[Pick(m)] \in N
    BY <1>2, <1>4
<1>6. SumOf(w, m) = w[Pick(m)] + SumOf(w, m \ {Pick(m)})
    BY <1>2, <1>3, SumStep
<1> QED
    BY <1>4, <1>5, <1>6

\* Any element may be taken out first.
LEMMA SumTake ==
    ASSUME NEW w, NEW U, IsFiniteSet(U), \A x \in U : w[x] \in Int, NEW x \in U
    PROVE  SumOf(w, U) = w[x] + SumOf(w, U \ {x})
<1> DEFINE Fails(s, y) == SumOf(w, s) # w[y] + SumOf(w, s \ {y})
           Bad == {s \in SUBSET U : \E y \in s : Fails(s, y)}
<1> SUFFICES ASSUME Bad # {} PROVE FALSE
    OBVIOUS
<1>1. PICK m \in Bad : \A s \in Bad : s \subseteq m => s = m
    <2>1. Bad \in SUBSET SUBSET U
        OBVIOUS
    <2> HIDE DEF Bad
    <2> QED
        BY <2>1, HasMinimal
<1>2. IsFiniteSet(m) /\ m \in SUBSET U /\ m # {}
    BY FS_Subset
<1>3. PICK y \in m : Fails(m, y)
    BY <1>1
<1> DEFINE p == Pick(m)
<1>4. p \in m /\ SumOf(w, m) = w[p] + SumOf(w, m \ {p})
    BY <1>2, SumStep, PickIn
<1>5. p # y
    BY <1>3, <1>4
<1>6. m \ {p} \notin Bad /\ m \ {y} \notin Bad /\ m \ {p} \in SUBSET U /\ m \ {y} \in SUBSET U
    BY <1>1, <1>2, <1>4
<1>7. /\ SumOf(w, m \ {p}) = w[y] + SumOf(w, (m \ {p}) \ {y})
      /\ SumOf(w, m \ {y}) = w[p] + SumOf(w, (m \ {y}) \ {p})
    BY <1>4, <1>5, <1>6
<1>8. (m \ {p}) \ {y} = (m \ {y}) \ {p}
    OBVIOUS
<1>9. /\ w[p] \in Int /\ w[y] \in Int
      /\ SumOf(w, (m \ {y}) \ {p}) \in Int
    <2> DEFINE r == (m \ {y}) \ {p}
    <2>1. r \in SUBSET U /\ IsFiniteSet(r) /\ \A z \in r : w[z] \in Int
        BY <1>2, FS_Subset
    <2>2. SumOf(w, r) \in Int
        <3> HIDE DEF r
        <3> QED
            BY <2>1, SumType
    <2> QED
        BY <1>2, <1>4, <2>2
<1>10. SumOf(w, m) = w[y] + SumOf(w, m \ {y})
    <2> DEFINE all == SumOf(w, m)
               noP == SumOf(w, m \ {p})
               noY == SumOf(w, m \ {y})
               rest == SumOf(w, (m \ {y}) \ {p})
    <2>1. all = w[p] + noP /\ noP = w[y] + rest /\ noY = w[p] + rest
        BY <1>4, <1>7, <1>8, Zenon
    <2>2. rest \in Int /\ w[p] \in Int /\ w[y] \in Int
        BY <1>9
    <2> HIDE DEF all, noP, noY, rest, p
    <2>3. all = w[y] + noY
        BY <2>1, <2>2
    <2> QED
        BY <2>3 DEF all, noY
<1> QED
    BY <1>3, <1>10

\* Sums of smaller numbers are smaller.
LEMMA SumMono ==
    ASSUME NEW v, NEW w, NEW U, IsFiniteSet(U),
           \A x \in U : v[x] \in Int /\ w[x] \in Int /\ v[x] <= w[x]
    PROVE  SumOf(v, U) <= SumOf(w, U)
<1> DEFINE Bad == {s \in SUBSET U : ~ (SumOf(v, s) <= SumOf(w, s))}
<1> SUFFICES ASSUME Bad # {} PROVE FALSE
    OBVIOUS
<1>1. PICK m \in Bad : \A s \in Bad : s \subseteq m => s = m
    <2>1. Bad \in SUBSET SUBSET U
        OBVIOUS
    <2> HIDE DEF Bad
    <2> QED
        BY <2>1, HasMinimal
<1>2. IsFiniteSet(m) /\ m \in SUBSET U
    BY FS_Subset
<1>3. m # {}
    BY SumEmpty
<1> DEFINE p == Pick(m)
           r == m \ {p}
<1>4. p \in m /\ r \in SUBSET U /\ SumOf(v, r) <= SumOf(w, r)
    BY <1>1, <1>2, <1>3, PickIn
<1>5. SumOf(v, m) = v[p] + SumOf(v, r) /\ SumOf(w, m) = w[p] + SumOf(w, r)
    BY <1>2, <1>3, SumStep
<1>6. SumOf(v, r) \in Int /\ SumOf(w, r) \in Int
    <2>1. IsFiniteSet(r) /\ (\A z \in r : v[z] \in Int) /\ (\A z \in r : w[z] \in Int)
        BY <1>4, FS_Subset
    <2> HIDE DEF r
    <2> QED
        BY <2>1, SumType
<1>7. v[p] \in Int /\ w[p] \in Int /\ v[p] <= w[p]
    BY <1>2, <1>4
<1> HIDE DEF p, r
<1> QED
    BY <1>1, <1>4, <1>5, <1>6, <1>7

\* Sums differ as their only different numbers do.
LEMMA SumChange ==
    ASSUME NEW v, NEW w, NEW U, IsFiniteSet(U), NEW x \in U,
           \A y \in U : v[y] \in Int /\ w[y] \in Int,
           \A y \in U : y # x => v[y] = w[y]
    PROVE  SumOf(v, U) = SumOf(w, U) + v[x] - w[x]
<1> DEFINE r == U \ {x}
<1>1. IsFiniteSet(r) /\ \A y \in r : v[y] \in Int /\ w[y] \in Int /\ v[y] = w[y]
    BY FS_Subset
<1>2. /\ \A y \in r : v[y] \in Int /\ w[y] \in Int /\ v[y] <= w[y]
      /\ \A y \in r : w[y] \in Int /\ v[y] \in Int /\ w[y] <= v[y]
      /\ \A y \in r : v[y] \in Int
      /\ \A y \in r : w[y] \in Int
    BY <1>1
<1>3. SumOf(v, U) = v[x] + SumOf(v, r) /\ SumOf(w, U) = w[x] + SumOf(w, r)
    <2>1. (\A y \in U : v[y] \in Int) /\ (\A y \in U : w[y] \in Int)
        OBVIOUS
    <2> QED
        BY <2>1, SumTake
<1> HIDE DEF r
<1>4. SumOf(v, r) <= SumOf(w, r) /\ SumOf(w, r) <= SumOf(v, r)
    BY <1>1, <1>2, SumMono
<1>5. SumOf(v, r) \in Int /\ SumOf(w, r) \in Int
    BY <1>1, <1>2, SumType
<1>6. v[x] \in Int /\ w[x] \in Int
    OBVIOUS
<1> QED
    BY <1>3, <1>4, <1>5, <1>6

\* And so do zeros.
LEMMA SumZero ==
    ASSUME NEW w, NEW U, IsFiniteSet(U), \A x \in U : w[x] = 0
    PROVE  SumOf(w, U) = 0
<1> DEFINE Bad == {s \in SUBSET U : SumOf(w, s) # 0}
<1> SUFFICES ASSUME Bad # {} PROVE FALSE
    OBVIOUS
<1>1. PICK m \in Bad : \A s \in Bad : s \subseteq m => s = m
    <2>1. Bad \in SUBSET SUBSET U
        OBVIOUS
    <2> HIDE DEF Bad
    <2> QED
        BY <2>1, HasMinimal
<1>2. IsFiniteSet(m) /\ m \in SUBSET U /\ m # {}
    BY FS_Subset, SumEmpty
<1>3. Pick(m) \in m /\ SumOf(w, m \ {Pick(m)}) = 0
    BY <1>1, <1>2, PickIn
<1>4. SumOf(w, m) = w[Pick(m)] + SumOf(w, m \ {Pick(m)})
    BY <1>2, SumStep
<1> QED
    BY <1>2, <1>3, <1>4

\* A sum of natural numbers is at least each of them.
LEMMA SumElement ==
    ASSUME NEW w, NEW U, IsFiniteSet(U), \A y \in U : w[y] \in Nat, NEW x \in U
    PROVE  w[x] <= SumOf(w, U)
<1> DEFINE r == U \ {x}
<1>1. IsFiniteSet(r) /\ \A y \in r : w[y] \in Nat
    BY FS_Subset
<1>2. \A y \in U : w[y] \in Int
    OBVIOUS
<1>3. SumOf(w, U) = w[x] + SumOf(w, r)
    BY <1>2, SumTake
<1> HIDE DEF r
<1>4. SumOf(w, r) \in Nat
    BY <1>1, SumType
<1> QED
    BY <1>3, <1>4

\* A set of natural numbers has a least one.
LEMMA HasLeast ==
    ASSUME NEW T \in SUBSET Nat, T # {}
    PROVE  \E x \in T : \A y \in T : x <= y
<1> DEFINE R == {p \in Nat \X Nat : p[1] < p[2]}
<1>1. IsWellFoundedOn(R, Nat)
    BY NatLessThanWellFounded, Zenon DEF OpToRel
<1>2. PICK x \in T : \A y \in T : <<y, x>> \notin R
    <2> HIDE DEF R
    <2> QED
        BY <1>1, WFMin
<1>3. ASSUME NEW y \in T PROVE x <= y
    <2>1. x \in Nat /\ y \in Nat
        OBVIOUS
    <2>2. <<y, x>> \notin R
        BY <1>2
    <2> QED
        BY <2>1, <2>2
<1> QED
    BY <1>3

\* Numbers moved up by one place lose the last.
LEMMA SumShift ==
    ASSUME NEW n \in Nat, NEW f, NEW g, \A a \in 0..n : f[a] \in Nat,
           g[0] = 0, \A a \in 1..n : g[a] = f[a - 1]
    PROVE  SumOf(g, 0..n) + f[n] = SumOf(f, 0..n)
<1> DEFINE Fails(k) == SumOf(g, 0..k) + f[k] # SumOf(f, 0..k)
           Bad == {k \in 0..n : Fails(k)}
<1> SUFFICES ASSUME Bad # {} PROVE FALSE
    OBVIOUS
<1>1. PICK k \in Bad : \A j \in Bad : k <= j
    <2>1. Bad \in SUBSET Nat
        OBVIOUS
    <2> HIDE DEF Bad
    <2> QED
        BY <2>1, HasLeast
<1>2. k \in Nat /\ k <= n /\ IsFiniteSet(0..k) /\ k \in 0..k
    BY FS_Interval
<1>3. \A a \in 0..k : f[a] \in Int /\ g[a] \in Int
    <2>1. ASSUME NEW a \in 0..k PROVE f[a] \in Int /\ g[a] \in Int
        <3>1. a \in 0..n
            BY <1>2
        <3>2. CASE a = 0
            BY <3>1, <3>2
        <3>3. CASE a # 0
            <4>1. a \in 1..n /\ a - 1 \in 0..n
                BY <3>1, <3>3
            <4> QED
                BY <3>1, <4>1
        <3> QED
            BY <3>2, <3>3
    <2> QED
        BY <2>1
<1>4. SumOf(f, 0..k) = f[k] + SumOf(f, (0..k) \ {k}) /\ SumOf(g, 0..k) = g[k] + SumOf(g, (0..k) \ {k})
    <2> DEFINE I == 0..k
    <2>1. (\A a \in I : f[a] \in Int) /\ (\A a \in I : g[a] \in Int) /\ IsFiniteSet(I) /\ k \in I
        BY <1>2, <1>3
    <2> HIDE DEF I
    <2>2. ASSUME NEW w, \A a \in I : w[a] \in Int, NEW x \in I
          PROVE  SumOf(w, I) = w[x] + SumOf(w, I \ {x})
        <3> HIDE DEF Bad, Fails
        <3> QED
            BY <2>1, <2>2, SumTake
    <2> QED
        BY <2>1, <2>2, Zenon DEF I
<1>5. CASE k = 0
    <2>1. (0..k) \ {k} = {}
        BY <1>5
    <2>2. SumOf(f, (0..k) \ {k}) = 0 /\ SumOf(g, (0..k) \ {k}) = 0
        BY <2>1, SumEmpty, Zenon
    <2>3. g[k] = 0 /\ f[k] \in Int
        BY <1>2, <1>3, <1>5
    <2> QED
        BY <1>1, <1>4, <2>2, <2>3
<1>6. CASE k # 0
    <2>1. (0..k) \ {k} = 0..(k - 1) /\ k - 1 \in 0..n /\ k - 1 \notin Bad
        BY <1>1, <1>2, <1>6
    <2>2. SumOf(g, 0..(k - 1)) + f[k - 1] = SumOf(f, 0..(k - 1))
        BY <2>1
    <2>3. g[k] = f[k - 1] /\ f[k - 1] \in Int /\ f[k] \in Int
        BY <1>2, <1>3, <1>6
    <2>4. SumOf(g, 0..(k - 1)) \in Int
        <3>1. k - 1 \in Int /\ 0..(k - 1) \in SUBSET (0..k)
            BY <1>2
        <3>2. IsFiniteSet(0..(k - 1))
            BY <3>1, FS_Interval
        <3>3. \A a \in 0..(k - 1) : g[a] \in Int
            BY <1>3, <3>1
        <3> QED
            BY <3>2, <3>3, SumType
    <2>5. SumOf(f, 0..k) = f[k] + SumOf(f, 0..(k - 1)) /\ SumOf(g, 0..k) = g[k] + SumOf(g, 0..(k - 1))
        BY <1>4, <2>1, Zenon
    <2> QED
        BY <1>1, <2>2, <2>3, <2>4, <2>5
<1> QED
    BY <1>5, <1>6

-----------------------------------------------------------------------------
(* Counting failures *)

LEMMA AgeFacts ==
    /\ Window \in Nat \ {0} /\ MaxLag \in Nat /\ Oldest \in Nat /\ Window <= Oldest
    /\ Ages = 0..Oldest /\ IsFiniteSet(Ages) /\ 0 \in Ages
    /\ UserMax \in Nat \ {0} /\ IpMax \in Nat \ {0}
<1>1. /\ Window \in Nat \ {0} /\ MaxLag \in Nat
      /\ UserMax \in Nat \ {0} /\ IpMax \in Nat \ {0}
    BY GuardAssumption
<1>2. Oldest \in Nat /\ Window <= Oldest /\ Ages = 0..Oldest
    BY <1>1 DEF Oldest, Ages
<1>3. IsFiniteSet(Ages) /\ 0 \in Ages
    BY <1>2, FS_Interval
<1> QED
    BY <1>1, <1>2, <1>3

\* Count adds up; it is monotone.
LEMMA CountFacts ==
    /\ \A list \in Lists : Count(list) = SumOf(list, Ages) /\ Count(list) \in Nat
    /\ \A v, w \in Lists : (\A a \in Ages : v[a] <= w[a]) => Count(v) <= Count(w)
    /\ \A list \in Lists, a \in Ages : list[a] <= Count(list)
    /\ NoFailures \in Lists /\ Count(NoFailures) = 0
<1>1. ASSUME NEW list \in Lists PROVE Count(list) = SumOf(list, Ages) /\ Count(list) \in Nat
    <2>1. Count(list) = SumOf(list, Ages)
        BY SumIs, Zenon DEF Count
    <2>2. \A a \in Ages : list[a] \in Nat
        BY DEF Lists
    <2>3. SumOf(list, Ages) \in Nat
        BY <2>2, AgeFacts, SumType
    <2> QED
        BY <2>1, <2>3
<1>2. ASSUME NEW v \in Lists, NEW w \in Lists, \A a \in Ages : v[a] <= w[a]
      PROVE  Count(v) <= Count(w)
    <2>1. \A a \in Ages : v[a] \in Int /\ w[a] \in Int /\ v[a] <= w[a]
        BY <1>2 DEF Lists
    <2> QED
        BY <1>1, <2>1, AgeFacts, SumMono
<1>3. ASSUME NEW list \in Lists, NEW a \in Ages PROVE list[a] <= Count(list)
    <2>1. \A b \in Ages : list[b] \in Nat
        BY DEF Lists
    <2> QED
        BY <1>1, <2>1, AgeFacts, SumElement
<1>4. NoFailures \in Lists /\ \A a \in Ages : NoFailures[a] = 0
    BY DEF NoFailures, Lists
<1>5. Count(NoFailures) = 0
    BY <1>1, <1>4, AgeFacts, SumZero
<1> QED
    BY <1>1, <1>2, <1>3, <1>4, <1>5

\* One more failure counts for one at most, inside the window or out of it.
LEMMA CountAdded ==
    ASSUME NEW list \in Lists, NEW a \in Ages
    PROVE  /\ [list EXCEPT ![a] = @ + 1] \in Lists
           /\ Count(Recent([list EXCEPT ![a] = @ + 1], 0)) <= Count(Recent(list, 0)) + 1
<1> DEFINE more == [list EXCEPT ![a] = @ + 1]
           v == Recent(more, 0)
           w == Recent(list, 0)
           x == [w EXCEPT ![a] = @ + 1]
<1>1. more \in Lists /\ more[a] = list[a] + 1 /\ \A b \in Ages : b # a => more[b] = list[b]
    BY DEF Lists
<1> HIDE DEF more
<1>2. v \in Lists /\ w \in Lists
    BY <1>1, AgeFacts DEF Recent, Lists
<1>3. /\ \A b \in Ages : b # a => v[b] = w[b]
      /\ v[a] \in {w[a], w[a] + 1}
    BY <1>1, AgeFacts DEF Recent
<1> HIDE DEF v, w
<1>4. x \in Lists /\ x[a] = w[a] + 1 /\ \A b \in Ages : b # a => x[b] = w[b]
    BY <1>2 DEF Lists
<1>5. \A b \in Ages : v[b] <= x[b]
    BY <1>2, <1>3, <1>4 DEF Lists
<1> HIDE DEF x
<1>6. Count(v) <= Count(x)
    BY <1>2, <1>4, <1>5, CountFacts
<1>7. SumOf(x, Ages) = SumOf(w, Ages) + x[a] - w[a]
    <2>1. \A b \in Ages : x[b] \in Int /\ w[b] \in Int
        BY <1>2, <1>4 DEF Lists
    <2>2. IsFiniteSet(Ages) /\ \A b \in Ages : b # a => x[b] = w[b]
        BY <1>4, AgeFacts
    <2> QED
        BY <2>1, <2>2, SumChange
<1>8. Count(x) = Count(w) + 1
    <2>1. Count(x) = SumOf(x, Ages) /\ Count(w) = SumOf(w, Ages) /\ Count(w) \in Nat
        BY <1>2, <1>4, CountFacts
    <2>2. w[a] \in Nat
        BY <1>2 DEF Lists
    <2> QED
        BY <1>4, <1>7, <2>1, <2>2
<1> QED
    BY <1>1, <1>6, <1>8 DEF more, v, w

\* When time passes, failures leave the window and none enters it.
LEMMA CountOlder ==
    ASSUME NEW list \in Lists
    PROVE  /\ Older(list) \in Lists
           /\ Count(Recent(Older(list), 0)) <= Count(Recent(list, 0))
<1> DEFINE w == Recent(list, 0)
           g == [a \in Ages |-> IF a = 0 THEN 0 ELSE w[a - 1]]
           v == Recent(Older(list), 0)
<1>1. \A a \in Ages : a # 0 => a - 1 \in Ages
    BY AgeFacts
<1>2. Older(list) \in Lists
    <2>1. ASSUME NEW a \in Ages
          PROVE  (IF a = 0 THEN 0 ELSE list[a - 1] + IF a = Oldest THEN list[Oldest] ELSE 0) \in Nat
        BY <1>1, AgeFacts DEF Lists
    <2> QED
        BY <2>1 DEF Older, Lists
<1>3. w \in Lists /\ v \in Lists
    BY <1>2 DEF Recent, Lists
<1>4. g \in Lists
    <2> HIDE DEF w
    <2> QED
        BY <1>1, <1>3 DEF Lists
<1>5. \A a \in Ages : v[a] <= g[a]
    <2>1. ASSUME NEW a \in Ages PROVE v[a] <= g[a]
        <3>1. CASE a = 0
            BY <3>1, AgeFacts DEF Recent, Older
        <3>2. CASE a # 0 /\ a < Window
            <4>1. v[a] = list[a - 1]
                BY <1>1, <3>2, AgeFacts DEF Recent, Older, Lists
            <4>2. g[a] = list[a - 1]
                BY <1>1, <3>2, AgeFacts DEF Recent
            <4> QED
                BY <1>1, <3>2, <4>1, <4>2 DEF Lists
        <3>3. CASE ~(a < Window)
            <4>1. v[a] = 0
                BY <3>3, AgeFacts DEF Recent
            <4>2. g[a] \in Nat
                BY <1>4 DEF Lists
            <4> QED
                BY <4>1, <4>2
        <3> QED
            BY <3>1, <3>2, <3>3
    <2> QED
        BY <2>1
<1>6. Count(v) <= Count(g)
    <2> HIDE DEF v, g
    <2> QED
        BY <1>3, <1>4, <1>5, CountFacts
<1>7. SumOf(g, 0..Oldest) + w[Oldest] = SumOf(w, 0..Oldest)
    <2>1. /\ \A a \in 0..Oldest : w[a] \in Nat
          /\ g[0] = 0 /\ \A a \in 1..Oldest : g[a] = w[a - 1]
        <3> HIDE DEF w
        <3> QED
            BY <1>3, AgeFacts DEF Lists
    <2> HIDE DEF w, g
    <2> QED
        BY <2>1, AgeFacts, SumShift
<1>8. Count(g) <= Count(w)
    <2>1. /\ Count(g) = SumOf(g, Ages) /\ Count(w) = SumOf(w, Ages)
          /\ Count(g) \in Nat /\ Count(w) \in Nat
        <3> HIDE DEF w, g
        <3> QED
            BY <1>3, <1>4, CountFacts
    <2>2. w[Oldest] \in Nat
        BY <1>3, AgeFacts DEF Lists
    <2> HIDE DEF w, g
    <2> QED
        BY <1>7, <2>1, <2>2, AgeFacts
<1>9. Count(v) \in Nat /\ Count(g) \in Nat /\ Count(w) \in Nat
    <2> HIDE DEF v, w, g
    <2> QED
        BY <1>3, <1>4, CountFacts
<1> HIDE DEF v, w, g
<1> QED
    BY <1>2, <1>6, <1>8, <1>9 DEF v, w

\* What is dropped for being old was not in the window.
LEMMA CountRecent ==
    ASSUME NEW list \in Lists, NEW lag \in 0..MaxLag
    PROVE  /\ Recent(list, lag) \in Lists
           /\ \A a \in Ages : Recent(list, lag)[a] <= list[a]
           /\ Count(Recent(Recent(list, lag), 0)) <= Count(Recent(list, 0))
           /\ Count(Recent(Recent(list, lag), 0)) <= Count(Recent(list, lag))
<1> DEFINE u == Recent(list, lag)
           v == Recent(u, 0)
           w == Recent(list, 0)
<1>1. u \in Lists /\ w \in Lists /\ \A a \in Ages : u[a] <= list[a]
    BY DEF Recent, Lists
<1>2. v \in Lists /\ \A a \in Ages : v[a] <= w[a] /\ v[a] <= u[a]
    BY AgeFacts DEF Recent, Lists
<1> HIDE DEF u, v, w
<1>3. Count(v) <= Count(w) /\ Count(v) <= Count(u)
    BY <1>1, <1>2, CountFacts
<1> QED
    BY <1>1, <1>3 DEF u, v, w

LEMMA CountNone == Count(Recent(NoFailures, 0)) = 0
<1>1. Recent(NoFailures, 0) = NoFailures
    BY AgeFacts DEF Recent, NoFailures
<1> QED
    BY <1>1, CountFacts
-----------------------------------------------------------------------------
(* The invariant *)

ThreadRecords == [pc : {"idle", "check", "auth", "record", "clear"},
                  user : SUBSET Users, ip : SUBSET Ips, lag : 0..MaxLag]

TypeInv ==
    /\ byUser \in [Users -> Lists]
    /\ byIp \in [Ips -> Lists]
    /\ thread \in [Threads -> ThreadRecords]
    /\ failed \in [user : [Users -> Lists], ip : [Ips -> Lists]]
    /\ raced \in [user : SUBSET Users, ip : SUBSET Ips]

\* A request has one name and one address, and no delay while authenticate runs.
RequestInv ==
    \A t \in Threads :
        /\ thread[t].pc # "idle" =>
              \E u \in Users, i \in Ips : thread[t].user = {u} /\ thread[t].ip = {i}
        /\ thread[t].pc = "auth" => thread[t].lag = 0

\* Failures of age a that are about to be recorded.
UserDue(u, a) == {t \in Threads : thread[t].pc = "record" /\ u \in thread[t].user /\ thread[t].lag = a}
IpDue(i, a) == {t \in Threads : thread[t].pc = "record" /\ i \in thread[t].ip /\ thread[t].lag = a}

\* n failures on record and to be recorded are real, or there are enough anyway.
Covered(real, n, max) == real >= max \/ n <= real

\* Whatever is recorded within the longest window was a refused password.
CauseInv ==
    \A a \in Ages : a < Oldest =>
        /\ \A u \in Users :
              Covered(failed.user[u][a], byUser[u][a] + Cardinality(UserDue(u, a)), UserMax)
        /\ \A i \in Ips :
              Covered(failed.ip[i][a], byIp[i][a] + Cardinality(IpDue(i, a)), IpMax)

Inv == TypeInv /\ RequestInv /\ FailuresBounded /\ CauseInv
-----------------------------------------------------------------------------
(* The steps, field by field *)

\* A step of thread t leaves the other requests alone.
Others(t) == \A s \in Threads : s # t => thread'[s] = thread[s]

LEMMA IdleFact ==
    Idle \in ThreadRecords /\ Idle.pc = "idle" /\ Idle.lag = 0
    BY AgeFacts DEF Idle, ThreadRecords

LEMMA TickFact ==
    ASSUME TypeInv, Tick
    PROVE  /\ \A u \in Users : byUser'[u] = Older(byUser[u])
           /\ \A i \in Ips : byIp'[i] = Older(byIp[i])
           /\ \A u \in Users : failed'.user[u] = [Older(failed.user[u]) EXCEPT ![Oldest] = 0]
           /\ \A i \in Ips : failed'.ip[i] = [Older(failed.ip[i]) EXCEPT ![Oldest] = 0]
           /\ \A t \in Threads :
                 /\ thread'[t].pc = thread[t].pc
                 /\ thread'[t].user = thread[t].user /\ thread'[t].ip = thread[t].ip
                 /\ thread'[t].lag = IF Stamped(t) THEN thread[t].lag + 1 ELSE thread[t].lag
           /\ raced' = raced
           /\ TypeInv'
<1>1. /\ byUser' = OlderAll(byUser) /\ byIp' = OlderAll(byIp)
      /\ DOMAIN byUser = Users /\ DOMAIN byIp = Ips
    BY DEF Tick, TypeInv
<1>2. /\ byUser' = [u \in Users |-> Older(byUser[u])]
      /\ byIp' = [i \in Ips |-> Older(byIp[i])]
    BY <1>1 DEF OlderAll
<1>3. byUser' \in [Users -> Lists] /\ byIp' \in [Ips -> Lists]
    BY <1>2, CountOlder DEF TypeInv
<1>4. /\ failed'.user = [u \in Users |-> [Older(failed.user[u]) EXCEPT ![Oldest] = 0]]
      /\ failed'.ip = [i \in Ips |-> [Older(failed.ip[i]) EXCEPT ![Oldest] = 0]]
      /\ failed' = [user |-> failed'.user, ip |-> failed'.ip]
    BY DEF Tick
<1>5. ASSUME NEW list \in Lists PROVE [Older(list) EXCEPT ![Oldest] = 0] \in Lists
    BY CountOlder DEF Lists
<1>6. failed'.user \in [Users -> Lists] /\ failed'.ip \in [Ips -> Lists]
    BY <1>4, <1>5 DEF TypeInv
<1>7. ASSUME NEW t \in Threads
      PROVE  /\ thread'[t] \in ThreadRecords
             /\ thread'[t].pc = thread[t].pc
             /\ thread'[t].user = thread[t].user /\ thread'[t].ip = thread[t].ip
             /\ thread'[t].lag = IF Stamped(t) THEN thread[t].lag + 1 ELSE thread[t].lag
    <2>1. thread[t] \in ThreadRecords /\ thread[t].lag \in 0..MaxLag
        BY DEF TypeInv, ThreadRecords
    <2>2. thread'[t] = [thread[t] EXCEPT !.lag = IF Stamped(t) THEN @ + 1 ELSE @]
        BY DEF Tick
    <2>3. (IF Stamped(t) THEN thread[t].lag + 1 ELSE thread[t].lag) \in 0..MaxLag
        BY <2>1, AgeFacts DEF Tick
    <2> QED
        BY <2>1, <2>2, <2>3 DEF ThreadRecords
<1>8. thread' \in [Threads -> ThreadRecords]
    BY <1>7 DEF Tick
<1>9. raced' = raced
    BY DEF Tick
<1> QED
    BY <1>2, <1>3, <1>4, <1>6, <1>7, <1>8, <1>9 DEF TypeInv

LEMMA PostFact ==
    ASSUME TypeInv, NEW t \in Threads, NEW u \in Users, NEW i \in Ips, Post(t, u, i)
    PROVE  /\ UNCHANGED <<byUser, byIp, failed, raced>> /\ Others(t)
           /\ thread[t].pc = "idle" /\ thread'[t].pc = "check"
           /\ thread'[t].user = {u} /\ thread'[t].ip = {i}
           /\ TypeInv'
<1>1. [pc |-> "check", user |-> {u}, ip |-> {i}, lag |-> 0] \in ThreadRecords
    BY AgeFacts DEF ThreadRecords
<1> QED
    BY <1>1 DEF Post, TypeInv, Others

LEMMA CheckFact ==
    ASSUME TypeInv, NEW t \in Threads, NEW u \in Users, NEW i \in Ips, Check(t, u, i)
    PROVE  LET ofUser == Recent(byUser[u], thread[t].lag)
               ofIp == Recent(byIp[i], thread[t].lag)
           IN  /\ byUser'[u] = ofUser /\ \A v \in Users : v # u => byUser'[v] = byUser[v]
               /\ byIp'[i] = ofIp /\ \A j \in Ips : j # i => byIp'[j] = byIp[j]
               /\ failed' = failed /\ Others(t)
               /\ thread[t].pc = "check" /\ thread[t].lag \in 0..MaxLag
               /\ Limited(ofUser, ofIp) => thread'[t] = Idle /\ raced' = raced
               /\ ~Limited(ofUser, ofIp) =>
                     /\ thread'[t].pc = "auth" /\ thread'[t].lag = 0
                     /\ thread'[t].user = thread[t].user /\ thread'[t].ip = thread[t].ip
                     /\ raced' = Racing(u, i)
               /\ TypeInv'
<1> DEFINE ofUser == Recent(byUser[u], thread[t].lag)
           ofIp == Recent(byIp[i], thread[t].lag)
<1>1. thread[t] \in ThreadRecords /\ thread[t].lag \in 0..MaxLag
    BY DEF TypeInv, ThreadRecords
<1>2. ofUser \in Lists /\ ofIp \in Lists
    BY <1>1, CountRecent DEF TypeInv
<1>3. /\ thread[t].pc = "check"
      /\ byUser' = [byUser EXCEPT ![u] = ofUser] /\ byIp' = [byIp EXCEPT ![i] = ofIp]
      /\ thread' = [thread EXCEPT ![t] =
                      IF Limited(ofUser, ofIp) THEN Idle
                      ELSE [thread[t] EXCEPT !.pc = "auth", !.lag = 0]]
      /\ failed' = failed
      /\ raced' = IF Limited(ofUser, ofIp) THEN raced ELSE Racing(u, i)
    BY DEF Check
<1> HIDE DEF ofUser, ofIp
<1> DEFINE next == [thread[t] EXCEPT !.pc = "auth", !.lag = 0]
<1>4. /\ next \in ThreadRecords /\ next.pc = "auth" /\ next.lag = 0
      /\ next.user = thread[t].user /\ next.ip = thread[t].ip
    <2>1. 0 \in 0..MaxLag
        BY AgeFacts
    <2> QED
        BY <1>1, <2>1 DEF ThreadRecords
<1>5. thread' \in [Threads -> ThreadRecords] /\ Others(t)
      /\ thread'[t] = IF Limited(ofUser, ofIp) THEN Idle ELSE next
    <2> HIDE DEF next
    <2>1. thread' = [thread EXCEPT ![t] = IF Limited(ofUser, ofIp) THEN Idle ELSE next]
        BY <1>3 DEF next
    <2> QED
        BY <1>4, <2>1, IdleFact DEF TypeInv, Others
<1> HIDE DEF next
<1>6. TypeInv'
    <2>1. raced' \in [user : SUBSET Users, ip : SUBSET Ips]
        <3>1. raced \in [user : SUBSET Users, ip : SUBSET Ips]
            BY DEF TypeInv
        <3>2. Racing(u, i) \in [user : SUBSET Users, ip : SUBSET Ips]
            BY <3>1 DEF Racing
        <3> QED
            BY <1>3, <3>1, <3>2
    <2> QED
        BY <1>2, <1>3, <1>5, <2>1 DEF TypeInv
<1> QED
    BY <1>1, <1>3, <1>4, <1>5, <1>6 DEF TypeInv, ofUser, ofIp

LEMMA AcceptFact ==
    ASSUME TypeInv, NEW t \in Threads, Accept(t)
    PROVE  /\ UNCHANGED <<byUser, byIp, failed, raced>> /\ Others(t)
           /\ thread[t].pc = "auth" /\ thread'[t].pc = "clear"
           /\ thread'[t].user = thread[t].user /\ thread'[t].ip = thread[t].ip
           /\ TypeInv'
<1>1. thread' = [thread EXCEPT ![t].pc = "clear"] /\ thread[t] \in ThreadRecords
    BY DEF Accept, TypeInv
<1>2. thread' \in [Threads -> ThreadRecords]
    BY <1>1 DEF TypeInv, ThreadRecords
<1> QED
    BY <1>1, <1>2 DEF Accept, TypeInv, ThreadRecords, Others

LEMMA RaisesFact ==
    ASSUME TypeInv, NEW t \in Threads, Raises(t)
    PROVE  /\ UNCHANGED <<byUser, byIp, failed, raced>> /\ Others(t)
           /\ thread'[t] = Idle /\ TypeInv'
    BY IdleFact DEF Raises, TypeInv, Others

LEMMA MinFact == \A x, y \in Int : Min({x, y}) = IF x <= y THEN x ELSE y
<1> SUFFICES ASSUME NEW x \in Int, NEW y \in Int PROVE Min({x, y}) = IF x <= y THEN x ELSE y
    OBVIOUS
<1> DEFINE z == IF x <= y THEN x ELSE y
<1>1. z \in {x, y} /\ \A a \in {x, y} : z <= a
    OBVIOUS
<1>2. \A b \in {x, y} : (\A a \in {x, y} : b <= a) => b = z
    OBVIOUS
<1> HIDE DEF z
<1>3. Min({x, y}) = z
    BY <1>1, <1>2 DEF Min
<1> QED
    BY <1>3 DEF z

\* One more refused password, now.
Raised(list, max) == [list EXCEPT ![0] = Min({@ + 1, max})]

LEMMA RefuseFact ==
    ASSUME TypeInv, NEW t \in Threads, NEW u \in Users, NEW i \in Ips, Refuse(t, u, i)
    PROVE  /\ UNCHANGED <<byUser, byIp, raced>> /\ Others(t)
           /\ thread[t].pc = "auth" /\ thread'[t].pc = "record"
           /\ thread'[t].lag = thread[t].lag
           /\ thread'[t].user = thread[t].user /\ thread'[t].ip = thread[t].ip
           /\ failed'.user[u] = Raised(failed.user[u], UserMax)
           /\ failed'.ip[i] = Raised(failed.ip[i], IpMax)
           /\ \A v \in Users : v # u => failed'.user[v] = failed.user[v]
           /\ \A j \in Ips : j # i => failed'.ip[j] = failed.ip[j]
           /\ TypeInv'
<1>1. thread' = [thread EXCEPT ![t].pc = "record"] /\ thread[t] \in ThreadRecords
    BY DEF Refuse, TypeInv
<1>2. thread' \in [Threads -> ThreadRecords] /\ Others(t)
      /\ thread'[t].pc = "record" /\ thread'[t].lag = thread[t].lag
      /\ thread'[t].user = thread[t].user /\ thread'[t].ip = thread[t].ip
    BY <1>1 DEF TypeInv, ThreadRecords, Others
<1> DEFINE fu == Raised(failed.user[u], UserMax)
           fi == Raised(failed.ip[i], IpMax)
<1>3. fu \in Lists /\ fi \in Lists
    <2>1. failed.user[u] \in Lists /\ failed.ip[i] \in Lists
        BY DEF TypeInv
    <2>2. failed.user[u][0] \in Nat /\ failed.ip[i][0] \in Nat
        BY <2>1, AgeFacts DEF Lists
    <2>3. Min({failed.user[u][0] + 1, UserMax}) \in Nat /\ Min({failed.ip[i][0] + 1, IpMax}) \in Nat
        BY <2>2, AgeFacts, MinFact
    <2> QED
        BY <2>1, <2>3 DEF Lists, Raised
<1>4. failed' = [user |-> [failed.user EXCEPT ![u] = fu], ip |-> [failed.ip EXCEPT ![i] = fi]]
    BY DEF Refuse, TypeInv, Raised
<1> HIDE DEF fu, fi
<1>5. failed' \in [user : [Users -> Lists], ip : [Ips -> Lists]]
      /\ failed'.user[u] = fu /\ failed'.ip[i] = fi
      /\ (\A v \in Users : v # u => failed'.user[v] = failed.user[v])
      /\ (\A j \in Ips : j # i => failed'.ip[j] = failed.ip[j])
    BY <1>3, <1>4 DEF TypeInv
<1> QED
    BY <1>2, <1>5 DEF Refuse, TypeInv, fu, fi

LEMMA RecordFact ==
    ASSUME TypeInv, NEW t \in Threads, NEW u \in Users, NEW i \in Ips, RecordFailure(t, u, i)
    PROVE  /\ thread[t].pc = "record" /\ thread'[t] = Idle /\ Others(t)
           /\ UNCHANGED <<failed, raced>> /\ thread[t].lag \in Ages
           /\ byIp'[i] = [byIp[i] EXCEPT ![thread[t].lag] = @ + 1]
           /\ \A j \in Ips : j # i => byIp'[j] = byIp[j]
           /\ byUser'[u] \in {NoFailures, [byUser[u] EXCEPT ![thread[t].lag] = @ + 1]}
           /\ \A v \in Users : v # u => byUser'[v] \in {NoFailures, byUser[v]}
           /\ TypeInv'
<1>1. thread[t].lag \in Ages
    <2>1. thread[t].lag \in 0..MaxLag
        BY DEF TypeInv, ThreadRecords
    <2> QED
        BY <2>1, AgeFacts DEF Oldest, Ages
<1> DEFINE bu == [byUser[u] EXCEPT ![thread[t].lag] = @ + 1]
           bi == [byIp[i] EXCEPT ![thread[t].lag] = @ + 1]
<1>2. bu \in Lists /\ bi \in Lists /\ NoFailures \in Lists
    BY <1>1, CountAdded, CountFacts DEF TypeInv
<1>3. /\ byIp' = [byIp EXCEPT ![i] = bi]
      /\ byUser' = [v \in Users |-> IF v \in Evicted(u) THEN NoFailures
                                    ELSE IF v = u THEN bu ELSE byUser[v]]
    BY DEF RecordFailure, TypeInv
<1> HIDE DEF bu, bi
<1>4. byIp' \in [Ips -> Lists] /\ byIp'[i] = bi /\ \A j \in Ips : j # i => byIp'[j] = byIp[j]
    BY <1>2, <1>3 DEF TypeInv
<1>5. /\ byUser' \in [Users -> Lists] /\ byUser'[u] \in {NoFailures, bu}
      /\ \A v \in Users : v # u => byUser'[v] \in {NoFailures, byUser[v]}
    BY <1>2, <1>3 DEF TypeInv
<1>6. thread' \in [Threads -> ThreadRecords] /\ thread'[t] = Idle /\ Others(t)
    BY IdleFact DEF RecordFailure, TypeInv, Others
<1> QED
    BY <1>1, <1>4, <1>5, <1>6 DEF RecordFailure, TypeInv, bu, bi

LEMMA ClearFact ==
    ASSUME TypeInv, NEW t \in Threads, NEW u \in Users, NEW i \in Ips, ClearFailures(t, u, i)
    PROVE  /\ thread[t].pc = "clear" /\ thread'[t] = Idle /\ Others(t)
           /\ UNCHANGED <<failed, raced>> /\ byUser'[u] = NoFailures /\ \A v \in Users : v # u => byUser'[v] = byUser[v]
           /\ byIp'[i] = NoFailures /\ \A j \in Ips : j # i => byIp'[j] = byIp[j]
           /\ TypeInv'
    BY IdleFact, CountFacts DEF ClearFailures, TypeInv, Others
-----------------------------------------------------------------------------
(* The requests *)

LEMMA RequestNext ==
    ASSUME TypeInv, RequestInv, Next
    PROVE  RequestInv'
<1> DEFINE Good(r) == /\ r.pc # "idle" => \E u \in Users, i \in Ips : r.user = {u} /\ r.ip = {i}
                      /\ r.pc = "auth" => r.lag = 0
<1>1. \A s \in Threads : Good(thread[s])
    BY DEF RequestInv
<1>2. SUFFICES \A s \in Threads : Good(thread'[s])
    BY DEF RequestInv
<1>3. CASE Tick
    BY <1>1, <1>3, TickFact DEF Stamped
<1>4. ASSUME NEW t \in Threads, Others(t), Good(thread'[t])
      PROVE  \A s \in Threads : Good(thread'[s])
    BY <1>1, <1>4 DEF Others
<1>5. ASSUME NEW t \in Threads, NEW u \in Users, NEW i \in Ips, Post(t, u, i)
      PROVE  \A s \in Threads : Good(thread'[s])
    <2>1. Others(t) /\ Good(thread'[t])
        BY <1>5, PostFact
    <2> QED
        BY <1>4, <2>1
<1>6. ASSUME NEW t \in Threads, Serve(t)
      PROVE  \A s \in Threads : Good(thread'[s])
    <2>1. CASE Accept(t) \/ Raises(t)
        <3>1. Others(t) /\ Good(thread'[t])
            BY <1>1, <2>1, AcceptFact, RaisesFact, IdleFact
        <3> QED
            BY <1>4, <3>1
    <2>2. CASE ~(Accept(t) \/ Raises(t))
        <3>1. PICK u \in thread[t].user, i \in thread[t].ip :
                 Check(t, u, i) \/ Refuse(t, u, i) \/ RecordFailure(t, u, i) \/ ClearFailures(t, u, i)
            BY <1>6, <2>2 DEF Serve
        <3>2. u \in Users /\ i \in Ips
            BY DEF TypeInv, ThreadRecords
        <3>3. Others(t) /\ Good(thread'[t])
            <4>1. CASE Check(t, u, i)
                BY <1>1, <3>2, <4>1, CheckFact, IdleFact
            <4>2. CASE Refuse(t, u, i)
                <5>1. /\ Others(t) /\ thread[t].pc = "auth" /\ thread'[t].pc = "record"
                      /\ thread'[t].user = thread[t].user /\ thread'[t].ip = thread[t].ip
                    BY <3>2, <4>2, RefuseFact, Zenon
                <5> QED
                    BY <1>1, <5>1
            <4>3. CASE RecordFailure(t, u, i)
                BY <3>2, <4>3, RecordFact, IdleFact
            <4>4. CASE ClearFailures(t, u, i)
                BY <3>2, <4>4, ClearFact, IdleFact
            <4> QED
                BY <3>1, <4>1, <4>2, <4>3, <4>4
        <3> QED
            BY <1>4, <3>3
    <2> QED
        BY <2>1, <2>2
<1> QED
    BY <1>3, <1>5, <1>6 DEF Next

\* Whose step it is: a request's step is taken for its own name and address.
LEMMA StepOf ==
    ASSUME TypeInv, RequestInv, Next, NEW P,
           Tick => P,
           \A t \in Threads, u \in Users, i \in Ips : Post(t, u, i) => P,
           \A t \in Threads : Accept(t) \/ Raises(t) => P,
           \A t \in Threads, u \in Users, i \in Ips :
              /\ thread[t].user = {u} /\ thread[t].ip = {i}
              /\ Check(t, u, i) \/ Refuse(t, u, i) \/ RecordFailure(t, u, i) \/ ClearFailures(t, u, i)
              => P
    PROVE  P
<1>1. ASSUME NEW t \in Threads, Serve(t) PROVE P
    <2>1. CASE Accept(t) \/ Raises(t)
        BY <2>1
    <2>2. CASE ~(Accept(t) \/ Raises(t))
        <3>1. PICK u \in thread[t].user, i \in thread[t].ip :
                 Check(t, u, i) \/ Refuse(t, u, i) \/ RecordFailure(t, u, i) \/ ClearFailures(t, u, i)
            BY <1>1, <2>2 DEF Serve
        <3>2. thread[t].pc # "idle"
            BY <3>1 DEF Check, Refuse, RecordFailure, ClearFailures
        <3>3. u \in Users /\ i \in Ips /\ thread[t].user = {u} /\ thread[t].ip = {i}
            BY <3>2 DEF RequestInv
        <3> QED
            BY <3>1, <3>3
    <2> QED
        BY <2>1, <2>2
<1> QED
    BY <1>1 DEF Next
-----------------------------------------------------------------------------
(* FailuresBounded *)

LEMMA Sizes ==
    /\ Cardinality(Threads) \in Nat
    /\ \A S \in SUBSET Threads : Cardinality(S) \in Nat /\ Cardinality(S) <= Cardinality(Threads)
    /\ \A S \in SUBSET Threads, T \in SUBSET Threads :
          T \subseteq S => Cardinality(T) <= Cardinality(S)
    /\ \A S \in SUBSET Threads, T \in SUBSET Threads, t \in Threads :
          T \subseteq S /\ t \in S /\ t \notin T => Cardinality(T) + 1 <= Cardinality(S)
<1>1. IsFiniteSet(Threads) /\ Cardinality(Threads) \in Nat
    BY GuardAssumption, FS_CardinalityType
<1>2. ASSUME NEW S \in SUBSET Threads
      PROVE  IsFiniteSet(S) /\ Cardinality(S) \in Nat /\ Cardinality(S) <= Cardinality(Threads)
    BY <1>1, FS_Subset, FS_CardinalityType
<1>3. ASSUME NEW S \in SUBSET Threads, NEW T \in SUBSET Threads, T \subseteq S
      PROVE  Cardinality(T) <= Cardinality(S)
    BY <1>2, <1>3, FS_Subset
<1>4. ASSUME NEW S \in SUBSET Threads, NEW T \in SUBSET Threads, NEW t \in Threads,
             T \subseteq S, t \in S, t \notin T
      PROVE  Cardinality(T) + 1 <= Cardinality(S)
    <2>1. IsFiniteSet(S \ {t}) /\ Cardinality(S \ {t}) = Cardinality(S) - 1
        BY <1>2, <1>4, FS_RemoveElement
    <2>2. T \subseteq S \ {t} /\ S \ {t} \in SUBSET Threads
        BY <1>4
    <2>3. Cardinality(T) <= Cardinality(S \ {t})
        BY <1>3, <2>2
    <2> QED
        BY <1>2, <2>1, <2>3
<1> QED
    BY <1>1, <1>2, <1>3, <1>4

\* The bound for one name or address: max is its limit.
Bounded(list, under, max, spare) ==
    Count(Recent(list, 0)) + Cardinality(under) <= max + spare

LEMMA BoundIs ==
    FailuresBounded <=>
        /\ \A u \in Users : Bounded(byUser[u], UserUnder(u), UserMax, Spare(raced.user, u))
        /\ \A i \in Ips : Bounded(byIp[i], IpUnder(i), IpMax, Spare(raced.ip, i))
    BY DEF FailuresBounded, Bounded

LEMMA SpareFact == \A R, k : Spare(R, k) \in Int
    BY Sizes DEF Spare

\* How a step may change a list and the requests under way without harm.
LEMMA BoundedStep ==
    ASSUME NEW list \in Lists, NEW next \in Lists, NEW max \in Nat \ {0}, NEW spare \in Int,
           NEW S \in SUBSET Threads, NEW T \in SUBSET Threads, NEW t
    PROVE  /\ Bounded(list, S, max, spare) /\ T \subseteq S
              /\ Count(Recent(next, 0)) <= Count(Recent(list, 0))
              => Bounded(next, T, max, spare)
           /\ Bounded(list, S, max, spare) /\ T \subseteq S /\ t \in S /\ t \notin T
              /\ Count(Recent(next, 0)) <= Count(Recent(list, 0)) + 1
              => Bounded(next, T, max, spare)
           /\ Count(Recent(next, 0)) < max /\ Cardinality(T) <= spare + 1
              => Bounded(next, T, max, spare)
<1>1. Recent(list, 0) \in Lists /\ Recent(next, 0) \in Lists
    BY AgeFacts, CountRecent
<1>2. Count(Recent(list, 0)) \in Nat /\ Count(Recent(next, 0)) \in Nat
    BY <1>1, CountFacts
<1>3. /\ Cardinality(S) \in Nat /\ Cardinality(T) \in Nat
      /\ T \subseteq S => Cardinality(T) <= Cardinality(S)
      /\ T \subseteq S /\ t \in S /\ t \notin T => Cardinality(T) + 1 <= Cardinality(S)
    BY Sizes
<1> QED
    BY <1>2, <1>3 DEF Bounded

\* One request more finds room: it is alone, or the key is marked as raced.
LEMMA SpareEnough ==
    ASSUME NEW T \in SUBSET Threads, NEW t \in Threads, NEW R, NEW k, k \in R \/ T \subseteq {t}
    PROVE  Cardinality(T) <= Spare(R, k) + 1
<1>1. /\ Cardinality(T) \in Nat /\ Cardinality(Threads) \in Nat
      /\ Cardinality(T) <= Cardinality(Threads)
    BY Sizes
<1>2. CASE T \subseteq {t}
    <2>1. Cardinality({t}) = 1 /\ {t} \in SUBSET Threads
        BY FS_Singleton
    <2>2. Cardinality(T) <= 1 /\ Cardinality({t}) <= Cardinality(Threads)
        BY <1>2, <2>1, Sizes
    <2> QED
        BY <1>1, <2>1, <2>2 DEF Spare
<1>3. CASE k \in R
    BY <1>1, <1>3 DEF Spare
<1> QED
    BY <1>2, <1>3
\* A step of thread t takes t in or out, and no other request.
LEMMA UnderFacts ==
    ASSUME TypeInv, NEW t \in Threads, Others(t)
    PROVE  /\ \A u \in Users : UserUnder(u) \in SUBSET Threads /\ UserUnder(u)' \in SUBSET Threads
           /\ \A i \in Ips : IpUnder(i) \in SUBSET Threads /\ IpUnder(i)' \in SUBSET Threads
           /\ \A u \in Users, s \in Threads : s # t => (s \in UserUnder(u)' <=> s \in UserUnder(u))
           /\ \A i \in Ips, s \in Threads : s # t => (s \in IpUnder(i)' <=> s \in IpUnder(i))
           /\ \A u \in Users : t \in UserUnder(u)' <=>
                 thread'[t].pc \in {"auth", "record"} /\ u \in thread'[t].user
           /\ \A i \in Ips : t \in IpUnder(i)' <=>
                 thread'[t].pc \in {"auth", "record"} /\ i \in thread'[t].ip
           /\ \A u \in Users : t \in UserUnder(u) <=>
                 thread[t].pc \in {"auth", "record"} /\ u \in thread[t].user
           /\ \A i \in Ips : t \in IpUnder(i) <=>
                 thread[t].pc \in {"auth", "record"} /\ i \in thread[t].ip
    BY DEF UserUnder, IpUnder, UnderWay, Others

LEMMA BoundTick ==
    ASSUME TypeInv, FailuresBounded, Tick
    PROVE  FailuresBounded'
<1>1. ASSUME NEW u \in Users PROVE Bounded(byUser'[u], UserUnder(u)', UserMax, Spare(raced'.user, u))
    <2>1. UserUnder(u)' = UserUnder(u) /\ UserUnder(u) \in SUBSET Threads
        BY TickFact DEF UserUnder, UnderWay
    <2>2. /\ byUser[u] \in Lists /\ byUser'[u] \in Lists
          /\ Count(Recent(byUser'[u], 0)) <= Count(Recent(byUser[u], 0))
        BY TickFact, CountOlder DEF TypeInv
    <2>3. /\ Bounded(byUser[u], UserUnder(u), UserMax, Spare(raced.user, u))
          /\ UserMax \in Nat \ {0} /\ raced' = raced
        BY BoundIs, AgeFacts, TickFact
    <2> QED
        BY <2>1, <2>2, <2>3, BoundedStep, SpareFact
<1>2. ASSUME NEW i \in Ips PROVE Bounded(byIp'[i], IpUnder(i)', IpMax, Spare(raced'.ip, i))
    <2>1. IpUnder(i)' = IpUnder(i) /\ IpUnder(i) \in SUBSET Threads
        BY TickFact DEF IpUnder, UnderWay
    <2>2. /\ byIp[i] \in Lists /\ byIp'[i] \in Lists
          /\ Count(Recent(byIp'[i], 0)) <= Count(Recent(byIp[i], 0))
        BY TickFact, CountOlder DEF TypeInv
    <2>3. /\ Bounded(byIp[i], IpUnder(i), IpMax, Spare(raced.ip, i))
          /\ IpMax \in Nat \ {0} /\ raced' = raced
        BY BoundIs, AgeFacts, TickFact
    <2> QED
        BY <2>1, <2>2, <2>3, BoundedStep, SpareFact
<1> QED
    BY <1>1, <1>2 DEF FailuresBounded, Bounded
\* A request's step keeps the bound if it adds nothing, or takes itself out
\* and adds one failure, or passes the test.
LEMMA BoundStep ==
    ASSUME TypeInv, TypeInv', FailuresBounded, NEW t \in Threads, Others(t),
           \A u \in Users :
              \/ /\ t \in UserUnder(u)' => t \in UserUnder(u)
                 /\ Count(Recent(byUser'[u], 0)) <= Count(Recent(byUser[u], 0))
                 /\ u \in raced'.user <=> u \in raced.user
              \/ /\ t \in UserUnder(u) /\ t \notin UserUnder(u)'
                 /\ Count(Recent(byUser'[u], 0)) <= Count(Recent(byUser[u], 0)) + 1
                 /\ u \in raced'.user <=> u \in raced.user
              \/ /\ Count(Recent(byUser'[u], 0)) < UserMax
                 /\ u \in raced'.user \/ UserUnder(u)' \subseteq {t},
           \A i \in Ips :
              \/ /\ t \in IpUnder(i)' => t \in IpUnder(i)
                 /\ Count(Recent(byIp'[i], 0)) <= Count(Recent(byIp[i], 0))
                 /\ i \in raced'.ip <=> i \in raced.ip
              \/ /\ t \in IpUnder(i) /\ t \notin IpUnder(i)'
                 /\ Count(Recent(byIp'[i], 0)) <= Count(Recent(byIp[i], 0)) + 1
                 /\ i \in raced'.ip <=> i \in raced.ip
              \/ /\ Count(Recent(byIp'[i], 0)) < IpMax
                 /\ i \in raced'.ip \/ IpUnder(i)' \subseteq {t}
    PROVE  FailuresBounded'
<1>1. ASSUME NEW u \in Users PROVE Bounded(byUser'[u], UserUnder(u)', UserMax, Spare(raced'.user, u))
    <2> DEFINE S == UserUnder(u)
               T == UserUnder(u)'
    <2>1. S \in SUBSET Threads /\ T \in SUBSET Threads /\ \A s \in T : s # t => s \in S
        BY UnderFacts
    <2>2. byUser[u] \in Lists /\ byUser'[u] \in Lists /\ UserMax \in Nat \ {0}
        BY AgeFacts DEF TypeInv
    <2>3. Bounded(byUser[u], S, UserMax, Spare(raced.user, u))
        BY BoundIs
    <2>4. \/ /\ t \in T => t \in S
             /\ Count(Recent(byUser'[u], 0)) <= Count(Recent(byUser[u], 0))
             /\ u \in raced'.user <=> u \in raced.user
          \/ /\ t \in S /\ t \notin T
             /\ Count(Recent(byUser'[u], 0)) <= Count(Recent(byUser[u], 0)) + 1
             /\ u \in raced'.user <=> u \in raced.user
          \/ /\ Count(Recent(byUser'[u], 0)) < UserMax
             /\ u \in raced'.user \/ T \subseteq {t}
        OBVIOUS
    <2>5. (u \in raced'.user <=> u \in raced.user) => Spare(raced'.user, u) = Spare(raced.user, u)
        BY DEF Spare
    <2> DEFINE spare == Spare(raced'.user, u)
    <2>6. spare \in Int /\ (u \in raced'.user \/ T \subseteq {t} => Cardinality(T) <= spare + 1)
        BY <2>1, SpareFact, SpareEnough
    <2>7. (u \in raced'.user <=> u \in raced.user) => Bounded(byUser[u], S, UserMax, spare)
        BY <2>3, <2>5
    <2> HIDE DEF S, T, spare
    <2>8. Bounded(byUser'[u], T, UserMax, spare)
        BY <2>1, <2>2, <2>4, <2>6, <2>7, BoundedStep
    <2> QED
        BY <2>8 DEF T, spare
<1>2. ASSUME NEW i \in Ips PROVE Bounded(byIp'[i], IpUnder(i)', IpMax, Spare(raced'.ip, i))
    <2> DEFINE S == IpUnder(i)
               T == IpUnder(i)'
    <2>1. S \in SUBSET Threads /\ T \in SUBSET Threads /\ \A s \in T : s # t => s \in S
        BY UnderFacts
    <2>2. byIp[i] \in Lists /\ byIp'[i] \in Lists /\ IpMax \in Nat \ {0}
        BY AgeFacts DEF TypeInv
    <2>3. Bounded(byIp[i], S, IpMax, Spare(raced.ip, i))
        BY BoundIs
    <2>4. \/ /\ t \in T => t \in S
             /\ Count(Recent(byIp'[i], 0)) <= Count(Recent(byIp[i], 0))
             /\ i \in raced'.ip <=> i \in raced.ip
          \/ /\ t \in S /\ t \notin T
             /\ Count(Recent(byIp'[i], 0)) <= Count(Recent(byIp[i], 0)) + 1
             /\ i \in raced'.ip <=> i \in raced.ip
          \/ /\ Count(Recent(byIp'[i], 0)) < IpMax
             /\ i \in raced'.ip \/ T \subseteq {t}
        OBVIOUS
    <2>5. (i \in raced'.ip <=> i \in raced.ip) => Spare(raced'.ip, i) = Spare(raced.ip, i)
        BY DEF Spare
    <2> DEFINE spare == Spare(raced'.ip, i)
    <2>6. spare \in Int /\ (i \in raced'.ip \/ T \subseteq {t} => Cardinality(T) <= spare + 1)
        BY <2>1, SpareFact, SpareEnough
    <2>7. (i \in raced'.ip <=> i \in raced.ip) => Bounded(byIp[i], S, IpMax, spare)
        BY <2>3, <2>5
    <2> HIDE DEF S, T, spare
    <2>8. Bounded(byIp'[i], T, IpMax, spare)
        BY <2>1, <2>2, <2>4, <2>6, <2>7, BoundedStep
    <2> QED
        BY <2>8 DEF T, spare
<1> QED
    BY <1>1, <1>2 DEF FailuresBounded, Bounded

\* The number of failures in the window of a name or address.
LEMMA CountNat ==
    ASSUME TypeInv
    PROVE  /\ \A u \in Users : byUser[u] \in Lists /\ Count(Recent(byUser[u], 0)) \in Nat
           /\ \A i \in Ips : byIp[i] \in Lists /\ Count(Recent(byIp[i], 0)) \in Nat
<1>1. \A list \in Lists : Count(Recent(list, 0)) \in Nat
    BY AgeFacts, CountRecent, CountFacts
<1> QED
    BY <1>1 DEF TypeInv

LEMMA BoundNext ==
    ASSUME TypeInv, RequestInv, FailuresBounded, Next
    PROVE  FailuresBounded'
<1>1. ASSUME NEW t \in Threads, NEW u \in Users, NEW i \in Ips, Post(t, u, i)
      PROVE  FailuresBounded'
    <2>1. /\ TypeInv' /\ Others(t) /\ raced' = raced /\ byUser' = byUser /\ byIp' = byIp
          /\ thread'[t].pc = "check"
        BY <1>1, PostFact, Zenon
    <2>2. (\A v \in Users : t \notin UserUnder(v)') /\ (\A j \in Ips : t \notin IpUnder(j)')
        BY <2>1, UnderFacts
    <2> QED
        BY <2>1, <2>2, BoundStep, CountNat
<1>2. ASSUME NEW t \in Threads, Accept(t) \/ Raises(t)
      PROVE  FailuresBounded'
    <2>1. /\ TypeInv' /\ Others(t) /\ raced' = raced /\ byUser' = byUser /\ byIp' = byIp
          /\ thread'[t].pc \in {"idle", "clear"}
        BY <1>2, AcceptFact, RaisesFact, IdleFact
    <2>2. (\A v \in Users : t \notin UserUnder(v)') /\ (\A j \in Ips : t \notin IpUnder(j)')
        BY <2>1, UnderFacts
    <2> QED
        BY <2>1, <2>2, BoundStep, CountNat
<1>3. ASSUME NEW t \in Threads, NEW u \in Users, NEW i \in Ips,
             thread[t].user = {u}, thread[t].ip = {i}, Check(t, u, i)
      PROVE  FailuresBounded'
    <2> DEFINE lag == thread[t].lag
               ofUser == Recent(byUser[u], lag)
               ofIp == Recent(byIp[i], lag)
    <2>1. /\ byUser'[u] = ofUser /\ (\A v \in Users : v # u => byUser'[v] = byUser[v])
          /\ byIp'[i] = ofIp /\ (\A j \in Ips : j # i => byIp'[j] = byIp[j])
          /\ TypeInv' /\ Others(t) /\ lag \in 0..MaxLag
          /\ Limited(ofUser, ofIp) => thread'[t] = Idle /\ raced' = raced
          /\ ~Limited(ofUser, ofIp) => /\ thread'[t].user = {u} /\ thread'[t].ip = {i}
                                       /\ raced' = Racing(u, i)
        BY <1>3, CheckFact
    <2> HIDE DEF lag
    <2>2. /\ ofUser \in Lists /\ Count(Recent(ofUser, 0)) <= Count(Recent(byUser[u], 0))
          /\ Count(Recent(ofUser, 0)) <= Count(ofUser)
          /\ ofIp \in Lists /\ Count(Recent(ofIp, 0)) <= Count(Recent(byIp[i], 0))
          /\ Count(Recent(ofIp, 0)) <= Count(ofIp)
        BY <2>1, CountRecent, CountNat
    <2>3. /\ Count(ofUser) \in Nat /\ Count(ofIp) \in Nat
          /\ Count(Recent(ofUser, 0)) \in Nat /\ Count(Recent(ofIp, 0)) \in Nat
        BY <2>2, CountFacts, CountRecent, AgeFacts
    <2> HIDE DEF ofUser, ofIp
    <2>4. CASE Limited(ofUser, ofIp)
        <3>1. (\A v \in Users : t \notin UserUnder(v)') /\ (\A j \in Ips : t \notin IpUnder(j)')
            BY <2>1, <2>4, UnderFacts, IdleFact
        <3>2. ASSUME NEW v \in Users
              PROVE  Count(Recent(byUser'[v], 0)) <= Count(Recent(byUser[v], 0))
            BY <2>1, <2>2, CountNat
        <3>3. ASSUME NEW j \in Ips
              PROVE  Count(Recent(byIp'[j], 0)) <= Count(Recent(byIp[j], 0))
            BY <2>1, <2>2, CountNat
        <3> QED
            BY <2>1, <2>4, <3>1, <3>2, <3>3, BoundStep
    <2>5. CASE ~Limited(ofUser, ofIp)
        <3>1. Count(Recent(ofUser, 0)) < UserMax /\ Count(Recent(ofIp, 0)) < IpMax
            BY <2>2, <2>3, <2>5, AgeFacts DEF Limited
        <3>2. /\ \A v \in Users : v # u => t \notin UserUnder(v)'
              /\ \A j \in Ips : j # i => t \notin IpUnder(j)'
            BY <2>1, <2>5, UnderFacts
        <3>3. /\ u \in raced'.user \/ UserUnder(u) = {}
              /\ i \in raced'.ip \/ IpUnder(i) = {}
              /\ \A v \in Users : v # u => (v \in raced'.user <=> v \in raced.user)
              /\ \A j \in Ips : j # i => (j \in raced'.ip <=> j \in raced.ip)
            BY <2>1, <2>5 DEF Racing, TypeInv
        <3>4. /\ u \in raced'.user \/ UserUnder(u)' \subseteq {t}
              /\ i \in raced'.ip \/ IpUnder(i)' \subseteq {t}
            BY <2>1, <3>3, UnderFacts
        <3>5. ASSUME NEW v \in Users
              PROVE  \/ /\ t \in UserUnder(v)' => t \in UserUnder(v)
                        /\ Count(Recent(byUser'[v], 0)) <= Count(Recent(byUser[v], 0))
                        /\ v \in raced'.user <=> v \in raced.user
                     \/ /\ Count(Recent(byUser'[v], 0)) < UserMax
                        /\ v \in raced'.user \/ UserUnder(v)' \subseteq {t}
            BY <2>1, <3>1, <3>2, <3>3, <3>4, CountNat
        <3>6. ASSUME NEW j \in Ips
              PROVE  \/ /\ t \in IpUnder(j)' => t \in IpUnder(j)
                        /\ Count(Recent(byIp'[j], 0)) <= Count(Recent(byIp[j], 0))
                        /\ j \in raced'.ip <=> j \in raced.ip
                     \/ /\ Count(Recent(byIp'[j], 0)) < IpMax
                        /\ j \in raced'.ip \/ IpUnder(j)' \subseteq {t}
            BY <2>1, <3>1, <3>2, <3>3, <3>4, CountNat
        <3> QED
            BY <2>1, <3>5, <3>6, BoundStep
    <2> QED
        BY <2>4, <2>5
<1>4. ASSUME NEW t \in Threads, NEW u \in Users, NEW i \in Ips, Refuse(t, u, i)
      PROVE  FailuresBounded'
    <2>1. /\ TypeInv' /\ Others(t) /\ raced' = raced /\ byUser' = byUser /\ byIp' = byIp
          /\ thread[t].pc = "auth"
          /\ thread'[t].user = thread[t].user /\ thread'[t].ip = thread[t].ip
        BY <1>4, RefuseFact, Zenon
    <2>2. /\ \A v \in Users : t \in UserUnder(v)' => t \in UserUnder(v)
          /\ \A j \in Ips : t \in IpUnder(j)' => t \in IpUnder(j)
        BY <2>1, UnderFacts
    <2> QED
        BY <2>1, <2>2, BoundStep, CountNat
<1>5. ASSUME NEW t \in Threads, NEW u \in Users, NEW i \in Ips,
             thread[t].user = {u}, thread[t].ip = {i}, RecordFailure(t, u, i)
      PROVE  FailuresBounded'
    <2> DEFINE lag == thread[t].lag
               bu == [byUser[u] EXCEPT ![lag] = @ + 1]
               bi == [byIp[i] EXCEPT ![lag] = @ + 1]
    <2>1. /\ thread[t].pc = "record" /\ thread'[t] = Idle /\ Others(t) /\ TypeInv' /\ raced' = raced
          /\ lag \in Ages /\ byIp'[i] = bi /\ (\A j \in Ips : j # i => byIp'[j] = byIp[j])
          /\ byUser'[u] \in {NoFailures, bu}
          /\ (\A v \in Users : v # u => byUser'[v] \in {NoFailures, byUser[v]})
        BY <1>5, RecordFact
    <2> HIDE DEF lag
    <2>2. /\ Count(Recent(bu, 0)) <= Count(Recent(byUser[u], 0)) + 1
          /\ Count(Recent(bi, 0)) <= Count(Recent(byIp[i], 0)) + 1
        BY <2>1, CountAdded, CountNat
    <2> HIDE DEF bu, bi
    <2>3. /\ t \in UserUnder(u) /\ t \in IpUnder(i)
          /\ (\A v \in Users : t \notin UserUnder(v)') /\ (\A j \in Ips : t \notin IpUnder(j)')
        BY <1>5, <2>1, UnderFacts, IdleFact
    <2>4. ASSUME NEW v \in Users
          PROVE  \/ Count(Recent(byUser'[v], 0)) <= Count(Recent(byUser[v], 0))
                 \/ v = u /\ Count(Recent(byUser'[v], 0)) <= Count(Recent(byUser[v], 0)) + 1
        BY <2>1, <2>2, CountNat, CountNone
    <2>5. ASSUME NEW j \in Ips
          PROVE  \/ Count(Recent(byIp'[j], 0)) <= Count(Recent(byIp[j], 0))
                 \/ j = i /\ Count(Recent(byIp'[j], 0)) <= Count(Recent(byIp[j], 0)) + 1
        BY <2>1, <2>2, CountNat
    <2> QED
        BY <2>1, <2>3, <2>4, <2>5, BoundStep
<1>6. ASSUME NEW t \in Threads, NEW u \in Users, NEW i \in Ips, ClearFailures(t, u, i)
      PROVE  FailuresBounded'
    <2>1. /\ TypeInv' /\ Others(t) /\ thread'[t].pc = "idle" /\ raced' = raced
          /\ \A v \in Users : byUser'[v] \in {NoFailures, byUser[v]}
          /\ \A j \in Ips : byIp'[j] \in {NoFailures, byIp[j]}
        BY <1>6, ClearFact, IdleFact
    <2>2. (\A v \in Users : t \notin UserUnder(v)') /\ (\A j \in Ips : t \notin IpUnder(j)')
        BY <2>1, UnderFacts
    <2>3. /\ \A v \in Users : Count(Recent(byUser'[v], 0)) <= Count(Recent(byUser[v], 0))
          /\ \A j \in Ips : Count(Recent(byIp'[j], 0)) <= Count(Recent(byIp[j], 0))
        BY <2>1, CountNat, CountNone
    <2> QED
        BY <2>1, <2>2, <2>3, BoundStep
<1> QED
    BY <1>1, <1>2, <1>3, <1>4, <1>5, <1>6, BoundTick, StepOf
-----------------------------------------------------------------------------
(* RefusalJustified *)

\* Every failure on record or due (the set of requests S) was a refused password.
Caused(real, n, S, max) == Covered(real, n + Cardinality(S), max)

\* A step that adds nothing; one that records what was due; one that refuses.
Less(n, m, S, T, t) == m <= n /\ (t \in T => t \in S)
Moved(n, m, S, T, t) == m <= n + 1 /\ t \in S /\ t \notin T

LEMMA CausedStep ==
    ASSUME NEW real \in Nat, NEW next \in Nat, NEW n \in Nat, NEW m \in Nat, NEW max \in Nat,
           NEW S \in SUBSET Threads, NEW T \in SUBSET Threads, NEW t \in Threads,
           \A s \in T : s # t => s \in S,
           Caused(real, n, S, max),
           \/ next = real /\ (Less(n, m, S, T, t) \/ Moved(n, m, S, T, t))
           \/ (next >= max \/ next = real + 1) /\ m <= n
    PROVE  Caused(next, m, T, max)
<1>1. Cardinality(S) \in Nat /\ Cardinality(T) \in Nat
    BY Sizes
<1>2. T \subseteq S => Cardinality(T) <= Cardinality(S)
    BY Sizes
<1>3. T \subseteq S /\ t \in S /\ t \notin T => Cardinality(T) + 1 <= Cardinality(S)
    BY Sizes
<1>4. Cardinality(T) <= Cardinality(S) + 1
    <2>1. CASE t \notin T
        BY <1>1, <1>2, <2>1
    <2>2. CASE t \in T
        <3> DEFINE R == T \ {t}
        <3>1. R \subseteq S /\ R \in SUBSET Threads
            OBVIOUS
        <3>2. IsFiniteSet(T)
            BY GuardAssumption, FS_Subset
        <3>3. Cardinality(R) = Cardinality(T) - 1
            BY <2>2, <3>2, FS_RemoveElement
        <3>4. Cardinality(R) <= Cardinality(S)
            BY <3>1, Sizes
        <3> QED
            BY <1>1, <3>3, <3>4
    <2> QED
        BY <2>1, <2>2
<1>5. CASE next = real /\ Less(n, m, S, T, t)
    BY <1>1, <1>2, <1>5 DEF Less, Caused, Covered
<1>6. CASE next = real /\ Moved(n, m, S, T, t)
    BY <1>1, <1>3, <1>6 DEF Moved, Caused, Covered
<1>7. CASE (next >= max \/ next = real + 1) /\ m <= n
    BY <1>1, <1>4, <1>7 DEF Caused, Covered
<1> QED
    BY <1>5, <1>6, <1>7

LEMMA DueFacts ==
    ASSUME TypeInv, NEW t \in Threads, Others(t), NEW a \in Ages
    PROVE  /\ \A u \in Users : /\ UserDue(u, a) \in SUBSET Threads /\ UserDue(u, a)' \in SUBSET Threads
                               /\ \A s \in UserDue(u, a)' : s # t => s \in UserDue(u, a)
           /\ \A i \in Ips : /\ IpDue(i, a) \in SUBSET Threads /\ IpDue(i, a)' \in SUBSET Threads
                             /\ \A s \in IpDue(i, a)' : s # t => s \in IpDue(i, a)
           /\ thread'[t].pc # "record" =>
                 (\A u \in Users : t \notin UserDue(u, a)') /\ (\A i \in Ips : t \notin IpDue(i, a)')
<1>1. ASSUME NEW u \in Users
      PROVE  /\ UserDue(u, a) \in SUBSET Threads /\ UserDue(u, a)' \in SUBSET Threads
             /\ \A s \in UserDue(u, a)' : s # t => s \in UserDue(u, a)
             /\ thread'[t].pc # "record" => t \notin UserDue(u, a)'
    BY DEF UserDue, Others
<1>2. ASSUME NEW i \in Ips
      PROVE  /\ IpDue(i, a) \in SUBSET Threads /\ IpDue(i, a)' \in SUBSET Threads
             /\ \A s \in IpDue(i, a)' : s # t => s \in IpDue(i, a)
             /\ thread'[t].pc # "record" => t \notin IpDue(i, a)'
    BY DEF IpDue, Others
<1> QED
    BY <1>1, <1>2

\* The numbers of one name, one address and one age.
LEMMA CauseNat ==
    ASSUME TypeInv, NEW a \in Ages
    PROVE  /\ \A u \in Users : byUser[u][a] \in Nat /\ failed.user[u][a] \in Nat
           /\ \A i \in Ips : byIp[i][a] \in Nat /\ failed.ip[i][a] \in Nat
<1>1. \A list \in Lists : list[a] \in Nat
    BY DEF Lists
<1> QED
    BY <1>1 DEF TypeInv

LEMMA CauseStep ==
    ASSUME TypeInv, TypeInv', CauseInv, NEW t \in Threads, Others(t),
           \A a \in Ages : a < Oldest =>
              /\ \A u \in Users :
                    \/ /\ failed'.user[u][a] = failed.user[u][a]
                       /\ \/ Less(byUser[u][a], byUser'[u][a], UserDue(u, a), UserDue(u, a)', t)
                          \/ Moved(byUser[u][a], byUser'[u][a], UserDue(u, a), UserDue(u, a)', t)
                    \/ /\ failed'.user[u][a] >= UserMax \/ failed'.user[u][a] = failed.user[u][a] + 1
                       /\ byUser'[u][a] <= byUser[u][a]
              /\ \A i \in Ips :
                    \/ /\ failed'.ip[i][a] = failed.ip[i][a]
                       /\ \/ Less(byIp[i][a], byIp'[i][a], IpDue(i, a), IpDue(i, a)', t)
                          \/ Moved(byIp[i][a], byIp'[i][a], IpDue(i, a), IpDue(i, a)', t)
                    \/ /\ failed'.ip[i][a] >= IpMax \/ failed'.ip[i][a] = failed.ip[i][a] + 1
                       /\ byIp'[i][a] <= byIp[i][a]
    PROVE  CauseInv'
<1> SUFFICES ASSUME NEW a \in Ages, a < Oldest
             PROVE  /\ \A u \in Users : Caused(failed'.user[u][a], byUser'[u][a], UserDue(u, a)', UserMax)
                    /\ \A i \in Ips : Caused(failed'.ip[i][a], byIp'[i][a], IpDue(i, a)', IpMax)
    BY DEF CauseInv, Caused
<1>0. UserMax \in Nat /\ IpMax \in Nat
    BY AgeFacts
<1>1. /\ \A u \in Users : byUser[u][a] \in Nat /\ failed.user[u][a] \in Nat
                         /\ byUser'[u][a] \in Nat /\ failed'.user[u][a] \in Nat
      /\ \A i \in Ips : byIp[i][a] \in Nat /\ failed.ip[i][a] \in Nat
                       /\ byIp'[i][a] \in Nat /\ failed'.ip[i][a] \in Nat
    <2>1. \A list \in Lists : list[a] \in Nat
        BY DEF Lists
    <2> QED
        BY <2>1 DEF TypeInv
<1>2. ASSUME NEW u \in Users
      PROVE  Caused(failed'.user[u][a], byUser'[u][a], UserDue(u, a)', UserMax)
    <2>1. /\ UserDue(u, a) \in SUBSET Threads /\ UserDue(u, a)' \in SUBSET Threads
          /\ \A s \in UserDue(u, a)' : s # t => s \in UserDue(u, a)
        BY DueFacts
    <2>2. Caused(failed.user[u][a], byUser[u][a], UserDue(u, a), UserMax)
        BY DEF CauseInv, Caused
    <2> DEFINE n == byUser[u][a]
               m == byUser'[u][a]
               S == UserDue(u, a)
               T == UserDue(u, a)'
               real == failed.user[u][a]
               next == failed'.user[u][a]
    <2>3. n \in Nat /\ m \in Nat /\ real \in Nat /\ next \in Nat
        BY <1>1
    <2>4. \/ next = real /\ (Less(n, m, S, T, t) \/ Moved(n, m, S, T, t))
          \/ (next >= UserMax \/ next = real + 1) /\ m <= n
        OBVIOUS
    <2>5. S \in SUBSET Threads /\ T \in SUBSET Threads /\ (\A s \in T : s # t => s \in S)
          /\ Caused(real, n, S, UserMax)
        BY <2>1, <2>2
    <2> HIDE DEF n, m, S, T, real, next
    <2>6. Caused(next, m, T, UserMax)
        BY <1>0, <2>3, <2>4, <2>5, CausedStep
    <2> QED
        BY <2>6 DEF next, m, T
<1>3. ASSUME NEW i \in Ips
      PROVE  Caused(failed'.ip[i][a], byIp'[i][a], IpDue(i, a)', IpMax)
    <2>1. /\ IpDue(i, a) \in SUBSET Threads /\ IpDue(i, a)' \in SUBSET Threads
          /\ \A s \in IpDue(i, a)' : s # t => s \in IpDue(i, a)
        BY DueFacts
    <2>2. Caused(failed.ip[i][a], byIp[i][a], IpDue(i, a), IpMax)
        BY DEF CauseInv, Caused
    <2> DEFINE n == byIp[i][a]
               m == byIp'[i][a]
               S == IpDue(i, a)
               T == IpDue(i, a)'
               real == failed.ip[i][a]
               next == failed'.ip[i][a]
    <2>3. n \in Nat /\ m \in Nat /\ real \in Nat /\ next \in Nat
        BY <1>1
    <2>4. \/ next = real /\ (Less(n, m, S, T, t) \/ Moved(n, m, S, T, t))
          \/ (next >= IpMax \/ next = real + 1) /\ m <= n
        OBVIOUS
    <2>5. S \in SUBSET Threads /\ T \in SUBSET Threads /\ (\A s \in T : s # t => s \in S)
          /\ Caused(real, n, S, IpMax)
        BY <2>1, <2>2
    <2> HIDE DEF n, m, S, T, real, next
    <2>6. Caused(next, m, T, IpMax)
        BY <1>0, <2>3, <2>4, <2>5, CausedStep
    <2> QED
        BY <2>6 DEF next, m, T
<1> QED
    BY <1>2, <1>3

LEMMA CauseTick ==
    ASSUME TypeInv, CauseInv, Tick
    PROVE  CauseInv'
<1> SUFFICES ASSUME NEW a \in Ages, a < Oldest
             PROVE  /\ \A u \in Users : Caused(failed'.user[u][a], byUser'[u][a], UserDue(u, a)', UserMax)
                    /\ \A i \in Ips : Caused(failed'.ip[i][a], byIp'[i][a], IpDue(i, a)', IpMax)
    BY DEF CauseInv, Caused
<1>1. \A t \in Threads : thread[t].lag \in Nat
    BY AgeFacts DEF TypeInv, ThreadRecords
<1>2. \A t \in Threads : thread[t].pc = "record" => thread'[t].lag = thread[t].lag + 1
    BY TickFact DEF Stamped
<1>3. ASSUME NEW list \in Lists
      PROVE  /\ Older(list)[a] = IF a = 0 THEN 0 ELSE list[a - 1]
             /\ [Older(list) EXCEPT ![Oldest] = 0][a] = Older(list)[a]
    <2>1. a \in 0..Oldest /\ (a # 0 => a - 1 \in Ages)
        BY AgeFacts
    <2>2. a # 0 => list[a - 1] \in Nat
        BY <2>1 DEF Lists
    <2>3. Older(list) \in Lists
        BY CountOlder
    <2>4. Older(list)[a] = IF a = 0 THEN 0 ELSE list[a - 1]
        BY <2>1, <2>2, AgeFacts DEF Older
    <2>5. [Older(list) EXCEPT ![Oldest] = 0][a] = Older(list)[a]
        BY <2>1, <2>3, AgeFacts DEF Lists
    <2> QED
        BY <2>4, <2>5
<1>4. CASE a = 0
    <2>1. ASSUME NEW u \in Users PROVE UserDue(u, a)' = {}
        BY <1>1, <1>2, <1>4, TickFact DEF UserDue
    <2>2. ASSUME NEW i \in Ips PROVE IpDue(i, a)' = {}
        BY <1>1, <1>2, <1>4, TickFact DEF IpDue
    <2>3. /\ \A u \in Users : byUser'[u][a] = 0 /\ failed'.user[u][a] = 0
          /\ \A i \in Ips : byIp'[i][a] = 0 /\ failed'.ip[i][a] = 0
        <3>1. /\ \A u \in Users : byUser[u] \in Lists /\ failed.user[u] \in Lists
              /\ \A i \in Ips : byIp[i] \in Lists /\ failed.ip[i] \in Lists
            BY DEF TypeInv
        <3>2. ASSUME NEW list \in Lists
              PROVE  Older(list)[a] = 0 /\ [Older(list) EXCEPT ![Oldest] = 0][a] = 0
            BY <1>3, <1>4
        <3>3. ASSUME NEW u \in Users PROVE byUser'[u][a] = 0 /\ failed'.user[u][a] = 0
            <4>1. /\ byUser'[u] = Older(byUser[u])
                  /\ failed'.user[u] = [Older(failed.user[u]) EXCEPT ![Oldest] = 0]
                BY TickFact
            <4> QED
                BY <3>1, <3>2, <4>1, Zenon
        <3>4. ASSUME NEW i \in Ips PROVE byIp'[i][a] = 0 /\ failed'.ip[i][a] = 0
            <4>1. /\ byIp'[i] = Older(byIp[i])
                  /\ failed'.ip[i] = [Older(failed.ip[i]) EXCEPT ![Oldest] = 0]
                BY TickFact
            <4> QED
                BY <3>1, <3>2, <4>1, Zenon
        <3> QED
            BY <3>3, <3>4
    <2>4. Cardinality({}) = 0
        BY FS_EmptySet
    <2> QED
        <3>1. /\ \A u \in Users : Covered(failed'.user[u][a], byUser'[u][a] + Cardinality(UserDue(u, a)'), UserMax)
              /\ \A i \in Ips : Covered(failed'.ip[i][a], byIp'[i][a] + Cardinality(IpDue(i, a)'), IpMax)
            <4>1. \A max : Covered(0, 0 + 0, max)
                BY DEF Covered
            <4>2. /\ \A u \in Users : Cardinality(UserDue(u, a)') = 0
                  /\ \A i \in Ips : Cardinality(IpDue(i, a)') = 0
                BY <2>1, <2>2, <2>4, Zenon
            <4> QED
                BY <2>3, <4>1, <4>2, Zenon
        <3> QED
            BY <3>1 DEF Caused
<1>5. CASE a # 0
    <2>0. a - 1 \in Ages /\ a - 1 < Oldest
        BY <1>5, AgeFacts
    <2>1. ASSUME NEW u \in Users PROVE UserDue(u, a)' = UserDue(u, a - 1)
        BY <1>1, <1>2, <2>0, AgeFacts, TickFact DEF UserDue
    <2>2. ASSUME NEW i \in Ips PROVE IpDue(i, a)' = IpDue(i, a - 1)
        BY <1>1, <1>2, <2>0, AgeFacts, TickFact DEF IpDue
    <2>3. /\ \A u \in Users : byUser'[u][a] = byUser[u][a - 1] /\ failed'.user[u][a] = failed.user[u][a - 1]
          /\ \A i \in Ips : byIp'[i][a] = byIp[i][a - 1] /\ failed'.ip[i][a] = failed.ip[i][a - 1]
        BY <1>3, <1>5, TickFact DEF TypeInv
    <2>4. /\ \A u \in Users : Caused(failed.user[u][a - 1], byUser[u][a - 1], UserDue(u, a - 1), UserMax)
          /\ \A i \in Ips : Caused(failed.ip[i][a - 1], byIp[i][a - 1], IpDue(i, a - 1), IpMax)
        BY <2>0 DEF CauseInv, Caused
    <2> QED
        BY <2>1, <2>2, <2>3, <2>4
<1> QED
    BY <1>4, <1>5
\* Steps that refuse nothing and leave nothing due.
LEMMA CauseLess ==
    ASSUME TypeInv, TypeInv', CauseInv, NEW t \in Threads, Others(t), failed' = failed,
           thread'[t].pc # "record",
           \A u \in Users, a \in Ages : byUser'[u][a] <= byUser[u][a],
           \A i \in Ips, a \in Ages : byIp'[i][a] <= byIp[i][a]
    PROVE  CauseInv'
<1>1. ASSUME NEW a \in Ages, NEW u \in Users
      PROVE  Less(byUser[u][a], byUser'[u][a], UserDue(u, a), UserDue(u, a)', t)
    BY DueFacts DEF Less
<1>2. ASSUME NEW a \in Ages, NEW i \in Ips
      PROVE  Less(byIp[i][a], byIp'[i][a], IpDue(i, a), IpDue(i, a)', t)
    BY DueFacts DEF Less
<1> QED
    BY <1>1, <1>2, CauseStep

LEMMA CauseRefuse ==
    ASSUME TypeInv, RequestInv, CauseInv, NEW t \in Threads, NEW u \in Users, NEW i \in Ips,
           thread[t].user = {u}, thread[t].ip = {i}, Refuse(t, u, i)
    PROVE  CauseInv'
<1>1. /\ byUser' = byUser /\ byIp' = byIp /\ Others(t) /\ TypeInv'
      /\ thread[t].pc = "auth" /\ thread'[t].lag = thread[t].lag
      /\ thread'[t].user = {u} /\ thread'[t].ip = {i}
    BY RefuseFact, Zenon
<1>2. thread'[t].lag = 0
    BY <1>1 DEF RequestInv
<1>6. /\ failed'.user[u] = Raised(failed.user[u], UserMax)
      /\ failed'.ip[i] = Raised(failed.ip[i], IpMax)
      /\ \A v \in Users : v # u => failed'.user[v] = failed.user[v]
      /\ \A j \in Ips : j # i => failed'.ip[j] = failed.ip[j]
    BY RefuseFact, Zenon
<1>3. ASSUME NEW x \in Nat, NEW max \in Nat \ {0}
      PROVE  Min({x + 1, max}) >= max \/ Min({x + 1, max}) = x + 1
    <2>1. x + 1 \in Int /\ max \in Int
        OBVIOUS
    <2>2. Min({x + 1, max}) = IF x + 1 <= max THEN x + 1 ELSE max
        BY <2>1, MinFact
    <2> QED
        BY <2>2
<1>4. ASSUME NEW a \in Ages, NEW v \in Users
      PROVE  \/ /\ failed'.user[v][a] = failed.user[v][a]
                /\ Less(byUser[v][a], byUser'[v][a], UserDue(v, a), UserDue(v, a)', t)
             \/ /\ failed'.user[v][a] >= UserMax \/ failed'.user[v][a] = failed.user[v][a] + 1
                /\ byUser'[v][a] <= byUser[v][a]
    <2>0. byUser[v][a] \in Nat /\ failed.user[v] \in Lists /\ failed.user[v][a] \in Nat
        BY CauseNat DEF TypeInv
    <2>1. CASE v = u /\ a = 0
        <3>2. failed'.user[v][a] = Min({failed.user[v][a] + 1, UserMax})
            BY <1>6, <2>0, <2>1, AgeFacts DEF Lists, Raised
        <3>3. failed'.user[v][a] >= UserMax \/ failed'.user[v][a] = failed.user[v][a] + 1
            BY <1>3, <2>0, <3>2, AgeFacts
        <3> QED
            BY <1>1, <2>0, <3>3
    <2>2. CASE ~(v = u /\ a = 0)
        <3>1. failed'.user[v][a] = failed.user[v][a]
            BY <1>6, <2>0, <2>2 DEF Lists, Raised
        <3>2. t \notin UserDue(v, a)'
            BY <1>1, <1>2, <2>2 DEF UserDue
        <3> QED
            BY <1>1, <2>0, <3>1, <3>2 DEF Less
    <2> QED
        BY <2>1, <2>2
<1>5. ASSUME NEW a \in Ages, NEW j \in Ips
      PROVE  \/ /\ failed'.ip[j][a] = failed.ip[j][a]
                /\ Less(byIp[j][a], byIp'[j][a], IpDue(j, a), IpDue(j, a)', t)
             \/ /\ failed'.ip[j][a] >= IpMax \/ failed'.ip[j][a] = failed.ip[j][a] + 1
                /\ byIp'[j][a] <= byIp[j][a]
    <2>0. byIp[j][a] \in Nat /\ failed.ip[j] \in Lists /\ failed.ip[j][a] \in Nat
        BY CauseNat DEF TypeInv
    <2>1. CASE j = i /\ a = 0
        <3>2. failed'.ip[j][a] = Min({failed.ip[j][a] + 1, IpMax})
            BY <1>6, <2>0, <2>1, AgeFacts DEF Lists, Raised
        <3>3. failed'.ip[j][a] >= IpMax \/ failed'.ip[j][a] = failed.ip[j][a] + 1
            BY <1>3, <2>0, <3>2, AgeFacts
        <3> QED
            BY <1>1, <2>0, <3>3
    <2>2. CASE ~(j = i /\ a = 0)
        <3>1. failed'.ip[j][a] = failed.ip[j][a]
            BY <1>6, <2>0, <2>2 DEF Lists, Raised
        <3>2. t \notin IpDue(j, a)'
            BY <1>1, <1>2, <2>2 DEF IpDue
        <3> QED
            BY <1>1, <2>0, <3>1, <3>2 DEF Less
    <2> QED
        BY <2>1, <2>2
<1> QED
    BY <1>1, <1>4, <1>5, CauseStep

LEMMA CauseRecord ==
    ASSUME TypeInv, CauseInv, NEW t \in Threads, NEW u \in Users, NEW i \in Ips,
           thread[t].user = {u}, thread[t].ip = {i}, RecordFailure(t, u, i)
    PROVE  CauseInv'
<1> DEFINE lag == thread[t].lag
<1>1. /\ thread[t].pc = "record" /\ thread'[t] = Idle /\ Others(t) /\ failed' = failed
      /\ TypeInv' /\ lag \in Ages
    BY RecordFact
<1>5. /\ byIp'[i] = [byIp[i] EXCEPT ![lag] = @ + 1]
      /\ \A j \in Ips : j # i => byIp'[j] = byIp[j]
      /\ byUser'[u] \in {NoFailures, [byUser[u] EXCEPT ![lag] = @ + 1]}
      /\ \A v \in Users : v # u => byUser'[v] \in {NoFailures, byUser[v]}
    BY RecordFact
<1> HIDE DEF lag
<1>2. ASSUME NEW list \in Lists, NEW a \in Ages
      PROVE  /\ NoFailures[a] = 0 /\ list[a] \in Nat
             /\ [list EXCEPT ![lag] = @ + 1][a] = IF a = lag THEN list[a] + 1 ELSE list[a]
    BY DEF Lists, NoFailures
<1>3. ASSUME NEW a \in Ages, NEW v \in Users
      PROVE  \/ Less(byUser[v][a], byUser'[v][a], UserDue(v, a), UserDue(v, a)', t)
             \/ Moved(byUser[v][a], byUser'[v][a], UserDue(v, a), UserDue(v, a)', t)
    <2>1. t \notin UserDue(v, a)' /\ (v = u /\ a = lag => t \in UserDue(v, a))
        BY <1>1, IdleFact DEF UserDue, lag
    <2>2. byUser[v] \in Lists /\ byUser[v][a] \in Nat
        BY CauseNat DEF TypeInv
    <2>3. CASE v = u
        <3>1. byUser'[v] \in {NoFailures, [byUser[v] EXCEPT ![lag] = @ + 1]}
            BY <1>5, <2>3
        <3>2. byUser'[v][a] = 0 \/ byUser'[v][a] = IF a = lag THEN byUser[v][a] + 1 ELSE byUser[v][a]
            <4>1. CASE byUser'[v] = NoFailures
                BY <1>2, <2>2, <4>1
            <4>2. CASE byUser'[v] = [byUser[v] EXCEPT ![lag] = @ + 1]
                <5>1. [byUser[v] EXCEPT ![lag] = @ + 1][a] = IF a = lag THEN byUser[v][a] + 1 ELSE byUser[v][a]
                    BY <1>2, <2>2
                <5> QED
                    BY <4>2, <5>1, Zenon
            <4> QED
                BY <3>1, <4>1, <4>2
        <3>3. byUser'[v][a] <= byUser[v][a] \/ (a = lag /\ byUser'[v][a] <= byUser[v][a] + 1)
            BY <2>2, <3>2
        <3> QED
            BY <2>1, <2>3, <3>3 DEF Less, Moved
    <2>4. CASE v # u
        <3>1. byUser'[v] \in {NoFailures, byUser[v]}
            BY <1>5, <2>4
        <3> QED
            BY <1>2, <2>1, <2>2, <3>1 DEF Less
    <2> QED
        BY <2>3, <2>4
<1>4. ASSUME NEW a \in Ages, NEW j \in Ips
      PROVE  \/ Less(byIp[j][a], byIp'[j][a], IpDue(j, a), IpDue(j, a)', t)
             \/ Moved(byIp[j][a], byIp'[j][a], IpDue(j, a), IpDue(j, a)', t)
    <2>1. t \notin IpDue(j, a)' /\ (j = i /\ a = lag => t \in IpDue(j, a))
        BY <1>1, IdleFact DEF IpDue, lag
    <2>2. byIp[j] \in Lists /\ byIp[j][a] \in Nat
        BY CauseNat DEF TypeInv
    <2>3. CASE j = i
        <3>1. byIp'[j] = [byIp[j] EXCEPT ![lag] = @ + 1]
            BY <1>5, <2>3
        <3> QED
            BY <1>2, <2>1, <2>2, <2>3, <3>1 DEF Less, Moved
    <2>4. CASE j # i
        <3>1. byIp'[j] = byIp[j]
            BY <1>5, <2>4
        <3> QED
            BY <2>1, <2>2, <3>1 DEF Less
    <2> QED
        BY <2>3, <2>4
<1> QED
    BY <1>1, <1>3, <1>4, CauseStep

LEMMA CauseNext ==
    ASSUME TypeInv, RequestInv, CauseInv, Next
    PROVE  CauseInv'
<1>0. /\ \A u \in Users, a \in Ages : byUser[u][a] \in Nat
      /\ \A i \in Ips, a \in Ages : byIp[i][a] \in Nat
    BY CauseNat
<1>1. ASSUME NEW t \in Threads, NEW u \in Users, NEW i \in Ips, Post(t, u, i)
      PROVE  CauseInv'
    <2>1. TypeInv' /\ Others(t) /\ byUser' = byUser /\ byIp' = byIp /\ thread'[t].pc = "check"
          /\ failed' = failed
        BY <1>1, PostFact, Zenon
    <2> QED
        BY <1>0, <2>1, CauseLess
<1>2. ASSUME NEW t \in Threads, Accept(t) \/ Raises(t)
      PROVE  CauseInv'
    <2>1. /\ TypeInv' /\ Others(t) /\ byUser' = byUser /\ byIp' = byIp
          /\ thread'[t].pc \in {"idle", "clear"} /\ failed' = failed
        BY <1>2, AcceptFact, RaisesFact, IdleFact
    <2> QED
        BY <1>0, <2>1, CauseLess
<1>3. ASSUME NEW t \in Threads, NEW u \in Users, NEW i \in Ips, Check(t, u, i)
      PROVE  CauseInv'
    <2> DEFINE lag == thread[t].lag
    <2>1. /\ byUser'[u] = Recent(byUser[u], lag) /\ (\A v \in Users : v # u => byUser'[v] = byUser[v])
          /\ byIp'[i] = Recent(byIp[i], lag) /\ (\A j \in Ips : j # i => byIp'[j] = byIp[j])
          /\ TypeInv' /\ Others(t) /\ lag \in 0..MaxLag /\ failed' = failed
          /\ thread'[t].pc \in {"idle", "auth"}
        BY <1>3, CheckFact, IdleFact
    <2> HIDE DEF lag
    <2>2. /\ \A a \in Ages : byUser'[u][a] <= byUser[u][a]
          /\ \A a \in Ages : byIp'[i][a] <= byIp[i][a]
        <3>1. byUser[u] \in Lists /\ byIp[i] \in Lists
            BY DEF TypeInv
        <3> QED
            BY <2>1, <3>1, CountRecent
    <2>3. \A v \in Users, a \in Ages : byUser'[v][a] <= byUser[v][a]
        BY <1>0, <2>1, <2>2
    <2>4. \A j \in Ips, a \in Ages : byIp'[j][a] <= byIp[j][a]
        BY <1>0, <2>1, <2>2
    <2> QED
        BY <2>1, <2>3, <2>4, CauseLess
<1>4. ASSUME NEW t \in Threads, NEW u \in Users, NEW i \in Ips, ClearFailures(t, u, i)
      PROVE  CauseInv'
    <2>1. /\ TypeInv' /\ Others(t) /\ thread'[t].pc = "idle" /\ failed' = failed
          /\ \A v \in Users : byUser'[v] \in {NoFailures, byUser[v]}
          /\ \A j \in Ips : byIp'[j] \in {NoFailures, byIp[j]}
        BY <1>4, ClearFact, IdleFact
    <2>2. \A a \in Ages : NoFailures[a] = 0
        BY DEF NoFailures
    <2>3. \A v \in Users, a \in Ages : byUser'[v][a] <= byUser[v][a]
        BY <1>0, <2>1, <2>2
    <2>4. \A j \in Ips, a \in Ages : byIp'[j][a] <= byIp[j][a]
        BY <1>0, <2>1, <2>2
    <2> QED
        BY <2>1, <2>3, <2>4, CauseLess
<1> QED
    BY <1>1, <1>2, <1>3, <1>4, CauseTick, CauseRefuse, CauseRecord, StepOf
\* A list that reaches the limit within the window has a cause that reaches it.
LEMMA CountCaused ==
    ASSUME NEW list \in Lists, NEW real \in Lists, NEW max \in Nat, NEW lag \in 0..MaxLag,
           \A a \in Ages : a < Oldest => real[a] >= max \/ list[a] <= real[a],
           Count(Recent(list, lag)) >= max
    PROVE  Count(Recent(real, lag)) >= max
<1> DEFINE v == Recent(list, lag)
           w == Recent(real, lag)
<1>1. v \in Lists /\ w \in Lists
    BY CountRecent
<1>2. Count(v) \in Nat /\ Count(w) \in Nat
    <2> HIDE DEF v, w
    <2> QED
        BY <1>1, CountFacts
<1>3. \A a \in Ages : list[a] \in Nat /\ real[a] \in Nat
    BY DEF Lists
<1>4. /\ \A a \in Ages : a < Window + lag => v[a] = list[a] /\ w[a] = real[a] /\ a < Oldest
      /\ \A a \in Ages : ~(a < Window + lag) => v[a] = 0 /\ w[a] = 0
    BY AgeFacts DEF Recent, Oldest
<1>5. CASE \E a \in Ages : a < Window + lag /\ real[a] >= max
    <2>1. PICK a \in Ages : w[a] >= max
        BY <1>4, <1>5
    <2> HIDE DEF v, w
    <2>2. w[a] <= Count(w) /\ w[a] \in Nat
        BY <1>1, CountFacts DEF Lists
    <2>3. Count(w) >= max
        BY <1>2, <2>1, <2>2
    <2> QED
        BY <2>3 DEF w
<1>6. CASE \A a \in Ages : a < Window + lag => ~(real[a] >= max)
    <2>1. \A a \in Ages : v[a] <= w[a]
        BY <1>3, <1>4, <1>6
    <2>2. Count(v) >= max
        OBVIOUS
    <2> HIDE DEF v, w
    <2>3. Count(v) <= Count(w)
        BY <1>1, <2>1, CountFacts
    <2>4. Count(w) >= max
        BY <1>2, <2>2, <2>3
    <2> QED
        BY <2>4 DEF w
<1> QED
    BY <1>5, <1>6

\* Who is refused has failed often enough.
LEMMA RefusedForCause ==
    ASSUME TypeInv, CauseInv, NEW t \in Threads, NEW u \in Users, NEW i \in Ips,
           Check(t, u, i), thread'[t].pc = "idle"
    PROVE  \/ Count(Recent(failed.user[u], thread[t].lag)) >= UserMax
           \/ Count(Recent(failed.ip[i], thread[t].lag)) >= IpMax
<1> DEFINE lag == thread[t].lag
<1>1. lag \in 0..MaxLag /\ Limited(Recent(byUser[u], lag), Recent(byIp[i], lag))
    BY CheckFact
<1> HIDE DEF lag
<1>2. UserMax \in Nat /\ IpMax \in Nat
    BY AgeFacts
<1>3. byUser[u] \in Lists /\ byIp[i] \in Lists /\ failed.user[u] \in Lists /\ failed.ip[i] \in Lists
    BY DEF TypeInv
<1>4. ASSUME NEW a \in Ages, a < Oldest
      PROVE  /\ failed.user[u][a] >= UserMax \/ byUser[u][a] <= failed.user[u][a]
             /\ failed.ip[i][a] >= IpMax \/ byIp[i][a] <= failed.ip[i][a]
    <2>1. /\ Covered(failed.user[u][a], byUser[u][a] + Cardinality(UserDue(u, a)), UserMax)
          /\ Covered(failed.ip[i][a], byIp[i][a] + Cardinality(IpDue(i, a)), IpMax)
        BY <1>4 DEF CauseInv
    <2>2. Cardinality(UserDue(u, a)) \in Nat /\ Cardinality(IpDue(i, a)) \in Nat
        <3>1. UserDue(u, a) \in SUBSET Threads /\ IpDue(i, a) \in SUBSET Threads
            BY DEF UserDue, IpDue
        <3> QED
            BY <3>1, Sizes
    <2>3. /\ byUser[u][a] \in Nat /\ failed.user[u][a] \in Nat
          /\ byIp[i][a] \in Nat /\ failed.ip[i][a] \in Nat
        BY CauseNat
    <2> QED
        BY <1>2, <2>1, <2>2, <2>3 DEF Covered
<1>5. CASE Count(Recent(byUser[u], lag)) >= UserMax
    <2>1. Count(Recent(failed.user[u], lag)) >= UserMax
        BY <1>1, <1>2, <1>3, <1>4, <1>5, CountCaused
    <2> QED
        BY <2>1 DEF lag
<1>6. CASE Count(Recent(byIp[i], lag)) >= IpMax
    <2>1. Count(Recent(failed.ip[i], lag)) >= IpMax
        BY <1>1, <1>2, <1>3, <1>4, <1>6, CountCaused
    <2> QED
        BY <2>1 DEF lag
<1> QED
    BY <1>1, <1>5, <1>6 DEF Limited

-----------------------------------------------------------------------------
(* The theorems *)

LEMMA TypeNext ==
    ASSUME TypeInv, RequestInv, Next
    PROVE  TypeInv'
<1>1. ASSUME NEW t \in Threads, NEW u \in Users, NEW i \in Ips,
             Check(t, u, i) \/ Refuse(t, u, i) \/ RecordFailure(t, u, i) \/ ClearFailures(t, u, i)
      PROVE  TypeInv'
    BY <1>1, CheckFact, RefuseFact, RecordFact, ClearFact
<1> QED
    BY <1>1, TickFact, PostFact, AcceptFact, RaisesFact, StepOf

LEMMA InitInv == Init => Inv
<1> SUFFICES ASSUME Init PROVE Inv
    OBVIOUS
<1>1. /\ byUser = [u \in Users |-> NoFailures] /\ byIp = [i \in Ips |-> NoFailures]
      /\ thread = [t \in Threads |-> Idle] /\ failed = [user |-> byUser, ip |-> byIp]
      /\ NoFailures \in Lists /\ raced = [user |-> {}, ip |-> {}]
    BY CountFacts DEF Init
<1>2. \A t \in Threads : thread[t] = Idle /\ thread[t].pc = "idle"
    BY <1>1, IdleFact
<1>3. TypeInv
    BY <1>1, IdleFact DEF TypeInv
<1>4. RequestInv
    BY <1>2 DEF RequestInv
<1>5. FailuresBounded
    <2>1. /\ \A u \in Users : UserUnder(u) = {} /\ byUser[u] = NoFailures
          /\ \A i \in Ips : IpUnder(i) = {} /\ byIp[i] = NoFailures
        BY <1>1, <1>2 DEF UserUnder, IpUnder, UnderWay
    <2>2. Cardinality({}) = 0 /\ Cardinality(Threads) \in Nat
        BY FS_EmptySet, Sizes
    <2>3. 0 + 0 <= UserMax + 0 /\ 0 + 0 <= IpMax + 0 /\ \A k : Spare({}, k) = 0
        BY AgeFacts DEF Spare
    <2> QED
        BY <1>1, <2>1, <2>2, <2>3, CountNone DEF FailuresBounded
<1>6. CauseInv
    <2>1. ASSUME NEW a \in Ages
          PROVE  /\ \A u \in Users : UserDue(u, a) = {} /\ byUser[u][a] = 0 /\ failed.user[u][a] = 0
                 /\ \A i \in Ips : IpDue(i, a) = {} /\ byIp[i][a] = 0 /\ failed.ip[i][a] = 0
        BY <1>1, <1>2 DEF UserDue, IpDue, NoFailures
    <2>2. Cardinality({}) = 0 /\ \A max : Covered(0, 0 + 0, max)
        BY FS_EmptySet DEF Covered
    <2> QED
        BY <2>1, <2>2 DEF CauseInv
<1> QED
    BY <1>3, <1>4, <1>5, <1>6 DEF Inv

LEMMA InvStutter ==
    ASSUME Inv, UNCHANGED vars
    PROVE  Inv'
    BY DEF Inv, vars, TypeInv, RequestInv, FailuresBounded, Spare, UserUnder, IpUnder, UnderWay,
           CauseInv, UserDue, IpDue

LEMMA InvAlways == Spec => []Inv
<1>1. Inv /\ [Next]_vars => Inv'
    BY TypeNext, RequestNext, BoundNext, CauseNext, InvStutter DEF Inv
<1> QED
    BY <1>1, InitInv, PTL DEF Spec

\* For any number of threads and any limit: attempts that follow each other keep
\* to the limit exactly, and the gap between the test of _is_rate_limited and
\* _record_failure is worth at most one attempt more per other thread.
THEOREM LimitHolds == Spec => []FailuresBounded
<1>1. Inv => FailuresBounded
    BY DEF Inv
<1> QED
    BY <1>1, InvAlways, PTL

\* Who _is_rate_limited turns away did have UserMax passwords of this name, or
\* IpMax from this address, refused within its window: eviction, expiry and
\* _clear_failures only ever forget, and a request that waits for the lock
\* records its failure at the age it has.
THEOREM RefusalsHaveCause == Spec => RefusalJustified
<1>1. Inv /\ [Next]_vars =>
        [\A t \in Threads, u \in Users, i \in Ips :
            thread[t].user = {u} /\ thread[t].ip = {i} /\ Check(t, u, i) /\ thread'[t].pc = "idle"
            => LET in(list) == [a \in Ages |-> IF a < Window + thread[t].lag THEN list[a] ELSE 0]
               IN  \/ Count(in(failed.user[u])) >= UserMax
                   \/ Count(in(failed.ip[i])) >= IpMax]_vars
    BY RefusedForCause DEF Inv, Recent
<1> QED
    BY <1>1, InvAlways, PTL DEF Spec, RefusalJustified
==============================================================================
