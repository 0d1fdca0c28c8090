------------------------------ MODULE SetFolds ------------------------------
(***************************************************************************)
(* Induction, recursion, sorting and sums for the proofs: on the naturals, *)
(* over the subsets of a finite set as the folds of the community modules  *)
(* do it, and in the order of the keys of RankFusion.  The induction       *)
(* theorems of the library take an operator as a parameter; these take     *)
(* sets and functions.                                                     *)
(***************************************************************************)
EXTENDS RankFusion, FiniteSetTheorems, WellFoundedInduction, TLAPS

LEMMA NatInductive ==
  ASSUME NEW S, 0 \in S, \A n \in Nat : n \in S => n + 1 \in S
  PROVE  Nat \subseteq S
<1> DEFINE Missing == Nat \ S
<1>1. SUFFICES ASSUME Missing # {} PROVE FALSE
  OBVIOUS
<1>2. PICK x \in Missing : \A y \in Missing : ~ (<<y, x>> \in OpToRel(<, Nat))
  BY <1>1, WFMin, NatLessThanWellFounded
<1>3. \A y \in Missing : ~(y < x)
  BY <1>2 DEF OpToRel
<1>4. x \in Nat /\ x # 0
  OBVIOUS
<1>5. x - 1 \in Nat
  BY <1>4
<1>6. x - 1 \in S
  BY <1>3, <1>5
<1> QED
  BY <1>6, <1>5, <1>4

\* The start of the function that is a at 0 and step[<<f[n - 1], n>>] at n.
Starts(g, a, step, m) ==
  /\ g[0] = a
  /\ \A n \in 1..m : g[n] = step[<<g[n - 1], n>>]

LEMMA StartsAgree ==
  ASSUME NEW A, NEW a \in A, NEW step \in [A \X Nat -> A], NEW m \in Nat,
         NEW g, NEW h, Starts(g, a, step, m), Starts(h, a, step, m)
  PROVE  \A n \in 0..m : g[n] = h[n]
<1> DEFINE Same == {n \in Nat : n <= m => g[n] = h[n]}
<1>1. 0 \in Same
  BY DEF Starts
<1>2. ASSUME NEW n \in Nat, n \in Same PROVE n + 1 \in Same
  <2> SUFFICES ASSUME n + 1 <= m PROVE g[n + 1] = h[n + 1]
    OBVIOUS
  <2>1. n + 1 \in 1..m /\ (n + 1) - 1 = n
    OBVIOUS
  <2>2. g[n] = h[n]
    BY <1>2
  <2> QED
    BY <2>1, <2>2 DEF Starts
<1> HIDE DEF Same
<1>3. Nat \subseteq Same
  BY <1>1, <1>2, NatInductive
<1> QED
  BY <1>3 DEF Same

LEMMA StartExists ==
  ASSUME NEW A, NEW a \in A, NEW step \in [A \X Nat -> A], NEW m \in Nat
  PROVE  \E g \in [Nat -> A] : Starts(g, a, step, m)
<1> DEFINE Can == {n \in Nat : \E g \in [Nat -> A] : Starts(g, a, step, n)}
<1>1. 0 \in Can
  <2>1. Starts([n \in Nat |-> a], a, step, 0)
    BY DEF Starts
  <2> QED
    BY <2>1
<1>2. ASSUME NEW n \in Nat, n \in Can PROVE n + 1 \in Can
  <2>1. PICK g \in [Nat -> A] : Starts(g, a, step, n)
    BY <1>2
  <2> DEFINE h == [g EXCEPT ![n + 1] = step[<<g[n], n + 1>>]]
  <2>2. <<g[n], n + 1>> \in A \X Nat
    BY <2>1
  <2>3. h \in [Nat -> A]
    BY <2>2, <2>1
  <2>4. h[0] = a
    BY <2>1 DEF Starts
  <2>5. ASSUME NEW k \in 1..(n + 1) PROVE h[k] = step[<<h[k - 1], k>>]
    <3>1. CASE k = n + 1
      BY <3>1, <2>1
    <3>2. CASE k # n + 1
      <4>1. k \in 1..n /\ k - 1 \in Nat /\ k - 1 # n + 1
        BY <3>2
      <4>2. g[k] = step[<<g[k - 1], k>>]
        BY <4>1, <2>1 DEF Starts
      <4> QED
        BY <4>1, <4>2, <2>1
    <3> QED
      BY <3>1, <3>2
  <2> HIDE DEF h
  <2>6. Starts(h, a, step, n + 1)
    BY <2>4, <2>5 DEF Starts
  <2> QED
    BY <2>3, <2>6
<1> HIDE DEF Can
<1>3. Nat \subseteq Can
  BY <1>1, <1>2, NatInductive
<1> QED
  BY <1>3 DEF Can

Recurs(f, a, step) ==
  \A n \in Nat : f[n] = IF n = 0 THEN a ELSE step[<<f[n - 1], n>>]

LEMMA FunctionExists ==
  ASSUME NEW A, NEW a \in A, NEW step \in [A \X Nat -> A]
  PROVE  \E f \in [Nat -> A] : Recurs(f, a, step)
<1> DEFINE start(m) == CHOOSE g \in [Nat -> A] : Starts(g, a, step, m)
           f == [n \in Nat |-> start(n)[n]]
<1>1. \A m \in Nat : start(m) \in [Nat -> A] /\ Starts(start(m), a, step, m)
  BY StartExists
<1> HIDE DEF start
<1>2. f \in [Nat -> A]
  BY <1>1
<1>3. ASSUME NEW n \in Nat PROVE f[n] = IF n = 0 THEN a ELSE step[<<f[n - 1], n>>]
  <2>1. CASE n = 0
    BY <2>1, <1>1 DEF Starts
  <2>2. CASE n # 0
    <3>1. n - 1 \in Nat /\ n - 1 \in 0..(n - 1) /\ n \in 1..n /\ 1..(n - 1) \subseteq 1..n
      BY <2>2
    <3>2. Starts(start(n), a, step, n - 1)
      BY <1>1, <3>1 DEF Starts
    <3> DEFINE k == n - 1
    <3>3. start(n)[k] = start(k)[k]
      <4>1. k \in Nat /\ k \in 0..k
        BY <3>1
      <4>2. Starts(start(k), a, step, k) /\ Starts(start(n), a, step, k)
        BY <4>1, <1>1, <3>2
      <4> HIDE DEF k
      <4>3. \A i \in 0..k : start(n)[i] = start(k)[i]
        BY <4>1, <4>2, StartsAgree
      <4> QED
        BY <4>1, <4>3
    <3>4. start(n)[n] = step[<<start(n)[n - 1], n>>]
      BY <1>1, <3>1 DEF Starts
    <3> QED
      BY <3>1, <3>3, <3>4, <2>2
  <2> QED
    BY <2>1, <2>2
<1> HIDE DEF f
<1>4. Recurs(f, a, step)
  BY <1>3 DEF Recurs
<1> QED
  BY <1>2, <1>4

(***************************************************************************)
(* Folds                                                                   *)
(***************************************************************************)
\* How a fold takes the elements of a set one by one.
Picks(pick, S) ==
  pick \in [(SUBSET S) \ {{}} -> S] /\ \A s \in (SUBSET S) \ {{}} : pick[s] \in s

\* The value of a fold on s.
Folded(f, base, pick, step, s) ==
  f[s] = IF s = {} THEN base ELSE step[<<pick[s], f[s \ {pick[s]}]>>]

Folds(f, S, base, pick, step) == \A s \in SUBSET S : Folded(f, base, pick, step, s)

LEMMA FoldExists ==
  ASSUME NEW S, IsFiniteSet(S), NEW A, NEW base \in A, NEW step \in [S \X A -> A],
         NEW pick, Picks(pick, S)
  PROVE  \E f \in [SUBSET S -> A] : Folds(f, S, base, pick, step)
<1> DEFINE Can == {n \in Nat : \E f \in [SUBSET S -> A] :
                     \A s \in SUBSET S : Cardinality(s) <= n => Folded(f, base, pick, step, s)}
<1>1. \A s \in SUBSET S :
        /\ IsFiniteSet(s) /\ Cardinality(s) \in Nat /\ Cardinality(s) <= Cardinality(S)
        /\ Cardinality(s) = 0 <=> s = {}
        /\ s # {} => /\ pick[s] \in S /\ s \ {pick[s]} \in SUBSET S
                     /\ Cardinality(s \ {pick[s]}) = Cardinality(s) - 1
  <2> TAKE s \in SUBSET S
  <2>1. IsFiniteSet(s) /\ Cardinality(s) \in Nat /\ Cardinality(s) <= Cardinality(S)
    BY FS_Subset, FS_CardinalityType
  <2>2. Cardinality(s) = 0 <=> s = {}
    BY <2>1, FS_EmptySet
  <2>3. ASSUME s # {} PROVE /\ pick[s] \in S /\ s \ {pick[s]} \in SUBSET S
                            /\ Cardinality(s \ {pick[s]}) = Cardinality(s) - 1
    <3>1. pick[s] \in s
      BY <2>3 DEF Picks
    <3> QED
      BY <2>1, <3>1, FS_RemoveElement
  <2> QED
    BY <2>1, <2>2, <2>3
<1>2. 0 \in Can
  <2> DEFINE f == [s \in SUBSET S |-> base]
  <2>1. f \in [SUBSET S -> A]
    OBVIOUS
  <2>2. ASSUME NEW s \in SUBSET S, Cardinality(s) <= 0 PROVE s = {}
    <3>1. Cardinality(s) \in Nat
      BY <1>1
    <3>2. Cardinality(s) = 0
      BY <2>2, <3>1
    <3> QED
      BY <1>1, <3>2
  <2>3. \A s \in SUBSET S : Cardinality(s) <= 0 => Folded(f, base, pick, step, s)
    BY <2>2 DEF Folded
  <2> QED
    BY <2>1, <2>3
<1>3. ASSUME NEW n \in Nat, n \in Can PROVE n + 1 \in Can
  <2>1. PICK f \in [SUBSET S -> A] :
          \A s \in SUBSET S : Cardinality(s) <= n => Folded(f, base, pick, step, s)
    BY <1>3
  <2> DEFINE g == [s \in SUBSET S |-> IF Cardinality(s) = n + 1
                                      THEN step[<<pick[s], f[s \ {pick[s]}]>>] ELSE f[s]]
  <2>2. g \in [SUBSET S -> A]
    <3> SUFFICES ASSUME NEW s \in SUBSET S, Cardinality(s) = n + 1
                 PROVE  step[<<pick[s], f[s \ {pick[s]}]>>] \in A
      OBVIOUS
    <3>1. s # {}
      <4>1. n + 1 # 0
        OBVIOUS
      <4> QED
        BY <1>1, <4>1
    <3>2. pick[s] \in S /\ f[s \ {pick[s]}] \in A
      BY <1>1, <3>1
    <3> QED
      BY <3>2
  <2>3. ASSUME NEW s \in SUBSET S, Cardinality(s) <= n + 1
        PROVE  Folded(g, base, pick, step, s)
    <3> DEFINE r == s \ {pick[s]}
    <3>1. CASE s = {}
      <4>1. Cardinality(s) # n + 1 /\ Cardinality(s) <= n
        <5>1. Cardinality(s) = 0
          BY <1>1, <3>1
        <5> QED
          BY <5>1
      <4>2. g[s] = f[s] /\ Folded(f, base, pick, step, s)
        BY <2>1, <4>1
      <4> QED
        BY <3>1, <4>2 DEF Folded
    <3>2. CASE s # {}
      <4>1. r \in SUBSET S /\ Cardinality(r) = Cardinality(s) - 1 /\ Cardinality(s) \in Nat
        BY <1>1, <3>2
      <4>2. Cardinality(r) # n + 1
        BY <2>3, <4>1
      <4>3. g[r] = f[r]
        BY <4>1, <4>2
      <4>4. CASE Cardinality(s) = n + 1
        <5>1. g[s] = step[<<pick[s], f[r]>>]
          BY <4>4
        <5> HIDE DEF g
        <5> QED
          BY <3>2, <4>3, <5>1 DEF Folded
      <4>5. CASE Cardinality(s) # n + 1
        <5>1. Cardinality(s) <= n /\ g[s] = f[s]
          BY <2>3, <4>1, <4>5
        <5>2. Folded(f, base, pick, step, s)
          BY <2>1, <5>1
        <5> HIDE DEF g
        <5> QED
          BY <3>2, <4>3, <5>1, <5>2 DEF Folded
      <4> QED
        BY <4>4, <4>5
    <3> QED
      BY <3>1, <3>2
  <2> HIDE DEF g
  <2> QED
    BY <2>2, <2>3
<1> HIDE DEF Can
<1>4. Nat \subseteq Can
  BY <1>2, <1>3, NatInductive
<1>5. Cardinality(S) \in Can
  BY <1>4, FS_CardinalityType
<1> QED
  BY <1>1, <1>5 DEF Can, Folds

\* Every finite set of integers that is not empty has a largest element.
LEMMA LargestExists ==
  ASSUME NEW S \in SUBSET Int, IsFiniteSet(S), S # {}
  PROVE  \E x \in S : \A y \in S : x >= y
<1> DEFINE Can == {n \in Nat : \A T \in SUBSET S :
                     Cardinality(T) = n /\ T # {} => \E x \in T : \A y \in T : x >= y}
<1>1. 0 \in Can
  BY FS_Subset, FS_EmptySet
<1>2. ASSUME NEW n \in Nat, n \in Can PROVE n + 1 \in Can
  <2> SUFFICES ASSUME NEW T \in SUBSET S, Cardinality(T) = n + 1, T # {}
               PROVE  \E x \in T : \A y \in T : x >= y
    OBVIOUS
  <2>1. PICK z \in T : TRUE
    OBVIOUS
  <2>2. T \ {z} \in SUBSET S /\ Cardinality(T \ {z}) = n
    <3>1. IsFiniteSet(T)
      BY FS_Subset
    <3>2. Cardinality(T \ {z}) = Cardinality(T) - 1
      BY <3>1, FS_RemoveElement
    <3> QED
      BY <3>2
  <2>3. CASE T \ {z} = {}
    BY <2>3
  <2>4. CASE T \ {z} # {}
    <3>1. PICK x \in T \ {z} : \A y \in T \ {z} : x >= y
      BY <1>2, <2>2, <2>4
    <3>2. CASE x >= z
      BY <3>1, <3>2
    <3>3. CASE ~(x >= z)
      <4>1. \A y \in T : z >= y
        BY <3>1, <3>3
      <4> QED
        BY <4>1
    <3> QED
      BY <3>2, <3>3
  <2> QED
    BY <2>3, <2>4
<1> HIDE DEF Can
<1>3. Cardinality(S) \in Can
  BY <1>1, <1>2, NatInductive, FS_CardinalityType
<1> QED
  BY <1>3 DEF Can

LEMMA ImageFinite ==
  ASSUME NEW S, IsFiniteSet(S), NEW f, DOMAIN f = S
  PROVE  IsFiniteSet({f[x] : x \in S})
<1> DEFINE T == {f[x] : x \in S}
           g == [x \in S |-> f[x]]
<1>1. g \in Surjection(S, T)
  BY DEF Surjection
<1> HIDE DEF T, g
<1>2. IsFiniteSet(T)
  BY <1>1, FS_Surjection
<1> QED
  BY <1>2 DEF T

\* Induction over the subsets that a fold goes through.
LEMMA FoldInductive ==
  ASSUME NEW S, IsFiniteSet(S), NEW pick, Picks(pick, S), NEW G, {} \in G,
         \A s \in (SUBSET S) \ {{}} : s \ {pick[s]} \in G => s \in G
  PROVE  SUBSET S \subseteq G
<1> DEFINE Good == {n \in Nat : \A s \in SUBSET S : Cardinality(s) = n => s \in G}
<1>1. \A s \in SUBSET S : IsFiniteSet(s) /\ Cardinality(s) \in Nat
  BY FS_Subset, FS_CardinalityType
<1>2. 0 \in Good
  BY <1>1, FS_EmptySet
<1>3. ASSUME NEW n \in Nat, n \in Good PROVE n + 1 \in Good
  <2> SUFFICES ASSUME NEW s \in SUBSET S, Cardinality(s) = n + 1
               PROVE  s \in G
    OBVIOUS
  <2>1. s # {}
    BY FS_EmptySet
  <2>2. pick[s] \in s
    BY <2>1 DEF Picks
  <2>3. Cardinality(s \ {pick[s]}) = Cardinality(s) - 1
    BY <1>1, <2>2, FS_RemoveElement
  <2>4. Cardinality(s \ {pick[s]}) = n
    BY <2>3
  <2>5. s \ {pick[s]} \in G
    BY <1>3, <2>4
  <2> QED
    BY <2>1, <2>5
<1> HIDE DEF Good
<1>4. Nat \subseteq Good
  BY <1>2, <1>3, NatInductive
<1> QED
  BY <1>1, <1>4 DEF Good

(***************************************************************************)
(* Sorting                                                                 *)
(***************************************************************************)
\* A strict total order on S, as the set of what is before each element.
Orders(before, S) ==
  /\ before \in [S -> SUBSET S]
  /\ \A x \in S : x \notin before[x]
  /\ \A x, y \in S : x \in before[y] => before[x] \subseteq before[y]
  /\ \A x, y \in S : x # y => x \in before[y] \/ y \in before[x]

\* As many elements are before each one as its place tells, and no two share one.
LEMMA PlacesDiffer ==
  ASSUME NEW S, IsFiniteSet(S), NEW before, Orders(before, S)
  PROVE  /\ \A x \in S : Cardinality(before[x]) \in Nat
         /\ \A x \in S : Cardinality(before[x]) < Cardinality(S)
         /\ \A x, y \in S : x \in before[y] => Cardinality(before[x]) < Cardinality(before[y])
<1> DEFINE size == Cardinality(S)
<1>1. size \in Nat
  BY FS_CardinalityType
<1>2. \A x \in S : before[x] \subseteq S /\ x \notin before[x]
  BY DEF Orders
<1>3. \A x \in S : IsFiniteSet(before[x]) /\ Cardinality(before[x]) \in Nat
  BY <1>2, FS_Subset, FS_CardinalityType
<1>4. \A x \in S : Cardinality(before[x]) < size
  <2> SUFFICES ASSUME NEW x \in S PROVE Cardinality(before[x]) < size
    OBVIOUS
  <2>1. Cardinality(before[x]) <= size
    BY <1>2, FS_Subset
  <2>2. Cardinality(before[x]) # size
    BY <1>2, FS_Subset
  <2> QED
    BY <2>1, <2>2, <1>1, <1>3
<1>5. ASSUME NEW x \in S, NEW y \in S, x \in before[y]
      PROVE  Cardinality(before[x]) < Cardinality(before[y])
  <2>1. before[x] \subseteq before[y] /\ before[x] # before[y]
    BY <1>2, <1>5 DEF Orders
  <2>2. /\ Cardinality(before[x]) <= Cardinality(before[y])
        /\ Cardinality(before[x]) # Cardinality(before[y])
    BY <1>3, <2>1, FS_Subset
  <2> QED
    BY <2>2, <1>3
<1> QED
  BY <1>3, <1>4, <1>5

\* Each place of a sorted list is taken.
LEMMA PlaceExists ==
  ASSUME NEW S, IsFiniteSet(S), NEW before, Orders(before, S), NEW n \in 1..Cardinality(S)
  PROVE  \E x \in S : Cardinality(before[x]) = n - 1
<1> DEFINE size == Cardinality(S)
           place == [x \in S |-> Cardinality(before[x]) + 1]
<1>1. size \in Nat
  BY FS_CardinalityType
<1>5. /\ \A x \in S : Cardinality(before[x]) \in Nat /\ Cardinality(before[x]) < size
      /\ \A x, y \in S : x \in before[y] => Cardinality(before[x]) < Cardinality(before[y])
  BY PlacesDiffer
<1>6. place \in [S -> 1..size]
  BY <1>1, <1>5
<1>7. \A x, y \in S : x # y => place[x] # place[y]
  <2> SUFFICES ASSUME NEW x \in S, NEW y \in S, x # y PROVE place[x] # place[y]
    OBVIOUS
  <2>1. x \in before[y] \/ y \in before[x]
    BY DEF Orders
  <2> QED
    BY <2>1, <1>5
<1>8. place \in Surjection(S, 1..size)
  <2>1. IsFiniteSet(1..size) /\ Cardinality(1..size) = size
    BY <1>1, FS_Interval
  <2>2. place \in Injection(S, 1..size)
    BY <1>6, <1>7 DEF Injection, IsInjective
  <2> HIDE DEF place
  <2> QED
    BY <2>1, <2>2, FS_Injection
<1>9. PICK x \in S : place[x] = n
  BY <1>8 DEF Surjection
<1> QED
  BY <1>9, <1>1, <1>5

\* A list with an element at each place holds all of them, in order.
LEMMA PlacesFilled ==
  ASSUME NEW S, IsFiniteSet(S), NEW before, Orders(before, S), NEW order,
         \A n \in 1..Cardinality(S) : order[n] \in S /\ Cardinality(before[order[n]]) = n - 1
  PROVE  /\ \A x \in S : \E n \in 1..Cardinality(S) : order[n] = x
         /\ \A m, n \in 1..Cardinality(S) : m < n => order[m] \in before[order[n]]
<1> DEFINE size == Cardinality(S)
<1>1. size \in Nat
  BY FS_CardinalityType
<1>2. /\ \A x \in S : Cardinality(before[x]) \in Nat /\ Cardinality(before[x]) < size
      /\ \A x, y \in S : x \in before[y] => Cardinality(before[x]) < Cardinality(before[y])
  BY PlacesDiffer
<1>3. \A x, y \in S : Cardinality(before[x]) = Cardinality(before[y]) => x = y
  BY <1>2 DEF Orders
<1>4. \A x \in S : \E n \in 1..size : order[n] = x
  <2> SUFFICES ASSUME NEW x \in S PROVE \E n \in 1..size : order[n] = x
    OBVIOUS
  <2> DEFINE n == Cardinality(before[x]) + 1
  <2>1. n \in 1..size
    BY <1>1, <1>2
  <2>2. Cardinality(before[order[n]]) = Cardinality(before[x])
    BY <2>1, <1>2
  <2> QED
    BY <2>1, <2>2, <1>3
<1>5. ASSUME NEW m \in 1..size, NEW n \in 1..size, m < n
      PROVE  order[m] \in before[order[n]]
  <2>1. order[m] # order[n] /\ order[m] \in S /\ order[n] \in S
    BY <1>5
  <2>2. order[m] \in before[order[n]] \/ order[n] \in before[order[m]]
    BY <2>1 DEF Orders
  <2>3. order[n] \notin before[order[m]]
    BY <2>1, <1>2, <1>5
  <2> QED
    BY <2>2, <2>3
<1> QED
  BY <1>4, <1>5

\* Keys that can be compared: those that differ in length differ before.
Keyed(keys, wide) ==
  /\ wide \in Nat /\ keys \subseteq Seq(Int)
  /\ \A s, t \in keys : Len(s) = Len(t) \/ \E m \in 1..wide : s[m] # t[m]
  /\ \A s \in keys : wide <= Len(s)

\* Two keys differ first at a place that both have.
LEMMA FirstDifference ==
  ASSUME NEW keys, NEW wide, Keyed(keys, wide), NEW s \in keys, NEW t \in keys, s # t
  PROVE  \E n \in DOMAIN s : /\ n \in DOMAIN t /\ s[n] # t[n]
                             /\ \A m \in 1..(n - 1) : s[m] = t[m]
<1> DEFINE D == {n \in DOMAIN s : n \in DOMAIN t /\ s[n] # t[n]}
           N == {-n : n \in D}
<1>1. /\ Len(s) \in Nat /\ DOMAIN s = 1..Len(s) /\ s \in [1..Len(s) -> Int]
      /\ Len(t) \in Nat /\ DOMAIN t = 1..Len(t) /\ t \in [1..Len(t) -> Int]
  BY DEF Keyed
<1>2. D # {}
  <2>1. CASE Len(s) = Len(t)
    <3>1. \E n \in 1..Len(s) : s[n] # t[n]
      BY <2>1, <1>1
    <3> QED
      BY <3>1, <2>1, <1>1
  <2>2. CASE \E m \in 1..wide : s[m] # t[m]
    <3>1. PICK m \in 1..wide : s[m] # t[m]
      BY <2>2
    <3>2. m \in DOMAIN s /\ m \in DOMAIN t
      BY <1>1 DEF Keyed
    <3> QED
      BY <3>1, <3>2
  <2> QED
    BY <2>1, <2>2 DEF Keyed
<1>3. PICK n \in D : \A m \in D : n <= m
  <2>1. IsFiniteSet(N) /\ N # {} /\ N \in SUBSET Int
    <3>1. D \subseteq 1..Len(s)
      BY <1>1
    <3>2. N \subseteq (-Len(s))..(-1)
      BY <1>1, <3>1
    <3>3. IsFiniteSet((-Len(s))..(-1))
      BY <1>1, FS_Interval
    <3>4. IsFiniteSet(N)
      BY <3>2, <3>3, FS_Subset
    <3> QED
      BY <1>2, <3>2, <3>4
  <2>2. PICK x \in N : \A y \in N : x >= y
    <3> HIDE DEF N
    <3> QED
      BY <2>1, LargestExists
  <2>3. PICK n \in D : x = -n
    BY <2>2
  <2>4. \A m \in D : -m \in N
    OBVIOUS
  <2>5. D \subseteq Nat
    BY <1>1
  <2>6. \A m \in D : n <= m
    <3> HIDE DEF N, D
    <3> QED
      BY <2>2, <2>3, <2>4, <2>5
  <2> QED
    BY <2>6
<1>4. ASSUME NEW m \in 1..(n - 1) PROVE s[m] = t[m]
  <2>1. m \in DOMAIN s /\ m \in DOMAIN t /\ ~(n <= m)
    BY <1>1, <1>3
  <2>2. m \notin D
    BY <2>1, <1>3
  <2> QED
    BY <2>1, <2>2
<1> QED
  BY <1>3, <1>4

LEMMA KeysOrdered ==
  ASSUME NEW keys, NEW wide, Keyed(keys, wide)
  PROVE  /\ \A s \in keys : ~LexBefore(s, s)
         /\ \A s, t, u \in keys : LexBefore(s, t) /\ LexBefore(t, u) => LexBefore(s, u)
         /\ \A s, t \in keys : s # t => LexBefore(s, t) \/ LexBefore(t, s)
<1>1. \A s \in keys : Len(s) \in Nat /\ DOMAIN s = 1..Len(s) /\ s \in [1..Len(s) -> Int]
  BY DEF Keyed
<1>2. \A s \in keys : ~LexBefore(s, s)
  BY <1>1 DEF LexBefore
<1>3. ASSUME NEW s \in keys, NEW t \in keys, NEW n \in DOMAIN s,
             \A m \in 1..(n - 1) : s[m] = t[m]
      PROVE  n \in DOMAIN t
  <2>1. CASE Len(s) = Len(t)
    BY <2>1, <1>1
  <2>2. CASE \E m \in 1..wide : s[m] # t[m]
    <3>1. PICK m \in 1..wide : s[m] # t[m]
      BY <2>2
    <3>2. n \in Nat /\ wide \in Nat /\ ~(m <= n - 1)
      BY <3>1, <1>1, <1>3 DEF Keyed
    <3>3. n <= wide /\ wide <= Len(t)
      BY <3>2 DEF Keyed
    <3> QED
      BY <3>2, <3>3, <1>1
  <2> QED
    BY <2>1, <2>2 DEF Keyed
<1>4. ASSUME NEW s \in keys, NEW t \in keys, NEW u \in keys,
             LexBefore(s, t), LexBefore(t, u)
      PROVE  LexBefore(s, u)
  <2>1. PICK n \in DOMAIN s : (\A m \in 1..(n - 1) : s[m] = t[m]) /\ s[n] < t[n]
    BY <1>4 DEF LexBefore
  <2>2. PICK k \in DOMAIN t : (\A m \in 1..(k - 1) : t[m] = u[m]) /\ t[k] < u[k]
    BY <1>4 DEF LexBefore
  <2>3. n \in DOMAIN t
    BY <2>1, <1>3
  <2>4. k \in DOMAIN u
    BY <2>2, <1>3
  <2>5. n \in Nat /\ k \in Nat /\ s[n] \in Int /\ t[n] \in Int /\ t[k] \in Int /\ u[k] \in Int
    BY <2>1, <2>2, <2>3, <2>4, <1>1
  <2>6. CASE n < k
    <3>1. s[n] < u[n]
      BY <2>1, <2>2, <2>5, <2>6, <2>3, <1>1
    <3>2. \A m \in 1..(n - 1) : s[m] = u[m]
      BY <2>1, <2>2, <2>5, <2>6
    <3> QED
      BY <3>1, <3>2 DEF LexBefore
  <2>7. CASE n = k
    <3>1. s[n] < u[n]
      BY <2>1, <2>2, <2>5, <2>7
    <3>2. \A m \in 1..(n - 1) : s[m] = u[m]
      BY <2>1, <2>2, <2>5, <2>7
    <3> QED
      BY <3>1, <3>2 DEF LexBefore
  <2>8. CASE k < n
    <3>1. k \in DOMAIN s /\ s[k] = t[k]
      BY <2>1, <2>5, <2>8, <1>1, <2>2
    <3>2. \A m \in 1..(k - 1) : s[m] = u[m]
      BY <2>1, <2>2, <2>5, <2>8
    <3> QED
      BY <3>1, <3>2, <2>2 DEF LexBefore
  <2> QED
    BY <2>5, <2>6, <2>7, <2>8
<1>5. ASSUME NEW s \in keys, NEW t \in keys, s # t
      PROVE  LexBefore(s, t) \/ LexBefore(t, s)
  <2>1. PICK n \in DOMAIN s : /\ n \in DOMAIN t /\ s[n] # t[n]
                              /\ \A m \in 1..(n - 1) : s[m] = t[m]
    BY <1>5, FirstDifference
  <2>2. s[n] \in Int /\ t[n] \in Int
    BY <2>1, <1>1
  <2>3. s[n] < t[n] \/ t[n] < s[n]
    BY <2>1, <2>2
  <2> QED
    BY <2>1, <2>3 DEF LexBefore
<1> QED
  BY <1>2, <1>4, <1>5

\* What is sorted by keys, one of its own for each element, comes in their order.
LEMMA SortedByKey ==
  ASSUME NEW S, IsFiniteSet(S), NEW keys, NEW wide, Keyed(keys, wide), NEW key,
         \A x \in S : key[x] \in keys, \A x, y \in S : key[x] = key[y] => x = y
  PROVE  /\ Cardinality(S) \in Nat
         /\ Sorted(S, key) \in [1..Cardinality(S) -> S]
         /\ \A x \in S : \E n \in 1..Cardinality(S) : Sorted(S, key)[n] = x
         /\ \A m, n \in 1..Cardinality(S) :
              /\ m < n => LexBefore(key[Sorted(S, key)[m]], key[Sorted(S, key)[n]])
              /\ Sorted(S, key)[m] = Sorted(S, key)[n] => m = n
<1> DEFINE size == Cardinality(S)
           before == [x \in S |-> Ahead(S, key, x)]
           order == Sorted(S, key)
<1>1. Orders(before, S)
  <2>1. /\ \A s \in keys : ~LexBefore(s, s)
        /\ \A s, t, u \in keys : LexBefore(s, t) /\ LexBefore(t, u) => LexBefore(s, u)
        /\ \A s, t \in keys : s # t => LexBefore(s, t) \/ LexBefore(t, s)
    BY KeysOrdered
  <2>3. \A x, y \in S : x # y => LexBefore(key[x], key[y]) \/ LexBefore(key[y], key[x])
    BY <2>1
  <2>4. \A x, y, z \in S : LexBefore(key[z], key[x]) /\ LexBefore(key[x], key[y])
                              => LexBefore(key[z], key[y])
    BY <2>1
  <2>5. \A x \in S : ~LexBefore(key[x], key[x])
    BY <2>1
  <2> QED
    BY <2>3, <2>4, <2>5 DEF Orders, Ahead
<1>2. size \in Nat
  BY FS_CardinalityType
<1>3. \A n \in 1..size : order[n] \in S /\ Cardinality(before[order[n]]) = n - 1
  <2> SUFFICES ASSUME NEW n \in 1..size
               PROVE  order[n] \in S /\ Cardinality(before[order[n]]) = n - 1
    OBVIOUS
  <2>1. \E x \in S : Cardinality(before[x]) = n - 1
    <3> HIDE DEF before
    <3> QED
      BY <1>1, PlaceExists
  <2>2. \A x \in S : before[x] = Ahead(S, key, x)
    OBVIOUS
  <2>3. order[n] = CHOOSE x \in S : Cardinality(Ahead(S, key, x)) = n - 1
    BY DEF Sorted
  <2> HIDE DEF before, order
  <2> QED
    BY <2>1, <2>2, <2>3
<1>4. DOMAIN order = 1..size
  BY DEF Sorted
<1>5. order = [n \in 1..size |-> order[n]]
  BY DEF Sorted
<1>6. /\ \A x \in S : \E n \in 1..size : order[n] = x
      /\ \A m, n \in 1..size : m < n => order[m] \in before[order[n]]
  <2> HIDE DEF before, order
  <2> QED
    BY <1>1, <1>3, PlacesFilled
<1>7. \A m, n \in 1..size : m < n => LexBefore(key[order[m]], key[order[n]])
  <2>1. \A x, y \in S : y \in before[x] => LexBefore(key[y], key[x])
    BY DEF Ahead
  <2> HIDE DEF before, order
  <2> QED
    BY <1>3, <1>6, <2>1
<1>8. ASSUME NEW m \in 1..size, NEW n \in 1..size, order[m] = order[n]
      PROVE  m = n
  <2> HIDE DEF before, order
  <2>1. ~(m < n) /\ ~(n < m)
    BY <1>1, <1>3, <1>6, <1>8 DEF Orders
  <2> QED
    BY <2>1, <1>2
<1>9. order \in [1..size -> S]
  <2> HIDE DEF order
  <2> QED
    BY <1>3, <1>5
<1> QED
  BY <1>2, <1>6, <1>7, <1>8, <1>9

\* A finite set has an element with the least key.
LEMMA LeastByKey ==
  ASSUME NEW S, IsFiniteSet(S), S # {}, NEW keys, NEW wide, Keyed(keys, wide), NEW key,
         \A x \in S : key[x] \in keys, \A x, y \in S : key[x] = key[y] => x = y
  PROVE  \E x \in S : \A y \in S \ {x} : LexBefore(key[x], key[y])
<1> DEFINE order == Sorted(S, key)
           size == Cardinality(S)
<1>1. /\ size \in Nat /\ order \in [1..size -> S]
      /\ \A x \in S : \E n \in 1..size : order[n] = x
      /\ \A m, n \in 1..size : m < n => LexBefore(key[order[m]], key[order[n]])
  BY SortedByKey
<1> HIDE DEF order, size
<1>2. 1 \in 1..size
  BY <1>1
<1>3. order[1] \in S
  BY <1>1, <1>2
<1>4. ASSUME NEW y \in S \ {order[1]} PROVE LexBefore(key[order[1]], key[y])
  <2>1. PICK n \in 1..size : order[n] = y
    BY <1>1
  <2>2. 1 < n
    BY <1>1, <2>1
  <2> QED
    BY <1>1, <1>2, <2>1, <2>2
<1> QED
  BY <1>3, <1>4

\* A loop keeps what is at the chosen places, in their order.
LEMMA KeepsPlaces ==
  ASSUME NEW X, NEW s \in Seq(X), NEW places \in SUBSET DOMAIN s
  PROVE  /\ Keep(s, places) \in Seq(X) /\ Len(Keep(s, places)) <= Len(s)
         /\ \E at \in [1..Len(Keep(s, places)) -> places] :
              /\ \A n \in 1..Len(Keep(s, places)) : Keep(s, places)[n] = s[at[n]]
              /\ \A p \in places : \E n \in 1..Len(Keep(s, places)) : at[n] = p
              /\ \A m, n \in 1..Len(Keep(s, places)) : m < n => at[m] < at[n]
<1> DEFINE keys == {t \in Seq(Int) : Len(t) = 1}
           key == [n \in places |-> <<n>>]
           order == Sorted(places, key)
           size == Cardinality(places)
           kept == [n \in 1..size |-> s[order[n]]]
<1>1. /\ Len(s) \in Nat /\ DOMAIN s = 1..Len(s) /\ \A n \in 1..Len(s) : s[n] \in X
      /\ places \in SUBSET Nat
  OBVIOUS
<1>2. IsFiniteSet(places) /\ size <= Len(s)
  <2>1. IsFiniteSet(1..Len(s)) /\ Cardinality(1..Len(s)) = Len(s)
    BY <1>1, FS_Interval
  <2> QED
    BY <1>1, <2>1, FS_Subset
<1>3. Keyed(keys, 0) /\ \A x \in places : key[x] \in keys
  BY <1>1 DEF Keyed
<1>4. \A x, y \in places : key[x] = key[y] => x = y
  OBVIOUS
<1>5. \A x, y \in places : LexBefore(key[x], key[y]) => x < y
  <2>1. \A x \in places : DOMAIN key[x] = {1} /\ key[x][1] = x
    OBVIOUS
  <2> HIDE DEF key
  <2> QED
    BY <2>1 DEF LexBefore
<1>6. /\ size \in Nat /\ order \in [1..size -> places]
      /\ \A x \in places : \E n \in 1..size : order[n] = x
      /\ \A m, n \in 1..size : m < n => LexBefore(key[order[m]], key[order[n]])
  <2> HIDE DEF key, keys
  <2> QED
    BY <1>2, <1>3, <1>4, SortedByKey
<1>7. Keep(s, places) = [n \in DOMAIN order |-> s[order[n]]]
  BY DEF Keep
<1> HIDE DEF order, key, keys, size
<1>8. Keep(s, places) = kept
  BY <1>6, <1>7
<1>9. \A n \in 1..size : s[order[n]] \in X
  BY <1>1, <1>6
<1>10. kept \in Seq(X) /\ Len(kept) = size
  BY <1>6, <1>9
<1>11. \A m, n \in 1..size : m < n => order[m] < order[n]
  BY <1>5, <1>6
<1> QED
  BY <1>2, <1>6, <1>8, <1>10, <1>11

(***************************************************************************)
(* Counts and sums                                                         *)
(***************************************************************************)
\* What another element adds to a count.
LEMMA OneMore ==
  ASSUME NEW S, NEW T, NEW x, IsFiniteSet(S), S \subseteq T, T \subseteq S \union {x}
  PROVE  /\ Cardinality(S) \in Nat /\ Cardinality(T) - Cardinality(S) \in {0, 1}
         /\ x \in T \ S => Cardinality(T) = Cardinality(S) + 1
         /\ x \notin T \ S => Cardinality(T) = Cardinality(S)
<1>1. Cardinality(S) \in Nat
  BY FS_CardinalityType
<1>2. CASE x \in T \ S
  <2>1. T = S \union {x} /\ x \notin S
    BY <1>2
  <2>2. Cardinality(T) = Cardinality(S) + 1
    BY <2>1, FS_AddElement
  <2> QED
    BY <1>1, <1>2, <2>2
<1>3. CASE x \notin T \ S
  <2>1. T = S
    BY <1>3
  <2> QED
    BY <1>1, <1>3, <2>1
<1> QED
  BY <1>2, <1>3

\* How a sum is folded.
Sums(it, C, number) ==
  it = [s \in SUBSET C |->
          IF s = {} THEN 0
          ELSE number[CHOOSE c \in s : TRUE] + it[s \ {CHOOSE c \in s : TRUE}]]

\* However its elements are picked, a finite set has one sum.
LEMMA SumsAgree ==
  ASSUME NEW C, IsFiniteSet(C), NEW number, NEW it, Sums(it, C, number),
         NEW other, Sums(other, C, number)
  PROVE  it[C] = other[C]
<1> DEFINE pick == [s \in (SUBSET C) \ {{}} |-> CHOOSE c \in s : TRUE]
           G == {s \in SUBSET C : it[s] = other[s]}
<1>1. \A s \in (SUBSET C) \ {{}} : pick[s] \in s /\ pick[s] \in C
  OBVIOUS
<1>2. Picks(pick, C)
  <2>1. pick \in [(SUBSET C) \ {{}} -> C]
    BY <1>1
  <2> HIDE DEF pick
  <2> QED
    BY <1>1, <2>1 DEF Picks
<1>3. {} \in G
  BY DEF Sums
<1>4. ASSUME NEW s \in (SUBSET C) \ {{}}, s \ {pick[s]} \in G PROVE s \in G
  <2> DEFINE rest == s \ {pick[s]}
  <2>1. it[s] = number[pick[s]] + it[rest]
    BY DEF Sums
  <2>2. other[s] = number[pick[s]] + other[rest]
    BY DEF Sums
  <2> HIDE DEF pick
  <2> QED
    BY <1>4, <2>1, <2>2
<1>5. SUBSET C \subseteq G
  <2> HIDE DEF G, pick
  <2> QED
    BY <1>2, <1>3, <1>4, FoldInductive
<1> QED
  BY <1>5

\* The sizes of the parts of a set add up to the size of the set.
LEMMA PartsAdd ==
  ASSUME NEW C, IsFiniteSet(C), NEW D, IsFiniteSet(D), NEW part, NEW number,
         \A c \in C : part[c] \subseteq D /\ number[c] = Cardinality(part[c]),
         \A x \in D : \E c \in C : x \in part[c],
         \A c, e \in C : c # e => part[c] \intersect part[e] = {}
  PROVE  \E it : Sums(it, C, number) /\ it[C] = Cardinality(D)
<1> DEFINE one(s) == CHOOSE c \in s : TRUE
           within(s) == {x \in D : \E c \in s : x \in part[c]}
           size == [s \in SUBSET C |-> Cardinality(within(s))]
<1>1. \A s \in (SUBSET C) \ {{}} : one(s) \in s
  OBVIOUS
<1>2. ASSUME NEW s \in (SUBSET C) \ {{}}
      PROVE  Cardinality(within(s)) = number[one(s)] + Cardinality(within(s \ {one(s)}))
  <2> DEFINE c == one(s)
             here == part[c]
  <2>1. c \in s /\ c \in C
    BY <1>1
  <2> HIDE DEF c
  <2>2. within(s) = here \union within(s \ {c}) /\ here \intersect within(s \ {c}) = {}
    BY <2>1
  <2>3. IsFiniteSet(here) /\ IsFiniteSet(within(s \ {c}))
    BY <2>1, FS_Subset
  <2>4. Cardinality(here) \in Nat /\ Cardinality(within(s \ {c})) \in Nat
    BY <2>3, FS_CardinalityType
  <2>5. Cardinality({}) = 0
    BY FS_EmptySet
  <2> HIDE DEF here, within
  <2>6. Cardinality(within(s)) = Cardinality(here) + Cardinality(within(s \ {c}))
    <3> DEFINE rest == within(s \ {c})
    <3> HIDE DEF rest
    <3>1. /\ IsFiniteSet(here) /\ IsFiniteSet(rest) /\ within(s) = here \union rest
          /\ Cardinality(here \intersect rest) = 0
          /\ Cardinality(here) \in Nat /\ Cardinality(rest) \in Nat
      BY <2>2, <2>3, <2>4, <2>5 DEF rest
    <3>2. Cardinality(here \union rest)
            = Cardinality(here) + Cardinality(rest) - Cardinality(here \intersect rest)
      BY <3>1, FS_Union
    <3>3. Cardinality(within(s)) = Cardinality(here) + Cardinality(rest)
      BY <3>1, <3>2
    <3> QED
      BY <3>3 DEF rest
  <2>7. number[c] = Cardinality(here)
    BY <2>1 DEF here
  <2> QED
    BY <2>6, <2>7 DEF c
<1>3. size[{}] = 0
  <2>1. within({}) = {}
    OBVIOUS
  <2> HIDE DEF within
  <2> QED
    BY <2>1, FS_EmptySet
<1>4. Sums(size, C, number)
  <2>1. ASSUME NEW s \in SUBSET C, s # {}
        PROVE  size[s] = number[one(s)] + size[s \ {one(s)}]
    <3> HIDE DEF within, one
    <3>1. size[s] = Cardinality(within(s))
             /\ size[s \ {one(s)}] = Cardinality(within(s \ {one(s)}))
      OBVIOUS
    <3>2. s \in (SUBSET C) \ {{}}
      BY <2>1
    <3> QED
      BY <1>2, <3>1, <3>2
  <2>2. size = [s \in SUBSET C |-> IF s = {} THEN 0 ELSE number[one(s)] + size[s \ {one(s)}]]
    <3> HIDE DEF one, within
    <3> QED
      BY <1>3, <2>1
  <2> HIDE DEF size
  <2> QED
    BY <2>2 DEF Sums
<1>5. size[C] = Cardinality(D)
  <2>1. within(C) = D
    OBVIOUS
  <2> HIDE DEF within
  <2> QED
    BY <2>1
<1> HIDE DEF size
<1> QED
  BY <1>4, <1>5

LEMMA PartsSum ==
  ASSUME NEW C, IsFiniteSet(C), NEW D, IsFiniteSet(D), NEW part, NEW number,
         \A c \in C : part[c] \subseteq D /\ number[c] = Cardinality(part[c]),
         \A x \in D : \E c \in C : x \in part[c],
         \A c, e \in C : c # e => part[c] \intersect part[e] = {},
         NEW it, Sums(it, C, number)
  PROVE  it[C] = Cardinality(D)
<1>1. PICK other : Sums(other, C, number) /\ other[C] = Cardinality(D)
  BY PartsAdd
<1> QED
  BY <1>1, SumsAgree

\* Naturals have a natural sum.
LEMMA NaturalsSum ==
  ASSUME NEW C, IsFiniteSet(C), NEW number, \A c \in C : number[c] \in Nat
  PROVE  \E it : Sums(it, C, number) /\ it[C] \in Nat
<1> DEFINE pick == [s \in (SUBSET C) \ {{}} |-> CHOOSE c \in s : TRUE]
           step == [x \in C \X Nat |-> number[x[1]] + x[2]]
           zero == 0
           A == Nat
<1>1. \A s \in (SUBSET C) \ {{}} : pick[s] \in s /\ pick[s] \in C
  OBVIOUS
<1>2. Picks(pick, C)
  <2>1. pick \in [(SUBSET C) \ {{}} -> C]
    BY <1>1
  <2> HIDE DEF pick
  <2> QED
    BY <1>1, <2>1 DEF Picks
<1>3. step \in [C \X A -> A] /\ zero \in A
  OBVIOUS
<1> HIDE DEF A, zero, step
<1>4. PICK f \in [SUBSET C -> A] : Folds(f, C, zero, pick, step)
  <2> HIDE DEF pick
  <2> QED
    BY <1>2, <1>3, FoldExists
<1>5. ASSUME NEW s \in SUBSET C, s # {}
      PROVE  f[s] = number[CHOOSE c \in s : TRUE] + f[s \ {CHOOSE c \in s : TRUE}]
  <2> DEFINE c == CHOOSE c \in s : TRUE
  <2>1. pick[s] = c /\ c \in C
    BY <1>1, <1>5
  <2> HIDE DEF c, pick
  <2>2. f[s] = step[<<c, f[s \ {c}]>>]
    BY <1>4, <1>5, <2>1 DEF Folds, Folded
  <2>3. f[s \ {c}] \in Nat
    BY <1>4 DEF A
  <2>4. step[<<c, f[s \ {c}]>>] = number[c] + f[s \ {c}]
    <3>1. <<c, f[s \ {c}]>> \in C \X Nat
      BY <2>1, <2>3
    <3> QED
      BY <3>1 DEF step
  <2> QED
    BY <2>2, <2>4 DEF c
<1>6. f[{}] = 0 /\ f[C] \in Nat
  BY <1>4 DEF Folds, Folded, zero, A
<1>7. Sums(f, C, number)
  <2>1. DOMAIN f = SUBSET C
    BY <1>4
  <2> QED
    BY <1>4, <1>5, <1>6, <2>1 DEF Sums
<1> QED
  BY <1>6, <1>7

(***************************************************************************)
(* Shares                                                                  *)
(***************************************************************************)
LEMMA ProductPositive ==
  ASSUME NEW m \in Nat \ {0}, NEW n \in Nat \ {0}
  PROVE  m * n \in Nat \ {0}
  OBVIOUS

\* The product that stands for a share is a positive number for every rank; it is
\* the fold of FoldLeft over the denominators, taken from the largest down.
LEMMA ShareTyped ==
  ASSUME NEW constant \in Nat, NEW size \in Nat, NEW rank
  PROVE  /\ Share(constant, size, rank) \in Nat
         /\ rank # 0 => Share(constant, size, rank) # 0
<1> DEFINE S == 1..size
           Positive == Nat \ {0}
           seq == [k \in 1..size |-> k]
           Loop(it) == [s \in SUBSET DOMAIN seq |->
                          IF s = {} THEN 1
                          ELSE LET x == Max(s)
                               IN IF seq[x] = rank THEN it[s \ {x}]
                                  ELSE it[s \ {x}] * (constant + seq[x])]
           iter == CHOOSE it : it = Loop(it)
           pick == [s \in (SUBSET S) \ {{}} |-> Max(s)]
           step == [x \in S \X Positive |-> IF x[1] = rank THEN x[2] ELSE x[2] * (constant + x[1])]
<1>1. rank # 0 => Share(constant, size, rank) = iter[DOMAIN seq]
  BY DEF Share, FoldLeft, MapThenFoldSet
<1>2. IsFiniteSet(S) /\ DOMAIN seq = S
  <2>1. size \in Int /\ 1 \in Int
    OBVIOUS
  <2> QED
    BY <2>1, FS_Interval
<1>3. \A s \in (SUBSET S) \ {{}} : Max(s) \in s
  <2> TAKE s \in (SUBSET S) \ {{}}
  <2>1. s \in SUBSET Int /\ s # {}
    OBVIOUS
  <2>3. IsFiniteSet(s)
    <3> HIDE DEF S, seq
    <3> QED
      BY <1>2, FS_Subset
  <2>2. \E x \in s : \A y \in s : x >= y
    BY <2>1, <2>3, LargestExists
  <2> QED
    BY <2>2 DEF Max
<1>4. Picks(pick, S)
  <2>1. pick \in [(SUBSET S) \ {{}} -> S]
    BY <1>3
  <2>2. \A s \in (SUBSET S) \ {{}} : pick[s] \in s
    BY <1>3
  <2> HIDE DEF pick
  <2> QED
    BY <2>1, <2>2 DEF Picks
<1>5. step \in [S \X Positive -> Positive]
  <2>1. \A x \in S \X Positive : step[x] \in Positive
    <3> SUFFICES ASSUME NEW n \in S, NEW m \in Positive PROVE step[<<n, m>>] \in Positive
      OBVIOUS
    <3>1. constant + n \in Positive
      OBVIOUS
    <3>2. m * (constant + n) \in Positive
      BY <3>1, ProductPositive
    <3>3. step[<<n, m>>] = IF n = rank THEN m ELSE m * (constant + n)
      OBVIOUS
    <3> QED
      BY <3>2, <3>3
  <2> QED
    BY <2>1
<1>8. PICK f \in [SUBSET S -> Positive] : Folds(f, S, 1, pick, step)
  <2> DEFINE A == Positive
             one == 1
  <2>1. step \in [S \X A -> A] /\ one \in A
    BY <1>5
  <2>3. IsFiniteSet(S)
    BY <1>2
  <2> HIDE DEF S, pick, step, seq, A, one
  <2>2. \E f \in [SUBSET S -> A] : Folds(f, S, one, pick, step)
    BY <1>4, <2>1, <2>3, FoldExists
  <2> QED
    BY <2>2 DEF A, one
<1>9. f = Loop(f)
  <2>1. ASSUME NEW s \in SUBSET S, s # {}
        PROVE  f[s] = IF seq[Max(s)] = rank THEN f[s \ {Max(s)}]
                      ELSE f[s \ {Max(s)}] * (constant + seq[Max(s)])
    <3>1. pick[s] = Max(s) /\ Max(s) \in S /\ seq[Max(s)] = Max(s)
      BY <1>3, <2>1
    <3>2. f[s] = step[<<pick[s], f[s \ {pick[s]}]>>]
      BY <1>8, <2>1 DEF Folds, Folded
    <3>3. f[s \ {Max(s)}] \in Positive
      BY <1>8
    <3>4. step[<<Max(s), f[s \ {Max(s)}]>>]
            = IF Max(s) = rank THEN f[s \ {Max(s)}] ELSE f[s \ {Max(s)}] * (constant + Max(s))
      BY <3>1, <3>3
    <3> HIDE DEF step, pick
    <3> QED
      BY <3>1, <3>2, <3>4
  <2>2. f[{}] = 1
    BY <1>8 DEF Folds, Folded
  <2> HIDE DEF S, seq
  <2> QED
    BY <1>2, <1>8, <2>1, <2>2
<1>10. iter = Loop(iter)
  <2> HIDE DEF Loop
  <2> QED
    BY <1>9
<1> DEFINE G == {s \in SUBSET S : iter[s] \in Positive}
<1>11. SUBSET S \subseteq G
  <2> HIDE DEF iter
  <2>1. {} \in G
    BY <1>2, <1>10
  <2>2. ASSUME NEW s \in (SUBSET S) \ {{}}, s \ {pick[s]} \in G
        PROVE  s \in G
    <3>1. pick[s] = Max(s) /\ Max(s) \in S /\ seq[Max(s)] = Max(s)
      BY <1>3
    <3>2. iter[s] = IF seq[Max(s)] = rank THEN iter[s \ {Max(s)}]
                    ELSE iter[s \ {Max(s)}] * (constant + seq[Max(s)])
      BY <1>2, <1>10
    <3>3. iter[s \ {Max(s)}] \in Positive /\ constant + Max(s) \in Positive
      BY <2>2, <3>1
    <3>4. iter[s \ {Max(s)}] * (constant + Max(s)) \in Positive
      BY <3>3, ProductPositive
    <3> HIDE DEF seq, pick, Positive
    <3> QED
      BY <3>1, <3>2, <3>3, <3>4
  <2> HIDE DEF G, S, pick, seq
  <2> QED
    BY <1>2, <1>4, <2>1, <2>2, FoldInductive
<1> QED
  <2>1. rank # 0 => Share(constant, size, rank) \in Positive
    <3> HIDE DEF iter, Loop, S, seq, Positive
    <3> QED
      BY <1>1, <1>2, <1>11
  <2>2. rank = 0 => Share(constant, size, rank) = 0
    BY DEF Share
  <2> QED
    BY <2>1, <2>2

LEMMA PrefixKeeps ==
  ASSUME NEW X, NEW s \in Seq(X), NEW n \in Nat
  PROVE  /\ Prefix(s, n) \in Seq(X)
         /\ Len(Prefix(s, n)) <= n /\ Len(Prefix(s, n)) <= Len(s)
         /\ \A i \in 1..Len(Prefix(s, n)) : Prefix(s, n)[i] = s[i]
  BY DEF Prefix

(***************************************************************************)
(* Flattening                                                              *)
(***************************************************************************)
\* The elements of a flattened sequence are elements of its sequences.
LEMMA FlattenedTyped ==
  ASSUME NEW X, NEW seqs \in Seq(Seq(X))
  PROVE  FlattenSeq(seqs) \in Seq(X)
<1> DEFINE A == Seq(X)
           places == 1..Len(seqs)
           Loop(m) == [i \in places |-> IF i = 1 THEN seqs[i] ELSE m[i - 1] \o seqs[i]]
           step == [x \in A \X Nat |->
                      IF x[2] = 1 THEN seqs[1]
                      ELSE IF x[2] \in places THEN x[1] \o seqs[x[2]] ELSE x[1]]
           flat == CHOOSE m : m = Loop(m)
<1>1. Len(seqs) \in Nat /\ \A i \in places : seqs[i] \in A
  OBVIOUS
<1>2. CASE Len(seqs) = 0
  <2>1. FlattenSeq(seqs) = <<>>
    BY <1>2 DEF FlattenSeq
  <2> QED
    BY <2>1
<1>3. CASE Len(seqs) # 0
  <2>1. step \in [A \X Nat -> A]
    <3>1. seqs[1] \in A
      BY <1>1, <1>3
    <3>2. \A x \in A \X Nat : x[2] \in places => x[1] \o seqs[x[2]] \in A
      <4>1. \A s, t \in A : s \o t \in A
        OBVIOUS
      <4> HIDE DEF A
      <4> QED
        BY <1>1, <4>1
    <3> HIDE DEF A
    <3> QED
      BY <3>1, <3>2
  <2>2. <<>> \in A
    OBVIOUS
  <2> HIDE DEF A
  <2>3. \E m : m = Loop(m)
    <3>1. PICK f \in [Nat -> A] : Recurs(f, <<>>, step)
      <4> HIDE DEF step
      <4> QED
        BY <2>1, <2>2, FunctionExists
    <3> DEFINE g == [i \in places |-> f[i]]
    <3>2. ASSUME NEW i \in places PROVE g[i] = Loop(g)[i]
      <4>1. i \in Nat /\ i # 0 /\ i - 1 \in Nat
        BY <1>1
      <4>2. f[i] = step[<<f[i - 1], i>>]
        <5> HIDE DEF step
        <5> QED
          BY <3>1, <4>1 DEF Recurs
      <4>3. <<f[i - 1], i>> \in A \X Nat
        BY <3>1, <4>1
      <4>4. f[i] = IF i = 1 THEN seqs[1] ELSE f[i - 1] \o seqs[i]
        BY <4>2, <4>3, <3>2
      <4>5. i # 1 => i - 1 \in places
        BY <1>1
      <4> QED
        BY <4>4, <4>5
    <3>3. g = Loop(g)
      <4> DEFINE h == Loop(g)
      <4>1. \A i \in places : g[i] = h[i]
        BY <3>2
      <4>2. g = [i \in places |-> g[i]] /\ h = [i \in places |-> h[i]]
        OBVIOUS
      <4> HIDE DEF g, h
      <4>3. g = h
        BY <4>1, <4>2
      <4> QED
        BY <4>3 DEF h
    <3> QED
      BY <3>3
  <2>4. flat = Loop(flat)
    BY <2>3
  <2>5. FlattenSeq(seqs) = flat[Len(seqs)]
    BY <1>3 DEF FlattenSeq
  <2> HIDE DEF flat
  <2> DEFINE good == {n \in Nat : n \in places => flat[n] \in A}
  <2>6. 0 \in good
    BY <1>1
  <2>7. ASSUME NEW n \in Nat, n \in good PROVE n + 1 \in good
    <3>1. SUFFICES ASSUME n + 1 \in places PROVE flat[n + 1] \in A
      OBVIOUS
    <3>2. flat[n + 1] = IF n = 0 THEN seqs[n + 1] ELSE flat[n] \o seqs[n + 1]
      <4>1. (n + 1) - 1 = n /\ (n + 1 = 1 <=> n = 0)
        OBVIOUS
      <4> QED
        BY <2>4, <3>1, <4>1
    <3>3. n # 0 => n \in places
      BY <1>1, <3>1
    <3>4. \A s, t \in A : s \o t \in A
      BY DEF A
    <3> QED
      BY <1>1, <2>7, <3>1, <3>2, <3>3, <3>4
  <2>8. Nat \subseteq good
    <3> HIDE DEF good
    <3> QED
      BY <2>6, <2>7, NatInductive
  <2>9. Len(seqs) \in places
    BY <1>1, <1>3
  <2> QED
    BY <1>1, <2>5, <2>8, <2>9 DEF A
<1> QED
  BY <1>2, <1>3
=============================================================================
