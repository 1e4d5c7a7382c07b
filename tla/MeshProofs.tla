------------------------------ MODULE MeshProofs ------------------------------
(***************************************************************************)
(* Theorems about a mesh on its way into a project (MeshSource), and about *)
(* its patches and what is made of their edits (PatchEdits), for any files,*)
(* any limits, any settings of repairs, and for any segmentation that      *)
(* names its patches apart and any number of edits.                        *)
(*                                                                         *)
(* The readers, the merging of points and the union-find go through lists. *)
(* What they compute is shown by induction over the places of the list, in *)
(* the form that a set of numbers has a least member, the first counter-   *)
(* example; and the functions that are defined by recursion exist by       *)
(* Recursion.                                                              *)
(***************************************************************************)
EXTENDS MeshSource, PatchEdits, SequenceTheorems, FiniteSetTheorems, TLAPS

-----------------------------------------------------------------------------
(* Induction, recursion and order.                                         *)

(* A set of natural numbers has a least member.                            *)
LEMMA Least ==
  ASSUME NEW T, T \subseteq Nat, T # {}
  PROVE  \E m \in T : \A k \in T : m <= k
<1> DEFINE R == OpToRel(<, Nat)
<1>1. IsWellFoundedOn(R, Nat)
  BY NatLessThanWellFounded, Zenon
<1>2. \A x, y \in Nat : <<y, x>> \in R <=> y < x
  BY DEF OpToRel
<1> HIDE DEF R
<1>3. PICK x \in T : \A y \in T : ~(<<y, x>> \in R)
  BY <1>1, WFMin
<1>4. \A y \in T : ~(y < x)
  BY <1>2, <1>3
<1>5. \A y \in T : x <= y
  BY <1>4
<1> QED
  BY <1>5

(* Induction: a set of numbers with 0 that has the successor of each of    *)
(* its members is Nat.  The induction is over a set, and so needs no       *)
(* theorem that takes an operator.                                         *)
LEMMA Induction ==
  ASSUME NEW T, T \subseteq Nat, 0 \in T, \A n \in T : n + 1 \in T
  PROVE  T = Nat
<1> SUFFICES ASSUME Nat \ T # {} PROVE FALSE
  OBVIOUS
<1>1. PICK m \in Nat \ T : \A k \in Nat \ T : m <= k
  BY Least
<1>2. m # 0 /\ m - 1 \in Nat /\ m - 1 \in T
  BY <1>1
<1> QED
  BY <1>1, <1>2

(* The same for the numbers up to N.                                       *)
LEMMA InductionUpTo ==
  ASSUME NEW N \in Nat, NEW T, 0 \in T, \A n \in 0 .. N : n \in T /\ n < N => n + 1 \in T
  PROVE  0 .. N \subseteq T
<1> DEFINE U == {n \in Nat : n <= N => n \in T}
<1>1. U \subseteq Nat /\ 0 \in U
  OBVIOUS
<1>2. \A n \in U : n + 1 \in U
  OBVIOUS
<1>3. U = Nat
  <2> HIDE DEF U
  <2> QED BY <1>1, <1>2, Induction
<1> QED
  BY <1>3

(* A recursion over 1 .. N has a solution.                                 *)
Solves(f, S, base, N, step) ==
  /\ f \in [0 .. N -> S]
  /\ f[0] = base
  /\ \A n \in 1 .. N : f[n] = step[<<f[n - 1], n>>]
(* There is a function that takes every step of a recursion: the           *)
(* recursive functions of the model are defined.                           *)
LEMMA Recursion ==
  ASSUME NEW S, NEW base \in S, NEW N \in Nat, NEW step \in [S \X (1 .. N) -> S]
  PROVE  \E f : Solves(f, S, base, N, step)
<1> DEFINE T == {m \in Nat : \E f \in [0 .. m -> S] :
                   f[0] = base /\ \A n \in 1 .. m : n <= N => f[n] = step[<<f[n - 1], n>>]}
<1>1. 0 \in T
  <2> DEFINE g == [n \in 0 .. 0 |-> base]
  <2>1. g \in [0 .. 0 -> S] /\ g[0] = base
    OBVIOUS
  <2>2. \A n \in 1 .. 0 : n <= N => g[n] = step[<<g[n - 1], n>>]
    OBVIOUS
  <2> HIDE DEF g
  <2> QED
    BY <2>1, <2>2
<1>2. ASSUME NEW m \in T PROVE m + 1 \in T
  <2>1. PICK f \in [0 .. m -> S] :
              f[0] = base /\ \A n \in 1 .. m : n <= N => f[n] = step[<<f[n - 1], n>>]
    BY <1>2
  <2> DEFINE new == IF m + 1 <= N THEN step[<<f[m], m + 1>>] ELSE base
             g == [n \in 0 .. m + 1 |-> IF n <= m THEN f[n] ELSE new]
  <2>2. new \in S
    <3>1. f[m] \in S /\ m + 1 \in Nat /\ m + 1 >= 1
      BY <2>1, <1>2
    <3> QED BY <3>1
  <2>3. g \in [0 .. m + 1 -> S]
    BY <2>1, <2>2, <1>2
  <2>4. g[0] = base
    BY <2>1, <1>2
  <2>5. ASSUME NEW n \in 1 .. m + 1, n <= N PROVE g[n] = step[<<g[n - 1], n>>]
    <3>1. n - 1 \in 0 .. m /\ g[n - 1] = f[n - 1]
      BY <1>2, <2>5
    <3>2. CASE n <= m
      BY <3>1, <3>2, <2>1, <2>5, <1>2
    <3>3. CASE n = m + 1
      <4>1. n - 1 = m /\ g[n] = new /\ new = step[<<f[m], m + 1>>]
        BY <3>3, <2>5, <1>2
      <4> QED BY <3>1, <3>3, <4>1
    <3> QED BY <3>2, <3>3, <1>2
  <2> HIDE DEF g
  <2> QED
    BY <2>3, <2>4, <2>5, <1>2
<1>3. T = Nat
  <2>1. T \subseteq Nat OBVIOUS
  <2> HIDE DEF T
  <2> QED BY <1>1, <1>2, <2>1, Induction
<1>4. N \in T
  BY <1>3
<1>5. PICK f \in [0 .. N -> S] : f[0] = base /\ \A n \in 1 .. N : f[n] = step[<<f[n - 1], n>>]
  BY <1>4
<1>6. Solves(f, S, base, N, step)
  BY <1>5 DEF Solves
<1> QED
  BY <1>6

(* An order of a finite set by the number of members that are less.        *)
StrictOrder(R, S) ==
  /\ \A x \in S : <<x, x>> \notin R
  /\ \A x, y, z \in S : <<x, y>> \in R /\ <<y, z>> \in R => <<x, z>> \in R
TotalOrder(R, S) == StrictOrder(R, S) /\ \A x, y \in S : x = y \/ <<x, y>> \in R \/ <<y, x>> \in R
Lower(R, S, x) == {y \in S : <<y, x>> \in R}

(* More members are below the greater of two.                              *)
LEMMA LowerGrows ==
  ASSUME NEW S, IsFiniteSet(S), NEW R, StrictOrder(R, S), NEW x \in S, NEW y \in S, <<x, y>> \in R
  PROVE  /\ Cardinality(Lower(R, S, x)) \in Nat /\ Cardinality(Lower(R, S, y)) \in Nat
         /\ Cardinality(Lower(R, S, x)) < Cardinality(Lower(R, S, y))
<1>1. Lower(R, S, x) \subseteq Lower(R, S, y) /\ Lower(R, S, y) \subseteq S
  BY DEF Lower, StrictOrder
<1>2. x \in Lower(R, S, y) /\ x \notin Lower(R, S, x)
  BY DEF Lower, StrictOrder
<1>3. IsFiniteSet(Lower(R, S, y)) /\ IsFiniteSet(Lower(R, S, x))
  BY <1>1, FS_Subset
<1>4. Cardinality(Lower(R, S, x)) <= Cardinality(Lower(R, S, y))
       /\ (Cardinality(Lower(R, S, x)) = Cardinality(Lower(R, S, y)) => Lower(R, S, y) = Lower(R, S, x))
  BY <1>1, <1>3, FS_Subset
<1>5. Cardinality(Lower(R, S, x)) \in Nat /\ Cardinality(Lower(R, S, y)) \in Nat
  BY <1>3, FS_CardinalityType
<1> QED
  BY <1>2, <1>4, <1>5

(* A finite set that is not empty has a member with none below it.         *)
LEMMA LowestExists ==
  ASSUME NEW S, IsFiniteSet(S), S # {}, NEW R, StrictOrder(R, S)
  PROVE  \E x \in S : \A y \in S : <<y, x>> \notin R
<1> DEFINE N == {Cardinality(Lower(R, S, x)) : x \in S}
<1>1. \A x \in S : Cardinality(Lower(R, S, x)) \in Nat
  <2> TAKE x \in S
  <2>1. Lower(R, S, x) \subseteq S BY DEF Lower
  <2> QED BY <2>1, FS_Subset, FS_CardinalityType
<1>2. PICK n \in N : \A k \in N : n <= k
  <2>1. N \subseteq Nat /\ N # {} BY <1>1
  <2> HIDE DEF N
  <2> QED BY <2>1, Least
<1>3. PICK x \in S : n = Cardinality(Lower(R, S, x))
  BY <1>2
<1>4. ASSUME NEW y \in S, <<y, x>> \in R PROVE FALSE
  <2>1. Cardinality(Lower(R, S, y)) < Cardinality(Lower(R, S, x))
    BY <1>4, LowerGrows
  <2>2. Cardinality(Lower(R, S, x)) <= Cardinality(Lower(R, S, y))
    BY <1>2, <1>3
  <2> QED BY <1>1, <2>1, <2>2
<1> QED BY <1>4

(* What it is to list a set in its order.                                  *)
Enumerates(at, S, R) ==
  /\ Cardinality(S) \in Nat
  /\ at \in [1 .. Cardinality(S) -> S]
  /\ \A i, j \in 1 .. Cardinality(S) : i < j => <<at[i], at[j]>> \in R
  /\ \A x \in S : \E i \in 1 .. Cardinality(S) : at[i] = x
(* InOrder lists a finite set in its order: the number of members below    *)
(* is the place.                                                           *)
LEMMA Enumerated ==
  ASSUME NEW S, IsFiniteSet(S), NEW R, TotalOrder(R, S),
         NEW below, \A x \in S : below[x] = Lower(R, S, x)
  PROVE  Enumerates(InOrder(S, below), S, R)
<1> DEFINE at == [n \in 1 .. Cardinality(S) |-> CHOOSE x \in S : Cardinality(Lower(R, S, x)) = n - 1]
<1>0. InOrder(S, below) = at
  BY DEF InOrder
<1> DEFINE C == Cardinality(S)
           rank == [x \in S |-> Cardinality(Lower(R, S, x))]
<1>1. C \in Nat
  BY FS_CardinalityType
<1>2. rank \in [S -> 0 .. C - 1]
  <2> SUFFICES ASSUME NEW x \in S PROVE Cardinality(Lower(R, S, x)) \in 0 .. C - 1
    OBVIOUS
  <2>1. Lower(R, S, x) \subseteq S /\ x \notin Lower(R, S, x)
    BY DEF Lower, TotalOrder, StrictOrder
  <2>2. IsFiniteSet(Lower(R, S, x)) /\ Cardinality(Lower(R, S, x)) <= C /\ Cardinality(Lower(R, S,
        x)) # C
    BY <2>1, FS_Subset
  <2>3. Cardinality(Lower(R, S, x)) \in Nat
    BY <2>2, FS_CardinalityType
  <2> QED BY <1>1, <2>2, <2>3
<1>3. \A x, y \in S : <<x, y>> \in R => rank[x] < rank[y]
  BY LowerGrows DEF TotalOrder
<1>4. \A x, y \in S : rank[x] = rank[y] => x = y
  <2> SUFFICES ASSUME NEW x \in S, NEW y \in S, rank[x] = rank[y] PROVE x = y
    OBVIOUS
  <2>1. x = y \/ <<x, y>> \in R \/ <<y, x>> \in R
    BY DEF TotalOrder
  <2>2. rank[x] < rank[y] \/ rank[y] < rank[x] \/ x = y
    BY <1>3, <2>1
  <2>3. rank[x] \in Int /\ rank[y] \in Int
    BY <1>2
  <2> HIDE DEF rank
  <2> QED BY <2>2, <2>3
<1>5. rank \in Injection(S, 0 .. C - 1)
  BY <1>2, <1>4 DEF Injection, IsInjective
<1>6. IsFiniteSet(0 .. C - 1) /\ Cardinality(0 .. C - 1) = C
  BY <1>1, FS_Interval
<1>7. rank \in Surjection(S, 0 .. C - 1)
  BY <1>5, <1>6, FS_Injection
<1>8. \A n \in 0 .. C - 1 : \E x \in S : rank[x] = n
  BY <1>7 DEF Surjection
<1>9. \A n \in 1 .. C : at[n] \in S /\ rank[at[n]] = n - 1
  <2> TAKE n \in 1 .. C
  <2>1. \E x \in S : Cardinality(Lower(R, S, x)) = n - 1
    BY <1>1, <1>8
  <2>2. at[n] \in S /\ Cardinality(Lower(R, S, at[n])) = n - 1
    BY <2>1
  <2> QED BY <2>2
<1>10. at \in [1 .. C -> S]
  BY <1>9
<1>11. ASSUME NEW i \in 1 .. C, NEW j \in 1 .. C, i < j PROVE <<at[i], at[j]>> \in R
  <2> HIDE DEF rank
  <2>1. rank[at[i]] = i - 1 /\ rank[at[j]] = j - 1 /\ at[i] \in S /\ at[j] \in S
    BY <1>9
  <2>2. ~(rank[at[j]] < rank[at[i]]) /\ rank[at[i]] # rank[at[j]]
    <3>1. i \in Int /\ j \in Int /\ ~(j - 1 < i - 1) /\ i - 1 # j - 1
      BY <1>1, <1>11
    <3> QED BY <2>1, <3>1
  <2>3. at[i] = at[j] \/ <<at[i], at[j]>> \in R \/ <<at[j], at[i]>> \in R
    BY <2>1 DEF TotalOrder
  <2> QED BY <1>3, <2>1, <2>2, <2>3
<1>12. ASSUME NEW x \in S PROVE \E i \in 1 .. C : at[i] = x
  <2>1. rank[x] \in 0 .. C - 1
    BY <1>2
  <2>2. rank[x] + 1 \in 1 .. C /\ rank[at[rank[x] + 1]] = rank[x] /\ at[rank[x] + 1] \in S
    BY <1>1, <2>1, <1>9
  <2> QED BY <2>2, <1>4
<1>13. Enumerates(at, S, R)
  <2> HIDE DEF at
  <2> QED BY <1>1, <1>10, <1>11, <1>12 DEF Enumerates
<1> QED BY <1>0, <1>13

-----------------------------------------------------------------------------
(* Sequences, sums and counts.                                             *)

(* Functions on 1 .. n are sequences.                                      *)
LEMMA AreSequences ==
  ASSUME NEW n \in Nat, NEW S, NEW s \in [1 .. n -> S]
  PROVE  s \in Seq(S) /\ Len(s) = n /\ DOMAIN s = 1 .. n
<1>1. s \in Seq(S)
  BY SeqDef
<1>2. DOMAIN s = 1 .. n
  OBVIOUS
<1>3. Len(s) \in Nat /\ DOMAIN s = 1 .. Len(s)
  BY <1>1, LenProperties
<1> QED
  BY <1>1, <1>2, <1>3

(* Sorted is strictly increasing and lists every number.                   *)
LEMMA SortedNumbers ==
  ASSUME NEW S, S \subseteq Int, IsFiniteSet(S), NEW at, at = Sorted(S)
  PROVE  /\ at \in Seq(S) /\ Len(at) = Cardinality(S)
         /\ Cardinality(S) \in Nat /\ DOMAIN at = 1 .. Cardinality(S)
         /\ \A i \in DOMAIN at : at[i] \in S
         /\ \A i, j \in DOMAIN at : i < j => at[i] < at[j]
         /\ \A x \in S : \E i \in DOMAIN at : at[i] = x
<1> DEFINE R == {p \in S \X S : p[1] < p[2]}
<1>1. \A x, y \in S : <<x, y>> \in R <=> x < y
  OBVIOUS
<1>2. \A x \in S : Lower(R, S, x) = {y \in S : y < x}
  BY DEF Lower
<1> HIDE DEF R
<1> DEFINE below == [x \in S |-> {y \in S : y < x}]
<1>3. \A x \in S : below[x] = Lower(R, S, x)
  BY <1>2
<1>7. at = InOrder(S, below)
  BY DEF Sorted
<1>4. TotalOrder(R, S)
  BY <1>1 DEF TotalOrder, StrictOrder
<1>5. /\ Cardinality(S) \in Nat
      /\ at \in [1 .. Cardinality(S) -> S]
      /\ \A i, j \in 1 .. Cardinality(S) : i < j => <<at[i], at[j]>> \in R
      /\ \A x \in S : \E i \in 1 .. Cardinality(S) : at[i] = x
  <2> HIDE DEF below
  <2>1. Enumerates(at, S, R)
    BY <1>3, <1>7, <1>4, Enumerated
  <2> QED BY <2>1 DEF Enumerates
<1>6. at \in Seq(S) /\ Len(at) = Cardinality(S) /\ DOMAIN at = 1 .. Cardinality(S)
  BY <1>5, AreSequences
<1> QED
  BY <1>1, <1>5, <1>6

(* The points of a mesh are listed by their first coordinate, then by the  *)
(* second.                                                                 *)
LEMMA SortedPoints ==
  ASSUME NEW S, S \subseteq Int \X Int, IsFiniteSet(S), NEW at, NEW below,
         \A x \in S : below[x] = {y \in S : Before(y, x)}, at = InOrder(S, below)
  PROVE  /\ at \in Seq(S) /\ Len(at) = Cardinality(S)
         /\ Cardinality(S) \in Nat /\ DOMAIN at = 1 .. Cardinality(S)
         /\ \A i \in DOMAIN at : at[i] \in S
         /\ \A x \in S : \E i \in DOMAIN at : at[i] = x
<1> DEFINE R == {p \in S \X S : Before(p[1], p[2])}
<1>1. \A x, y \in S : <<x, y>> \in R <=> Before(x, y)
  OBVIOUS
<1>2. \A x \in S : Lower(R, S, x) = {y \in S : Before(y, x)}
  BY DEF Lower
<1> HIDE DEF R
<1>3. \A x \in S : below[x] = Lower(R, S, x)
  BY <1>2
<1>4. TotalOrder(R, S)
  <2>1. \A x \in S : ~Before(x, x)
    BY DEF Before
  <2>2. \A x, y, z \in S : Before(x, y) /\ Before(y, z) => Before(x, z)
    BY DEF Before
  <2>3. \A x, y \in S : x = y \/ Before(x, y) \/ Before(y, x)
    <3> SUFFICES ASSUME NEW x \in S, NEW y \in S, ~Before(x, y), ~Before(y, x) PROVE x = y
      OBVIOUS
    <3>1. x[1] = y[1] /\ x[2] = y[2] /\ x = <<x[1], x[2]>> /\ y = <<y[1], y[2]>>
      BY DEF Before
    <3> QED BY <3>1
  <2> QED
    BY <1>1, <2>1, <2>2, <2>3 DEF TotalOrder, StrictOrder
<1>5. /\ Cardinality(S) \in Nat
      /\ at \in [1 .. Cardinality(S) -> S]
      /\ \A i, j \in 1 .. Cardinality(S) : i < j => <<at[i], at[j]>> \in R
      /\ \A x \in S : \E i \in 1 .. Cardinality(S) : at[i] = x
  <2>1. Enumerates(at, S, R)
    BY <1>3, <1>4, Enumerated
  <2> QED BY <2>1 DEF Enumerates
<1>6. at \in Seq(S) /\ Len(at) = Cardinality(S) /\ DOMAIN at = 1 .. Cardinality(S)
  BY <1>5, AreSequences
<1> QED
  BY <1>5, <1>6

(* The least of a set of numbers.                                          *)
LEMMA FirstIsLeast ==
  ASSUME NEW T, T \subseteq Nat, T # {}
  PROVE  First(T) \in T /\ \A k \in T : First(T) <= k
BY Least DEF First

(* Sums and counts.                                                        *)
LEMMA Sums ==
  ASSUME NEW counts \in Seq(Int)
  PROVE  \E sum \in [0 .. Len(counts) -> Int] :
           /\ sum[0] = 0 /\ \A n \in 1 .. Len(counts) : sum[n] = sum[n - 1] + counts[n]
           /\ Total(counts) = sum[Len(counts)]
<1> DEFINE N == Len(counts)
           step == [x \in Int \X (1 .. N) |-> x[1] + counts[x[2]]]
           sum[n \in 0 .. N] == IF n = 0 THEN 0 ELSE sum[n - 1] + counts[n]
<1>1. N \in Nat /\ \A n \in 1 .. N : counts[n] \in Int
  BY ElementOfSeq, LenProperties
<1>2. step \in [Int \X (1 .. N) -> Int]
  BY <1>1
<1>3. PICK f : Solves(f, Int, 0, N, step)
  <2> HIDE DEF step, N, sum
  <2>1. 0 \in Int OBVIOUS
  <2> QED BY <1>1, <1>2, <2>1, Recursion
<1>4. \A n \in 1 .. N : f[n] = f[n - 1] + counts[n]
  <2> TAKE n \in 1 .. N
  <2>1. f[n - 1] \in Int
    BY <1>1, <1>3 DEF Solves
  <2> QED BY <1>3, <2>1 DEF Solves
<1>5. f = [n \in 0 .. N |-> IF n = 0 THEN 0 ELSE f[n - 1] + counts[n]]
  BY <1>1, <1>3, <1>4 DEF Solves
<1>6. sum = [n \in 0 .. N |-> IF n = 0 THEN 0 ELSE sum[n - 1] + counts[n]]
  BY <1>5
<1>7. Total(counts) = sum[N]
  BY DEF Total
<1> HIDE DEF sum
<1>8. \A n \in 1 .. N : sum[n] = sum[n - 1] + counts[n]
  BY <1>1, <1>6
<1>9. sum[0] = 0
  BY <1>1, <1>6
<1>10. \A n \in 0 .. N : sum[n] \in Int
  <2> DEFINE T == {n \in 0 .. N : sum[n] \in Int}
  <2>1. 0 \in T
    BY <1>1, <1>9
  <2>2. \A n \in 0 .. N : n \in T /\ n < N => n + 1 \in T
    <3> SUFFICES ASSUME NEW n \in 0 .. N, n \in T, n < N PROVE n + 1 \in T
      OBVIOUS
    <3>1. n + 1 \in 1 .. N /\ (n + 1) - 1 = n
      BY <1>1
    <3>2. sum[n + 1] = sum[n] + counts[n + 1]
      BY <1>8, <3>1
    <3> QED BY <1>1, <3>1, <3>2
  <2>3. 0 .. N \subseteq T
    <3> HIDE DEF T
    <3> QED BY <1>1, <2>1, <2>2, InductionUpTo
  <2> QED BY <2>3
<1>11. sum \in [0 .. N -> Int]
  BY <1>6, <1>10
<1> QED
  BY <1>7, <1>8, <1>9, <1>11

(* A total of integers is one.                                             *)
LEMMA TotalIsInteger == ASSUME NEW counts \in Seq(Int) PROVE Total(counts) \in Int
<1>1. Len(counts) \in 0 .. Len(counts)
  BY LenProperties
<1> QED
  BY <1>1, Sums

(* The total of zeros and ones counts the ones.                            *)
LEMMA CountOfOnes ==
  ASSUME NEW counts \in Seq({0, 1})
  PROVE  Total(counts) = Cardinality({i \in DOMAIN counts : counts[i] = 1})
<1> DEFINE N == Len(counts)
           ones(n) == {i \in 1 .. n : counts[i] = 1}
<1>1. N \in Nat /\ DOMAIN counts = 1 .. N /\ \A n \in 1 .. N : counts[n] \in {0, 1}
  BY ElementOfSeq, LenProperties
<1>2. counts \in Seq(Int)
  BY SeqMonotonic
<1>3. PICK sum \in [0 .. N -> Int] :
           /\ sum[0] = 0 /\ \A n \in 1 .. N : sum[n] = sum[n - 1] + counts[n]
           /\ Total(counts) = sum[N]
  BY <1>2, Sums
<1> DEFINE T == {n \in 0 .. N : sum[n] = Cardinality(ones(n))}
<1>4. 0 \in T
  <2>1. ones(0) = {}
    OBVIOUS
  <2> QED BY <1>1, <1>3, <2>1, FS_EmptySet
<1>5. \A n \in 0 .. N : n \in T /\ n < N => n + 1 \in T
  <2> SUFFICES ASSUME NEW n \in 0 .. N, n \in T, n < N PROVE n + 1 \in T
    OBVIOUS
  <2>1. n + 1 \in 1 .. N /\ (n + 1) - 1 = n /\ n \in Nat
    BY <1>1
  <2>2. sum[n + 1] = sum[n] + counts[n + 1]
    BY <1>3, <2>1
  <2>3. IsFiniteSet(ones(n))
    <3>1. IsFiniteSet(1 .. n) /\ ones(n) \subseteq 1 .. n
      BY <2>1, FS_Interval
    <3> HIDE DEF ones
    <3> QED BY <3>1, FS_Subset
  <2>4. CASE counts[n + 1] = 1
    <3>1. ones(n + 1) = ones(n) \cup {n + 1} /\ n + 1 \notin ones(n)
      BY <2>1, <2>4
    <3>2. Cardinality(ones(n + 1)) = Cardinality(ones(n)) + 1
      <4> HIDE DEF ones
      <4> QED BY <2>3, <3>1, FS_AddElement
    <3> HIDE DEF ones
    <3> QED BY <2>1, <2>2, <2>4, <3>2
  <2>5. CASE counts[n + 1] = 0
    <3>1. ones(n + 1) = ones(n)
      BY <2>1, <2>5
    <3>2. Cardinality(ones(n)) \in Nat
      BY <2>3, FS_CardinalityType
    <3> HIDE DEF ones
    <3> QED BY <2>1, <2>2, <2>5, <3>1, <3>2
  <2> QED BY <1>1, <2>1, <2>4, <2>5
<1>6. 0 .. N \subseteq T
  <2> HIDE DEF T
  <2> QED BY <1>1, <1>4, <1>5, InductionUpTo
<1>7. N \in 0 .. N
  BY <1>1
<1> QED
  BY <1>1, <1>3, <1>6, <1>7

(* Three corners are three when they differ.                               *)
OfThree(S, a, b, c) == S = {a, b, c}
LEMMA ThreeCorners ==
  ASSUME NEW a, NEW b, NEW c, NEW S, OfThree(S, a, b, c)
  PROVE  /\ Cardinality(S) \in Nat
         /\ Cardinality(S) <= 3
         /\ Cardinality(S) = 3 <=> a # b /\ a # c /\ b # c
<1>0. S = {a, b, c}
  BY DEF OfThree
<1>1. IsFiniteSet({a}) /\ Cardinality({a}) = 1
  BY FS_Singleton
<1>2. {a, b} = {a} \cup {b} /\ {a, b, c} = {a, b} \cup {c}
  OBVIOUS
<1>3. IsFiniteSet({a, b}) /\ Cardinality({a, b}) = IF b = a THEN 1 ELSE 2
  BY <1>1, <1>2, FS_AddElement
<1>4. Cardinality({a, b, c}) = IF c \in {a, b} THEN Cardinality({a, b}) ELSE Cardinality({a, b}) + 1
  BY <1>2, <1>3, FS_AddElement
<1> QED
  BY <1>0, <1>3, <1>4

(* A sequence without repetition has as many members as places.            *)
LEMMA NoRepetition ==
  ASSUME NEW S, NEW s \in Seq(S), \A i, j \in DOMAIN s : s[i] = s[j] => i = j
  PROVE  Cardinality(ToSet(s)) = Len(s)
<1>1. Len(s) \in Nat /\ DOMAIN s = 1 .. Len(s) /\ s \in [1 .. Len(s) -> S]
  BY LenProperties
<1>2. s \in Injection(1 .. Len(s), ToSet(s)) /\ s \in Surjection(1 .. Len(s), ToSet(s))
  BY <1>1 DEF ToSet, Injection, Surjection, IsInjective
<1>3. IsFiniteSet(1 .. Len(s)) /\ Cardinality(1 .. Len(s)) = Len(s)
  BY <1>1, FS_Interval
<1> QED
  BY <1>2, <1>3, FS_Surjection

-----------------------------------------------------------------------------
(* Meshes.                                                                 *)

(* A mesh is well formed when its triangles name points that it has; and   *)
(* what the operations of a repair clear: near points, degenerate          *)
(* triangles, triangles that come twice, points that no triangle uses.     *)
Triangle == [1 .. 3 -> Nat]
WellFormed(m) ==
  /\ m = MeshOf(m.points, m.faces)
  /\ m.points \in Seq(Int \X Int)
  /\ m.faces \in Seq(Triangle)
  /\ \A i \in DOMAIN m.faces : \A k \in 1 .. 3 : m.faces[i][k] \in DOMAIN m.points
NoneNear(m) == \A i, j \in DOMAIN m.points : Near(m.points[i], m.points[j]) => i = j
NoneDegenerate(m) == \A i \in DOMAIN m.faces : ~Degenerate(m, m.faces[i])
NoneTwice(m) == \A i, j \in DOMAIN m.faces : Corners(m.faces[i]) = Corners(m.faces[j]) => i = j
AllUsed(m) == Used(m.faces) = DOMAIN m.points

(* The parts of a mesh.                                                    *)
LEMMA MeshParts ==
  ASSUME NEW points, NEW faces
  PROVE  MeshOf(points, faces).points = points /\ MeshOf(points, faces).faces = faces
BY DEF MeshOf

(* The places of a triangle.                                               *)
LEMMA ThreePlaces == 1 .. 3 = {1, 2, 3} /\ 1 \in 1 .. 3 /\ 2 \in 1 .. 3 /\ 3 \in 1 .. 3
OBVIOUS

LEMMA ImageOfThree ==
  ASSUME NEW f, NEW a, NEW b, NEW c
  PROVE  {f[p] : p \in {a, b, c}} = {f[a], f[b], f[c]}
OBVIOUS

(* The corners of a triangle are the points at its three places.           *)
LEMMA CornersOf == ASSUME NEW face, DOMAIN face = 1 .. 3
                   PROVE  Corners(face) = {face[1], face[2], face[3]}
<1>1. 1 .. 3 = {1, 2, 3}
  OBVIOUS
<1> QED BY <1>1 DEF Corners, ToSet

(* The triangles of some numbers.                                          *)
LEMMA ChosenTriangles ==
  ASSUME NEW m, m.faces \in Seq(Triangle), NEW numbers, numbers \subseteq DOMAIN m.faces
  PROVE  \E at : /\ at \in [1 .. Cardinality(numbers) -> numbers] /\ Cardinality(numbers) \in Nat
                 /\ \A i, j \in DOMAIN at : i < j => at[i] < at[j]
                 /\ Chosen(m, numbers) = [i \in DOMAIN at |-> m.faces[at[i]]]
                 /\ Chosen(m, numbers) \in Seq(Triangle)
<1> DEFINE at == Sorted(numbers)
<1>1. Len(m.faces) \in Nat /\ DOMAIN m.faces = 1 .. Len(m.faces)
      /\ \A i \in DOMAIN m.faces : m.faces[i] \in Triangle
  BY LenProperties, ElementOfSeq
<1>2. IsFiniteSet(numbers) /\ numbers \subseteq Int
  <2>1. IsFiniteSet(1 .. Len(m.faces))
    BY <1>1, FS_Interval
  <2>2. numbers \in SUBSET (1 .. Len(m.faces))
    BY <1>1
  <2> QED BY <1>1, <2>1, <2>2, FS_Subset
<1>3. /\ at \in Seq(numbers) /\ Len(at) = Cardinality(numbers)
      /\ Cardinality(numbers) \in Nat /\ DOMAIN at = 1 .. Cardinality(numbers)
      /\ \A i \in DOMAIN at : at[i] \in numbers
      /\ \A i, j \in DOMAIN at : i < j => at[i] < at[j]
  <2> HIDE DEF at
  <2> SUFFICES at = Sorted(numbers)
    BY <1>2, SortedNumbers
  <2> QED BY DEF at
<1>4. Chosen(m, numbers) = [i \in DOMAIN at |-> m.faces[at[i]]]
  BY DEF Chosen
<1> HIDE DEF at
<1>5. Chosen(m, numbers) \in [1 .. Cardinality(numbers) -> Triangle]
  BY <1>1, <1>3, <1>4
<1>6. Chosen(m, numbers) \in Seq(Triangle)
  BY <1>3, <1>5, AreSequences
<1>7. at \in [1 .. Cardinality(numbers) -> numbers]
  BY <1>3, LenProperties
<1> QED
  BY <1>3, <1>4, <1>6, <1>7

(* A choice of the triangles is well formed, keeps what was clear, and     *)
(* keeps the triangles in their order.                                     *)
LEMMA ChosenKeeps ==
  ASSUME NEW m, WellFormed(m), NEW numbers, numbers \subseteq DOMAIN m.faces,
         NEW c, c = MeshOf(m.points, Chosen(m, numbers))
  PROVE  /\ WellFormed(c)
         /\ NoneNear(m) => NoneNear(c)
         /\ NoneDegenerate(m) => NoneDegenerate(c)
         /\ NoneTwice(m) => NoneTwice(c)
         /\ \A i \in DOMAIN c.faces : \E n \in numbers : c.faces[i] = m.faces[n]
         /\ \A i, j \in DOMAIN c.faces : \E n, o \in numbers :
              c.faces[i] = m.faces[n] /\ c.faces[j] = m.faces[o] /\ (i < j => n < o)
<1>1. PICK at : /\ at \in [1 .. Cardinality(numbers) -> numbers] /\ Cardinality(numbers) \in Nat
                /\ \A i, j \in DOMAIN at : i < j => at[i] < at[j]
                /\ Chosen(m, numbers) = [i \in DOMAIN at |-> m.faces[at[i]]]
                /\ Chosen(m, numbers) \in Seq(Triangle)
  BY ChosenTriangles DEF WellFormed
<1>2. c.points = m.points /\ c.faces = [i \in DOMAIN at |-> m.faces[at[i]]] /\ c.faces \in Seq(Triangle)
       /\ c = MeshOf(c.points, c.faces)
  BY <1>1 DEF MeshOf
<1>3. DOMAIN c.faces = DOMAIN at /\ DOMAIN at = 1 .. Cardinality(numbers)
       /\ \A i \in DOMAIN at : c.faces[i] = m.faces[at[i]] /\ at[i] \in numbers
          /\ at[i] \in DOMAIN m.faces
  BY <1>1, <1>2
<1>4. DOMAIN m.faces = 1 .. Len(m.faces) /\ Len(m.faces) \in Nat
  BY LenProperties DEF WellFormed
<1>5. \A i, j \in DOMAIN at : at[i] = at[j] => i = j
  <2> SUFFICES ASSUME NEW i \in DOMAIN at, NEW j \in DOMAIN at, at[i] = at[j],
               i < j \/ j < i PROVE FALSE
    BY <1>1, <1>3
  <2> QED BY <1>1, <1>3, <1>4
<1>6. WellFormed(c)
  BY <1>2, <1>3 DEF WellFormed
<1>7. NoneNear(m) => NoneNear(c)
  BY <1>2 DEF NoneNear
<1>8. NoneDegenerate(m) => NoneDegenerate(c)
  BY <1>2, <1>3 DEF NoneDegenerate, Degenerate, DoubledArea
<1>9. NoneTwice(m) => NoneTwice(c)
  BY <1>3, <1>5 DEF NoneTwice
<1>10. \A i \in DOMAIN c.faces : c.faces[i] = m.faces[at[i]] /\ at[i] \in numbers
  BY <1>3
<1>11. \A i, j \in DOMAIN c.faces : i < j => at[i] < at[j]
  BY <1>1, <1>3
<1> HIDE <1>1, <1>2, <1>3
<1>12. \A i, j \in DOMAIN c.faces : \E n, o \in numbers :
          c.faces[i] = m.faces[n] /\ c.faces[j] = m.faces[o] /\ (i < j => n < o)
  BY <1>10, <1>11
<1>13. \A i \in DOMAIN c.faces : \E n \in numbers : c.faces[i] = m.faces[n]
  BY <1>10
<1> QED
  BY <1>6, <1>7, <1>8, <1>9, <1>12, <1>13

(* Some of the triangles with some of the points, those that they use      *)
(* among them.                                                             *)
Renumbers(used, m, faces, kept, s) ==
  /\ used \in [DOMAIN s.points -> DOMAIN m.points]
  /\ \A i, j \in DOMAIN used : used[i] = used[j] => i = j
  /\ \A i \in DOMAIN used : s.points[i] = m.points[used[i]]
  /\ \A i \in DOMAIN used : used[i] \in kept
  /\ DOMAIN s.faces = DOMAIN faces
  /\ \A i \in DOMAIN faces : \A k \in 1 .. 3 :
       s.faces[i][k] \in DOMAIN used /\ used[s.faces[i][k]] = faces[i][k]

(* Triangles with the points that are kept, under their new numbers.       *)
LEMMA RenumberedParts ==
  ASSUME NEW m, m.points \in Seq(Int \X Int), NEW faces \in Seq(Triangle),
         \A i \in DOMAIN faces : \A k \in 1 .. 3 : faces[i][k] \in DOMAIN m.points,
         NEW kept, Used(faces) \subseteq kept, kept \subseteq DOMAIN m.points,
         NEW s, s = Renumbered(m, faces, kept)
  PROVE  /\ WellFormed(s) /\ \E used : Renumbers(used, m, faces, kept, s)
         /\ Len(s.points) = Cardinality(kept) /\ Len(s.points) \in Nat /\ Len(s.points) <= Len(m.points)
         /\ Len(s.faces) = Len(faces)
<1> DEFINE used == Sorted(kept)
           place(p) == CHOOSE i \in DOMAIN used : used[i] = p
<1>1. /\ DOMAIN m.points = 1 .. Len(m.points) /\ Len(m.points) \in Nat
      /\ DOMAIN faces = 1 .. Len(faces) /\ Len(faces) \in Nat
      /\ \A i \in DOMAIN faces : faces[i] \in Triangle
      /\ \A i \in DOMAIN m.points : m.points[i] \in Int \X Int
  BY LenProperties, ElementOfSeq
<1>2. \A i \in DOMAIN faces : Corners(faces[i]) = {faces[i][1], faces[i][2], faces[i][3]}
  BY <1>1, CornersOf DEF Triangle
<1>3. \A i \in DOMAIN faces : \A k \in 1 .. 3 : faces[i][k] \in Used(faces)
  <2> TAKE i \in DOMAIN faces
  <2> TAKE k \in 1 .. 3
  <2>1. k \in DOMAIN faces[i]
    BY <1>1 DEF Triangle
  <2> QED BY <2>1 DEF Used, Corners, ToSet
<1>4. kept \subseteq DOMAIN m.points /\ \A i \in DOMAIN faces : \A k \in 1 .. 3 : faces[i][k] \in kept
  BY <1>3
<1>5. IsFiniteSet(kept) /\ kept \subseteq Int /\ Cardinality(kept) <= Len(m.points)
  <2>1. IsFiniteSet(1 .. Len(m.points)) /\ Cardinality(1 .. Len(m.points)) = Len(m.points)
    BY <1>1, FS_Interval
  <2>2. kept \in SUBSET (1 .. Len(m.points))
    BY <1>1, <1>4
  <2> QED BY <1>1, <2>1, <2>2, FS_Subset
<1>6. /\ Cardinality(kept) \in Nat /\ DOMAIN used = 1 .. Cardinality(kept)
      /\ \A i \in DOMAIN used : used[i] \in kept
      /\ \A i, j \in DOMAIN used : i < j => used[i] < used[j]
      /\ \A x \in kept : \E i \in DOMAIN used : used[i] = x
      /\ used \in Seq(kept) /\ Len(used) = Cardinality(kept)
  <2> HIDE DEF used
  <2> SUFFICES used = Sorted(kept)
    BY <1>5, SortedNumbers
  <2> QED BY DEF used
<1>7. s = MeshOf([i \in DOMAIN used |-> m.points[used[i]]],
                 [i \in DOMAIN faces |-> [k \in 1 .. 3 |-> place(faces[i][k])]])
  BY DEF Renumbered
<1> HIDE DEF used
<1>8. /\ s.points = [i \in DOMAIN used |-> m.points[used[i]]]
      /\ s.faces = [i \in DOMAIN faces |-> [k \in 1 .. 3 |-> place(faces[i][k])]]
      /\ s = MeshOf(s.points, s.faces)
  BY <1>7 DEF MeshOf
<1>9. \A x \in kept : place(x) \in DOMAIN used /\ used[place(x)] = x
  BY <1>6
<1> HIDE DEF place
<1>10. \A i, j \in DOMAIN used : used[i] = used[j] => i = j
  <2> SUFFICES ASSUME NEW i \in DOMAIN used, NEW j \in DOMAIN used, used[i] = used[j], i < j \/ j < i
               PROVE FALSE
    BY <1>6
  <2> QED BY <1>1, <1>4, <1>6
<1>11. \A i \in DOMAIN faces : \A k \in 1 .. 3 :
          s.faces[i][k] \in DOMAIN used /\ used[s.faces[i][k]] = faces[i][k]
  BY <1>4, <1>8, <1>9
<1>12. s.points \in Seq(Int \X Int) /\ DOMAIN s.points = DOMAIN used
  <2>1. s.points \in [1 .. Cardinality(kept) -> Int \X Int]
    BY <1>1, <1>4, <1>6, <1>8
  <2> QED BY <1>6, <1>8, <2>1, AreSequences
<1>13. s.faces \in Seq(Triangle) /\ DOMAIN s.faces = DOMAIN faces
  <2>1. ASSUME NEW i \in DOMAIN faces PROVE [k \in 1 .. 3 |-> place(faces[i][k])] \in Triangle
    <3>1. \A k \in 1 .. 3 : place(faces[i][k]) \in DOMAIN used
      BY <1>4, <1>9, <2>1
    <3>2. DOMAIN used \subseteq Nat
      BY <1>6
    <3>3. \A k \in 1 .. 3 : place(faces[i][k]) \in Nat
      BY <3>1, <3>2
    <3> QED BY <3>3 DEF Triangle
  <2>2. s.faces \in [1 .. Len(faces) -> Triangle]
    BY <1>1, <1>8, <2>1
  <2> QED BY <1>1, <1>8, <2>2, AreSequences
<1>14. WellFormed(s)
  BY <1>8, <1>11, <1>12, <1>13 DEF WellFormed
<1>15. used \in [DOMAIN s.points -> DOMAIN m.points]
  BY <1>4, <1>6, <1>12, LenProperties
<1>16. Renumbers(used, m, faces, kept, s)
  BY <1>6, <1>8, <1>10, <1>11, <1>12, <1>13, <1>15 DEF Renumbers
<1>17. Len(s.points) = Cardinality(kept) /\ Len(s.faces) = Len(faces)
  <2>1. s.points \in [1 .. Cardinality(kept) -> Int \X Int]
    BY <1>1, <1>4, <1>6, <1>8
  <2>2. s.faces \in [1 .. Len(faces) -> Triangle]
    BY <1>1, <1>8, <1>13, LenProperties
  <2> QED BY <1>1, <1>6, <2>1, <2>2, AreSequences
<1> QED
  BY <1>5, <1>6, <1>14, <1>16, <1>17

(* Submesh numbers the points that are used.                               *)
LEMMA SubmeshParts ==
  ASSUME NEW m, m.points \in Seq(Int \X Int), NEW faces \in Seq(Triangle),
         \A i \in DOMAIN faces : \A k \in 1 .. 3 : faces[i][k] \in DOMAIN m.points,
         NEW s, s = Submesh(m, faces)
  PROVE  WellFormed(s) /\ \E used : Renumbers(used, m, faces, Used(faces), s)
<1>1. DOMAIN faces = 1 .. Len(faces) /\ \A i \in DOMAIN faces : faces[i] \in Triangle
  BY LenProperties, ElementOfSeq
<1>2. \A i \in DOMAIN faces : Corners(faces[i]) = {faces[i][1], faces[i][2], faces[i][3]}
  BY <1>1, CornersOf DEF Triangle
<1>3. Used(faces) \subseteq DOMAIN m.points
  <2> SUFFICES ASSUME NEW i \in DOMAIN faces PROVE Corners(faces[i]) \subseteq DOMAIN m.points
    BY DEF Used
  <2> QED BY <1>2, ThreePlaces
<1> QED
  BY <1>3, RenumberedParts DEF Submesh

(* A submesh is well formed, uses all its points and keeps what was        *)
(* clear.                                                                  *)
LEMMA SubmeshKeeps ==
  ASSUME NEW m, WellFormed(m), NEW s, s = Submesh(m, m.faces)
  PROVE  /\ WellFormed(s) /\ AllUsed(s)
         /\ NoneNear(m) => NoneNear(s)
         /\ NoneDegenerate(m) => NoneDegenerate(s)
         /\ NoneTwice(m) => NoneTwice(s)
<1>0. WellFormed(s) /\ \E used : Renumbers(used, m, m.faces, Used(m.faces), s)
  <2>1. /\ m.points \in Seq(Int \X Int) /\ m.faces \in Seq(Triangle)
        /\ \A i \in DOMAIN m.faces : \A k \in 1 .. 3 : m.faces[i][k] \in DOMAIN m.points
    BY DEF WellFormed
  <2> QED BY <2>1, SubmeshParts
<1>1. PICK used :
           /\ used \in [DOMAIN s.points -> DOMAIN m.points]
           /\ \A i, j \in DOMAIN used : used[i] = used[j] => i = j
           /\ \A i \in DOMAIN used : s.points[i] = m.points[used[i]]
           /\ \A i \in DOMAIN used : used[i] \in Used(m.faces)
           /\ DOMAIN s.faces = DOMAIN m.faces
           /\ \A i \in DOMAIN m.faces : \A k \in 1 .. 3 :
                s.faces[i][k] \in DOMAIN used /\ used[s.faces[i][k]] = m.faces[i][k]
  BY <1>0 DEF Renumbers
<1>2. /\ \A i \in DOMAIN m.faces : m.faces[i] \in Triangle /\ s.faces[i] \in Triangle
  BY <1>0, <1>1, LenProperties, ElementOfSeq DEF WellFormed
<1>20. /\ DOMAIN used = DOMAIN s.points
       /\ \A i \in DOMAIN m.faces :
            s.faces[i][1] \in DOMAIN used /\ s.faces[i][2] \in DOMAIN used
            /\ s.faces[i][3] \in DOMAIN used
  BY <1>1, ThreePlaces
<1>3. ASSUME NEW i \in DOMAIN m.faces
      PROVE  /\ Corners(s.faces[i]) = {s.faces[i][1], s.faces[i][2], s.faces[i][3]}
             /\ Corners(m.faces[i]) = {m.faces[i][1], m.faces[i][2], m.faces[i][3]}
  BY <1>2, <1>3, CornersOf DEF Triangle
<1>4. \A i \in DOMAIN m.faces : Corners(m.faces[i]) = {used[p] : p \in Corners(s.faces[i])}
  <2> TAKE i \in DOMAIN m.faces
  <2>1. used[s.faces[i][1]] = m.faces[i][1] /\ used[s.faces[i][2]] = m.faces[i][2]
         /\ used[s.faces[i][3]] = m.faces[i][3]
    BY <1>1, ThreePlaces
  <2>2. {used[p] : p \in {s.faces[i][1], s.faces[i][2], s.faces[i][3]}}
          = {used[s.faces[i][1]], used[s.faces[i][2]], used[s.faces[i][3]]}
    BY ImageOfThree
  <2> QED BY <1>3, <2>1, <2>2
<1>5. AllUsed(s)
  <2>1. ASSUME NEW i \in DOMAIN s.faces PROVE Corners(s.faces[i]) \subseteq DOMAIN s.points
    <3>1. i \in DOMAIN m.faces
      BY <1>1, <2>1
    <3>2. Corners(s.faces[i]) = {s.faces[i][1], s.faces[i][2], s.faces[i][3]}
      BY <1>3, <3>1
    <3> QED BY <1>20, <3>1, <3>2
  <2>2. ASSUME NEW p \in DOMAIN s.points PROVE \E i \in DOMAIN s.faces : p \in Corners(s.faces[i])
    <3>1. p \in DOMAIN used /\ used[p] \in Used(m.faces)
      BY <1>1, <2>2
    <3>2. PICK i \in DOMAIN m.faces : used[p] \in Corners(m.faces[i])
      BY <3>1 DEF Used
    <3>3. PICK q \in Corners(s.faces[i]) : used[q] = used[p]
      BY <1>4, <3>2
    <3>4. q \in DOMAIN used
      BY <1>3, <1>20, <3>3
    <3> QED BY <1>1, <3>1, <3>3, <3>4
  <2> QED BY <2>1, <2>2 DEF AllUsed, Used
<1>6. NoneNear(m) => NoneNear(s)
  <2> SUFFICES ASSUME NoneNear(m), NEW i \in DOMAIN s.points, NEW j \in DOMAIN s.points,
                      Near(s.points[i], s.points[j])
               PROVE  i = j
    BY DEF NoneNear
  <2>1. s.points[i] = m.points[used[i]] /\ s.points[j] = m.points[used[j]]
         /\ used[i] \in DOMAIN m.points /\ used[j] \in DOMAIN m.points
    BY <1>1
  <2>2. used[i] = used[j]
    BY <2>1 DEF NoneNear
  <2> QED BY <1>1, <2>2
<1>7. NoneDegenerate(m) => NoneDegenerate(s)
  <2> SUFFICES ASSUME NEW i \in DOMAIN m.faces, ~Degenerate(m, m.faces[i])
               PROVE  ~Degenerate(s, s.faces[i])
    BY <1>1 DEF NoneDegenerate
  <2>1. /\ used[s.faces[i][1]] = m.faces[i][1] /\ used[s.faces[i][2]] = m.faces[i][2]
        /\ used[s.faces[i][3]] = m.faces[i][3]
        /\ s.faces[i][1] \in DOMAIN used /\ s.faces[i][2] \in DOMAIN used
           /\ s.faces[i][3] \in DOMAIN used
    BY <1>1, ThreePlaces
  <2>2. DoubledArea(s, s.faces[i]) = DoubledArea(m, m.faces[i])
    BY <1>1, <2>1 DEF DoubledArea
  <2>3. /\ Cardinality(Corners(m.faces[i])) \in Nat /\ Cardinality(Corners(s.faces[i])) \in Nat
        /\ Cardinality(Corners(m.faces[i])) <= 3
        /\ Cardinality(Corners(m.faces[i])) = 3 =>
             m.faces[i][1] # m.faces[i][2] /\ m.faces[i][1] # m.faces[i][3]
             /\ m.faces[i][2] # m.faces[i][3]
    <3>1. /\ Corners(m.faces[i]) = {m.faces[i][1], m.faces[i][2], m.faces[i][3]}
          /\ Corners(s.faces[i]) = {s.faces[i][1], s.faces[i][2], s.faces[i][3]}
      BY <1>3
    <3>2. /\ OfThree(Corners(m.faces[i]), m.faces[i][1], m.faces[i][2], m.faces[i][3])
          /\ OfThree(Corners(s.faces[i]), s.faces[i][1], s.faces[i][2], s.faces[i][3])
      BY <3>1 DEF OfThree
    <3> QED BY <3>2, ThreeCorners
  <2>4. Cardinality(Corners(m.faces[i])) = 3
    BY <2>3 DEF Degenerate
  <2>5. Cardinality(Corners(s.faces[i])) = 3
    <3>1. s.faces[i][1] # s.faces[i][2] /\ s.faces[i][1] # s.faces[i][3]
          /\ s.faces[i][2] # s.faces[i][3]
      BY <2>1, <2>3, <2>4
    <3>2. Corners(s.faces[i]) = {s.faces[i][1], s.faces[i][2], s.faces[i][3]}
      BY <1>3
    <3>3. OfThree(Corners(s.faces[i]), s.faces[i][1], s.faces[i][2], s.faces[i][3])
      BY <3>2 DEF OfThree
    <3> QED BY <3>1, <3>3, ThreeCorners
  <2> QED BY <2>2, <2>4, <2>5 DEF Degenerate
<1>8. NoneTwice(m) => NoneTwice(s)
  <2> SUFFICES ASSUME NoneTwice(m), NEW i \in DOMAIN m.faces, NEW j \in DOMAIN m.faces,
                      Corners(s.faces[i]) = Corners(s.faces[j])
               PROVE  i = j
    BY <1>1 DEF NoneTwice
  <2>1. Corners(m.faces[i]) = Corners(m.faces[j])
    BY <1>4
  <2> QED BY <2>1 DEF NoneTwice
<1> QED
  BY <1>0, <1>5, <1>6, <1>7, <1>8

-----------------------------------------------------------------------------
(* The operations of a repair that clear a mesh.                           *)

(* A point is near itself, and of two points each is near the other or     *)
(* neither.                                                                *)
LEMMA NearIsMutual ==
  ASSUME NEW p \in Int \X Int, NEW q \in Int \X Int
  PROVE  Near(p, p) /\ (Near(p, q) => Near(q, p))
<1>1. p[1] \in Int /\ p[2] \in Int /\ q[1] \in Int /\ q[2] \in Int /\ MergeSquared \in Nat
  BY RepairAssumption
<1>2. ASSUME NEW a \in Int, NEW b \in Int PROVE (a - b) * (a - b) = (b - a) * (b - a)
  BY <1>2
<1>3. (p[1] - q[1]) * (p[1] - q[1]) = (q[1] - p[1]) * (q[1] - p[1])
       /\ (p[2] - q[2]) * (p[2] - q[2]) = (q[2] - p[2]) * (q[2] - p[2])
  BY <1>1, <1>2
<1>4. (p[1] - p[1]) * (p[1] - p[1]) + (p[2] - p[2]) * (p[2] - p[2]) = 0
  BY <1>1
<1> QED
  BY <1>1, <1>3, <1>4 DEF Near

(* What is kept: points apart, and one near to every point.                *)
Covers(kept, points, n) ==
  /\ kept \in Seq(Int \X Int)
  /\ \A i, j \in DOMAIN kept : Near(kept[i], kept[j]) => i = j
  /\ \A t \in 1 .. n : \E i \in DOMAIN kept : Near(kept[i], points[t])

(* Keep covers one point more.                                             *)
LEMMA KeepCovers ==
  ASSUME NEW points \in Seq(Int \X Int), NEW n \in Nat, n + 1 \in DOMAIN points,
         NEW kept, Covers(kept, points, n)
  PROVE  Covers(Keep(kept, points[n + 1]), points, n + 1)
<1> DEFINE p == points[n + 1]
           k == Keep(kept, p)
<1>1. /\ p \in Int \X Int
      /\ Len(kept) \in Nat /\ DOMAIN kept = 1 .. Len(kept)
      /\ \A i \in DOMAIN kept : kept[i] \in Int \X Int
  BY LenProperties, ElementOfSeq DEF Covers
<1>2. \A t \in 1 .. n + 1 : t \in 1 .. n \/ t = n + 1
  OBVIOUS
<1>3. CASE \E q \in ToSet(kept) : Near(p, q)
  <2>1. k = kept
    BY <1>3 DEF Keep
  <2>2. PICK i \in DOMAIN kept : Near(p, kept[i])
    BY <1>3 DEF ToSet
  <2>3. Near(kept[i], p)
    BY <1>1, <2>2, NearIsMutual
  <2> QED BY <1>2, <2>1, <2>3 DEF Covers
<1>4. CASE ~(\E q \in ToSet(kept) : Near(p, q))
  <2>1. k = Append(kept, p)
    BY <1>4 DEF Keep
  <2>2. /\ k \in Seq(Int \X Int) /\ DOMAIN k = 1 .. Len(kept) + 1
        /\ \A i \in DOMAIN kept : k[i] = kept[i]
        /\ k[Len(kept) + 1] = p
    BY <1>1, <2>1 DEF Covers
  <2>3. \A i \in DOMAIN kept : ~Near(p, kept[i]) /\ ~Near(kept[i], p)
    <3> TAKE i \in DOMAIN kept
    <3>1. kept[i] \in ToSet(kept)
      BY DEF ToSet
    <3> QED BY <1>1, <1>4, <3>1, NearIsMutual
  <2>4. \A i \in DOMAIN k : i \in DOMAIN kept \/ i = Len(kept) + 1
    BY <1>1, <2>2
  <2> HIDE DEF k, p
  <2>5. \A i, j \in DOMAIN k : Near(k[i], k[j]) => i = j
    BY <2>2, <2>3, <2>4 DEF Covers
  <2>6. ASSUME NEW t \in 1 .. n + 1 PROVE \E i \in DOMAIN k : Near(k[i], points[t])
    <3>1. CASE t \in 1 .. n
      <4>1. PICK i \in DOMAIN kept : Near(kept[i], points[t])
        BY <3>1 DEF Covers
      <4>2. i \in DOMAIN k /\ k[i] = kept[i]
        BY <1>1, <2>2
      <4> QED BY <4>1, <4>2
    <3>2. CASE t = n + 1
      <4>1. Near(k[Len(kept) + 1], p) /\ Len(kept) + 1 \in DOMAIN k
        BY <1>1, <2>2, NearIsMutual
      <4> QED BY <3>2, <4>1 DEF p
    <3> QED BY <1>2, <3>1, <3>2
  <2>7. Covers(k, points, n + 1)
    BY <2>2, <2>5, <2>6 DEF Covers
  <2> QED BY <2>7 DEF k, p
<1> QED
  BY <1>3, <1>4

(* The points that are kept lie apart, and each point has one of them      *)
(* near.                                                                   *)
LEMMA KeepingCovers ==
  ASSUME NEW points \in Seq(Int \X Int)
  PROVE  Covers(Keeping(points), points, Len(points))
<1> DEFINE N == Len(points)
           S == Seq(Int \X Int)
           step == [x \in S \X (1 .. N) |-> Keep(x[1], points[x[2]])]
           kept[n \in 0 .. N] == IF n = 0 THEN <<>> ELSE Keep(kept[n - 1], points[n])
<1>1. N \in Nat /\ DOMAIN points = 1 .. N /\ \A n \in 1 .. N : points[n] \in Int \X Int
  BY ElementOfSeq, LenProperties
<1>2. step \in [S \X (1 .. N) -> S]
  BY <1>1 DEF Keep
<1>3. PICK f : Solves(f, S, <<>>, N, step)
  <2>1. <<>> \in S
    OBVIOUS
  <2> HIDE DEF step, N, kept, S
  <2> QED BY <1>1, <1>2, <2>1, Recursion
<1>4. /\ f \in [0 .. N -> S] /\ f[0] = <<>>
      /\ \A n \in 1 .. N : f[n] = Keep(f[n - 1], points[n])
  <2>1. f \in [0 .. N -> S] /\ f[0] = <<>> /\ \A n \in 1 .. N : f[n] = step[<<f[n - 1], n>>]
    BY <1>3 DEF Solves
  <2>2. \A n \in 1 .. N : n - 1 \in 0 .. N
    BY <1>1
  <2> HIDE DEF S, N
  <2> QED BY <2>1, <2>2
<1>5. f = [n \in 0 .. N |-> IF n = 0 THEN <<>> ELSE Keep(f[n - 1], points[n])]
  <2> HIDE DEF S
  <2> QED BY <1>1, <1>4
<1>6. kept = [n \in 0 .. N |-> IF n = 0 THEN <<>> ELSE Keep(kept[n - 1], points[n])]
  BY <1>5
<1>7. Keeping(points) = kept[N]
  BY DEF Keeping
<1> HIDE DEF kept
<1> DEFINE T == {n \in 0 .. N : Covers(kept[n], points, n)}
<1>8. 0 \in T
  <2>1. kept[0] = <<>>
    BY <1>1, <1>6
  <2>2. Covers(<<>>, points, 0)
    BY DEF Covers
  <2> QED BY <1>1, <2>1, <2>2
<1>9. \A n \in 0 .. N : n \in T /\ n < N => n + 1 \in T
  <2> SUFFICES ASSUME NEW n \in 0 .. N, n \in T, n < N PROVE n + 1 \in T
    OBVIOUS
  <2>1. n + 1 \in 1 .. N /\ (n + 1) - 1 = n /\ n \in Nat /\ n + 1 \in 0 .. N /\ n + 1 # 0
    BY <1>1
  <2>2. kept[n + 1] = Keep(kept[n], points[n + 1])
    BY <1>6, <2>1
  <2>3. Covers(kept[n + 1], points, n + 1)
    BY <1>1, <2>1, <2>2, KeepCovers
  <2> QED BY <2>1, <2>3
<1>10. 0 .. N \subseteq T
  <2> HIDE DEF T
  <2> QED BY <1>1, <1>8, <1>9, InductionUpTo
<1> QED
  BY <1>1, <1>7, <1>10

(* After the merging no two points are near, and every corner has a        *)
(* point.                                                                  *)
LEMMA MergeClears ==
  ASSUME NEW m, WellFormed(m), NEW r, r = MergeVertices(m)
  PROVE  WellFormed(r) /\ NoneNear(r)
<1> DEFINE places == ToSet(m.points)
           sorted == InOrder(places, [p \in places |-> {q \in places : Before(q, p)}])
           kept == Keeping(sorted)
           stands(p) == First({i \in DOMAIN kept : Near(kept[i], p)})
<1>1. /\ m.points \in Seq(Int \X Int) /\ Len(m.points) \in Nat /\ DOMAIN m.points = 1 .. Len(m.points)
      /\ m.faces \in Seq(Triangle) /\ Len(m.faces) \in Nat /\ DOMAIN m.faces = 1 .. Len(m.faces)
      /\ \A i \in DOMAIN m.points : m.points[i] \in places /\ m.points[i] \in Int \X Int
  BY LenProperties, ElementOfSeq DEF WellFormed, ToSet
<1>2. places \subseteq Int \X Int /\ IsFiniteSet(places)
  <2>1. places \subseteq Int \X Int
    BY <1>1 DEF ToSet
  <2>2. m.points \in Surjection(1 .. Len(m.points), places)
    BY <1>1 DEF ToSet, Surjection
  <2>3. IsFiniteSet(1 .. Len(m.points))
    BY <1>1, FS_Interval
  <2> HIDE DEF places
  <2> QED BY <2>1, <2>2, <2>3, FS_Surjection
<1>3. sorted \in Seq(Int \X Int) /\ DOMAIN sorted = 1 .. Len(sorted)
       /\ \A x \in places : \E i \in DOMAIN sorted : sorted[i] = x
  <2> HIDE DEF places
  <2>1. /\ sorted \in Seq(places)
        /\ \A x \in places : \E i \in DOMAIN sorted : sorted[i] = x
    <3> DEFINE below == [p \in places |-> {q \in places : Before(q, p)}]
    <3>1. \A p \in places : below[p] = {q \in places : Before(q, p)}
      OBVIOUS
    <3>2. sorted = InOrder(places, below)
      OBVIOUS
    <3> HIDE DEF sorted, below
    <3> QED BY <1>2, <3>1, <3>2, SortedPoints
  <2> HIDE DEF sorted
  <2>2. sorted \in Seq(Int \X Int)
    BY <1>2, <2>1, SeqMonotonic
  <2> QED BY <2>1, <2>2, LenProperties
<1> HIDE DEF sorted
<1>4. Covers(kept, sorted, Len(sorted))
  BY <1>3, KeepingCovers
<1> HIDE DEF kept
<1>5. kept \in Seq(Int \X Int) /\ DOMAIN kept = 1 .. Len(kept) /\ Len(kept) \in Nat
  BY <1>4, LenProperties DEF Covers
<1>6. \A p \in places : stands(p) \in DOMAIN kept
  <2> TAKE p \in places
  <2>1. PICK i \in DOMAIN sorted : sorted[i] = p
    BY <1>3
  <2>2. \E k \in DOMAIN kept : Near(kept[k], p)
    BY <1>3, <1>4, <2>1 DEF Covers
  <2> DEFINE near == {k \in DOMAIN kept : Near(kept[k], p)}
  <2>3. near # {} /\ near \subseteq Nat /\ near \subseteq DOMAIN kept
    BY <1>5, <2>2
  <2> HIDE DEF near
  <2>4. First(near) \in near
    BY <2>3, FirstIsLeast
  <2> QED BY <2>3, <2>4 DEF near
<1>7. r = MeshOf(kept, [i \in DOMAIN m.faces |-> [k \in 1 .. 3 |-> stands(m.points[m.faces[i][k]])]])
  BY DEF MergeVertices, kept, sorted
<1> HIDE DEF stands
<1>8. /\ r.points = kept /\ r = MeshOf(r.points, r.faces)
      /\ r.faces = [i \in DOMAIN m.faces |-> [k \in 1 .. 3 |-> stands(m.points[m.faces[i][k]])]]
  BY <1>7 DEF MeshOf
<1> HIDE DEF places
<1>9. \A i \in DOMAIN m.faces : \A k \in 1 .. 3 : r.faces[i][k] \in DOMAIN kept
  <2> TAKE i \in DOMAIN m.faces
  <2> TAKE k \in 1 .. 3
  <2>1. m.points[m.faces[i][k]] \in places
    BY <1>1 DEF WellFormed
  <2> QED BY <1>6, <1>8, <2>1
<1>10. r.faces \in Seq(Triangle) /\ DOMAIN r.faces = DOMAIN m.faces
  <2>1. ASSUME NEW i \in DOMAIN m.faces
        PROVE  [k \in 1 .. 3 |-> stands(m.points[m.faces[i][k]])] \in Triangle
    <3>1. \A k \in 1 .. 3 : stands(m.points[m.faces[i][k]]) \in Nat
      <4>1. \A k \in 1 .. 3 : r.faces[i][k] = stands(m.points[m.faces[i][k]])
        BY <1>8, <2>1
      <4>2. DOMAIN kept \subseteq Nat
        BY <1>5
      <4> QED BY <1>9, <2>1, <4>1, <4>2
    <3> QED BY <3>1 DEF Triangle
  <2>2. r.faces \in [1 .. Len(m.faces) -> Triangle]
    BY <1>1, <1>8, <2>1
  <2> QED BY <1>1, <2>2, AreSequences
<1>11. WellFormed(r)
  BY <1>5, <1>8, <1>9, <1>10 DEF WellFormed
<1>12. NoneNear(r)
  BY <1>4, <1>8 DEF NoneNear, Covers
<1> QED
  BY <1>11, <1>12

(* After it no triangle is degenerate; the points are as they were.        *)
LEMMA RemoveDegenerateClears ==
  ASSUME NEW m, WellFormed(m), NEW r, r = RemoveDegenerate(m)
  PROVE  WellFormed(r) /\ NoneDegenerate(r) /\ (NoneNear(m) => NoneNear(r))
<1> DEFINE numbers == {i \in DOMAIN m.faces : ~Degenerate(m, m.faces[i])}
<1>1. r = MeshOf(m.points, Chosen(m, numbers)) /\ numbers \subseteq DOMAIN m.faces
  BY DEF RemoveDegenerate
<1> HIDE DEF numbers
<1>2. /\ WellFormed(r) /\ (NoneNear(m) => NoneNear(r))
      /\ \A i \in DOMAIN r.faces : \E n \in numbers : r.faces[i] = m.faces[n]
  BY <1>1, ChosenKeeps
<1>3. r.points = m.points
  BY <1>1 DEF MeshOf
<1>4. ASSUME NEW i \in DOMAIN r.faces PROVE ~Degenerate(r, r.faces[i])
  <2>1. PICK n \in numbers : r.faces[i] = m.faces[n]
    BY <1>2, <1>4
  <2>2. ~Degenerate(m, m.faces[n])
    BY DEF numbers
  <2> QED BY <1>3, <2>1, <2>2 DEF Degenerate, DoubledArea
<1> QED
  BY <1>2, <1>4 DEF NoneDegenerate

(* After it no two triangles have the same corners.                        *)
LEMMA RemoveDuplicatesClears ==
  ASSUME NEW m, WellFormed(m), NEW r, r = RemoveDuplicateFaces(m)
  PROVE  /\ WellFormed(r) /\ NoneTwice(r)
         /\ NoneNear(m) => NoneNear(r)
         /\ NoneDegenerate(m) => NoneDegenerate(r)
<1> DEFINE numbers == {i \in DOMAIN m.faces : \A j \in 1 .. i - 1 : Corners(m.faces[j]) # Corners(m.faces[i])}
<1>1. r = MeshOf(m.points, Chosen(m, numbers)) /\ numbers \subseteq DOMAIN m.faces
  BY DEF RemoveDuplicateFaces
<1>2. numbers \subseteq Nat \ {0} /\ \A n,
      o \in numbers : n < o => Corners(m.faces[n]) # Corners(m.faces[o])
  <2>1. DOMAIN m.faces = 1 .. Len(m.faces) /\ Len(m.faces) \in Nat
    BY LenProperties DEF WellFormed
  <2> QED BY <2>1
<1> HIDE DEF numbers
<1>3. /\ WellFormed(r) /\ (NoneNear(m) => NoneNear(r))
      /\ NoneDegenerate(m) => NoneDegenerate(r)
      /\ \A i, j \in DOMAIN r.faces : \E n, o \in numbers :
           r.faces[i] = m.faces[n] /\ r.faces[j] = m.faces[o] /\ (i < j => n < o)
  BY <1>1, ChosenKeeps
<1>4. DOMAIN r.faces = 1 .. Len(r.faces) /\ Len(r.faces) \in Nat
  BY <1>3, LenProperties DEF WellFormed
<1>5. ASSUME NEW i \in DOMAIN r.faces, NEW j \in DOMAIN r.faces, i < j
      PROVE  Corners(r.faces[i]) # Corners(r.faces[j])
  BY <1>2, <1>3, <1>5
<1>6. NoneTwice(r)
  <2> SUFFICES ASSUME NEW i \in DOMAIN r.faces, NEW j \in DOMAIN r.faces, i # j
               PROVE  Corners(r.faces[i]) # Corners(r.faces[j])
    BY DEF NoneTwice
  <2>1. i < j \/ j < i
    BY <1>4
  <2> QED BY <1>5, <2>1
<1> QED
  BY <1>3, <1>6

(* A triangle that is turned round has the same area.                      *)
LEMMA TurnTurned ==
  ASSUME NEW p \in Int \X Int, NEW q \in Int \X Int, NEW r \in Int \X Int
  PROVE  /\ Turn(p, q, r) \in Int
         /\ Absolute(Turn(p, q, r)) \in Int
         /\ Absolute(Turn(r, q, p)) = Absolute(Turn(p, q, r))
<1>1. p[1] \in Int /\ p[2] \in Int /\ q[1] \in Int /\ q[2] \in Int /\ r[1] \in Int /\ r[2] \in Int
  OBVIOUS
<1>2. ASSUME NEW a \in Int, NEW b \in Int, NEW c \in Int, NEW d \in Int, NEW e \in Int, NEW f \in Int
      PROVE  /\ (c - e) * (b - f) - (d - f) * (a - e) = -((c - a) * (f - b) - (d - b) * (e - a))
             /\ (c - a) * (f - b) - (d - b) * (e - a) \in Int
  BY <1>2
<1>3. Turn(r, q, p) = -Turn(p, q, r) /\ Turn(p, q, r) \in Int
  BY <1>1, <1>2 DEF Turn
<1> QED
  BY <1>3 DEF Absolute

(* Turning triangles round leaves a mesh as clear as it was.               *)
LEMMA FlippedKeeps ==
  ASSUME NEW m, WellFormed(m), NEW numbers, NEW r, r = Flipped(m, numbers)
  PROVE  /\ WellFormed(r)
         /\ NoneNear(m) => NoneNear(r)
         /\ NoneDegenerate(m) => NoneDegenerate(r)
         /\ NoneTwice(m) => NoneTwice(r)
         /\ AllUsed(m) => AllUsed(r)
<1>1. /\ r.points = m.points /\ r = MeshOf(r.points, r.faces)
      /\ DOMAIN r.faces = DOMAIN m.faces
      /\ \A i \in DOMAIN m.faces : r.faces[i] = IF i \in numbers THEN Turned(m.faces[i]) ELSE m.faces[i]
  BY DEF Flipped, MeshOf
<1>2. /\ Len(m.faces) \in Nat /\ DOMAIN m.faces = 1 .. Len(m.faces)
      /\ \A i \in DOMAIN m.faces : m.faces[i] \in [1 .. 3 -> Nat]
      /\ \A i \in DOMAIN m.points : m.points[i] \in Int \X Int
      /\ \A i \in DOMAIN m.faces : \A k \in 1 .. 3 : m.faces[i][k] \in DOMAIN m.points
  BY LenProperties, ElementOfSeq DEF WellFormed, Triangle
<1>3. ASSUME NEW i \in DOMAIN m.faces
      PROVE  /\ Turned(m.faces[i]) \in [1 .. 3 -> Nat]
             /\ \A k \in 1 .. 3 : Turned(m.faces[i])[k] \in DOMAIN m.points
             /\ Corners(Turned(m.faces[i])) = Corners(m.faces[i])
             /\ DoubledArea(m, Turned(m.faces[i])) = DoubledArea(m, m.faces[i])
  <2> DEFINE f == m.faces[i]
             t == Turned(f)
  <2>1. f \in [1 .. 3 -> Nat] /\ f[1] \in DOMAIN m.points /\ f[2] \in DOMAIN m.points
        /\ f[3] \in DOMAIN m.points
    BY <1>2, <1>3, ThreePlaces
  <2>2. t[1] = f[3] /\ t[2] = f[2] /\ t[3] = f[1] /\ DOMAIN t = 1 .. 3 /\ t = <<f[3], f[2], f[1]>>
    BY DEF Turned
  <2> HIDE DEF f, t
  <2>3. t \in [1 .. 3 -> Nat]
    BY <2>1, <2>2, ThreePlaces
  <2>4. Corners(t) = Corners(f)
    BY <2>1, <2>2, <2>3, CornersOf
  <2>5. DoubledArea(m, t) = DoubledArea(m, f)
    BY <1>2, <2>1, <2>2, TurnTurned DEF DoubledArea
  <2>6. \A k \in 1 .. 3 : t[k] \in DOMAIN m.points
    BY <2>1, <2>2, ThreePlaces
  <2> QED BY <2>3, <2>4, <2>5, <2>6 DEF f, t
<1>4. \A i \in DOMAIN m.faces :
         /\ r.faces[i] \in [1 .. 3 -> Nat]
         /\ \A k \in 1 .. 3 : r.faces[i][k] \in DOMAIN m.points
         /\ Corners(r.faces[i]) = Corners(m.faces[i])
         /\ DoubledArea(m, r.faces[i]) = DoubledArea(m, m.faces[i])
  BY <1>1, <1>2, <1>3
<1>5. r.faces \in Seq(Triangle)
  <2>1. r.faces \in [1 .. Len(m.faces) -> Triangle]
    BY <1>2, <1>4, <1>1 DEF Triangle, Flipped, MeshOf
  <2> QED BY <1>2, <2>1, AreSequences
<1>6. WellFormed(r)
  BY <1>1, <1>4, <1>5 DEF WellFormed
<1>7. NoneNear(m) => NoneNear(r)
  BY <1>1 DEF NoneNear
<1>8. NoneDegenerate(m) => NoneDegenerate(r)
  BY <1>1, <1>4 DEF NoneDegenerate, Degenerate, DoubledArea
<1>9. NoneTwice(m) => NoneTwice(r)
  BY <1>1, <1>4 DEF NoneTwice
<1>10. AllUsed(m) => AllUsed(r)
  <2>1. Used(r.faces) = Used(m.faces)
    BY <1>1, <1>4 DEF Used
  <2> QED BY <1>1, <2>1 DEF AllUsed
<1> QED
  BY <1>6, <1>7, <1>8, <1>9, <1>10

-----------------------------------------------------------------------------
(* Components.                                                             *)

(* The components are sets of numbers of triangles, none empty.            *)
LEMMA OwnerIsThere ==
  ASSUME NEW m, NEW i \in Nat \ {0}, NEW k \in 1 .. 3
  PROVE  OwnerOf(m, Edge(m.faces[i], k), i) \in 1 .. i
<1> DEFINE owners == {j \in 1 .. i : Edge(m.faces[i], k) \in EdgesOf(m.faces[j])}
<1>1. i \in owners
  BY DEF EdgesOf
<1>2. owners \subseteq Nat /\ owners \subseteq 1 .. i
  OBVIOUS
<1> HIDE DEF owners
<1>3. First(owners) \in owners
  BY <1>1, <1>2, FirstIsLeast
<1> QED
  BY <1>2, <1>3 DEF OwnerOf, owners

(* Roots that are united are still those of triangles.                     *)
LEMMA UnitedIs ==
  ASSUME NEW D, NEW root \in [D -> D], D \subseteq Nat, NEW i \in D, NEW j \in D
  PROVE  United(root, i, j) \in [D -> D]
BY DEF United

(* The rounds of the union-find, triangle after triangle.                  *)
RootsTaken(m, root) ==
  /\ root \in [0 .. Len(m.faces) -> [DOMAIN m.faces -> DOMAIN m.faces]]
  /\ root[0] = [i \in DOMAIN m.faces |-> i]
  /\ \A n \in 1 .. Len(m.faces) : root[n] = Rooted(m, root[n - 1], n)
  /\ Roots(m) = root[Len(m.faces)]
(* There are such rounds.                                                  *)
LEMMA RootsStep ==
  ASSUME NEW m, m.faces \in Seq(Triangle)
  PROVE  \E root : RootsTaken(m, root)
<1> DEFINE D == DOMAIN m.faces
           N == Len(m.faces)
           S == [D -> D]
           base == [i \in D |-> i]
           step == [x \in S \X (1 .. N) |-> Rooted(m, x[1], x[2])]
           root[n \in 0 .. N] == IF n = 0 THEN base ELSE Rooted(m, root[n - 1], n)
<1>1. N \in Nat /\ D = 1 .. N /\ D \subseteq Nat
  BY LenProperties
<1>2. ASSUME NEW x \in S, NEW n \in 1 .. N PROVE Rooted(m, x, n) \in S
  <2> DEFINE owner(k) == OwnerOf(m, Edge(m.faces[n], k), n)
  <2>1. \A k \in 1 .. 3 : owner(k) \in D
    <3> TAKE k \in 1 .. 3
    <3>1. owner(k) \in 1 .. n
      <4>1. n \in Nat \ {0}
        BY <1>1, <1>2
      <4> QED BY <4>1, OwnerIsThere
    <3> QED BY <1>1, <1>2, <3>1
  <2>2. n \in D /\ 1 \in 1 .. 3 /\ 2 \in 1 .. 3 /\ 3 \in 1 .. 3
    BY <1>1, <1>2
  <2>3. Rooted(m, x, n) = United(United(United(x, owner(1), n), owner(2), n), owner(3), n)
    BY DEF Rooted
  <2> HIDE DEF owner, D, N
  <2>4. United(x, owner(1), n) \in [D -> D]
    BY <1>1, <1>2, <2>1, <2>2, UnitedIs
  <2>5. United(United(x, owner(1), n), owner(2), n) \in [D -> D]
    BY <1>1, <2>1, <2>2, <2>4, UnitedIs
  <2>6. United(United(United(x, owner(1), n), owner(2), n), owner(3), n) \in [D -> D]
    BY <1>1, <2>1, <2>2, <2>5, UnitedIs
  <2> QED BY <2>3, <2>6
<1>3. step \in [S \X (1 .. N) -> S]
  BY <1>2
<1>4. PICK f : Solves(f, S, base, N, step)
  <2>1. base \in S
    OBVIOUS
  <2> HIDE DEF step, N, root, S, D, base
  <2> QED BY <1>1, <1>3, <2>1, Recursion
<1>5. /\ f \in [0 .. N -> S] /\ f[0] = base
      /\ \A n \in 1 .. N : f[n] = Rooted(m, f[n - 1], n)
  <2>1. f \in [0 .. N -> S] /\ f[0] = base /\ \A n \in 1 .. N : f[n] = step[<<f[n - 1], n>>]
    BY <1>4 DEF Solves
  <2>2. \A n \in 1 .. N : n - 1 \in 0 .. N
    BY <1>1
  <2> HIDE DEF S, N, base, D
  <2> QED BY <2>1, <2>2
<1>6. f = [n \in 0 .. N |-> IF n = 0 THEN base ELSE Rooted(m, f[n - 1], n)]
  <2> HIDE DEF S, base, D
  <2> QED BY <1>1, <1>5
<1>7. root = [n \in 0 .. N |-> IF n = 0 THEN base ELSE Rooted(m, root[n - 1], n)]
  <2> HIDE DEF base
  <2> QED BY <1>6
<1>8. Roots(m) = root[N]
  BY DEF Roots
<1> HIDE DEF root
<1> DEFINE T == {n \in 0 .. N : root[n] \in S}
<1>9. 0 \in T
  <2>1. root[0] = base /\ base \in S
    BY <1>1, <1>7
  <2> HIDE DEF S, base
  <2> QED BY <1>1, <2>1
<1>10. \A n \in 0 .. N : n \in T /\ n < N => n + 1 \in T
  <2> HIDE DEF S, base, D
  <2> SUFFICES ASSUME NEW n \in 0 .. N, n \in T, n < N PROVE n + 1 \in T
    OBVIOUS
  <2>1. n + 1 \in 1 .. N /\ (n + 1) - 1 = n /\ n \in Nat /\ n + 1 \in 0 .. N /\ n + 1 # 0
    BY <1>1
  <2>2. root[n + 1] = Rooted(m, root[n], n + 1)
    BY <1>7, <2>1
  <2>3. root[n + 1] \in S
    BY <1>2, <2>1, <2>2
  <2> QED BY <2>1, <2>3
<1>11. 0 .. N \subseteq T
  <2> HIDE DEF T
  <2> QED BY <1>1, <1>9, <1>10, InductionUpTo
<1>12. root \in [0 .. N -> S] /\ root[0] = base /\ \A n \in 1 .. N : root[n] = Rooted(m, root[n - 1], n)
  <2>1. root[0] = base /\ \A n \in 1 .. N : root[n] = Rooted(m, root[n - 1], n)
    <3> HIDE DEF base, S, D
    <3>1. 0 \in 0 .. N /\ \A n \in 1 .. N : n \in 0 .. N /\ n # 0
      BY <1>1
    <3> QED BY <1>7, <3>1
  <2>2. \A n \in 0 .. N : root[n] \in S
    BY <1>11
  <2>3. DOMAIN root = 0 .. N /\ root = [n \in DOMAIN root |-> root[n]]
    <3> HIDE DEF base, S, D, N
    <3> QED BY <1>7
  <2> HIDE DEF base, S, D, N
  <2> QED BY <2>1, <2>2, <2>3
<1> QED
  BY <1>8, <1>12 DEF RootsTaken

(* It gives every triangle a triangle for its root.                        *)
LEMMA RootsAre ==
  ASSUME NEW m, m.faces \in Seq(Triangle)
  PROVE  Roots(m) \in [DOMAIN m.faces -> DOMAIN m.faces]
<1>1. Len(m.faces) \in 0 .. Len(m.faces)
  BY LenProperties
<1>2. PICK root : RootsTaken(m, root)
  BY RootsStep
<1>3. Roots(m) = root[Len(m.faces)]
  BY <1>2 DEF RootsTaken
<1>4. root[Len(m.faces)] \in [DOMAIN m.faces -> DOMAIN m.faces]
  BY <1>1, <1>2 DEF RootsTaken
<1> QED
  BY <1>3, <1>4

(* The components are finitely many sets of triangles, none of them        *)
(* empty.                                                                  *)
LEMMA ComponentsAre ==
  ASSUME NEW m, m.faces \in Seq(Triangle)
  PROVE  /\ IsFiniteSet(Components(m))
         /\ \A c \in Components(m) : c # {} /\ c \subseteq DOMAIN m.faces /\ c \subseteq Nat
            /\ IsFiniteSet(c)
<1>1. Roots(m) \in [DOMAIN m.faces -> DOMAIN m.faces]
  BY RootsAre
<1>2. DOMAIN m.faces = 1 .. Len(m.faces) /\ Len(m.faces) \in Nat /\ IsFiniteSet(DOMAIN m.faces)
  BY LenProperties, FS_Interval
<1>3. \A c \in Components(m) : c # {} /\ c \subseteq DOMAIN m.faces
  BY <1>1 DEF Components, ToSet
<1>4. IsFiniteSet(SUBSET DOMAIN m.faces)
  BY <1>2, FS_SUBSET
<1>5. IsFiniteSet(Components(m))
  <2>1. Components(m) \in SUBSET SUBSET DOMAIN m.faces
    BY <1>3
  <2> QED BY <1>4, <2>1, FS_Subset
<1>6. \A c \in Components(m) : c \subseteq Nat /\ IsFiniteSet(c)
  BY <1>2, <1>3, FS_Subset
<1> QED
  BY <1>3, <1>5, <1>6

(* The area of a component is an integer.                                  *)
LEMMA AreaIs ==
  ASSUME NEW m, WellFormed(m), NEW c, c \subseteq DOMAIN m.faces
  PROVE  ComponentArea(m, c) \in Int
<1> DEFINE at == Sorted(c)
           counts == [n \in DOMAIN at |-> DoubledArea(m, m.faces[at[n]])]
<1>1. /\ DOMAIN m.faces = 1 .. Len(m.faces) /\ Len(m.faces) \in Nat
      /\ \A i \in DOMAIN m.points : m.points[i] \in Int \X Int
      /\ \A i \in DOMAIN m.faces :
           m.faces[i][1] \in DOMAIN m.points /\ m.faces[i][2] \in DOMAIN m.points
           /\ m.faces[i][3] \in DOMAIN m.points
  BY LenProperties, ElementOfSeq, ThreePlaces DEF WellFormed
<1>2. IsFiniteSet(c) /\ c \subseteq Int
  <2>1. IsFiniteSet(1 .. Len(m.faces)) /\ c \in SUBSET (1 .. Len(m.faces))
    BY <1>1, FS_Interval
  <2> QED BY <1>1, <2>1, FS_Subset
<1>3. Cardinality(c) \in Nat /\ DOMAIN at = 1 .. Cardinality(c) /\ \A i \in DOMAIN at : at[i] \in c
  <2> HIDE DEF at
  <2> SUFFICES at = Sorted(c)
    BY <1>2, SortedNumbers
  <2> QED BY DEF at
<1>4. ComponentArea(m, c) = Total(counts)
  BY DEF ComponentArea
<1> HIDE DEF at
<1>5. \A i \in DOMAIN m.faces : DoubledArea(m, m.faces[i]) \in Int
  BY <1>1, TurnTurned DEF DoubledArea
<1>6. counts \in [1 .. Cardinality(c) -> Int]
  BY <1>3, <1>5
<1> HIDE DEF counts
<1>7. counts \in Seq(Int)
  BY <1>3, <1>6, AreSequences
<1> QED
  BY <1>4, <1>7, TotalIsInteger

(* A mesh with components has a largest one, because Larger is an order;   *)
(* and a first of the largest.                                             *)
LEMMA LargestExists ==
  ASSUME NEW m, WellFormed(m), Components(m) # {}
  PROVE  /\ LargestComponents(m) # {} /\ LargestComponents(m) \subseteq Components(m)
         /\ FirstLargest(m) \in LargestComponents(m)
<1> DEFINE C == Components(m)
           R == {p \in C \X C : Larger(m, p[1], p[2])}
<1>1. /\ IsFiniteSet(C)
      /\ \A c \in C : c # {} /\ c \subseteq DOMAIN m.faces /\ c \subseteq Nat /\ IsFiniteSet(c)
  BY ComponentsAre DEF WellFormed
<1>2. \A c \in C : ComponentArea(m, c) \in Int /\ Cardinality(c) \in Nat
  BY <1>1, AreaIs, FS_CardinalityType
<1>3. \A x, y \in C : <<x, y>> \in R <=> Larger(m, x, y)
  OBVIOUS
<1> HIDE DEF C, R
<1>4. StrictOrder(R, C)
  <2>1. \A x \in C : ~Larger(m, x, x)
    BY <1>2 DEF Larger
  <2>2. \A x, y, z \in C : Larger(m, x, y) /\ Larger(m, y, z) => Larger(m, x, z)
    BY <1>2 DEF Larger
  <2> QED BY <1>3, <2>1, <2>2 DEF StrictOrder
<1>5. PICK c \in C : \A d \in C : <<d, c>> \notin R
  BY <1>1, <1>4, LowestExists DEF C
<1>6. c \in LargestComponents(m)
  BY <1>3, <1>5 DEF LargestComponents, C
<1>7. LargestComponents(m) \subseteq C
  BY DEF LargestComponents, C
<1> DEFINE firsts == {First(d) : d \in LargestComponents(m)}
<1>8. \A d \in LargestComponents(m) : First(d) \in Nat
  BY <1>1, <1>7, FirstIsLeast
<1>9. PICK n \in firsts : \A k \in firsts : n <= k
  <2>1. firsts \subseteq Nat /\ firsts # {}
    BY <1>6, <1>8
  <2> HIDE DEF firsts
  <2> QED BY <2>1, Least
<1>10. PICK b \in LargestComponents(m) : n = First(b)
  BY <1>9
<1>11. \A d \in LargestComponents(m) : First(b) <= First(d)
  BY <1>9, <1>10
<1>12. FirstLargest(m) \in LargestComponents(m)
  <2> HIDE DEF firsts
  <2> QED BY <1>11 DEF FirstLargest
<1> QED
  BY <1>6, <1>7, <1>12 DEF C

(* A part of the triangles with their points.                              *)
LEMMA PartKeeps ==
  ASSUME NEW m, WellFormed(m), NEW numbers, numbers \subseteq DOMAIN m.faces,
         NEW s, s = Submesh(m, Chosen(m, numbers))
  PROVE  /\ WellFormed(s) /\ AllUsed(s)
         /\ NoneNear(m) => NoneNear(s)
         /\ NoneDegenerate(m) => NoneDegenerate(s)
         /\ NoneTwice(m) => NoneTwice(s)
<1> DEFINE c == MeshOf(m.points, Chosen(m, numbers))
<1>1. /\ WellFormed(c)
      /\ NoneNear(m) => NoneNear(c)
      /\ NoneDegenerate(m) => NoneDegenerate(c)
      /\ NoneTwice(m) => NoneTwice(c)
  BY ChosenKeeps
<1>2. s = Submesh(c, c.faces)
  BY DEF Submesh, Renumbered, MeshOf
<1> HIDE DEF c
<1> QED
  BY <1>1, <1>2, SubmeshKeeps

(* The component that is kept is as clear as the mesh was.                 *)
LEMMA KeepLargestKeeps ==
  ASSUME NEW m, WellFormed(m), NEW c \in LargestComponents(m), NEW r, r = KeepLargest(m, c)
  PROVE  /\ WellFormed(r)
         /\ NoneNear(m) => NoneNear(r)
         /\ NoneDegenerate(m) => NoneDegenerate(r)
         /\ NoneTwice(m) => NoneTwice(r)
         /\ AllUsed(m) => AllUsed(r)
<1>1. CASE r = m
  BY <1>1
<1>2. CASE r = Submesh(m, Chosen(m, c))
  <2>1. c \subseteq DOMAIN m.faces
    BY ComponentsAre DEF LargestComponents, WellFormed
  <2> QED BY <1>2, <2>1, PartKeeps
<1> QED
  BY <1>1, <1>2 DEF KeepLargest

(* What is left without the tiny components is as clear as the mesh was.   *)
LEMMA DropTinyKeeps ==
  ASSUME NEW m, WellFormed(m), NEW r, r = DropTiny(m)
  PROVE  /\ WellFormed(r)
         /\ NoneNear(m) => NoneNear(r)
         /\ NoneDegenerate(m) => NoneDegenerate(r)
         /\ NoneTwice(m) => NoneTwice(r)
         /\ AllUsed(m) => AllUsed(r)
<1> DEFINE tiny(c) == ComponentArea(m, c) * TinyParts < TotalArea(m)
           components == Components(m)
           kept == {c \in components : ~tiny(c)} \cup {FirstLargest(m)}
<1>1. CASE r = m
  BY <1>1
<1>2. CASE ~(Cardinality(components) <= 1) /\ r = Submesh(m, Chosen(m, UNION kept))
  <2>1. components # {}
    <3>1. components = {} => Cardinality(components) = 0
      BY FS_EmptySet
    <3> HIDE DEF components
    <3> QED BY <1>2, <3>1
  <2>2. FirstLargest(m) \in components
    BY <2>1, LargestExists
  <2>3. \A c \in components : c \subseteq DOMAIN m.faces
    BY ComponentsAre DEF WellFormed
  <2>4. UNION kept \subseteq DOMAIN m.faces
    BY <2>2, <2>3
  <2> HIDE DEF kept
  <2> QED BY <1>2, <2>4, PartKeeps
<1> QED
  BY <1>1, <1>2 DEF DropTiny

(* What the diagnosis counts of a mesh that is clear.                      *)
LEMMA ClearDiagnosis ==
  ASSUME NEW m, WellFormed(m), NoneNear(m), NoneDegenerate(m), NoneTwice(m)
  PROVE  /\ Diagnosis(m).degenerate = 0 /\ Diagnosis(m).duplicateFaces = 0
         /\ Diagnosis(m).duplicatePoints = 0
<1> DEFINE weld(i) == First({j \in DOMAIN m.points : m.points[j] = m.points[i]})
           welded == [n \in DOMAIN m.faces |-> [k \in 1 .. 3 |-> weld(m.faces[n][k])]]
<1>1. /\ DOMAIN m.faces = 1 .. Len(m.faces) /\ Len(m.faces) \in Nat
      /\ DOMAIN m.points = 1 .. Len(m.points) /\ Len(m.points) \in Nat
      /\ \A i \in DOMAIN m.points : m.points[i] \in Int \X Int
      /\ \A i \in DOMAIN m.faces : m.faces[i] \in [1 .. 3 -> Nat]
      /\ m.points \in Seq(Int \X Int)
  BY LenProperties, ElementOfSeq DEF WellFormed, Triangle
<1>2. \A i, j \in DOMAIN m.points : m.points[i] = m.points[j] => i = j
  BY <1>1, NearIsMutual DEF NoneNear
<1>3. \A i \in DOMAIN m.points : weld(i) = i
  <2> TAKE i \in DOMAIN m.points
  <2> DEFINE same == {j \in DOMAIN m.points : m.points[j] = m.points[i]}
  <2>1. same = {i} /\ same \subseteq Nat /\ same # {}
    BY <1>1, <1>2
  <2> HIDE DEF same
  <2>2. First(same) = i
    BY <2>1, FirstIsLeast
  <2> QED BY <2>2 DEF same
<1>4. welded = m.faces
  <2> HIDE DEF weld
  <2>1. ASSUME NEW n \in DOMAIN m.faces PROVE [k \in 1 .. 3 |-> weld(m.faces[n][k])] = m.faces[n]
    BY <1>1, <1>3, <2>1 DEF WellFormed
  <2>2. m.faces = [n \in DOMAIN m.faces |-> m.faces[n]]
    BY <1>1, LenProperties DEF WellFormed
  <2> QED BY <2>1, <2>2
<1>5. Diagnosis(m).degenerate = Cardinality({n \in DOMAIN welded : Degenerate(m, welded[n])})
  BY DEF Diagnosis
<1>6. Diagnosis(m).duplicateFaces = Len(welded) - Cardinality({Corners(welded[n]) : n \in DOMAIN welded})
  BY DEF Diagnosis
<1>7. Diagnosis(m).duplicatePoints = Len(m.points) - Cardinality(ToSet(m.points))
  BY DEF Diagnosis
<1> HIDE DEF welded, weld
<1>8. Diagnosis(m).degenerate = 0
  <2>1. {n \in DOMAIN m.faces : Degenerate(m, m.faces[n])} = {}
    BY DEF NoneDegenerate
  <2> QED BY <1>4, <1>5, <2>1, FS_EmptySet
<1>9. Diagnosis(m).duplicatePoints = 0
  <2>1. Cardinality(ToSet(m.points)) = Len(m.points)
    BY <1>1, <1>2, NoRepetition
  <2> QED BY <1>1, <1>7, <2>1
<1>10. Diagnosis(m).duplicateFaces = 0
  <2> DEFINE corners == [n \in DOMAIN m.faces |-> Corners(m.faces[n])]
             sets == {Corners(m.faces[n]) : n \in DOMAIN m.faces}
  <2>1. corners \in [1 .. Len(m.faces) -> sets] /\ ToSet(corners) = sets
    BY <1>1 DEF ToSet
  <2>2. \A i, j \in DOMAIN corners : corners[i] = corners[j] => i = j
    BY DEF NoneTwice
  <2> HIDE DEF corners, sets
  <2>3. corners \in Seq(sets) /\ Len(corners) = Len(m.faces)
    BY <1>1, <2>1, AreSequences
  <2>4. Cardinality(sets) = Len(m.faces)
    BY <2>1, <2>2, <2>3, NoRepetition
  <2>5. Diagnosis(m).duplicateFaces = Len(m.faces) - Cardinality(sets)
    BY <1>4, <1>6 DEF sets
  <2> QED BY <1>1, <2>4, <2>5
<1> QED
  BY <1>8, <1>9, <1>10

-----------------------------------------------------------------------------
(* The readers of a file, binary STL first.                                *)

(* The mesh of a file that the engine does not refuse is one.              *)
Sound ==
  Checked(file).refusal = "none" =>
    WellFormed(Loaded(file)) /\ Len(Loaded(file).faces) = Checked(file).triangles

(* What the readers say of a file that the preflight accepted, when they   *)
(* see the same lines.                                                     *)
Agreed ==
  ~Broken(file) =>
    /\ Checked(file).refusal = "none" =>
         Checked(file).triangles = Preflight(file).triangles
         /\ Checked(file).vertices = Preflight(file).vertices
    /\ Checked(file).refusal # "none" => PreflightOnly
    /\ InReach(Points(file)) /\ Len(Points(file)) <= MaxVertices
    /\ file.kind = "obj" /\ Checked(file).refusal = "none" => Checked(file).triangles = Count(file.lines, "f")

(* What the two readers answer.                                            *)
LEMMA Words ==
  ASSUME NEW v, NEW t, NEW code
  PROVE  /\ Accepted(v, t).refusal = "none" /\ Accepted(v, t).vertices = v /\ Accepted(v,
            t).triangles = t
         /\ Rejected(code).refusal = code
BY DEF Accepted, Rejected

(* Points that are not refused are finite and within the limits.           *)
LEMMA GoodPoints ==
  ASSUME NEW points
  PROVE  PointRefusal(points) = "none" => Finite(points) /\ InReach(points)
BY DEF PointRefusal

(* Finite points are pairs of integers.                                    *)
LEMMA FinitePoints ==
  ASSUME NEW points \in Seq(AnyPoint), Finite(points)
  PROVE  points \in Seq(Int \X Int)
<1>1. Len(points) \in Nat /\ DOMAIN points = 1 .. Len(points)
      /\ points \in [1 .. Len(points) -> AnyPoint]
  BY LenProperties
<1>2. \A i \in DOMAIN points : points[i] \in Int \X Int
  BY <1>1 DEF Finite, ToSet, AnyPoint
<1>3. points \in [1 .. Len(points) -> Int \X Int]
  BY <1>1, <1>2
<1> QED
  BY <1>1, <1>3, AreSequences

(* Triangles with corners of their own have three times as many points.    *)
LEMMA ThreesAre ==
  ASSUME NEW n \in Nat, NEW t, t = Threes(n)
  PROVE  /\ t \in Seq(Triangle) /\ Len(t) = n /\ DOMAIN t = 1 .. n
         /\ \A i \in 1 .. n : \A k \in 1 .. 3 : t[i][k] \in 1 .. 3 * n
<1>1. t = [i \in 1 .. n |-> <<3 * i - 2, 3 * i - 1, 3 * i>>]
  BY DEF Threes
<1>2. \A i \in 1 .. n : <<3 * i - 2, 3 * i - 1, 3 * i>> \in Triangle
  BY DEF Triangle
<1>3. t \in [1 .. n -> Triangle]
  BY <1>1, <1>2
<1>4. t \in Seq(Triangle) /\ Len(t) = n /\ DOMAIN t = 1 .. n
  BY <1>3, AreSequences
<1>5. ASSUME NEW i \in 1 .. n, NEW k \in 1 .. 3 PROVE <<3 * i - 2, 3 * i - 1, 3 * i>>[k] \in 1 .. 3 * n
  BY ThreePlaces
<1> QED
  BY <1>1, <1>4, <1>5

(* The mesh of an STL: so many points, three to a triangle.                *)
LEMMA ThreesMesh ==
  ASSUME NEW points, Points(file) = points, points \in Seq(Int \X Int), file.kind \in {"binary",
         "text"},
         NEW n \in Nat, Len(points) = 3 * n
  PROVE  WellFormed(Loaded(file)) /\ Len(Loaded(file).faces) = n
<1>1. (3 * n) \div 3 = n
  OBVIOUS
<1>2. Faces(file) = Threes(n)
  BY <1>1 DEF Faces
<1>3. /\ Faces(file) \in Seq(Triangle) /\ Len(Faces(file)) = n /\ DOMAIN Faces(file) = 1 .. n
      /\ \A i \in 1 .. n : \A k \in 1 .. 3 : Faces(file)[i][k] \in 1 .. 3 * n
  BY <1>2, ThreesAre
<1>4. /\ Loaded(file).points = points /\ Loaded(file).faces = Faces(file)
      /\ Loaded(file) = MeshOf(Loaded(file).points, Loaded(file).faces)
  BY DEF Loaded, MeshOf
<1>5. DOMAIN points = 1 .. 3 * n
  BY LenProperties
<1> QED
  BY <1>3, <1>4, <1>5 DEF WellFormed

(* A file that the engine does not refuse.                                 *)
LEMMA CheckedIs ==
  /\ Checked(file).refusal = "none" =>
       /\ Sniff(file) = file.extension /\ Counted(file).refusal = "none" /\ Finite(Points(file))
       /\ Checked(file) = Counted(file)
  /\ Sniff(file) = file.extension /\ Counted(file).refusal = "none" /\ Finite(Points(file)) =>
       Checked(file) = Counted(file)
BY Words DEF Checked

(* The mesh of a binary STL.                                               *)
LEMMA BinarySound ==
  ASSUME Taken(file), file.kind = "binary", file.extension = "stl"
  PROVE  Sound
<1> DEFINE d == file.declared
<1>1. d \in Nat /\ file.points \in Seq(AnyPoint) /\ Points(file) = file.points
  BY DEF Taken, Points
<1>2. SUFFICES ASSUME Checked(file).refusal = "none"
               PROVE  WellFormed(Loaded(file)) /\ Len(Loaded(file).faces) = Checked(file).triangles
  BY DEF Sound
<1>3. SizeMatches(file) /\ Finite(file.points) /\ Counted(file).refusal = "none"
      /\ Checked(file) = Counted(file)
  BY <1>1, <1>2, CheckedIs DEF Sniff
<1>4. Counted(file) = CountBinaryStl(file)
  BY DEF Counted
<1>5. Counted(file) = Accepted(3 * d, d)
  BY <1>3, <1>4, Words DEF CountBinaryStl
<1>6. Len(file.points) = 3 * d /\ file.points \in Seq(Int \X Int)
  BY <1>1, <1>3, FinitePoints DEF SizeMatches
<1>7. WellFormed(Loaded(file)) /\ Len(Loaded(file).faces) = d
  BY <1>1, <1>6, ThreesMesh
<1> QED
  BY <1>3, <1>5, <1>7, Words

(* The readers agree on a binary STL.                                      *)
LEMMA BinaryAgreed ==
  ASSUME Taken(file), file.kind = "binary", Preflight(file).refusal = "none"
  PROVE  Agreed
<1> DEFINE d == file.declared
<1>1. d \in Nat /\ file.points \in Seq(AnyPoint)
  BY DEF Taken
<1>2. /\ file.extension = "stl" /\ Preflight(file) = Parsed(file)
  BY Words DEF Preflight
<1>3. SizeMatches(file) /\ Parsed(file) = ParseBinaryStl(file)
  BY <1>2, Words DEF Parsed
<1>4. BinaryStlRefusal(file) = "none" /\ ParseBinaryStl(file) = Accepted(3 * d, d)
  BY <1>2, <1>3, Words DEF ParseBinaryStl
<1>5. d # 0 /\ d <= MaxTriangles /\ 3 * d <= MaxVertices /\ PointRefusal(file.points) = "none"
  BY <1>1, <1>4, FormatsAssumption DEF BinaryStlRefusal
<1>6. Finite(file.points) /\ InReach(file.points) /\ Len(file.points) = 3 * d
  BY <1>3, <1>5, GoodPoints DEF SizeMatches
<1>7. Points(file) = file.points /\ Sniff(file) = "stl"
  BY <1>3 DEF Points, Sniff
<1>8. Counted(file) = Accepted(3 * d, d)
  <2>1. Counted(file) = CountBinaryStl(file)
    BY DEF Counted
  <2> QED BY <1>1, <1>5, <2>1, FormatsAssumption DEF CountBinaryStl
<1>9. Checked(file) = Accepted(3 * d, d)
  BY <1>2, <1>6, <1>7, <1>8, CheckedIs, Words
<1> QED
  BY <1>2, <1>3, <1>4, <1>5, <1>6, <1>7, <1>9, Words DEF Agreed

(* How often a word has been seen.                                         *)
Seen(lines, word, n) == Cardinality({i \in 1 .. n : lines[i].word = word})

LEMMA SeenIs ==
  ASSUME NEW lines, NEW word, NEW n \in Nat
  PROVE  /\ Seen(lines, word, n) \in Nat /\ Seen(lines, word, 0) = 0
         /\ Seen(lines, word, n + 1) = IF lines[n + 1].word = word THEN Seen(lines, word, n) + 1
                                       ELSE Seen(lines, word, n)
<1> DEFINE at(k) == {i \in 1 .. k : lines[i].word = word}
<1>1. \A k \in Nat : IsFiniteSet(at(k))
  <2> TAKE k \in Nat
  <2>1. IsFiniteSet(1 .. k) /\ at(k) \in SUBSET (1 .. k)
    BY FS_Interval
  <2> HIDE DEF at
  <2> QED BY <2>1, FS_Subset
<1>2. at(0) = {}
  OBVIOUS
<1>3. n + 1 \notin at(n) /\ at(n + 1) = IF lines[n + 1].word = word THEN at(n) \cup {n + 1} ELSE at(n)
  <2>1. 1 .. n + 1 = (1 .. n) \cup {n + 1} /\ n + 1 \notin 1 .. n
    OBVIOUS
  <2> QED BY <2>1
<1>4. \A k : Seen(lines, word, k) = Cardinality(at(k))
  BY DEF Seen
<1> HIDE DEF at
<1>5. Cardinality(at(n)) \in Nat /\ Cardinality(at(0)) = 0
  BY <1>1, <1>2, FS_CardinalityType, FS_EmptySet
<1>6. Cardinality(at(n) \cup {n + 1}) = Cardinality(at(n)) + 1
  BY <1>1, <1>3, FS_AddElement
<1> QED
  BY <1>3, <1>4, <1>5, <1>6

(* The number of lines with a word is the number that has been seen at     *)
(* the end.                                                                *)
LEMMA CountIsSeen ==
  ASSUME NEW S, NEW lines \in Seq(S), NEW word
  PROVE  /\ Count(lines, word) = Seen(lines, word, Len(lines)) /\ Count(lines, word) \in Nat
         /\ Where(lines, word) \subseteq Int /\ IsFiniteSet(Where(lines, word))
         /\ Count(lines, word) = Cardinality(Where(lines, word))
         /\ Count(lines, word) = 0 <=> Where(lines, word) = {}
<1>1. Len(lines) \in Nat /\ DOMAIN lines = 1 .. Len(lines)
  BY LenProperties
<1>2. Where(lines, word) = {i \in 1 .. Len(lines) : lines[i].word = word}
  BY <1>1 DEF Where
<1>3. IsFiniteSet(Where(lines, word)) /\ Where(lines, word) \subseteq Int
  <2>1. IsFiniteSet(1 .. Len(lines)) /\ Where(lines, word) \in SUBSET (1 .. Len(lines))
    BY <1>1, <1>2, FS_Interval
  <2> QED BY <1>1, <2>1, FS_Subset
<1>4. Count(lines, word) = Cardinality(Where(lines, word))
  BY DEF Count
<1>5. Count(lines, word) \in Nat /\ (Count(lines, word) = 0 <=> Where(lines, word) = {})
  BY <1>3, <1>4, FS_CardinalityType, FS_EmptySet
<1> QED
  BY <1>2, <1>3, <1>4, <1>5 DEF Seen

(* The points of the lines with a word.                                    *)
LEMMA PointsOfLines ==
  ASSUME NEW S, NEW lines \in Seq(S), NEW word,
         \A i \in Where(lines, word) : lines[i].at \in AnyPoint
  PROVE  /\ PointsOf(lines, word) \in Seq(AnyPoint)
         /\ Len(PointsOf(lines, word)) = Count(lines, word) /\ Count(lines, word) \in Nat
         /\ (\A i \in Where(lines, word) : PointRefusal(<<lines[i].at>>) = "none") =>
              Finite(PointsOf(lines, word)) /\ InReach(PointsOf(lines, word))
<1> DEFINE W == Where(lines, word)
           at == Sorted(W)
           points == [n \in DOMAIN at |-> lines[at[n]].at]
<1>1. IsFiniteSet(W) /\ W \subseteq Int /\ Count(lines, word) = Cardinality(W)
  BY CountIsSeen
<1>2. /\ Cardinality(W) \in Nat /\ DOMAIN at = 1 .. Cardinality(W)
      /\ \A n \in DOMAIN at : at[n] \in W
  <2> HIDE DEF at, W
  <2> SUFFICES at = Sorted(W)
    BY <1>1, SortedNumbers
  <2> QED BY DEF at
<1>3. PointsOf(lines, word) = points
  BY DEF PointsOf
<1> HIDE DEF at
<1>4. \A p : PointRefusal(<<p>>) = "none" =>
             /\ p # NotFinitePoint
             /\ p[1] \in -MaxCoordinate .. MaxCoordinate /\ p[2] \in -MaxCoordinate .. MaxCoordinate
  <2> TAKE p
  <2>1. ToSet(<<p>>) = {p}
    BY DEF ToSet
  <2> QED BY <2>1, GoodPoints DEF Finite, InReach
<1>5. \A n \in DOMAIN at : points[n] \in AnyPoint /\ \E i \in W : points[n] = lines[i].at
  BY <1>2
<1>6. DOMAIN points = 1 .. Cardinality(W) /\ points \in [1 .. Cardinality(W) -> AnyPoint]
  BY <1>2, <1>5
<1>7. points \in Seq(AnyPoint) /\ Len(points) = Cardinality(W)
  <2> HIDE DEF points, W
  <2> QED BY <1>2, <1>6, AreSequences
<1>8. ASSUME \A i \in W : PointRefusal(<<lines[i].at>>) = "none" PROVE Finite(points) /\ InReach(points)
  <2>1. \A p \in ToSet(points) : \E n \in DOMAIN at : p = points[n]
    BY DEF ToSet
  <2>2. \A p \in ToSet(points) : \E i \in W : p = lines[i].at
    <3> HIDE DEF points
    <3> QED BY <1>5, <2>1
  <2> HIDE DEF points, W
  <2> QED BY <1>4, <1>8, <2>2 DEF Finite, InReach
<1> QED
  BY <1>1, <1>2, <1>3, <1>7, <1>8

-----------------------------------------------------------------------------
(* The reader of a text STL.                                               *)

(* The states of the reader of a text STL, and the kinds of step it        *)
(* takes.                                                                  *)
States == {"header", "facet_or_end", "outer_loop", "vertices", "endloop", "endfacet", "ended"}
Codes == {"none", "malformed_mesh", "coordinate_limit", "vertex_limit", "triangle_limit",
  "format_mismatch"}
Reader == [state : States, facets : Nat, vertices : Nat, corners : Nat, refusal : Codes]

(* The steps of the parser that do not stop it.                            *)
Begins(s, line, t) ==
  s.state = "header" /\ line.word \in {"solid", "SOLID"} /\ t = [s EXCEPT !.state = "facet_or_end"]
Ends(s, line, t) == s.state = "facet_or_end" /\ line.word = "endsolid"
  /\ t = [s EXCEPT !.state = "ended"]
Opens(s, line, t) ==
  s.state = "facet_or_end" /\ line.word = "facet" /\ t = [s EXCEPT !.state = "outer_loop",
  !.corners = 0]
Marks(s, line, t) ==
  /\ s.state = "vertices" /\ line.word = "vertex" /\ PointRefusal(<<line.at>>) = "none"
  /\ s.vertices + 1 <= MaxVertices
  /\ t = [s EXCEPT !.vertices = @ + 1, !.corners = @ + 1,
     !.state = IF s.corners = 2 THEN "endloop" ELSE @]
Loops(s, line, t) == s.state = "outer_loop" /\ line.word = "outer"
  /\ t = [s EXCEPT !.state = "vertices"]
Closes(s, line, t) == s.state = "endloop" /\ line.word = "endloop"
  /\ t = [s EXCEPT !.state = "endfacet"]
Counts(s, line, t) ==
  /\ s.state = "endfacet" /\ line.word = "endfacet" /\ s.facets + 1 <= MaxTriangles
  /\ t = [s EXCEPT !.state = "facet_or_end", !.facets = @ + 1]

(* A vertex that is not refused is one corner more.                        *)
LEMMA AtPointIs ==
  ASSUME NEW s \in Reader, NEW line \in TextLine, line.word = "vertex", s.state = "vertices",
         NEW t, t = AtPoint(s, line.at)
  PROVE  t \in Reader /\ (t.refusal = "none" => Marks(s, line, t))
<1>1. CASE PointRefusal(<<line.at>>) # "none"
  <2>1. t = [s EXCEPT !.refusal = PointRefusal(<<line.at>>)]
    BY <1>1 DEF AtPoint, Stop
  <2>2. PointRefusal(<<line.at>>) \in {"malformed_mesh", "coordinate_limit", "none"}
    BY DEF PointRefusal
  <2> QED BY <1>1, <2>1, <2>2 DEF Reader, Codes
<1>2. CASE PointRefusal(<<line.at>>) = "none" /\ s.vertices + 1 > MaxVertices
  BY <1>2 DEF AtPoint, Stop, Reader, Codes
<1>3. CASE PointRefusal(<<line.at>>) = "none" /\ ~(s.vertices + 1 > MaxVertices)
  <2>1. t = [s EXCEPT !.vertices = @ + 1, !.corners = @ + 1,
        !.state = IF s.corners = 2 THEN "endloop" ELSE @]
    BY <1>3 DEF AtPoint
  <2>2. s.vertices + 1 <= MaxVertices
    BY <1>3, FormatsAssumption DEF Reader
  <2>3. t \in Reader
    <3>1. s.vertices + 1 \in Nat /\ s.corners + 1 \in Nat
      BY DEF Reader
    <3>2. [s EXCEPT !.vertices = @ + 1] \in Reader
      BY <3>1 DEF Reader
    <3>3. [s EXCEPT !.vertices = @ + 1, !.corners = @ + 1] \in Reader
      BY <3>1, <3>2 DEF Reader
    <3>4. CASE s.corners = 2
      <4>1. t = [[s EXCEPT !.vertices = @ + 1, !.corners = @ + 1] EXCEPT !.state = "endloop"]
        BY <2>1, <3>4
      <4> QED BY <3>3, <4>1 DEF Reader, States
    <3>5. CASE s.corners # 2
      <4>1. t = [[s EXCEPT !.vertices = @ + 1, !.corners = @ + 1] EXCEPT !.state = s.state]
        BY <2>1, <3>5 DEF Reader
      <4> QED BY <3>3, <4>1 DEF Reader, States
    <3> QED BY <3>4, <3>5
  <2> QED BY <1>3, <2>1, <2>2, <2>3 DEF Marks
<1> QED
  BY <1>1, <1>2, <1>3

(* The words that may come only in one state.                              *)
LEMMA ExpectedIs ==
  /\ DOMAIN Expected = {"outer", "endloop", "endfacet"}
  /\ Expected["outer"] = "outer_loop" /\ Expected["endloop"] = "endloop"
     /\ Expected["endfacet"] = "endfacet"
  /\ After["outer"] = "vertices" /\ After["endloop"] = "endfacet" /\ After["endfacet"] = "facet_or_end"
BY DEF Expected, After

(* Every line that is not refused is one of the steps, and a refusal       *)
(* stays.                                                                  *)
LEMMA ReadStep ==
  ASSUME NEW s \in Reader, NEW line \in TextLine, NEW t, t = Read(s, line)
  PROVE  /\ t \in Reader
         /\ t.refusal = "none" =>
              /\ s.refusal = "none"
              /\ \/ Begins(s, line, t) \/ Ends(s, line, t) \/ Opens(s, line, t) \/ Marks(s, line, t)
                 \/ Loops(s, line, t) \/ Closes(s, line, t) \/ Counts(s, line, t)
<1> DEFINE word == line.word
           Result == /\ t \in Reader
                     /\ t.refusal = "none" =>
                          /\ s.refusal = "none"
                          /\ \/ Begins(s, line, t) \/ Ends(s, line, t) \/ Opens(s, line,
                                t) \/ Marks(s, line, t)
                             \/ Loops(s, line, t) \/ Closes(s, line, t) \/ Counts(s, line, t)
<1>0. \A code \in Codes : Stop(s, code) \in Reader /\ Stop(s, code).refusal = code
  BY DEF Stop, Reader
<1>1. CASE s.refusal # "none"
  <2>1. t = s
    BY <1>1 DEF Read
  <2> QED BY <1>1, <2>1
<1>2. CASE s.refusal = "none" /\ s.state = "header"
  <2>1. t = IF word \in {"solid", "SOLID"} THEN [s EXCEPT !.state = "facet_or_end"]
            ELSE Stop(s, "format_mismatch")
    BY <1>2, ExpectedIs DEF Read
  <2>2. CASE word \in {"solid", "SOLID"}
    <3>1. t = [s EXCEPT !.state = "facet_or_end"]
      BY <2>1, <2>2
    <3>2. t \in Reader
      BY <3>1 DEF Reader, States
    <3> QED BY <1>2, <2>2, <3>1, <3>2 DEF Begins
  <2>3. CASE word \notin {"solid", "SOLID"}
    <3>1. t = Stop(s, "format_mismatch")
      BY <2>1, <2>3
    <3> QED BY <1>0, <3>1 DEF Codes
  <2> QED BY <2>2, <2>3
<1>3. CASE s.refusal = "none" /\ s.state = "facet_or_end" /\ word = "endsolid"
  <2>1. t = [s EXCEPT !.state = "ended"]
    BY <1>3, ExpectedIs DEF Read
  <2>2. t \in Reader
    BY <2>1 DEF Reader, States
  <2> QED BY <1>3, <2>1, <2>2 DEF Ends
<1>4. CASE s.refusal = "none" /\ s.state = "facet_or_end" /\ word = "facet"
  <2>1. t = [s EXCEPT !.state = "outer_loop", !.corners = 0]
    BY <1>4, ExpectedIs DEF Read
  <2>2. t \in Reader
    <3> DEFINE u == [s EXCEPT !.state = "outer_loop"]
    <3>1. u \in Reader /\ t = [u EXCEPT !.corners = 0]
      BY <2>1 DEF Reader, States
    <3> HIDE DEF u
    <3> QED BY <3>1 DEF Reader
  <2> QED BY <1>4, <2>1, <2>2 DEF Opens
<1>5. CASE s.refusal = "none" /\ s.state = "vertices" /\ word = "vertex"
  <2>1. t = AtPoint(s, line.at)
    BY <1>5, ExpectedIs DEF Read
  <2> QED BY <1>5, <2>1, AtPointIs
<1>6. CASE s.refusal = "none" /\ word = "outer" /\ s.state = "outer_loop"
  <2>1. t = [s EXCEPT !.state = "vertices", !.facets = s.facets]
    BY <1>6, ExpectedIs DEF Read
  <2>2. t \in Reader /\ t = [s EXCEPT !.state = "vertices"]
    BY <2>1 DEF Reader, States
  <2> QED BY <1>6, <2>2 DEF Loops
<1>7. CASE s.refusal = "none" /\ word = "endloop" /\ s.state = "endloop"
  <2>1. t = [s EXCEPT !.state = "endfacet", !.facets = s.facets]
    BY <1>7, ExpectedIs DEF Read
  <2>2. t \in Reader /\ t = [s EXCEPT !.state = "endfacet"]
    BY <2>1 DEF Reader, States
  <2> QED BY <1>7, <2>2 DEF Closes
<1>8. CASE s.refusal = "none" /\ word = "endfacet" /\ s.state = "endfacet"
  <2>1. t = IF s.facets + 1 > MaxTriangles THEN Stop(s, "triangle_limit")
            ELSE [s EXCEPT !.state = "facet_or_end", !.facets = @ + 1]
    BY <1>8, ExpectedIs DEF Read
  <2>2. CASE s.facets + 1 > MaxTriangles
    <3>1. t = Stop(s, "triangle_limit")
      BY <2>1, <2>2
    <3> QED BY <1>0, <3>1 DEF Codes
  <2>3. CASE ~(s.facets + 1 > MaxTriangles)
    <3>1. t = [s EXCEPT !.state = "facet_or_end", !.facets = @ + 1]
      BY <2>1, <2>3
    <3>2. t \in Reader /\ s.facets + 1 <= MaxTriangles
      <4>1. [s EXCEPT !.state = "facet_or_end"] \in Reader
        BY DEF Reader, States
      <4>2. s.facets + 1 \in Nat /\ s.facets + 1 <= MaxTriangles
        BY <2>3, FormatsAssumption DEF Reader
      <4> QED BY <3>1, <4>1, <4>2 DEF Reader
    <3> QED BY <1>8, <3>1, <3>2 DEF Counts
  <2> QED BY <2>2, <2>3
<1>9. CASE /\ s.refusal = "none" /\ s.state # "header"
           /\ ~(s.state = "facet_or_end" /\ word = "endsolid") /\ ~(s.state = "facet_or_end"
              /\ word = "facet")
           /\ ~(s.state = "vertices" /\ word = "vertex") /\ ~(word = "outer" /\ s.state = "outer_loop")
           /\ ~(word = "endloop" /\ s.state = "endloop") /\ ~(word = "endfacet" /\ s.state = "endfacet")
  <2>1. ~(word \in DOMAIN Expected /\ s.state = Expected[word])
    BY <1>9, ExpectedIs
  <2>2. t = Stop(s, "malformed_mesh")
    BY <1>9, <2>1 DEF Read
  <2> QED BY <1>0, <2>2 DEF Codes
<1> QED
  BY <1>1, <1>2, <1>3, <1>4, <1>5, <1>6, <1>7, <1>8, <1>9

(* What the parser has counted is what there is.                           *)
Tallied(s, lines, n) ==
  LET F == Seen(lines, "facet", n)
      O == Seen(lines, "outer", n)
      L == Seen(lines, "endloop", n)
      E == Seen(lines, "endfacet", n)
      V == Seen(lines, "vertex", n)
  IN  /\ s.facets = E /\ s.vertices = V /\ E <= MaxTriangles /\ V <= MaxVertices
      /\ s.state \in {"header", "facet_or_end", "ended"} => F = E /\ O = E /\ L = E /\ V = 3 * E
      /\ s.state = "outer_loop" => F = E + 1 /\ O = E /\ L = E /\ V = 3 * E /\ s.corners = 0
      /\ s.state = "vertices" => F = E + 1 /\ O = E + 1 /\ L = E /\ V = 3 * E + s.corners
         /\ s.corners <= 2
      /\ s.state = "endloop" => F = E + 1 /\ O = E + 1 /\ L = E /\ V = 3 * E + 3
      /\ s.state = "endfacet" => F = E + 1 /\ O = E + 1 /\ L = E + 1 /\ V = 3 * E + 3
(* What the lines so far must have been when none was refused.             *)
Understood(s, lines, n) ==
  /\ s.state = "header" <=> n = 0
  /\ n > 0 => lines[1].word \in {"solid", "SOLID"}
  /\ s.state = "ended" => lines[n].word = "endsolid"
  /\ \A i \in 1 .. n : lines[i].word # "other"
  /\ \A i \in 1 .. n : lines[i].word = "vertex" => PointRefusal(<<lines[i].at>>) = "none"

(* A step keeps the tally.                                                 *)
LEMMA TalliedStep ==
  ASSUME NEW lines, NEW n \in Nat, NEW s \in Reader, NEW t \in Reader, NEW line, line = lines[n + 1],
         Tallied(s, lines, n),
         \/ Begins(s, line, t) \/ Ends(s, line, t) \/ Opens(s, line, t) \/ Marks(s, line, t)
         \/ Loops(s, line, t) \/ Closes(s, line, t) \/ Counts(s, line, t)
  PROVE  Tallied(t, lines, n + 1)
<1> DEFINE next(word) == IF line.word = word THEN Seen(lines, word, n) + 1 ELSE Seen(lines, word, n)
<1>1. \A word : Seen(lines, word, n) \in Nat /\ Seen(lines, word, n + 1) = next(word)
  BY SeenIs
<1>2. MaxVertices \in Nat /\ MaxTriangles \in Nat /\ s.facets \in Nat /\ s.vertices \in Nat
      /\ s.corners \in Nat
  BY FormatsAssumption DEF Reader
<1>3. CASE Begins(s, line, t)
  BY <1>1, <1>2, <1>3 DEF Tallied, Begins, Reader
<1>4. CASE Ends(s, line, t)
  BY <1>1, <1>2, <1>4 DEF Tallied, Ends, Reader
<1>5. CASE Opens(s, line, t)
  BY <1>1, <1>2, <1>5 DEF Tallied, Opens, Reader
<1>6. CASE Marks(s, line, t)
  BY <1>1, <1>2, <1>6 DEF Tallied, Marks, Reader
<1>7. CASE Loops(s, line, t)
  BY <1>1, <1>2, <1>7 DEF Tallied, Loops, Reader
<1>8. CASE Closes(s, line, t)
  BY <1>1, <1>2, <1>8 DEF Tallied, Closes, Reader
<1>9. CASE Counts(s, line, t)
  BY <1>1, <1>2, <1>9 DEF Tallied, Counts, Reader
<1> QED
  BY <1>3, <1>4, <1>5, <1>6, <1>7, <1>8, <1>9

(* A step understands one line more.                                       *)
LEMMA UnderstoodStep ==
  ASSUME NEW lines, NEW n \in Nat, NEW s \in Reader, NEW t \in Reader, NEW line, line = lines[n + 1],
         Understood(s, lines, n),
         \/ Begins(s, line, t) \/ Ends(s, line, t) \/ Opens(s, line, t) \/ Marks(s, line, t)
         \/ Loops(s, line, t) \/ Closes(s, line, t) \/ Counts(s, line, t)
  PROVE  Understood(t, lines, n + 1)
<1>1. \A i \in 1 .. n + 1 : i \in 1 .. n \/ i = n + 1
  OBVIOUS
<1>2. /\ t.state # "header"
      /\ t.state = "ended" => line.word = "endsolid"
      /\ line.word # "other"
      /\ line.word = "vertex" => PointRefusal(<<line.at>>) = "none"
      /\ s.state = "header" => line.word \in {"solid", "SOLID"}
  BY DEF Begins, Ends, Opens, Marks, Loops, Closes, Counts, Reader
<1>3. lines[1].word \in {"solid", "SOLID"}
  BY <1>2 DEF Understood
<1>4. \A i \in 1 .. n + 1 : lines[i].word # "other"
  BY <1>1, <1>2 DEF Understood
<1>5. \A i \in 1 .. n + 1 : lines[i].word = "vertex" => PointRefusal(<<lines[i].at>>) = "none"
  BY <1>1, <1>2 DEF Understood
<1> QED
  BY <1>2, <1>3, <1>4, <1>5 DEF Understood

(* So the reader has tallied and understood every line of a text that it   *)
(* accepts.                                                                *)
LEMMA ReadingTallies ==
  ASSUME NEW lines \in Seq(TextLine), NEW s, s = Reading(lines)
  PROVE  /\ s \in Reader
         /\ s.refusal = "none" => Tallied(s, lines, Len(lines)) /\ Understood(s, lines, Len(lines))
<1> DEFINE N == Len(lines)
           step == [x \in Reader \X (1 .. N) |-> Read(x[1], lines[x[2]])]
           after[n \in 0 .. N] == IF n = 0 THEN Start ELSE Read(after[n - 1], lines[n])
<1>1. N \in Nat /\ DOMAIN lines = 1 .. N /\ \A n \in 1 .. N : lines[n] \in TextLine
  BY ElementOfSeq, LenProperties
<1>2. step \in [Reader \X (1 .. N) -> Reader]
  BY <1>1, ReadStep
<1>3. PICK f : Solves(f, Reader, Start, N, step)
  <2>1. Start \in Reader
    BY DEF Start, Reader, States, Codes
  <2> HIDE DEF step, N, after
  <2> QED BY <1>1, <1>2, <2>1, Recursion
<1>4. /\ f \in [0 .. N -> Reader] /\ f[0] = Start
      /\ \A n \in 1 .. N : f[n] = Read(f[n - 1], lines[n])
  <2>1. f \in [0 .. N -> Reader] /\ f[0] = Start /\ \A n \in 1 .. N : f[n] = step[<<f[n - 1], n>>]
    BY <1>3 DEF Solves
  <2>2. \A n \in 1 .. N : n - 1 \in 0 .. N
    BY <1>1
  <2> HIDE DEF N
  <2> QED BY <2>1, <2>2
<1>5. f = [n \in 0 .. N |-> IF n = 0 THEN Start ELSE Read(f[n - 1], lines[n])]
  BY <1>1, <1>4
<1>6. after = [n \in 0 .. N |-> IF n = 0 THEN Start ELSE Read(after[n - 1], lines[n])]
  BY <1>5
<1>7. s = after[N]
  BY DEF Reading
<1> HIDE DEF after
<1> DEFINE good(x, n) == /\ x \in Reader
                         /\ x.refusal = "none" => Tallied(x, lines, n) /\ Understood(x, lines, n)
           T == {n \in 0 .. N : good(after[n], n)}
<1>8. 0 \in T
  <2>1. after[0] = Start
    BY <1>1, <1>6
  <2>2. good(Start, 0)
    <3>1. Start \in Reader
      BY DEF Start, Reader, States, Codes
    <3>2. \A word : Seen(lines, word, 0) = 0
      BY SeenIs
    <3>3. Tallied(Start, lines, 0)
      BY <3>2, FormatsAssumption DEF Start, Tallied
    <3>4. Understood(Start, lines, 0)
      BY DEF Start, Understood
    <3> QED BY <3>1, <3>3, <3>4
  <2> HIDE DEF good
  <2> QED BY <1>1, <2>1, <2>2
<1>9. \A n \in 0 .. N : n \in T /\ n < N => n + 1 \in T
  <2> SUFFICES ASSUME NEW n \in 0 .. N, n \in T, n < N PROVE n + 1 \in T
    OBVIOUS
  <2>1. n + 1 \in 1 .. N /\ (n + 1) - 1 = n /\ n \in Nat /\ n + 1 \in 0 .. N /\ n + 1 # 0
    BY <1>1
  <2>2. after[n + 1] = Read(after[n], lines[n + 1])
    BY <1>6, <2>1
  <2>3. good(after[n + 1], n + 1)
    <3>1. good(after[n], n) /\ lines[n + 1] \in TextLine
      BY <1>1, <2>1
    <3> DEFINE u == after[n]
               t == after[n + 1]
               line == lines[n + 1]
    <3>2. u \in Reader /\ (u.refusal = "none" => Tallied(u, lines, n) /\ Understood(u, lines, n))
      BY <3>1
    <3>3. t = Read(u, line) /\ line = lines[n + 1] /\ line \in TextLine
      BY <2>2, <3>1
    <3> HIDE DEF u, t, line
    <3>4. /\ t \in Reader
          /\ t.refusal = "none" =>
              /\ u.refusal = "none"
              /\ \/ Begins(u, line, t) \/ Ends(u, line, t) \/ Opens(u, line, t) \/ Marks(u, line, t)
                 \/ Loops(u, line, t) \/ Closes(u, line, t) \/ Counts(u, line, t)
      BY <3>2, <3>3, ReadStep
    <3>5. ASSUME t.refusal = "none" PROVE Tallied(t, lines, n + 1)
      BY <2>1, <3>2, <3>3, <3>4, <3>5, TalliedStep
    <3>6. ASSUME t.refusal = "none" PROVE Understood(t, lines, n + 1)
      BY <2>1, <3>2, <3>3, <3>4, <3>6, UnderstoodStep
    <3> QED BY <3>4, <3>5, <3>6 DEF t
  <2> HIDE DEF good
  <2> QED BY <2>1, <2>3
<1>10. 0 .. N \subseteq T
  <2> HIDE DEF T
  <2> QED BY <1>1, <1>8, <1>9, InductionUpTo
<1>11. good(after[N], N)
  <2> HIDE DEF good
  <2> QED BY <1>1, <1>10
<1> QED
  BY <1>7, <1>11

-----------------------------------------------------------------------------
(* Text STL and OBJ.                                                       *)

(* A file that is accepted went through the parser of its own format.      *)
LEMMA AcceptedForSomething ==
  ASSUME Preflight(file).refusal = "none"
  PROVE  /\ file.extension \in {"stl", "obj", "ply"}
         /\ Detected(file) \in {"unknown", file.extension}
         /\ file.kind \in {"binary", "text"} => file.extension = "stl"
         /\ Preflight(file) = Parsed(file) /\ file.kind \notin {"empty", "large", "archive"}
BY Words DEF Preflight

(* The lines the engine sees are lines again.                              *)
LEMMA SplitIs ==
  ASSUME NEW Line, Lines(file, Line), file.kind \in {"text", "obj"}
  PROVE  Split(file) \in Seq(Line) /\ file.lines \in Seq(Line)
         /\ (~Broken(file) => Split(file) = file.lines)
BY DEF Lines, Split

(* The mesh of a text STL.                                                 *)
LEMMA TextSound ==
  ASSUME Taken(file), file.kind = "text", file.extension = "stl"
  PROVE  Sound
<1> DEFINE lines == Split(file)
           F == Count(lines, "facet")
<1>1. SUFFICES ASSUME Checked(file).refusal = "none"
               PROVE  WellFormed(Loaded(file)) /\ Len(Loaded(file).faces) = Checked(file).triangles
  BY DEF Sound
<1>2. lines \in Seq(TextLine) /\ Points(file) = PointsOf(lines, "vertex")
  BY SplitIs DEF Taken, Points
<1>3. Counted(file).refusal = "none" /\ Finite(Points(file)) /\ Checked(file) = Counted(file)
  BY <1>1, CheckedIs
<1>4. Counted(file) = CountAsciiStl(lines)
  BY DEF Counted
<1>5. Counted(file) = Accepted(3 * F, F) /\ Count(lines, "vertex") = 3 * F
  <2> HIDE DEF lines
  <2> QED BY <1>3, <1>4, Words DEF CountAsciiStl
<1>6. \A i \in Where(lines, "vertex") : lines[i].at \in AnyPoint
  <2>1. \A i \in DOMAIN lines : lines[i] \in TextLine
    BY <1>2, ElementOfSeq, LenProperties
  <2> QED BY <2>1 DEF Where, TextLine
<1> HIDE DEF lines
<1>7. Points(file) \in Seq(AnyPoint) /\ Len(Points(file)) = 3 * F /\ F \in Nat
  <2>1. F \in Nat
    BY <1>2, CountIsSeen
  <2>2. PointsOf(lines, "vertex") \in Seq(AnyPoint) /\ Len(PointsOf(lines,
        "vertex")) = Count(lines, "vertex")
    BY <1>2, <1>6, PointsOfLines
  <2> QED BY <1>2, <1>5, <2>1, <2>2
<1>8. Points(file) \in Seq(Int \X Int)
  BY <1>3, <1>7, FinitePoints
<1> HIDE DEF F
<1>9. WellFormed(Loaded(file)) /\ Len(Loaded(file).faces) = F
  BY <1>7, <1>8, ThreesMesh
<1> QED
  BY <1>3, <1>5, <1>9, Words

(* The readers agree on a text STL: the one counts the statements, the     *)
(* other goes through the states, and the tally shows the counts to be     *)
(* the same.                                                               *)
LEMMA TextAgreed ==
  ASSUME Taken(file), file.kind = "text", Preflight(file).refusal = "none"
  PROVE  Agreed
<1> DEFINE lines == file.lines
           s == Reading(lines)
           N == Len(lines)
<1>0. SUFFICES ASSUME ~Broken(file) PROVE Agreed
  BY DEF Agreed
<1>1. lines \in Seq(TextLine) /\ lines # <<>> /\ Split(file) = lines
  BY <1>0, SplitIs DEF Taken
<1>2. file.extension = "stl" /\ Preflight(file) = ParseAsciiStl(lines)
  <2>1. Parsed(file) = ParseAsciiStl(lines)
    BY DEF Parsed
  <2> QED BY <2>1, AcceptedForSomething
<1>3. N \in Nat \ {0} /\ DOMAIN lines = 1 .. N /\ \A i \in 1 .. N : lines[i] \in TextLine
  <2>1. N \in Nat \ {0} /\ DOMAIN lines = 1 .. N
    BY <1>1, EmptySeq, LenProperties
  <2> QED BY <1>1, <2>1, ElementOfSeq
<1>4. s \in Reader /\ (s.refusal = "none" => Tallied(s, lines, N) /\ Understood(s, lines, N))
  <2> HIDE DEF s
  <2> SUFFICES s = Reading(lines)
    BY <1>1, ReadingTallies
  <2> QED BY DEF s
<1> HIDE DEF lines
<1>5. s.refusal = "none" /\ s.state = "ended" /\ s.facets # 0
      /\ Preflight(file) = Accepted(s.vertices, s.facets)
  <2>1. ParseAsciiStl(lines).refusal = "none"
    BY <1>2
  <2>2. ParseAsciiStl(lines) =
          CASE s.refusal # "none" -> Rejected(s.refusal)
            [] s.refusal = "none" /\ (s.state # "ended" \/ s.facets = 0) -> Rejected("malformed_mesh")
            [] OTHER -> Accepted(s.vertices, s.facets)
    BY DEF ParseAsciiStl
  <2> HIDE DEF s
  <2>3. s.refusal = "none"
    BY <2>1, <2>2, Words
  <2>4. ~(s.state # "ended" \/ s.facets = 0)
    BY <2>1, <2>2, <2>3, Words
  <2> QED BY <1>2, <2>2, <2>3, <2>4
<1> DEFINE F == Count(lines, "facet")
<1>6. /\ F = s.facets /\ Count(lines, "outer") = F /\ Count(lines, "endloop") = F /\ Count(lines,
         "endfacet") = F
      /\ Count(lines, "vertex") = 3 * F /\ s.vertices = 3 * F
      /\ F \in Nat /\ F # 0 /\ F <= MaxTriangles /\ 3 * F <= MaxVertices
  <2>1. \A word : Count(lines, word) = Seen(lines, word, N) /\ Count(lines, word) \in Nat
    BY <1>1, CountIsSeen DEF lines
  <2> HIDE DEF s, F
  <2>2. Tallied(s, lines, N)
    BY <1>4, <1>5
  <2> QED BY <1>5, <2>1, <2>2 DEF Tallied, F
<1>7. /\ lines[1].word \in {"solid", "SOLID"} /\ Last(lines).word = "endsolid"
      /\ "other" \notin {lines[i].word : i \in DOMAIN lines}
      /\ \A i \in Where(lines, "vertex") : PointRefusal(<<lines[i].at>>) = "none"
  <2>1. Understood(s, lines, N)
    BY <1>4, <1>5
  <2> QED BY <1>3, <1>5, <2>1 DEF Understood, Last, Where
<1>8. Points(file) = PointsOf(lines, "vertex") /\ Counted(file) = CountAsciiStl(lines)
  BY <1>1 DEF Points, Counted
<1>9. Len(Points(file)) = 3 * F /\ Finite(Points(file)) /\ InReach(Points(file))
  <2>1. \A i \in Where(lines, "vertex") : lines[i].at \in AnyPoint
    BY <1>3 DEF Where, TextLine
  <2> HIDE DEF F
  <2> QED BY <1>1, <1>6, <1>7, <1>8, <2>1, PointsOfLines DEF lines
<1>10. Sniff(file) = "stl"
  <2>1. Where(lines, "facet") # {} /\ Where(lines, "vertex") # {}
    <3>1. Count(lines, "facet") # 0 /\ Count(lines, "vertex") # 0
      BY <1>6
    <3> QED BY <1>1, <3>1, CountIsSeen DEF lines
  <2> QED BY <1>7, <2>1 DEF Sniff, lines
<1>11. CASE lines[1].word = "SOLID"
  <2>1. PreflightOnly
    BY <1>11 DEF PreflightOnly, lines
  <2>2. Checked(file).refusal # "none"
    <3>1. Counted(file).refusal # "none"
      BY <1>8, <1>11, Words DEF CountAsciiStl
    <3> QED BY <3>1, CheckedIs
  <2> QED BY <1>6, <1>9, <2>1, <2>2 DEF Agreed
<1>12. CASE lines[1].word = "solid"
  <2>1. Counted(file) = Accepted(3 * F, F)
    <3>2. \A w \in {"outer", "endloop", "endfacet"} : Count(lines, w) = F
      BY <1>6
    <3>3. ~(F > MaxTriangles) /\ ~(3 * F > MaxVertices)
      BY <1>6, FormatsAssumption
    <3> QED BY <1>6, <1>7, <1>8, <1>12, <3>2, <3>3 DEF CountAsciiStl
  <2>2. Checked(file) = Accepted(3 * F, F)
    BY <1>2, <1>9, <1>10, <2>1, CheckedIs, Words
  <2> HIDE DEF s
  <2> QED BY <1>5, <1>6, <1>9, <2>2, Words DEF Agreed
<1> QED
  BY <1>7, <1>11, <1>12

(* There are no more vertices above a line than in the whole file.         *)
LEMMA AboveIs ==
  ASSUME NEW S, NEW lines \in Seq(S), NEW word, NEW i
  PROVE  Above(lines, word, i) \in Nat /\ Above(lines, word, i) <= Count(lines, word)
<1>1. IsFiniteSet(Where(lines, word)) /\ Count(lines, word) = Cardinality(Where(lines, word))
  BY CountIsSeen
<1>2. {j \in Where(lines, word) : j < i} \in SUBSET Where(lines, word)
  OBVIOUS
<1>3. /\ IsFiniteSet({j \in Where(lines, word) : j < i})
      /\ Cardinality({j \in Where(lines, word) : j < i}) <= Cardinality(Where(lines, word))
  BY <1>1, <1>2, FS_Subset
<1> QED
  BY <1>1, <1>3, FS_CardinalityType DEF Above

(* A line with a face.                                                     *)
FaceLine == [word : {"f"}, refs : Seq(Int), vt : SUBSET Int, vn : SUBSET Int]
(* What the lines of an OBJ hold.                                          *)
LEMMA ObjLines ==
  ASSUME NEW lines \in Seq(ObjLine)
  PROVE  /\ Len(lines) \in Nat /\ DOMAIN lines = 1 .. Len(lines)
         /\ \A i \in Where(lines, "f") : i \in DOMAIN lines /\ lines[i].word = "f"
            /\ lines[i] \in FaceLine
         /\ \A i \in Where(lines, "v") : i \in DOMAIN lines /\ lines[i].word = "v"
            /\ lines[i].at \in AnyPoint
<1>1. Len(lines) \in Nat /\ DOMAIN lines = 1 .. Len(lines)
      /\ \A i \in DOMAIN lines : lines[i] \in ObjLine
  BY LenProperties, ElementOfSeq
<1>2. \A x \in ObjLine : x.word = "f" => x \in FaceLine
  BY DEF ObjLine, FaceLine
<1>3. \A x \in ObjLine : x.word = "v" => x.at \in AnyPoint
  BY DEF ObjLine
<1> QED
  BY <1>1, <1>2, <1>3 DEF Where

(* A number that is found where the engine looks for it is found at the    *)
(* end of the file.                                                        *)
LEMMA FaceRefers ==
  ASSUME NEW line \in FaceLine
  PROVE  /\ line.refs \in Seq(Int) /\ Len(line.refs) \in Nat
         /\ \A k \in 1 .. Len(line.refs) : line.refs[k] \in Int /\ <<"v",
            line.refs[k]>> \in References(line)
         /\ \A n \in References(line) : n[2] \in Int
<1>1. line.refs \in Seq(Int) /\ line.vt \subseteq Int /\ line.vn \subseteq Int
  BY DEF FaceLine
<1>2. Len(line.refs) \in Nat /\ DOMAIN line.refs = 1 .. Len(line.refs)
  BY <1>1, LenProperties
<1>3. \A k \in 1 .. Len(line.refs) : line.refs[k] \in Int
  BY <1>1, <1>2, ElementOfSeq
<1>4. ToSet(line.refs) = {line.refs[k] : k \in 1 .. Len(line.refs)}
  BY <1>2 DEF ToSet
<1>5. \A k \in 1 .. Len(line.refs) : <<"v", line.refs[k]>> \in References(line)
  BY <1>4 DEF References
<1>6. \A n \in References(line) : n[2] \in Int
  BY <1>1, <1>3, <1>4 DEF References
<1> QED
  BY <1>1, <1>2, <1>3, <1>5, <1>6

(* The mesh of an OBJ.                                                     *)
LEMMA ObjSound ==
  ASSUME Taken(file), file.kind = "obj", file.extension = "obj"
  PROVE  Sound
<1> DEFINE lines == Split(file)
           W == Where(lines, "f")
           C == Cardinality(W)
           V == Count(lines, "v")
<1>1. SUFFICES ASSUME Checked(file).refusal = "none"
               PROVE  WellFormed(Loaded(file)) /\ Len(Loaded(file).faces) = Checked(file).triangles
  BY DEF Sound
<1>2. lines \in Seq(ObjLine)
  BY SplitIs DEF Taken
<1>3. Points(file) = PointsOf(lines, "v") /\ Counted(file) = CountObj(lines)
  BY DEF Points, Counted
<1>4. Counted(file).refusal = "none" /\ Finite(Points(file)) /\ Checked(file) = Counted(file)
  BY <1>1, CheckedIs
<1>5. Faces(file) = [n \in DOMAIN Sorted(W) |-> Resolved(lines, Sorted(W)[n])]
  BY DEF Faces
<1> HIDE DEF lines
<1>6. /\ ~(\E i \in W : Len(lines[i].refs) # 3)
      /\ ~(\E i \in W : \E n \in References(lines[i]) :
             n[2] = 0 \/ n[2] > Above(lines, n[1], i) \/ -n[2] > Above(lines, n[1], i))
      /\ Counted(file) = Accepted(V, C)
  BY <1>3, <1>4, Words DEF CountObj
<1>7. IsFiniteSet(W) /\ W \subseteq Int /\ C \in Nat /\ V \in Nat
  BY <1>2, CountIsSeen, FS_CardinalityType
<1>8. /\ Points(file) \in Seq(Int \X Int) /\ Len(Points(file)) = V /\ DOMAIN Points(file) = 1 .. V
  <2>1. \A i \in Where(lines, "v") : lines[i].at \in AnyPoint
    BY <1>2, ObjLines
  <2>2. PointsOf(lines, "v") \in Seq(AnyPoint) /\ Len(PointsOf(lines, "v")) = V
    BY <1>2, <2>1, PointsOfLines
  <2> HIDE DEF V
  <2>3. Points(file) \in Seq(Int \X Int)
    BY <1>3, <1>4, <2>2, FinitePoints
  <2> QED BY <1>3, <1>7, <2>2, <2>3, LenProperties
<1> DEFINE at == Sorted(W)
<1>9. DOMAIN at = 1 .. C /\ \A i \in DOMAIN at : at[i] \in W
  <2> HIDE DEF at, W
  <2> SUFFICES at = Sorted(W)
    BY <1>7, SortedNumbers
  <2> QED BY DEF at
<1>10. Faces(file) = [n \in DOMAIN at |-> Resolved(lines, at[n])]
  BY <1>5
<1> HIDE DEF at
<1>11. ASSUME NEW i \in W
       PROVE  /\ Resolved(lines, i) \in Triangle
              /\ \A k \in 1 .. 3 : Resolved(lines, i)[k] \in 1 .. V
  <2>1. Above(lines, "v", i) \in Nat /\ Above(lines, "v", i) <= V
    BY <1>2, AboveIs
  <2>2. ASSUME NEW k \in 1 .. 3
        PROVE  LET r == lines[i].refs[k] IN (IF r > 0 THEN r ELSE Above(lines, "v",
               i) + r + 1) \in 1 .. V
    <3> DEFINE r == lines[i].refs[k]
    <3>1. Len(lines[i].refs) = 3 /\ lines[i] \in FaceLine
      BY <1>2, <1>6, ObjLines
    <3>2. r \in Int /\ <<"v", r>> \in References(lines[i])
      BY <3>1, FaceRefers
    <3>3. r # 0 /\ ~(-r > Above(lines, "v", i)) /\ ~(r > Above(lines, "v", i))
      <4>1. LET n == <<"v", r>> IN ~(n[2] = 0 \/ n[2] > Above(lines, n[1],
            i) \/ -n[2] > Above(lines, n[1], i))
        BY <1>6, <3>2
      <4> QED BY <4>1
    <3> HIDE DEF r
    <3>4. (IF r > 0 THEN r ELSE Above(lines, "v", i) + r + 1) \in 1 .. V
      BY <1>7, <2>1, <3>2, <3>3
    <3> QED BY <3>4 DEF r
  <2>3. \A k \in 1 .. 3 : Resolved(lines, i)[k] \in 1 .. V
    BY <2>2 DEF Resolved
  <2>4. 1 .. V \subseteq Nat
    BY <1>7
  <2>5. Resolved(lines, i) = [k \in 1 .. 3 |-> Resolved(lines, i)[k]]
    BY DEF Resolved
  <2> QED BY <2>3, <2>4, <2>5 DEF Triangle
<1>12. Faces(file) \in Seq(Triangle) /\ Len(Faces(file)) = C /\ DOMAIN Faces(file) = 1 .. C
  <2> HIDE DEF W, C
  <2>1. Faces(file) \in [1 .. C -> Triangle]
    BY <1>9, <1>10, <1>11
  <2> QED BY <1>7, <2>1, AreSequences
<1>13. WellFormed(Loaded(file)) /\ Loaded(file).faces = Faces(file)
  <2>1. /\ Loaded(file).points = Points(file) /\ Loaded(file).faces = Faces(file)
        /\ Loaded(file) = MeshOf(Loaded(file).points, Loaded(file).faces)
    BY DEF Loaded, MeshOf
  <2>2. \A n \in DOMAIN Faces(file) : \A k \in 1 .. 3 : Faces(file)[n][k] \in 1 .. V
    BY <1>9, <1>10, <1>11, <1>12
  <2> QED BY <1>8, <1>12, <2>1, <2>2 DEF WellFormed
<1> HIDE DEF C, V
<1> QED
  BY <1>4, <1>6, <1>12, <1>13, Words

(* The readers agree on an OBJ.                                            *)
LEMMA ObjAgreed ==
  ASSUME Taken(file), file.kind = "obj", Preflight(file).refusal = "none"
  PROVE  Agreed
<1> DEFINE lines == file.lines
           N == Len(lines)
           W == Where(lines, "f")
           C == Cardinality(W)
           V == Count(lines, "v")
<1>0. SUFFICES ASSUME ~Broken(file) PROVE Agreed
  BY DEF Agreed
<1>1. lines \in Seq(ObjLine) /\ Split(file) = lines
  BY <1>0, SplitIs DEF Taken
<1>2. file.extension = "obj" /\ Preflight(file) = ParseObj(lines)
  <2>1. Parsed(file) = ParseObj(lines) /\ Detected(file) = "obj"
    BY DEF Parsed, Detected
  <2> QED BY <2>1, AcceptedForSomething
<1>3. N \in Nat /\ DOMAIN lines = 1 .. N /\ \A i \in 1 .. N : lines[i] \in ObjLine
  BY <1>1, LenProperties, ElementOfSeq
<1>30. Points(file) = PointsOf(lines, "v") /\ Counted(file) = CountObj(lines)
  BY <1>1 DEF Points, Counted
<1> HIDE DEF lines
<1>4. /\ ObjRefused(lines) = {} /\ V <= MaxVertices /\ Triangulated(lines) <= MaxTriangles
      /\ W # {} /\ Preflight(file) = Accepted(V, Triangulated(lines))
  <2> DEFINE many == \E w \in {"v", "vt", "vn"} : Count(lines, w) > MaxVertices
             accepted ==
         IF many THEN Rejected("vertex_limit")
         ELSE IF Triangulated(lines) > MaxTriangles THEN Rejected("triangle_limit")
         ELSE IF V < 3 \/ W = {} \/ Missing(lines) THEN Rejected("malformed_mesh")
         ELSE Accepted(V, Triangulated(lines))
  <2>0. V \in Nat
    BY <1>1, CountIsSeen DEF lines
  <2>1. ObjRefused(lines) = {}
    <3> SUFFICES ASSUME ObjRefused(lines) # {} PROVE FALSE
      OBVIOUS
    <3> DEFINE first == CHOOSE i \in ObjRefused(lines) : \A j \in ObjRefused(lines) : i <= j
    <3>1. ObjRefused(lines) \subseteq Nat
      BY <1>3 DEF ObjRefused
    <3>2. first \in ObjRefused(lines)
      BY <3>1, Least
    <3>3. LineRefusal(lines, first) # "none"
      BY <3>2 DEF ObjRefused
    <3> HIDE DEF first
    <3>4. ParseObj(lines) = Rejected(LineRefusal(lines, first))
      BY DEF ParseObj, first
    <3> QED BY <1>2, <3>3, <3>4, Words
  <2>2. ParseObj(lines) = accepted
    BY <2>1 DEF ParseObj
  <2>3. Triangulated(lines) \in Int
    <3> DEFINE counts == [i \in DOMAIN lines |-> IF lines[i].word = "f" THEN Len(lines[i].refs) - 2 ELSE 0]
    <3>1. ASSUME NEW i \in 1 .. N, lines[i].word = "f" PROVE Len(lines[i].refs) \in Nat
      <4>1. lines[i] \in FaceLine
        BY <1>3, <3>1 DEF ObjLine, FaceLine
      <4> QED BY <4>1, FaceRefers
    <3>2. counts \in [1 .. N -> Int]
      BY <1>3, <3>1
    <3> HIDE DEF counts
    <3>3. counts \in Seq(Int)
      BY <1>3, <3>2, AreSequences
    <3> QED BY <3>3, TotalIsInteger DEF Triangulated, counts
  <2>4. accepted.refusal = "none"
    BY <1>2, <2>2
  <2>5. ~many /\ ~(Triangulated(lines) > MaxTriangles) /\ W # {}
    <3> HIDE DEF V, W, many
    <3> QED BY <2>4, Words
  <2>6. accepted = Accepted(V, Triangulated(lines))
    <3> HIDE DEF V, W, many
    <3> QED BY <2>4, Words
  <2>7. ~(V > MaxVertices)
    BY <2>5
  <2> HIDE DEF V, W
  <2> QED BY <1>2, <2>0, <2>1, <2>2, <2>3, <2>5, <2>6, <2>7, FormatsAssumption
<1>5. \A i \in 1 .. N : LineRefusal(lines, i) = "none"
  BY <1>3, <1>4 DEF ObjRefused
<1>6. /\ \A i \in W : /\ i \in 1 .. N /\ lines[i].word = "f" /\ lines[i] \in FaceLine
                      /\ Len(lines[i].refs) >= 3 /\ Len(lines[i].refs) \in Nat
                      /\ ~(\E n \in References(lines[i]) : n[2] = 0 \/ -n[2] > Above(lines, n[1], i))
      /\ Where(lines, "short") = {}
  <2>1. ASSUME NEW i \in W
        PROVE  /\ i \in 1 .. N /\ lines[i].word = "f" /\ lines[i] \in FaceLine
               /\ Len(lines[i].refs) >= 3 /\ Len(lines[i].refs) \in Nat
               /\ ~(\E n \in References(lines[i]) : n[2] = 0 \/ -n[2] > Above(lines, n[1], i))
    <3>1. i \in 1 .. N /\ lines[i].word = "f" /\ lines[i] \in FaceLine
      BY <1>1, <1>3, ObjLines DEF lines
    <3>2. Len(lines[i].refs) \in Nat
      BY <3>1, FaceRefers
    <3>3. LineRefusal(lines, i) = "none"
      BY <1>5, <3>1
    <3>4. /\ ~(Len(lines[i].refs) < 3)
          /\ ~(\E n \in References(lines[i]) : n[2] = 0 \/ -n[2] > Above(lines, n[1], i))
      BY <3>1, <3>3 DEF LineRefusal
    <3> QED BY <3>1, <3>2, <3>4
  <2>2. ASSUME NEW i \in Where(lines, "short") PROVE FALSE
    <3>1. i \in 1 .. N /\ lines[i].word = "short"
      BY <1>3 DEF Where
    <3>2. LineRefusal(lines, i) = "none"
      BY <1>5, <3>1
    <3> QED BY <3>1, <3>2 DEF LineRefusal
  <2> QED BY <2>1, <2>2
<1>7. \A i \in Where(lines, "v") : lines[i].at \in AnyPoint /\ PointRefusal(<<lines[i].at>>) = "none"
  <2> TAKE i \in Where(lines, "v")
  <2>1. i \in 1 .. N /\ lines[i].word = "v" /\ lines[i].at \in AnyPoint
    BY <1>1, <1>3, ObjLines DEF lines
  <2>3. LineRefusal(lines, i) = "none"
    BY <1>5, <2>1
  <2> QED BY <2>1, <2>3 DEF LineRefusal
<1>9. Len(Points(file)) = V /\ Finite(Points(file)) /\ InReach(Points(file)) /\ V \in Nat
  <2>1. V \in Nat
    BY <1>1, CountIsSeen DEF lines
  <2>2. /\ Len(PointsOf(lines, "v")) = V
        /\ Finite(PointsOf(lines, "v")) /\ InReach(PointsOf(lines, "v"))
    BY <1>1, <1>7, PointsOfLines
  <2> HIDE DEF V
  <2> QED BY <1>30, <2>1, <2>2
<1>10. IsFiniteSet(W) /\ W \subseteq Int /\ C \in Nat /\ C = Count(lines, "f")
  BY <1>1, CountIsSeen, FS_CardinalityType DEF lines
<1>100. Checked(file).refusal = "none" => Checked(file) = Accepted(V, C)
  <2> SUFFICES ASSUME Checked(file).refusal = "none" PROVE Checked(file) = Accepted(V, C)
    OBVIOUS
  <2>1. CountObj(lines).refusal = "none" /\ Checked(file) = CountObj(lines)
    BY <1>30, CheckedIs
  <2> QED BY <2>1, Words DEF CountObj
<1>11. CASE \E i \in W : \/ Len(lines[i].refs) > 3
                         \/ \E n \in References(lines[i]) : n[2] > Above(lines, n[1], i)
  <2>1. PreflightOnly
    BY <1>11 DEF PreflightOnly, lines
  <2>2. SUFFICES ASSUME Checked(file).refusal = "none" PROVE FALSE
    BY <1>4, <1>9, <2>1 DEF Agreed
  <2>3. CountObj(lines).refusal = "none"
    BY <1>30, <2>2, CheckedIs
  <2>4. /\ ~(\E i \in W : Len(lines[i].refs) # 3)
        /\ ~(\E i \in W : \E n \in References(lines[i]) : n[2] > Above(lines, n[1], i))
    BY <2>3, Words DEF CountObj
  <2>5. PICK i \in W : \/ Len(lines[i].refs) > 3
                       \/ \E n \in References(lines[i]) : n[2] > Above(lines, n[1], i)
    BY <1>11
  <2>6. Len(lines[i].refs) = 3
    BY <2>4
  <2> QED BY <2>4, <2>5, <2>6
<1>12. CASE /\ \A i \in W : ~(Len(lines[i].refs) > 3)
            /\ \A i \in W : ~(\E n \in References(lines[i]) : n[2] > Above(lines, n[1], i))
  <2>2. \A i \in W : Len(lines[i].refs) = 3
    <3> TAKE i \in W
    <3> DEFINE n == Len(lines[i].refs)
    <3>1. n \in Nat /\ n >= 3 /\ ~(n > 3)
      BY <1>6, <1>12
    <3> HIDE DEF n
    <3>2. n = 3
      BY <3>1
    <3> QED BY <3>2 DEF n
  <2>3. Triangulated(lines) = C
    <3> DEFINE counts == [i \in DOMAIN lines |-> IF lines[i].word = "f" THEN Len(lines[i].refs) - 2 ELSE 0]
    <3>1. \A i \in 1 .. N : counts[i] = IF i \in W THEN 1 ELSE 0
      <4> TAKE i \in 1 .. N
      <4>1. CASE i \in W
        <5>1. Len(lines[i].refs) = 3 /\ lines[i].word = "f"
          BY <1>6, <2>2, <4>1
        <5> QED BY <1>3, <4>1, <5>1
      <4>2. CASE i \notin W
        BY <1>3, <4>2 DEF Where
      <4> QED BY <4>1, <4>2
    <3>2. DOMAIN counts = 1 .. N
      BY <1>3
    <3>3. Triangulated(lines) = Total(counts)
      BY DEF Triangulated
    <3>4. counts = [i \in 1 .. N |-> counts[i]]
      BY <3>2
    <3> HIDE DEF counts
    <3>5. counts \in [1 .. N -> {0, 1}]
      BY <3>1, <3>4
    <3>6. counts \in Seq({0, 1})
      BY <1>3, <3>5, AreSequences
    <3>7. {i \in DOMAIN counts : counts[i] = 1} = W
      BY <1>6, <3>1, <3>2
    <3> QED BY <3>3, <3>6, <3>7, CountOfOnes
  <2>4. Counted(file) = Accepted(V, C)
    <3>2. ~(\E i \in W : Len(lines[i].refs) # 3)
      BY <2>2
    <3>3. ~(\E i \in W : \E n \in References(lines[i]) :
              n[2] = 0 \/ n[2] > Above(lines, n[1], i) \/ -n[2] > Above(lines, n[1], i))
      BY <1>6, <1>12
    <3>4. W # {} /\ ~(V > MaxVertices) /\ ~(C > MaxTriangles)
      BY <1>4, <1>9, <1>10, <2>3, FormatsAssumption
    <3> QED BY <1>6, <1>30, <3>2, <3>3, <3>4 DEF CountObj
  <2>5. CASE Sniff(file) = "obj"
    <3>1. Checked(file) = Accepted(V, C)
      BY <1>2, <1>9, <2>4, <2>5, CheckedIs, Words
    <3> HIDE DEF C, V
    <3> QED BY <1>4, <1>9, <1>10, <2>3, <3>1, Words DEF Agreed, lines
  <2>6. CASE Sniff(file) # "obj"
    <3>1. PreflightOnly
      BY <2>6 DEF PreflightOnly
    <3>2. Checked(file).refusal # "none"
      BY <1>2, <2>6, CheckedIs
    <3> QED BY <1>4, <1>9, <3>1, <3>2 DEF Agreed
  <2> QED BY <2>5, <2>6
<1> QED
  BY <1>11, <1>12

-----------------------------------------------------------------------------
(* PLY.                                                                    *)

(* The header of a PLY that the preflight accepts begins with its format   *)
(* or with a comment.                                                      *)
LEMMA FirstOfHeader ==
  ASSUME NEW h \in Seq({"format", "comment"} \cup Elements \cup Properties), HeaderAccepted(h)
  PROVE  /\ h # <<>> /\ h[1] \in {"format", "comment"}
         /\ h[1] # "comment" => HeaderRead(h)
<1>1. Len(h) \in Nat /\ DOMAIN h = 1 .. Len(h)
  BY LenProperties
<1>2. Times(h, "vertex") = 1 /\ Times(h, "format") = 1 /\ Owned(h) /\ HasGeometry(h)
  BY DEF HeaderAccepted, HasGeometry
<1>3. h # <<>>
  <2> SUFFICES ASSUME h = <<>> PROVE FALSE
    OBVIOUS
  <2>1. {i \in DOMAIN h : h[i] = "vertex"} = {}
    BY <1>1, EmptySeq
  <2>2. Times(h, "vertex") = 0
    BY <2>1, FS_EmptySet DEF Times
  <2> QED BY <1>2, <2>2
<1>4. 1 \in DOMAIN h
  BY <1>1, <1>3, EmptySeq
<1>5. h[1] \notin Elements
  BY <1>4 DEF HeaderAccepted
<1>6. h[1] \notin Properties
  BY <1>2, <1>4 DEF Owned, Owners
<1>7. h[1] \in {"format", "comment"} \cup Elements \cup Properties
  BY <1>1, <1>4, ElementOfSeq
<1> QED
  BY <1>2, <1>3, <1>5, <1>6, <1>7 DEF HeaderRead

(* The mesh of a PLY.                                                      *)
LEMMA PlySound ==
  ASSUME Taken(file), file.kind = "ply"
  PROVE  Sound
<1> DEFINE points == file.points
           faces == file.faces
           V == Len(points)
           F == Len(faces)
<1>0. SUFFICES ASSUME Checked(file).refusal = "none"
               PROVE  WellFormed(Loaded(file)) /\ Len(Loaded(file).faces) = Checked(file).triangles
  BY DEF Sound
<1>1. points \in Seq(AnyPoint) /\ faces \in Seq(Seq(Int)) /\ Points(file) = points
  BY DEF Taken, Points
<1>2. Counted(file).refusal = "none" /\ Finite(points) /\ Checked(file) = Counted(file)
  BY <1>0, <1>1, CheckedIs
<1>3. /\ V \in Nat /\ DOMAIN points = 1 .. V
      /\ F \in Nat /\ DOMAIN faces = 1 .. F
      /\ \A i \in 1 .. F : faces[i] \in Seq(Int) /\ Len(faces[i]) \in Nat
         /\ DOMAIN faces[i] = 1 .. Len(faces[i])
                           /\ faces[i] \in ToSet(faces)
  <2>1. V \in Nat /\ DOMAIN points = 1 .. V /\ F \in Nat /\ DOMAIN faces = 1 .. F
    BY <1>1, LenProperties
  <2>2. \A i \in 1 .. F : faces[i] \in Seq(Int) /\ faces[i] \in ToSet(faces)
    BY <1>1, <2>1, ElementOfSeq DEF ToSet
  <2> QED BY <2>1, <2>2, LenProperties
<1>4. /\ Counted(file) = Accepted(V, F) /\ ~OutOfRange(file)
      /\ ~(\E f \in ToSet(faces) : Len(f) # 3)
  <2>1. Counted(file) = CountPly(file)
    BY DEF Counted
  <2> QED BY <1>2, <2>1, Words DEF CountPly
<1>5. points \in Seq(Int \X Int)
  BY <1>1, <1>2, FinitePoints
<1>6. \A i \in 1 .. F : Len(faces[i]) = 3
  BY <1>3, <1>4
<1>8. Faces(file) = [n \in 1 .. F |-> [k \in 1 .. 3 |-> faces[n][k] + 1]]
  BY <1>3 DEF Faces
<1>9. WellFormed(Loaded(file)) /\ Len(Loaded(file).faces) = F
  <2>2. ASSUME NEW n \in 1 .. F, NEW k \in 1 .. 3 PROVE faces[n][k] + 1 \in 1 .. V
    <3>1. k \in DOMAIN faces[n] /\ faces[n] \in ToSet(faces) /\ faces[n] \in Seq(Int)
          /\ k \in 1 .. Len(faces[n])
      BY <1>3, <1>6, <2>2
    <3>2. faces[n][k] \in Int /\ faces[n][k] \in ToSet(faces[n])
      BY <3>1, ElementOfSeq DEF ToSet
    <3>3. ~(faces[n][k] < 0 \/ faces[n][k] >= V)
      BY <1>4, <3>1, <3>2 DEF OutOfRange
    <3> QED BY <1>3, <3>2, <3>3
  <2>3. \A n \in 1 .. F : Faces(file)[n] \in [1 .. 3 -> 1 .. V]
    BY <1>8, <2>2
  <2>4. [1 .. 3 -> 1 .. V] \subseteq Triangle
    BY <1>3 DEF Triangle
  <2>5. Faces(file) \in [1 .. F -> Triangle]
    BY <1>8, <2>3, <2>4
  <2>6. Faces(file) \in Seq(Triangle) /\ Len(Faces(file)) = F /\ DOMAIN Faces(file) = 1 .. F
    <3> HIDE DEF F
    <3> QED BY <1>3, <2>5, AreSequences
  <2>7. /\ Loaded(file).points = points /\ Loaded(file).faces = Faces(file)
        /\ Loaded(file) = MeshOf(Loaded(file).points, Loaded(file).faces)
    BY <1>1 DEF Loaded, MeshOf
  <2>8. \A n \in DOMAIN Faces(file) : \A k \in 1 .. 3 : Faces(file)[n][k] \in DOMAIN points
    BY <1>3, <2>3, <2>6
  <2> QED BY <1>5, <2>6, <2>7, <2>8 DEF WellFormed
<1> QED
  BY <1>2, <1>4, <1>9, Words

(* The readers agree on a PLY.                                             *)
LEMMA PlyAgreed ==
  ASSUME Taken(file), file.kind = "ply", Preflight(file).refusal = "none"
  PROVE  Agreed
<1> DEFINE h == file.header
           points == file.points
           faces == file.faces
           V == Len(points)
           F == Len(faces)
           All3 == \A i \in 1 .. F : Len(faces[i]) = 3
<1>1. /\ h \in Seq({"format", "comment"} \cup Elements \cup Properties)
      /\ points \in Seq(AnyPoint) /\ faces \in Seq(Seq(Int)) /\ file.more \in Nat
  BY DEF Taken
<1>2. file.extension = "ply" /\ Preflight(file) = ParsePly(file) /\ Sniff(file) = "ply"
  <2>1. Parsed(file) = ParsePly(file) /\ Detected(file) = "ply" /\ Sniff(file) = "ply"
    BY DEF Parsed, Detected, Sniff
  <2> QED BY <2>1, AcceptedForSomething
<1>3. /\ V \in Nat
      /\ F \in Nat /\ DOMAIN faces = 1 .. F
      /\ \A i \in 1 .. F : faces[i] \in Seq(Int) /\ Len(faces[i]) \in Nat /\ faces[i] \in ToSet(faces)
  <2>1. V \in Nat /\ F \in Nat /\ DOMAIN faces = 1 .. F
    BY <1>1, LenProperties
  <2>2. \A i \in 1 .. F : faces[i] \in Seq(Int) /\ faces[i] \in ToSet(faces)
    BY <1>1, <2>1, ElementOfSeq DEF ToSet
  <2> QED BY <2>1, <2>2, LenProperties
<1>4. /\ HeaderAccepted(h) /\ ~(V > MaxVertices) /\ ~(F > MaxTriangles) /\ PointRefusal(points) = "none"
      /\ ~(\E f \in ToSet(faces) : Len(f) < 3) /\ ~OutOfRange(file)
      /\ ~(V < 3) /\ faces # <<>> /\ ~file.trailing
      /\ Preflight(file) = Accepted(V, PlyTriangles(file))
  BY <1>2, Words DEF ParsePly
<1>5. Finite(points) /\ InReach(points) /\ points \in Seq(Int \X Int)
  BY <1>1, <1>4, GoodPoints, FinitePoints
<1>6. Points(file) = points /\ Counted(file) = CountPly(file)
  BY DEF Points, Counted
<1>7. h[1] \in {"format", "comment"} /\ (h[1] # "comment" => HeaderRead(h))
  BY <1>1, <1>4, FirstOfHeader
<1>9. ASSUME All3 PROVE PlyTriangles(file) = F
  <2> DEFINE counts == [i \in DOMAIN faces |-> Len(faces[i]) - 2]
  <2>1. \A i \in 1 .. F : counts[i] = 1
    BY <1>3, <1>9
  <2>2. counts = [i \in 1 .. F |-> counts[i]]
    BY <1>3
  <2>3. PlyTriangles(file) = Total(counts)
    BY DEF PlyTriangles
  <2> HIDE DEF counts
  <2>4. counts \in [1 .. F -> {0, 1}]
    BY <2>1, <2>2
  <2>5. counts \in Seq({0, 1}) /\ DOMAIN counts = 1 .. F
    BY <1>3, <2>4, AreSequences
  <2>6. {i \in DOMAIN counts : counts[i] = 1} = 1 .. F
    BY <2>1, <2>5
  <2>7. Cardinality(1 .. F) = F
    BY <1>3, FS_Interval
  <2> QED BY <2>3, <2>5, <2>6, <2>7, CountOfOnes
<1>10. Counted(file).refusal = "none" => All3 /\ Counted(file) = Accepted(V, F)
  <2> SUFFICES ASSUME Counted(file).refusal = "none" PROVE All3 /\ Counted(file) = Accepted(V, F)
    OBVIOUS
  <2>1. Counted(file) = Accepted(V, F) /\ ~(\E f \in ToSet(faces) : Len(f) # 3)
    BY <1>6, Words DEF CountPly
  <2> QED BY <1>3, <2>1
<1>12. ~PreflightOnly => Checked(file).refusal = "none"
  <2> SUFFICES ASSUME ~PreflightOnly PROVE Checked(file).refusal = "none"
    OBVIOUS
  <2>1. h[1] # "comment" /\ \A n \in ListLengths(file) : ~(n > 3)
    BY DEF PreflightOnly
  <2>2. HeaderRead(h)
    BY <1>7, <2>1
  <2>3. ToSet(faces) = {faces[i] : i \in 1 .. F}
    BY <1>3 DEF ToSet
  <2>4. \A f \in ToSet(faces) : Len(f) \in Nat /\ Len(f) \in ListLengths(file)
    BY <1>3, <2>3 DEF ListLengths
  <2>5. \A n \in ListLengths(file) : n \in Nat
    BY <1>1, <2>4 DEF ListLengths
  <2>6. ~(\E n \in ListLengths(file) : n > V)
    BY <1>3, <1>4, <2>1, <2>5
  <2>7. ~(\E f \in ToSet(faces) : Len(f) # 3)
    <3> SUFFICES ASSUME NEW f \in ToSet(faces) PROVE Len(f) = 3
      OBVIOUS
    <3> DEFINE n == Len(f)
    <3>1. n \in Nat /\ ~(n < 3) /\ ~(n > 3)
      BY <1>4, <2>1, <2>4
    <3> HIDE DEF n
    <3>2. n = 3
      BY <3>1
    <3> QED BY <3>2 DEF n
  <2>8. V # 0
    BY <1>3, <1>4
  <2>9. CountPly(file) = Accepted(V, F)
    BY <1>4, <1>5, <2>2, <2>6, <2>7, <2>8 DEF CountPly
  <2>10. Counted(file).refusal = "none"
    BY <1>6, <2>9, Words
  <2> QED BY <1>2, <1>5, <1>6, <2>10, CheckedIs
<1>13. Checked(file).refusal = "none" =>
         /\ Checked(file).triangles = Preflight(file).triangles
         /\ Checked(file).vertices = Preflight(file).vertices
  <2> SUFFICES ASSUME Checked(file).refusal = "none"
               PROVE  /\ Checked(file).triangles = Preflight(file).triangles
                      /\ Checked(file).vertices = Preflight(file).vertices
    OBVIOUS
  <2>1. All3 /\ Checked(file) = Accepted(V, F)
    BY <1>10, CheckedIs
  <2>2. PlyTriangles(file) = F
    BY <1>9, <2>1
  <2> QED BY <1>4, <2>1, <2>2, Words
<1>14. Len(Points(file)) <= MaxVertices
  BY <1>3, <1>4, <1>6, FormatsAssumption
<1> QED
  BY <1>5, <1>6, <1>12, <1>13, <1>14 DEF Agreed

(* The readers agree on every file that the preflight accepts.             *)
LEMMA ReadersAgreeOnFile ==
  ASSUME Taken(file), Preflight(file).refusal = "none"
  PROVE  Sound /\ Agreed
<1>1. file.kind \in {"binary", "text", "obj", "ply"}
  BY AcceptedForSomething DEF Taken
<1>2. /\ file.kind \in {"binary", "text"} => file.extension = "stl"
      /\ file.kind = "obj" => file.extension = "obj"
  BY AcceptedForSomething DEF Detected
<1> QED
  BY <1>1, <1>2, BinarySound, TextSound, ObjSound, PlySound, BinaryAgreed, TextAgreed, ObjAgreed,
     PlyAgreed

(* What the mesh library may make of a mesh.                               *)
LEMMA WithinReach ==
  ASSUME NEW p, NEW q, InReach(p), \A i \in DOMAIN q : \E j \in DOMAIN p : q[i] = p[j]
  PROVE  InReach(q)
<1>1. ToSet(q) \subseteq ToSet(p)
  BY DEF ToSet
<1> QED BY <1>1 DEF InReach

(* With a point for every corner a mesh keeps its triangles.               *)
LEMMA SeparateIs ==
  ASSUME NEW m, WellFormed(m), NEW s, s = Separate(m)
  PROVE  /\ WellFormed(s) /\ Len(s.faces) = Len(m.faces) /\ Len(s.points) = 3 * Len(m.faces)
         /\ Len(m.faces) \in Nat
         /\ InReach(m.points) => InReach(s.points)
<1> DEFINE n == Len(m.faces)
           at(i) == m.faces[(i + 2) \div 3][((i - 1) % 3) + 1]
<1>1. n \in Nat /\ DOMAIN m.faces = 1 .. n
  BY LenProperties DEF WellFormed
<1>2. s.points = [i \in 1 .. 3 * n |-> m.points[at(i)]] /\ s.faces = Threes(n)
      /\ s = MeshOf(s.points, s.faces)
  BY DEF Separate, MeshOf
<1> HIDE DEF n
<1>3. ASSUME NEW i \in 1 .. 3 * n PROVE (i + 2) \div 3 \in 1 .. n /\ ((i - 1) % 3) + 1 \in 1 .. 3
  BY <1>1
<1>4. \A i \in 1 .. 3 * n : at(i) \in DOMAIN m.points
  BY <1>1, <1>3 DEF WellFormed
<1>5. DOMAIN m.points = 1 .. Len(m.points) /\ \A i \in DOMAIN m.points : m.points[i] \in Int \X Int
  BY LenProperties, ElementOfSeq DEF WellFormed
<1> HIDE DEF at
<1>6. s.points \in [1 .. 3 * n -> Int \X Int]
  BY <1>2, <1>4, <1>5
<1>7. s.points \in Seq(Int \X Int) /\ Len(s.points) = 3 * n /\ DOMAIN s.points = 1 .. 3 * n
  <2>1. 3 * n \in Nat
    BY <1>1
  <2> QED BY <1>6, <2>1, AreSequences
<1>8. /\ s.faces \in Seq(Triangle) /\ Len(s.faces) = n /\ DOMAIN s.faces = 1 .. n
      /\ \A i \in 1 .. n : \A k \in 1 .. 3 : s.faces[i][k] \in 1 .. 3 * n
  BY <1>1, <1>2, ThreesAre
<1>9. WellFormed(s)
  BY <1>2, <1>7, <1>8 DEF WellFormed
<1>10. InReach(m.points) => InReach(s.points)
  <2>1. \A i \in DOMAIN s.points : s.points[i] = m.points[at(i)] /\ at(i) \in DOMAIN m.points
    BY <1>2, <1>4, <1>7
  <2>2. \A i \in DOMAIN s.points : \E j \in DOMAIN m.points : s.points[i] = m.points[j]
    BY <2>1
  <2> QED BY <2>2, WithinReach
<1> QED
  BY <1>1, <1>7, <1>8, <1>9, <1>10 DEF n

(* It keeps the triangles, puts no point out of reach, and has more        *)
(* points only where each corner of an OBJ gets one of its own.            *)
LEMMA LoadingIs ==
  ASSUME WellFormed(Loaded(file)), NEW m \in Loadings(file)
  PROVE  /\ WellFormed(m) /\ Len(m.faces) = Len(Loaded(file).faces) /\ Len(m.faces) \in Nat
         /\ InReach(Points(file)) => InReach(m.points)
         /\ Len(m.points) \in Nat /\ Len(Points(file)) \in Nat
         /\ \/ Len(m.points) <= Len(Points(file))
            \/ file.kind = "obj" /\ Len(m.points) = 3 * Len(m.faces)
<1> DEFINE r == Loaded(file)
<1>1. r.points = Points(file) /\ Len(r.points) \in Nat /\ Len(r.faces) \in Nat
  BY LenProperties DEF Loaded, MeshOf, WellFormed
<1>2. CASE m = r
  BY <1>1, <1>2
<1>3. CASE file.kind = "obj" /\ m = Separate(r)
  <2> HIDE DEF r
  <2>1. WellFormed(r)
    BY DEF r
  <2>2. /\ WellFormed(m) /\ Len(m.faces) = Len(r.faces) /\ Len(m.points) = 3 * Len(r.faces)
        /\ InReach(r.points) => InReach(m.points)
    BY <1>3, <2>1, SeparateIs
  <2> QED BY <1>1, <1>3, <2>2 DEF r
<1>4. ASSUME NEW out \in SUBSET (DOMAIN r.points \ Used(r.faces)),
             m = Renumbered(r, r.faces, (DOMAIN r.points) \ out)
      PROVE  /\ WellFormed(m) /\ Len(m.faces) = Len(r.faces)
             /\ InReach(r.points) => InReach(m.points)
             /\ Len(m.points) \in Nat /\ Len(m.points) <= Len(r.points)
  <2> DEFINE kept == (DOMAIN r.points) \ out
  <2>1. WellFormed(r) /\ m = Renumbered(r, r.faces, kept)
    BY <1>4
  <2>2. Used(r.faces) \subseteq kept /\ kept \subseteq DOMAIN r.points
    <3> HIDE DEF r
    <3>1. DOMAIN r.faces = 1 .. Len(r.faces) /\ \A i \in DOMAIN r.faces : r.faces[i] \in Triangle
      BY <2>1, LenProperties, ElementOfSeq DEF WellFormed
    <3>2. \A i \in DOMAIN r.faces : Corners(r.faces[i]) = {r.faces[i][1], r.faces[i][2], r.faces[i][3]}
      BY <3>1, CornersOf DEF Triangle
    <3>3. \A i \in DOMAIN r.faces : Corners(r.faces[i]) \subseteq DOMAIN r.points
      <4> TAKE i \in DOMAIN r.faces
      <4>1. \A k \in 1 .. 3 : r.faces[i][k] \in DOMAIN r.points
        BY <2>1 DEF WellFormed
      <4>2. r.faces[i][1] \in DOMAIN r.points /\ r.faces[i][2] \in DOMAIN r.points
            /\ r.faces[i][3] \in DOMAIN r.points
        BY <4>1, ThreePlaces
      <4> QED BY <3>2, <4>2
    <3>4. Used(r.faces) \subseteq DOMAIN r.points
      BY <3>3 DEF Used
    <3> QED BY <1>4, <3>4
  <2> HIDE DEF r, kept
  <2>3. /\ r.points \in Seq(Int \X Int) /\ r.faces \in Seq(Triangle)
        /\ \A i \in DOMAIN r.faces : \A k \in 1 .. 3 : r.faces[i][k] \in DOMAIN r.points
    BY <2>1 DEF WellFormed
  <2>4. /\ WellFormed(m) /\ Len(m.faces) = Len(r.faces)
        /\ Len(m.points) \in Nat /\ Len(m.points) <= Len(r.points)
        /\ \E used : Renumbers(used, r, r.faces, kept, m)
    <3> DEFINE faces == r.faces
    <3>1. /\ r.points \in Seq(Int \X Int) /\ faces \in Seq(Triangle)
          /\ \A i \in DOMAIN faces : \A k \in 1 .. 3 : faces[i][k] \in DOMAIN r.points
          /\ Used(faces) \subseteq kept /\ kept \subseteq DOMAIN r.points /\ m = Renumbered(r,
             faces, kept)
      BY <2>1, <2>2, <2>3
    <3> HIDE DEF faces
    <3>2. /\ WellFormed(m) /\ \E used : Renumbers(used, r, faces, kept, m)
          /\ Len(m.points) = Cardinality(kept) /\ Len(m.points) \in Nat
             /\ Len(m.points) <= Len(r.points)
          /\ Len(m.faces) = Len(faces)
      BY <3>1, RenumberedParts
    <3> QED BY <3>2 DEF faces
  <2>5. PICK used : Renumbers(used, r, r.faces, kept, m)
    BY <2>4
  <2>6. \A i \in DOMAIN m.points : used[i] \in DOMAIN r.points /\ m.points[i] = r.points[used[i]]
    BY <2>5 DEF Renumbers
  <2>7. InReach(r.points) => InReach(m.points)
    BY <2>6, WithinReach
  <2> QED BY <2>4, <2>7
<1>5. \/ m = r
      \/ file.kind = "obj" /\ m = Separate(r)
      \/ \E out \in SUBSET (DOMAIN r.points \ Used(r.faces)) : m = Renumbered(r, r.faces,
         (DOMAIN r.points) \ out)
  BY DEF Loadings
<1> QED
  BY <1>1, <1>2, <1>3, <1>4, <1>5

-----------------------------------------------------------------------------
(* The specification of a mesh on its way.                                 *)

(* The order of the operations.                                            *)
LEMMA OperationsAre ==
  /\ Len(Operations) = 9
  /\ Operations[1] = "merge_duplicate_vertices" /\ Operations[2] = "remove_degenerate_faces"
  /\ Operations[3] = "remove_duplicate_faces" /\ Operations[4] = "remove_unreferenced_vertices"
  /\ Operations[5] = "orient_winding" /\ Operations[6] = "repair_normals"
  /\ Operations[7] = "keep_largest_component" /\ Operations[8] = "drop_tiny_components"
  /\ Operations[9] = "fill_small_holes"
BY DEF Operations

LEMMA Numbered ==
  ASSUME NEW n \in Nat \ {0}, n <= 9
  PROVE  n \in {1, 2, 3, 4, 5, 6, 7, 8, 9}
OBVIOUS

(* The inductive invariant of a mesh on its way.  What was said of the     *)
(* file is what its reader says, and the mesh that was read is well        *)
(* formed and as it was counted.  In a repair, the operations that had     *)
(* their turn have cleared what they clear, and none of the later ones     *)
(* brings it back: that is what their order is for.  A mesh whose holes    *)
(* have been filled was made from such a mesh (FilledFrom).                *)
Filled == order > Len(Operations) /\ "fill_small_holes" \in wanted
Clear(m, n) ==
  /\ n > 1 => NoneNear(m)
  /\ n > 2 => NoneDegenerate(m)
  /\ n > 3 => NoneTwice(m)
  /\ n > 4 => AllUsed(m)

FilledFrom(before) ==
  /\ WellFormed(before)
  /\ Clearing \subseteq wanted => Clear(before, Len(Operations))
  /\ mesh = FillSmallHoles(before)

(* What is known of the mesh that was ingested.                            *)
ReadAsCounted ==
  /\ WellFormed(mesh)
  /\ Len(mesh.faces) = read.triangles
  /\ ~Broken(file) => read.triangles = upload.triangles /\ read.vertices = upload.vertices

AskedInOrder ==
  /\ file \in Files
  /\ phase \in {"staged", "source", "refused", "mesh", "unreadable", "repairing", "repaired", "failed"}
  /\ phase # "staged" => upload = Preflight(file)
  /\ phase \notin {"staged", "refused"} => upload.refusal = "none"
  /\ phase = "unreadable" => PreflightOnly
  /\ phase = "mesh" => ReadAsCounted
ClearedInOrder ==
  /\ phase \in {"repairing", "repaired"} => order \in Nat \ {0}
  /\ phase = "repaired" => order > Len(Operations)
  /\ phase \in {"repairing", "repaired"} /\ ~Filled =>
       WellFormed(mesh) /\ (Clearing \subseteq wanted => Clear(mesh, order))
  /\ phase \in {"repairing", "repaired"} /\ Filled => \E before : FilledFrom(before)
SourceInv == AskedInOrder /\ ClearedInOrder

(* What the preflight says, and may say alone, is said of the file.        *)
LEMMA SameFile ==
  ASSUME file' = file PROVE Preflight(file)' = Preflight(file) /\ PreflightOnly' = PreflightOnly
BY DEF Preflight, PreflightOnly, Broken

(* The invariant holds in the beginning, and every step keeps it.          *)
LEMMA SourceInitially == SourceInit => SourceInv
BY OperationsAre DEF SourceInit, SourceInv, AskedInOrder, ClearedInOrder, Nothing

LEMMA UploadKeeps == ASSUME SourceInv, Upload PROVE SourceInv'
<1>1. /\ phase = "staged" /\ upload' = Preflight(file)
      /\ phase' = IF upload'.refusal = "none" THEN "source" ELSE "refused"
      /\ file' = file
  BY DEF Upload
<1>2. file \in Files
  BY DEF SourceInv, AskedInOrder
<1> QED
  BY <1>1, <1>2, SameFile DEF SourceInv, AskedInOrder, ClearedInOrder

(* A mesh that the library made of a file is as it was counted, unless the *)
(* file is one of those that only the preflight accepts. *)
LEMMA LoadedAsCounted ==
  ASSUME Taken(file), Preflight(file).refusal = "none", Checked(file).refusal = "none",
         NEW m \in Loadings(file)
  PROVE  /\ Ingestion(file, m).refusal # "none" => PreflightOnly
         /\ Ingestion(file, m).refusal = "none" => Ingestion(file, m) = Checked(file)
         /\ WellFormed(m) /\ Len(m.faces) = Checked(file).triangles
<1>1. Sound /\ Agreed
  BY ReadersAgreeOnFile
<1>2. WellFormed(Loaded(file)) /\ Len(Loaded(file).faces) = Checked(file).triangles
  BY <1>1 DEF Sound
<1>3. /\ WellFormed(m) /\ Len(m.faces) = Len(Loaded(file).faces) /\ Len(m.faces) \in Nat
      /\ InReach(Points(file)) => InReach(m.points)
      /\ Len(m.points) \in Nat /\ Len(Points(file)) \in Nat
      /\ \/ Len(m.points) <= Len(Points(file))
         \/ file.kind = "obj" /\ Len(m.points) = 3 * Len(m.faces)
  BY <1>2, LoadingIs
<1>4. /\ Len(m.points) > MaxVertices => Ingestion(file, m).refusal # "none"
      /\ ~(Len(m.points) > MaxVertices) /\ InReach(m.points) => Ingestion(file, m) = Checked(file)
      /\ Ingestion(file, m).refusal = "none" => Ingestion(file, m) = Checked(file)
  BY Words DEF Ingestion
<1>5. ASSUME Ingestion(file, m).refusal # "none" PROVE PreflightOnly
  <2>1. CASE Broken(file)
    BY <2>1 DEF PreflightOnly
  <2>2. CASE ~Broken(file)
    <3>1. /\ InReach(Points(file)) /\ Len(Points(file)) <= MaxVertices
          /\ file.kind = "obj" => Checked(file).triangles = Count(file.lines, "f")
      BY <1>1, <2>2 DEF Agreed
    <3>2. Len(m.points) > MaxVertices
      BY <1>3, <1>4, <1>5, <3>1
    <3>3. ~(Len(m.points) <= Len(Points(file)))
      BY <1>3, <3>1, <3>2, FormatsAssumption
    <3>4. file.kind = "obj" /\ Len(m.points) = 3 * Len(m.faces)
      BY <1>3, <3>3
    <3>5. Len(m.faces) = Count(file.lines, "f")
      BY <1>2, <1>3, <3>1, <3>4
    <3> QED BY <3>2, <3>4, <3>5 DEF PreflightOnly
  <2> QED BY <2>1, <2>2
<1> QED BY <1>2, <1>3, <1>4, <1>5

(* What the ingestion reads is a mesh and as it was counted; what it       *)
(* refuses is one of the files that only the preflight accepts.            *)
LEMMA IngestKeeps == ASSUME SourceInv, Ingest PROVE SourceInv'
<1> DEFINE answer == Checked(file)
<1>1. phase = "source" /\ file' = file /\ upload' = upload
  BY DEF Ingest, Unreadable
<1>2. file \in Files /\ upload = Preflight(file) /\ upload.refusal = "none"
  BY <1>1 DEF SourceInv, AskedInOrder
<1>3. Taken(file) /\ Agreed
  BY <1>2, ReadersAgreeOnFile, FilesAssumption
<1>4. CASE phase' = "unreadable" /\ (answer.refusal # "none" \/ Broken(file))
  <2>1. PreflightOnly
    BY <1>3, <1>4 DEF Agreed, PreflightOnly
  <2> QED BY <1>1, <1>2, <1>4, <2>1, SameFile DEF SourceInv, AskedInOrder, ClearedInOrder
<1>5. ASSUME answer.refusal = "none", NEW m \in Loadings(file), Ingestion(file, m).refusal # "none",
             phase' = "unreadable"
      PROVE  SourceInv'
  <2>1. PreflightOnly
    BY <1>2, <1>3, <1>5, LoadedAsCounted
  <2> QED BY <1>1, <1>2, <1>5, <2>1, SameFile DEF SourceInv, AskedInOrder, ClearedInOrder
<1>6. ASSUME answer.refusal = "none", NEW m \in Loadings(file), Ingestion(file, m).refusal = "none",
             mesh' = m, phase' = "mesh", read' = Ingestion(file, m)
      PROVE  SourceInv'
  <2>1. read' = answer /\ WellFormed(m) /\ Len(m.faces) = answer.triangles
    BY <1>2, <1>3, <1>6, LoadedAsCounted
  <2>2. ~Broken(file) => answer.triangles = upload.triangles /\ answer.vertices = upload.vertices
    BY <1>2, <1>3, <1>6 DEF Agreed
  <2> HIDE DEF answer
  <2>3. Broken(file)' = Broken(file)
    BY <1>1 DEF Broken
  <2>4. WellFormed(mesh)'
    BY <1>6, <2>1 DEF WellFormed
  <2>5. ReadAsCounted'
    BY <1>1, <1>6, <2>1, <2>2, <2>3, <2>4 DEF ReadAsCounted
  <2>6. AskedInOrder'
    BY <1>1, <1>2, <1>6, <2>5, SameFile DEF AskedInOrder
  <2> QED BY <1>6, <2>6 DEF SourceInv, ClearedInOrder
<1>7. \/ phase' = "unreadable" /\ (answer.refusal # "none" \/ Broken(file))
      \/ /\ answer.refusal = "none"
         /\ \E m \in Loadings(file) :
              \/ Ingestion(file, m).refusal # "none" /\ phase' = "unreadable"
              \/ /\ Ingestion(file, m).refusal = "none" /\ mesh' = m /\ phase' = "mesh"
                 /\ read' = Ingestion(file, m)
  BY DEF Ingest, Unreadable
<1> QED
  BY <1>4, <1>5, <1>6, <1>7

LEMMA AskKeeps == ASSUME SourceInv, NEW ask \in RepairAsks, AskRepair(ask) PROVE SourceInv'
<1>1. /\ phase = "mesh" /\ file' = file /\ upload' = upload /\ mesh' = mesh
      /\ \/ phase' = "repairing" /\ order' = 1
         \/ phase' = "failed"
  BY DEF AskRepair
<1>2. file \in Files /\ upload = Preflight(file) /\ upload.refusal = "none" /\ WellFormed(mesh)
  BY <1>1 DEF SourceInv, AskedInOrder, ReadAsCounted
<1>3. AskedInOrder'
  BY <1>1, <1>2, SameFile DEF AskedInOrder
<1>4. ClearedInOrder'
  BY <1>1, <1>2, OperationsAre DEF ClearedInOrder, Clear, Filled
<1> QED
  BY <1>3, <1>4 DEF SourceInv

(* While a repair is under way an operation keeps the invariant when its   *)
(* mesh is well formed and as clear as its place in the order asks.        *)
LEMMA BecomesKeeps ==
  ASSUME SourceInv, phase = "repairing", order <= Len(Operations), NEW m, Becomes(m),
         order < 9 \/ "fill_small_holes" \notin wanted =>
           WellFormed(m) /\ (Clearing \subseteq wanted => Clear(m, order + 1)),
         order = 9 /\ "fill_small_holes" \in wanted => m = FillSmallHoles(mesh)
  PROVE  SourceInv'
<1>1. /\ file' = file /\ phase' = phase /\ upload' = upload /\ wanted' = wanted
      /\ mesh' = m /\ order' = order + 1
  BY DEF Becomes
<1>2. order \in Nat \ {0} /\ Len(Operations) = 9 /\ ~Filled
  BY OperationsAre DEF SourceInv, ClearedInOrder, Filled
<1>3. AskedInOrder'
  BY <1>1, SameFile DEF SourceInv, AskedInOrder
<1>4. ~Filled' => order < 9 \/ "fill_small_holes" \notin wanted
  BY <1>1, <1>2 DEF Filled
<1>5. Filled' => order = 9 /\ "fill_small_holes" \in wanted
  BY <1>1, <1>2 DEF Filled
<1>6. ASSUME Filled' PROVE \E before : FilledFrom(before)'
  <2>1. order = 9 /\ m = FillSmallHoles(mesh)
    BY <1>5, <1>6
  <2>2. WellFormed(mesh) /\ (Clearing \subseteq wanted => Clear(mesh, 9))
    BY <1>2, <2>1 DEF SourceInv, ClearedInOrder
  <2> DEFINE before == mesh
  <2>3. /\ WellFormed(before) /\ (Clearing \subseteq wanted => Clear(before, 9))
        /\ m = FillSmallHoles(before)
    BY <2>1, <2>2
  <2> HIDE DEF before
  <2> QED BY <1>1, <1>2, <2>3 DEF FilledFrom
<1>7. (\E before : FilledFrom(before)') => (\E before : FilledFrom(before))'
  OBVIOUS
<1>8. ClearedInOrder'
  BY <1>1, <1>2, <1>4, <1>6, <1>7 DEF ClearedInOrder
<1> QED
  BY <1>3, <1>8 DEF SourceInv

(* What holds when an operation is due.                                    *)
LEMMA WhenDue ==
  ASSUME SourceInv, phase = "repairing", order <= Len(Operations)
  PROVE  /\ order \in {1, 2, 3, 4, 5, 6, 7, 8, 9} /\ Len(Operations) = 9
         /\ WellFormed(mesh) /\ (Clearing \subseteq wanted => Clear(mesh, order))
<1>1. order \in Nat \ {0} /\ Len(Operations) = 9 /\ ~Filled
  BY OperationsAre DEF SourceInv, ClearedInOrder, Filled
<1> QED
  BY <1>1, Numbered DEF SourceInv, ClearedInOrder

(* A step that is skipped clears nothing: while the mesh is being cleared  *)
(* none is.                                                                *)
LEMMA SkipKeeps == ASSUME SourceInv, Skip PROVE SourceInv'
<1>1. phase = "repairing" /\ order <= Len(Operations) /\ Operations[order] \notin wanted
      /\ Becomes(mesh)
  BY DEF Skip
<1>2. /\ order \in {1, 2, 3, 4, 5, 6, 7, 8, 9} /\ Len(Operations) = 9
      /\ WellFormed(mesh) /\ (Clearing \subseteq wanted => Clear(mesh, order))
  BY <1>1, WhenDue
<1>3. Clearing \subseteq wanted => order > 4
  BY <1>1, <1>2, OperationsAre DEF Clearing
<1>4. Clearing \subseteq wanted => Clear(mesh, order + 1)
  BY <1>2, <1>3 DEF Clear
<1>5. ~(order = 9 /\ "fill_small_holes" \in wanted)
  BY <1>1, OperationsAre
<1> QED
  BY <1>1, <1>2, <1>4, <1>5, BecomesKeeps

LEMMA MergeKeeps == ASSUME SourceInv, Merge PROVE SourceInv'
<1> DEFINE r == MergeVertices(mesh)
<1>1. /\ phase = "repairing" /\ order <= Len(Operations) /\ Becomes(r)
      /\ Operations[order] = "merge_duplicate_vertices"
  BY DEF Merge, HasTurn, Due
<1>2. order = 1 /\ WellFormed(mesh)
  BY <1>1, WhenDue, OperationsAre
<1>3. WellFormed(r) /\ NoneNear(r)
  BY <1>2, MergeClears
<1> HIDE DEF r
<1>4. Clear(r, order + 1)
  BY <1>2, <1>3 DEF Clear
<1> QED
  BY <1>1, <1>2, <1>3, <1>4, BecomesKeeps

LEMMA ClearDegenerateKeeps == ASSUME SourceInv, ClearDegenerate PROVE SourceInv'
<1> DEFINE r == RemoveDegenerate(mesh)
<1>1. /\ phase = "repairing" /\ order <= Len(Operations)
      /\ Operations[order] = "remove_degenerate_faces"
  BY DEF ClearDegenerate, HasTurn, Due
<1>2. order = 2 /\ WellFormed(mesh) /\ (Clearing \subseteq wanted => Clear(mesh, order))
  BY <1>1, WhenDue, OperationsAre
<1>3. WellFormed(r) /\ NoneDegenerate(r) /\ (NoneNear(mesh) => NoneNear(r))
  BY <1>2, RemoveDegenerateClears
<1>4. CASE phase' = "failed" /\ UNCHANGED <<file, upload, read, mesh, wanted, order>>
  BY <1>1, <1>4, SameFile DEF SourceInv, AskedInOrder, ClearedInOrder
<1>5. CASE Becomes(r)
  <2> HIDE DEF r
  <2>1. Clearing \subseteq wanted => Clear(r, order + 1)
    BY <1>2, <1>3 DEF Clear
  <2> QED BY <1>1, <1>2, <1>3, <1>5, <2>1, BecomesKeeps
<1> QED
  BY <1>4, <1>5 DEF ClearDegenerate

LEMMA ClearDuplicatesKeeps == ASSUME SourceInv, ClearDuplicates PROVE SourceInv'
<1> DEFINE r == RemoveDuplicateFaces(mesh)
<1>1. /\ phase = "repairing" /\ order <= Len(Operations) /\ Becomes(r)
      /\ Operations[order] = "remove_duplicate_faces"
  BY DEF ClearDuplicates, HasTurn, Due
<1>2. order = 3 /\ WellFormed(mesh) /\ (Clearing \subseteq wanted => Clear(mesh, order))
  BY <1>1, WhenDue, OperationsAre
<1>3. /\ WellFormed(r) /\ NoneTwice(r) /\ (NoneNear(mesh) => NoneNear(r))
      /\ (NoneDegenerate(mesh) => NoneDegenerate(r))
  BY <1>2, RemoveDuplicatesClears
<1> HIDE DEF r
<1>4. Clearing \subseteq wanted => Clear(r, order + 1)
  BY <1>2, <1>3 DEF Clear
<1> QED
  BY <1>1, <1>2, <1>3, <1>4, BecomesKeeps

LEMMA ClearUnreferencedKeeps == ASSUME SourceInv, ClearUnreferenced PROVE SourceInv'
<1> DEFINE r == RemoveUnreferenced(mesh)
<1>1. /\ phase = "repairing" /\ order <= Len(Operations) /\ Becomes(r)
      /\ Operations[order] = "remove_unreferenced_vertices"
  BY DEF ClearUnreferenced, HasTurn, Due
<1>2. order = 4 /\ WellFormed(mesh) /\ (Clearing \subseteq wanted => Clear(mesh, order))
  BY <1>1, WhenDue, OperationsAre
<1>3. /\ WellFormed(r) /\ AllUsed(r) /\ (NoneNear(mesh) => NoneNear(r))
      /\ (NoneDegenerate(mesh) => NoneDegenerate(r)) /\ (NoneTwice(mesh) => NoneTwice(r))
  BY <1>2, SubmeshKeeps DEF RemoveUnreferenced
<1> HIDE DEF r
<1>4. Clearing \subseteq wanted => Clear(r, order + 1)
  BY <1>2, <1>3 DEF Clear
<1> QED
  BY <1>1, <1>2, <1>3, <1>4, BecomesKeeps

(* The operations that come after the clearing leave the mesh clear.       *)
LEMMA LaterKeeps ==
  ASSUME SourceInv, phase = "repairing", order \in {5, 6, 7, 8}, NEW r, Becomes(r),
         /\ WellFormed(r)
         /\ NoneNear(mesh) => NoneNear(r)
         /\ NoneDegenerate(mesh) => NoneDegenerate(r)
         /\ NoneTwice(mesh) => NoneTwice(r)
         /\ AllUsed(mesh) => AllUsed(r)
  PROVE  SourceInv'
<1>1. order <= Len(Operations)
  BY OperationsAre
<1>2. Clearing \subseteq wanted => Clear(mesh, order)
  BY <1>1, WhenDue
<1>3. Clearing \subseteq wanted => Clear(r, order + 1)
  BY <1>2 DEF Clear
<1> QED
  BY <1>1, <1>3, BecomesKeeps

LEMMA OrientKeeps == ASSUME SourceInv, Orient PROVE SourceInv'
<1>1. /\ phase = "repairing" /\ order <= Len(Operations)
      /\ Operations[order] \in {"orient_winding", "repair_normals"}
  BY DEF Orient, HasTurn, Due
<1>2. order \in {5, 6, 7, 8} /\ WellFormed(mesh)
  BY <1>1, WhenDue, OperationsAre
<1>3. PICK numbers \in SUBSET DOMAIN mesh.faces : Becomes(Flipped(mesh, numbers))
  BY DEF Orient
<1> DEFINE r == Flipped(mesh, numbers)
<1>4. /\ WellFormed(r) /\ (NoneNear(mesh) => NoneNear(r)) /\ (NoneDegenerate(mesh) => NoneDegenerate(r))
      /\ (NoneTwice(mesh) => NoneTwice(r)) /\ (AllUsed(mesh) => AllUsed(r))
  BY <1>2, FlippedKeeps
<1> HIDE DEF r
<1> QED
  BY <1>1, <1>2, <1>3, <1>4, LaterKeeps DEF r

LEMMA KeepOneKeeps == ASSUME SourceInv, KeepOne PROVE SourceInv'
<1>1. /\ phase = "repairing" /\ order <= Len(Operations)
      /\ Operations[order] = "keep_largest_component"
  BY DEF KeepOne, HasTurn, Due
<1>2. order \in {5, 6, 7, 8} /\ WellFormed(mesh)
  BY <1>1, WhenDue, OperationsAre
<1>3. PICK c \in LargestComponents(mesh) : Becomes(KeepLargest(mesh, c))
  BY DEF KeepOne
<1> DEFINE r == KeepLargest(mesh, c)
<1>4. /\ WellFormed(r) /\ (NoneNear(mesh) => NoneNear(r)) /\ (NoneDegenerate(mesh) => NoneDegenerate(r))
      /\ (NoneTwice(mesh) => NoneTwice(r)) /\ (AllUsed(mesh) => AllUsed(r))
  BY <1>2, KeepLargestKeeps
<1> HIDE DEF r
<1> QED
  BY <1>1, <1>2, <1>3, <1>4, LaterKeeps DEF r

LEMMA DropKeeps == ASSUME SourceInv, Drop PROVE SourceInv'
<1> DEFINE r == IF "keep_largest_component" \in wanted THEN mesh ELSE DropTiny(mesh)
<1>1. /\ phase = "repairing" /\ order <= Len(Operations) /\ Becomes(r)
      /\ Operations[order] = "drop_tiny_components"
  BY DEF Drop, HasTurn, Due
<1>2. order \in {5, 6, 7, 8} /\ WellFormed(mesh)
  BY <1>1, WhenDue, OperationsAre
<1>3. /\ WellFormed(r) /\ (NoneNear(mesh) => NoneNear(r)) /\ (NoneDegenerate(mesh) => NoneDegenerate(r))
      /\ (NoneTwice(mesh) => NoneTwice(r)) /\ (AllUsed(mesh) => AllUsed(r))
  BY <1>2, DropTinyKeeps
<1> HIDE DEF r
<1> QED
  BY <1>1, <1>2, <1>3, LaterKeeps

(* The holes are filled last: nothing has a turn after it.                 *)
LEMMA FillKeeps == ASSUME SourceInv, Fill PROVE SourceInv'
<1> DEFINE r == FillSmallHoles(mesh)
<1>1. /\ phase = "repairing" /\ order <= Len(Operations) /\ Becomes(r)
      /\ Operations[order] = "fill_small_holes" /\ "fill_small_holes" \in wanted
  BY DEF Fill, HasTurn, Due
<1>2. order = 9
  BY <1>1, WhenDue, OperationsAre
<1>3. r = FillSmallHoles(mesh)
  OBVIOUS
<1> HIDE DEF r
<1> QED
  BY <1>1, <1>2, <1>3, BecomesKeeps

LEMMA SameMesh ==
  ASSUME mesh' = mesh, wanted' = wanted
  PROVE  (\E before : FilledFrom(before)) => (\E before : FilledFrom(before))'
BY DEF FilledFrom

LEMMA FinishKeeps == ASSUME SourceInv, Finish PROVE SourceInv'
<1>1. /\ phase = "repairing" /\ phase' = "repaired" /\ order > Len(Operations)
      /\ file' = file /\ upload' = upload /\ read' = read /\ mesh' = mesh /\ wanted' = wanted
      /\ order' = order
  BY DEF Finish
<1>2. AskedInOrder'
  BY <1>1, SameFile DEF SourceInv, AskedInOrder
<1>3. ClearedInOrder'
  BY <1>1, SameMesh DEF SourceInv, ClearedInOrder, Filled
<1> QED
  BY <1>2, <1>3 DEF SourceInv

(* Every step keeps the invariant.                                         *)
LEMMA SourceStep == SourceInv /\ [SourceNext]_sourceVars => SourceInv'
<1> SUFFICES ASSUME SourceInv, [SourceNext]_sourceVars PROVE SourceInv'
  OBVIOUS
<1>1. CASE UNCHANGED sourceVars
  <2>1. /\ file' = file /\ phase' = phase /\ upload' = upload /\ read' = read /\ mesh' = mesh
        /\ wanted' = wanted /\ order' = order
    BY <1>1 DEF sourceVars
  <2>2. Filled' = Filled /\ ReadAsCounted' = ReadAsCounted
    BY <2>1 DEF Filled, ReadAsCounted, Broken
  <2>3. AskedInOrder'
    BY <2>1, <2>2, SameFile DEF SourceInv, AskedInOrder
  <2>4. ClearedInOrder'
    BY <2>1, <2>2, SameMesh DEF SourceInv, ClearedInOrder
  <2> QED BY <2>3, <2>4 DEF SourceInv
<1>2. CASE \E ask \in RepairAsks : AskRepair(ask)
  BY <1>2, AskKeeps
<1> QED
  BY <1>1, <1>2, UploadKeeps, IngestKeeps, SkipKeeps, MergeKeeps, ClearDegenerateKeeps,
     ClearDuplicatesKeeps, ClearUnreferencedKeeps, OrientKeeps, KeepOneKeeps, DropKeeps,
     FillKeeps, FinishKeeps DEF SourceNext

(* In every state of the specification the invariant holds.                *)
THEOREM SourceInvariant == SourceSpec => []SourceInv
BY SourceInitially, SourceStep, PTL DEF SourceSpec

(* The invariant implies the properties.                                   *)
LEMMA InvReaders == SourceInv => ReadersAgree
<1> SUFFICES ASSUME SourceInv PROVE ReadersAgree
  OBVIOUS
<1>1. phase = "unreadable" => PreflightOnly
  BY DEF SourceInv, AskedInOrder
<1>2. ASSUME phase = "mesh"
      PROVE  /\ ~Broken(file) => read.triangles = upload.triangles /\ read.vertices = upload.vertices
             /\ Len(mesh.faces) = read.triangles
             /\ \A f \in ToSet(mesh.faces) : Corners(f) \subseteq DOMAIN mesh.points
  <2>1. ReadAsCounted
    BY <1>2 DEF SourceInv, AskedInOrder
  <2>2. WellFormed(mesh)
    BY <2>1 DEF ReadAsCounted
  <2>3. DOMAIN mesh.faces = 1 .. Len(mesh.faces)
        /\ \A i \in DOMAIN mesh.faces : mesh.faces[i] \in Triangle
    BY <2>2, LenProperties, ElementOfSeq DEF WellFormed
  <2>4. \A i \in DOMAIN mesh.faces : DOMAIN mesh.faces[i] = 1 .. 3
    BY <2>3 DEF Triangle
  <2>5. \A i \in DOMAIN mesh.faces : Corners(mesh.faces[i]) \subseteq DOMAIN mesh.points
    BY <2>2, <2>4 DEF WellFormed, Corners, ToSet
  <2>6. \A f \in ToSet(mesh.faces) : Corners(f) \subseteq DOMAIN mesh.points
    BY <2>5 DEF ToSet
  <2> QED BY <2>1, <2>6 DEF ReadAsCounted
<1> QED
  BY <1>1, <1>2 DEF ReadersAgree

(* A file that the preflight accepts has the triangles and vertices that   *)
(* were counted when the engine reads it, however the mesh library loads   *)
(* an OBJ; unless a line break that only the engine sees tears a line      *)
(* apart, and then the mesh has the triangles that the engine counted,     *)
(* and corners that exist. What the engine refuses has one of the reasons  *)
(* of PreflightOnly. For all files (ReadersAgree: preflight_mesh_upload    *)
(* and ingest_bytes).                                                      *)
THEOREM AcceptedIsRead == SourceSpec => []ReadersAgree
BY SourceInvariant, InvReaders, PTL

-----------------------------------------------------------------------------
(* Holes. A boundary falls into rings that lie apart.                      *)

(* The image of a finite set.                                              *)
LEMMA FiniteImage ==
  ASSUME NEW S, IsFiniteSet(S), NEW f, f = [x \in S |-> f[x]], NEW T, T = {f[x] : x \in S}
  PROVE  IsFiniteSet(T) /\ Cardinality(T) \in Nat /\ Cardinality(T) <= Cardinality(S)
<1>1. f \in Surjection(S, T)
  BY DEF Surjection
<1> QED
  BY <1>1, FS_Surjection, FS_CardinalityType

(* A set of one member.                                                    *)
LEMMA OneMember ==
  ASSUME NEW S, Cardinality(S) = 1, IsFiniteSet(S)
  PROVE  \E x \in S : \A y \in S : y = x
<1>1. PICK x : S = {x}
  BY FS_Singleton
<1> QED BY <1>1

(* The edges of a boundary.                                                *)
Edges(b) == IsFiniteSet(b) /\ b \subseteq Nat \X Nat
EndPoints(b) == UNION {ToSet(e) : e \in b}

LEMMA EndsOf == ASSUME NEW x, NEW y PROVE ToSet(<<x, y>>) = {x, y}
<1>1. DOMAIN <<x, y>> = 1 .. 2 /\ 1 .. 2 = {1, 2}
  OBVIOUS
<1> QED BY <1>1 DEF ToSet

(* An edge is a pair of numbers, and the set of its ends has both.         *)
LEMMA EdgeEnds ==
  ASSUME NEW b, Edges(b)
  PROVE  /\ \A e \in b : e = <<e[1], e[2]>> /\ e[1] \in Nat /\ e[2] \in Nat /\ ToSet(e) = {e[1], e[2]}
         /\ \A x, y : <<x, y>> \in b => x \in EndPoints(b) /\ y \in EndPoints(b)
         /\ EndPoints(b) \subseteq Nat /\ IsFiniteSet(EndPoints(b))
         /\ \A x \in EndPoints(b) : \E e \in b : x \in {e[1], e[2]}
<1>1. \A e \in b : e = <<e[1], e[2]>> /\ e[1] \in Nat /\ e[2] \in Nat
  BY DEF Edges
<1>2. \A e \in b : ToSet(e) = {e[1], e[2]}
  <2> TAKE e \in b
  <2>1. ToSet(<<e[1], e[2]>>) = {e[1], e[2]}
    BY EndsOf
  <2> QED BY <1>1, <2>1
<1>3. \A x, y : <<x, y>> \in b => x \in EndPoints(b) /\ y \in EndPoints(b)
  <2> SUFFICES ASSUME NEW x, NEW y, <<x, y>> \in b PROVE x \in EndPoints(b) /\ y \in EndPoints(b)
    OBVIOUS
  <2>1. ToSet(<<x, y>>) = {x, y}
    BY EndsOf
  <2> QED BY <2>1 DEF EndPoints
<1>4. \A x \in EndPoints(b) : \E e \in b : x \in {e[1], e[2]}
  BY <1>2 DEF EndPoints
<1>5. EndPoints(b) \subseteq Nat
  BY <1>1, <1>4
<1>6. IsFiniteSet(EndPoints(b))
  <2> DEFINE f == [e \in b |-> ToSet(e)]
             T == {f[e] : e \in b}
  <2>1. IsFiniteSet(T)
    <3>1. f = [e \in b |-> f[e]] OBVIOUS
    <3> HIDE DEF f
    <3> QED BY <3>1, FiniteImage DEF Edges
  <2>2. \A t \in T : IsFiniteSet(t)
    <3> SUFFICES ASSUME NEW e \in b PROVE IsFiniteSet({e[1], e[2]})
      BY <1>2
    <3>1. IsFiniteSet({e[1]}) /\ {e[1], e[2]} = {e[1]} \cup {e[2]}
      BY FS_Singleton
    <3> QED BY <3>1, FS_AddElement
  <2>3. IsFiniteSet(UNION T)
    <3> HIDE DEF T
    <3> QED BY <2>1, <2>2, FS_UNION
  <2>4. UNION T = EndPoints(b)
    BY DEF EndPoints
  <2> QED BY <2>3, <2>4
<1> QED BY <1>1, <1>2, <1>3, <1>4, <1>5, <1>6

(* Neighbors are the other ends of edges.                                  *)
LEMMA NeighborsAre ==
  ASSUME NEW b, Edges(b), NEW v
  PROVE  \A w : w \in Neighbors(b, v) <=> (<<v, w>> \in b \/ <<w, v>> \in b)
<1>1. \A x, y : <<x, y>> \in b => x \in EndPoints(b) /\ y \in EndPoints(b)
  BY EdgeEnds
<1> QED BY <1>1 DEF Neighbors, EndPoints

(* Edges never lead out of a set that is closed.                           *)
Closed(b, S) == \A v \in S : Neighbors(b, v) \subseteq S

(* What is reached is closed, and nothing is reached that need not be.     *)
LEMMA WithinIs ==
  ASSUME NEW b, Edges(b), NEW v
  PROVE  \E within : /\ Cardinality(b) \in Nat
                     /\ within[0] = {v}
                     /\ \A n \in 1 .. Cardinality(b) :
                          within[n] = within[n - 1] \cup UNION {Neighbors(b, w) : w \in within[n - 1]}
                     /\ Reached(b, v) = within[Cardinality(b)]
<1> DEFINE N == Cardinality(b)
           V == EndPoints(b) \cup {v}
           grown(S) == S \cup UNION {Neighbors(b, w) : w \in S}
           step == [x \in (SUBSET V) \X (1 .. N) |-> grown(x[1])]
           within[n \in 0 .. N] == IF n = 0 THEN {v}
                                   ELSE LET S == within[n - 1]
                                        IN  S \cup UNION {Neighbors(b, w) : w \in S}
<1>1. N \in Nat
  BY FS_CardinalityType DEF Edges
<1>2. \A S \in SUBSET V : grown(S) \in SUBSET V
  <2>1. \A w : Neighbors(b, w) \subseteq V
    BY DEF Neighbors, EndPoints
  <2> QED BY <2>1
<1>3. step \in [(SUBSET V) \X (1 .. N) -> SUBSET V]
  <2> HIDE DEF grown, V, N
  <2> QED BY <1>2
<1>4. PICK f : Solves(f, SUBSET V, {v}, N, step)
  <2> HIDE DEF step, N, within
  <2>1. {v} \in SUBSET V OBVIOUS
  <2> HIDE DEF V
  <2> QED BY <1>1, <1>3, <2>1, Recursion
<1>5. \A n \in 1 .. N : f[n] = grown(f[n - 1])
  <2> TAKE n \in 1 .. N
  <2>1. f[n - 1] \in SUBSET V
    BY <1>1, <1>4 DEF Solves
  <2>2. step[<<f[n - 1], n>>] = grown(f[n - 1])
    <3> HIDE DEF grown, V, N
    <3> QED BY <2>1
  <2> QED BY <1>4, <2>2 DEF Solves
<1>6. f = [n \in 0 .. N |-> IF n = 0 THEN {v}
                            ELSE LET S == f[n - 1] IN S \cup UNION {Neighbors(b, w) : w \in S}]
  <2>0. f[0] = {v}
    BY <1>4 DEF Solves
  <2>1. \A n \in 0 .. N : f[n] = IF n = 0 THEN {v}
                            ELSE LET S == f[n - 1] IN S \cup UNION {Neighbors(b, w) : w \in S}
    <3> TAKE n \in 0 .. N
    <3>1. CASE n = 0
      BY <2>0, <3>1
    <3>2. CASE n # 0
      <4>1. n \in 1 .. N
        <5> HIDE DEF N
        <5> QED BY <1>1, <3>2
      <4>2. f[n] = grown(f[n - 1])
        BY <1>5, <4>1
      <4> QED BY <3>2, <4>2
    <3> QED BY <3>1, <3>2
  <2>2. DOMAIN f = 0 .. N /\ f = [n \in DOMAIN f |-> f[n]]
    BY <1>4 DEF Solves
  <2> QED BY <2>1, <2>2
<1>7. within = [n \in 0 .. N |-> IF n = 0 THEN {v}
                            ELSE LET S == within[n - 1] IN S \cup UNION {Neighbors(b, w) : w \in S}]
  BY <1>6
<1>8. Reached(b, v) = within[N]
  BY DEF Reached
<1> HIDE DEF within
<1>9. within[0] = {v} /\ \A n \in 1 .. N :
          within[n] = within[n - 1] \cup UNION {Neighbors(b, w) : w \in within[n - 1]}
  BY <1>1, <1>7
<1> QED BY <1>1, <1>8, <1>9

(* What is reached from a corner is the least closed set with it.          *)
LeastClosed(b, v, R) ==
  /\ v \in R /\ Closed(b, R)
  /\ \A S : v \in S /\ Closed(b, S) => R \subseteq S
(* While something new is reached, one more edge lies within what is       *)
(* reached; so that after as many rounds as there are edges nothing is     *)
(* new.                                                                    *)
LEMMA ReachedIs ==
  ASSUME NEW b, Edges(b), NEW v
  PROVE  LeastClosed(b, v, Reached(b, v))
<1> DEFINE N == Cardinality(b)
<1>1. PICK within : /\ N \in Nat
                    /\ within[0] = {v}
                    /\ \A n \in 1 .. N :
                          within[n] = within[n - 1] \cup UNION {Neighbors(b, w) : w \in within[n - 1]}
                    /\ Reached(b, v) = within[N]
  BY WithinIs
<1> DEFINE I(n) == {e \in b : e[1] \in within[n] /\ e[2] \in within[n]}
           T == {n \in 0 .. N : /\ v \in within[n]
                                /\ Closed(b, within[n]) \/ Cardinality(I(n)) >= n}
<1>2. \A n : IsFiniteSet(I(n)) /\ Cardinality(I(n)) \in Nat /\ Cardinality(I(n)) <= N
             /\ (Cardinality(I(n)) = N => I(n) = b)
  <2> TAKE n
  <2>1. I(n) \in SUBSET b
    OBVIOUS
  <2> HIDE DEF I
  <2> QED BY <2>1, FS_Subset, FS_CardinalityType DEF Edges
<1>3. 0 \in T
  <2>1. Cardinality(I(0)) \in Nat /\ v \in within[0] /\ 0 \in 0 .. N
    BY <1>1, <1>2
  <2> HIDE DEF I
  <2> QED BY <2>1
<1>4. \A n \in 0 .. N : n \in T /\ n < N => n + 1 \in T
  <2> SUFFICES ASSUME NEW n \in 0 .. N, n \in T, n < N PROVE n + 1 \in T
    OBVIOUS
  <2>1. n + 1 \in 1 .. N /\ n + 1 \in 0 .. N /\ (n + 1) - 1 = n
    BY <1>1
  <2>2. within[n + 1] = within[n] \cup UNION {Neighbors(b, w) : w \in within[n]}
    BY <1>1, <2>1
  <2>3. CASE Closed(b, within[n])
    <3>1. within[n + 1] = within[n]
      BY <2>2, <2>3 DEF Closed
    <3> QED BY <2>1, <2>3, <3>1
  <2>4. CASE ~Closed(b, within[n])
    <3>1. PICK x \in within[n] : \E y \in Neighbors(b, x) : y \notin within[n]
      BY <2>4 DEF Closed
    <3>a. PICK y \in Neighbors(b, x) : y \notin within[n]
      BY <3>1
    <3>2. <<x, y>> \in b \/ <<y, x>> \in b
      BY NeighborsAre
    <3>3. PICK e \in b : e \in I(n + 1) /\ e \notin I(n)
      <4>1. x \in within[n + 1] /\ y \in within[n + 1]
        BY <2>2, <3>1, <3>a
      <4>2. CASE <<x, y>> \in b
        BY <4>1, <4>2, <3>a
      <4>3. CASE <<y, x>> \in b
        BY <4>1, <4>3, <3>a
      <4> QED BY <3>2, <4>2, <4>3
    <3>4. I(n) \subseteq I(n + 1)
      BY <2>2
    <3>5. Cardinality(I(n + 1)) > Cardinality(I(n))
      <4> HIDE DEF I
      <4>1. Cardinality(I(n)) <= Cardinality(I(n + 1))
             /\ (Cardinality(I(n)) = Cardinality(I(n + 1)) => I(n) = I(n + 1))
        BY <1>2, <3>4, FS_Subset
      <4> QED BY <1>2, <3>3, <4>1
    <3>6. Cardinality(I(n)) >= n /\ v \in within[n]
      BY <2>4
    <3>7. Cardinality(I(n + 1)) >= n + 1
      <4> HIDE DEF I
      <4> QED BY <1>2, <3>5, <3>6, <2>1
    <3> QED BY <2>1, <2>2, <3>6, <3>7
  <2> QED BY <2>3, <2>4
<1>5. 0 .. N \subseteq T
  <2> HIDE DEF T, N
  <2> QED BY <1>1, <1>3, <1>4, InductionUpTo
<1>6. v \in Reached(b, v) /\ Closed(b, Reached(b, v))
  <2>1. N \in T /\ v \in within[N]
    BY <1>1, <1>5
  <2>2. CASE Cardinality(I(N)) >= N
    <3>1. I(N) = b
      <4> HIDE DEF I
      <4> QED BY <1>1, <1>2, <2>2
    <3>2. Closed(b, within[N])
      <4> SUFFICES ASSUME NEW x \in within[N], NEW y \in Neighbors(b, x) PROVE y \in within[N]
        BY DEF Closed
      <4>1. <<x, y>> \in b \/ <<y, x>> \in b
        BY NeighborsAre
      <4>2. CASE <<x, y>> \in b
        <5>1. <<x, y>> \in I(N)
          BY <4>2, <3>1
        <5> QED BY <5>1
      <4>3. CASE <<y, x>> \in b
        <5>1. <<y, x>> \in I(N)
          BY <4>3, <3>1
        <5> QED BY <5>1
      <4> QED BY <4>1, <4>2, <4>3
    <3> QED BY <1>1, <2>1, <3>2
  <2> QED BY <1>1, <2>1, <2>2
<1>7. ASSUME NEW S, v \in S, Closed(b, S) PROVE Reached(b, v) \subseteq S
  <2> DEFINE U == {n \in 0 .. N : within[n] \subseteq S}
  <2>1. 0 \in U
    BY <1>1, <1>7
  <2>2. \A n \in 0 .. N : n \in U /\ n < N => n + 1 \in U
    <3> SUFFICES ASSUME NEW n \in 0 .. N, n \in U, n < N PROVE n + 1 \in U
      OBVIOUS
    <3>1. n + 1 \in 1 .. N /\ n + 1 \in 0 .. N /\ (n + 1) - 1 = n
      BY <1>1
    <3>2. within[n + 1] = within[n] \cup UNION {Neighbors(b, w) : w \in within[n]}
      BY <1>1, <3>1
    <3> QED BY <1>7, <3>1, <3>2 DEF Closed
  <2>3. 0 .. N \subseteq U
    <3> HIDE DEF U, N
    <3> QED BY <1>1, <2>1, <2>2, InductionUpTo
  <2> QED BY <1>1, <2>3
<1> QED BY <1>6, <1>7 DEF LeastClosed

(* Rings that have a corner in common are one.                             *)
LEMMA RingsApart ==
  ASSUME NEW b, Edges(b), NEW v, NEW w \in Reached(b, v)
  PROVE  Reached(b, w) = Reached(b, v)
<1> DEFINE V == Reached(b, v)
           W == Reached(b, w)
           S == V \ W
<1>1. v \in V /\ Closed(b, V) /\ \A X : v \in X /\ Closed(b, X) => V \subseteq X
  BY ReachedIs DEF LeastClosed
<1>2. w \in W /\ Closed(b, W) /\ \A X : w \in X /\ Closed(b, X) => W \subseteq X
  BY ReachedIs DEF LeastClosed
<1> HIDE DEF V, W
<1>3. w \in V
  BY DEF V
<1>4. W \subseteq V
  BY <1>1, <1>2, <1>3
<1>5. Closed(b, S)
  <2> SUFFICES ASSUME NEW x \in V, x \notin W, NEW y \in Neighbors(b, x) PROVE y \in V /\ y \notin W
    BY DEF Closed
  <2>1. x \in Neighbors(b, y)
    BY NeighborsAre
  <2> QED BY <1>1, <1>2, <2>1 DEF Closed
<1>6. v \in W
  BY <1>1, <1>2, <1>3, <1>5
<1>7. V \subseteq W
  BY <1>1, <1>2, <1>6
<1> QED BY <1>4, <1>7 DEF V, W

(* The rings of a boundary.                                                *)
LEMMA RingsAre ==
  ASSUME NEW b, Edges(b)
  PROVE  /\ IsFiniteSet(Rings(b))
         /\ \A R \in Rings(b) : /\ R # {} /\ R \subseteq EndPoints(b) /\ IsFiniteSet(R)
            /\ R \subseteq Nat
                                /\ Closed(b, R) /\ \A v \in R : Reached(b, v) = R
         /\ \A R, Q \in Rings(b) : R \cap Q # {} => R = Q
<1>1. IsFiniteSet(Rings(b))
  <2> DEFINE f == [v \in EndPoints(b) |-> Reached(b, v)]
  <2>1. f = [v \in EndPoints(b) |-> f[v]] /\ Rings(b) = {f[v] : v \in EndPoints(b)}
    BY DEF Rings, EndPoints
  <2> HIDE DEF f
  <2> QED BY <2>1, FiniteImage, EdgeEnds
<1>2. ASSUME NEW R \in Rings(b)
      PROVE  /\ R # {} /\ R \subseteq EndPoints(b) /\ IsFiniteSet(R) /\ R \subseteq Nat
             /\ Closed(b, R) /\ \A v \in R : Reached(b, v) = R
  <2>1. PICK u \in EndPoints(b) : R = Reached(b, u)
    BY DEF Rings, EndPoints
  <2>2. Closed(b, EndPoints(b))
    <3>1. \A x, y : <<x, y>> \in b => x \in EndPoints(b) /\ y \in EndPoints(b)
      BY EdgeEnds
    <3> QED BY <3>1, NeighborsAre DEF Closed
  <2>3. u \in R /\ Closed(b, R) /\ R \subseteq EndPoints(b)
    BY <2>1, <2>2, ReachedIs DEF LeastClosed
  <2>4. IsFiniteSet(EndPoints(b)) /\ EndPoints(b) \subseteq Nat
    BY EdgeEnds
  <2>5. IsFiniteSet(R)
    BY <2>3, <2>4, FS_Subset
  <2>6. \A v \in R : Reached(b, v) = R
    BY <2>1, RingsApart
  <2> QED BY <2>3, <2>4, <2>5, <2>6
<1>3. \A R, Q \in Rings(b) : R \cap Q # {} => R = Q
  BY <1>2
<1> QED BY <1>1, <1>2, <1>3

-----------------------------------------------------------------------------
(* Loops. The walk from the lowest corner goes round the whole ring.       *)

(* In a loop an edge comes to each corner and one goes from it.            *)
OneWay(b, R) ==
  /\ \A v \in R : Against(b, v) \in R /\ <<Against(b, v), v>> \in b
  /\ \A v \in R : \A w : <<w, v>> \in b => w = Against(b, v)
  /\ \A v \in R : \A w, x : <<v, w>> \in b /\ <<v, x>> \in b => w = x
  /\ \A v \in R : <<v, v>> \notin b
  /\ \A v \in R : \A w : <<w, v>> \in b \/ <<v, w>> \in b => w \in R
(* A ring that IsLoop accepts is such a loop.                              *)
LEMMA LoopIsOneWay ==
  ASSUME NEW b, Edges(b), NEW R \in Rings(b), IsLoop(b, R)
  PROVE  OneWay(b, R)
<1>1. R \subseteq Nat /\ IsFiniteSet(R) /\ Closed(b, R)
  BY RingsAre
<1>2. \A v \in R : \A w : <<w, v>> \in b \/ <<v, w>> \in b => w \in R
  BY <1>1, NeighborsAre DEF Closed
<1>3. ASSUME NEW v \in R
      PROVE  /\ \E x \in R : <<x, v>> \in b /\ \A y \in R : <<y, v>> \in b => y = x
             /\ \E x \in R : <<v, x>> \in b /\ \A y \in R : <<v, y>> \in b => y = x
  <2> DEFINE in == {w \in R : <<w, v>> \in b}
             out == {w \in R : <<v, w>> \in b}
  <2>1. Cardinality(in) = 1 /\ Cardinality(out) = 1
    BY DEF IsLoop
  <2>2. IsFiniteSet(in) /\ IsFiniteSet(out)
    <3>1. in \in SUBSET R /\ out \in SUBSET R
      OBVIOUS
    <3> QED BY <1>1, <3>1, FS_Subset
  <2>3. \E x \in in : \A y \in in : y = x
    <3> HIDE DEF in, out
    <3> QED BY <2>1, <2>2, OneMember
  <2>4. \E x \in out : \A y \in out : y = x
    <3> HIDE DEF in, out
    <3> QED BY <2>1, <2>2, OneMember
  <2> QED BY <2>3, <2>4
<1>4. ASSUME NEW v \in R
      PROVE  /\ Against(b, v) \in R /\ <<Against(b, v), v>> \in b
             /\ \A w : <<w, v>> \in b => w = Against(b, v)
             /\ \A w, x : <<v, w>> \in b /\ <<v, x>> \in b => w = x
  <2>1. PICK x \in R : <<x, v>> \in b /\ \A y \in R : <<y, v>> \in b => y = x
    BY <1>3
  <2>2. x \in Neighbors(b, v)
    BY <2>1, NeighborsAre
  <2>3. Against(b, v) \in Neighbors(b, v) /\ <<Against(b, v), v>> \in b
    BY <2>1, <2>2 DEF Against
  <2>4. Against(b, v) \in R
    BY <1>2, <2>3
  <2> QED BY <1>2, <1>3, <2>1, <2>3, <2>4
<1>5. ASSUME NEW v \in R, <<v, v>> \in b PROVE FALSE
  <2>1. \A w \in Neighbors(b, v) : w = v
    BY <1>4, <1>5, NeighborsAre
  <2>2. v \in Neighbors(b, v)
    BY <1>5, NeighborsAre
  <2>3. Neighbors(b, v) = {v}
    BY <2>1, <2>2
  <2>4. Cardinality(Neighbors(b, v)) = 1
    BY <2>3, FS_Singleton
  <2>5. Cardinality(Neighbors(b, v)) = 2
    BY Zenon DEF IsLoop
  <2> QED BY <2>4, <2>5
<1> QED BY <1>2, <1>4, <1>5 DEF OneWay

(* The walk round a loop goes on against its edges.                        *)
LEMMA WalkIs ==
  ASSUME NEW b, Edges(b), NEW R, R # {}, R \subseteq Nat, IsFiniteSet(R), OneWay(b, R)
  PROVE  /\ Loop(b, R) \in Seq(R) /\ Cardinality(R) \in Nat /\ Len(Loop(b, R)) = Cardinality(R)
         /\ Len(Loop(b, R)) > 0
         /\ \A n \in 2 .. Cardinality(R) : Loop(b, R)[n] = Against(b, Loop(b, R)[n - 1])
<1> DEFINE C == Cardinality(R)
           N == C - 1
           step == [x \in R \X (1 .. N) |-> Against(b, x[1])]
           walk[n \in 1 .. C] == IF n = 1 THEN <<First(R)>>
                                 ELSE LET w == walk[n - 1] IN Append(w, Against(b, Last(w)))
<1>1. C \in Nat /\ N \in Nat /\ C = N + 1
  BY FS_CardinalityType, FS_EmptySet
<1>2. First(R) \in R
  BY FirstIsLeast
<1>3. step \in [R \X (1 .. N) -> R]
  BY DEF OneWay
<1>4. PICK f : Solves(f, R, First(R), N, step)
  <2> HIDE DEF step, N, walk
  <2> QED BY <1>1, <1>2, <1>3, Recursion
<1>5. f \in [0 .. N -> R] /\ f[0] = First(R)
  BY <1>4 DEF Solves
<1>6. \A n \in 1 .. N : f[n] = Against(b, f[n - 1])
  <2> TAKE n \in 1 .. N
  <2>1. f[n - 1] \in R
    BY <1>1, <1>5
  <2> QED BY <1>4, <2>1 DEF Solves
<1> DEFINE way(n) == [i \in 1 .. n |-> f[i - 1]]
           W == [n \in 1 .. C |-> way(n)]
<1>7. \A n \in 1 .. C : way(n) \in Seq(R) /\ Len(way(n)) = n /\ \A i \in 1 .. n : way(n)[i] = f[i - 1]
  <2> TAKE n \in 1 .. C
  <2>1. way(n) \in [1 .. n -> R] /\ n \in Nat
    <3>1. \A i \in 1 .. n : i - 1 \in 0 .. N
      BY <1>1
    <3>2. \A i \in 1 .. n : f[i - 1] \in R
      BY <1>5, <3>1
    <3> QED BY <3>2
  <2>2. way(n) \in Seq(R) /\ Len(way(n)) = n
    <3> HIDE DEF way
    <3> QED BY <2>1, AreSequences
  <2> QED BY <2>2
<1>8. way(1) = <<First(R)>>
  <2>1. 1 .. 1 = {1} /\ 1 - 1 = 0
    OBVIOUS
  <2>2. way(1) = [i \in 1 .. 1 |-> First(R)]
    BY <1>5, <2>1
  <2> QED BY <2>2
<1>9. \A n \in 2 .. C : way(n) = Append(way(n - 1), Against(b, Last(way(n - 1))))
  <2> TAKE n \in 2 .. C
  <2>1. n - 1 \in 1 .. C /\ n - 1 \in 1 .. N /\ n \in 1 .. C /\ n - 1 \in 1 .. n - 1
    BY <1>1
  <2>2. Last(way(n - 1)) = f[n - 2] /\ Len(way(n - 1)) = n - 1
    <3>1. Len(way(n - 1)) = n - 1 /\ way(n - 1)[n - 1] = f[(n - 1) - 1] /\ (n - 1) - 1 = n - 2
      BY <1>7, <2>1
    <3> HIDE DEF way
    <3> QED BY <3>1 DEF Last
  <2>3. f[n - 1] = Against(b, f[n - 2]) /\ f[n - 1] \in R
    <3>1. (n - 1) - 1 = n - 2 /\ n - 1 \in 0 .. N
      BY <1>1
    <3> QED BY <1>5, <1>6, <2>1, <3>1
  <2> DEFINE t == Append(way(n - 1), f[n - 1])
  <2>4. t \in Seq(R) /\ Len(t) = n /\ (\A i \in 1 .. n - 1 : t[i] = f[i - 1]) /\ t[n] = f[n - 1]
    <3>1. way(n - 1) \in Seq(R) /\ Len(way(n - 1)) = n - 1
          /\ \A i \in 1 .. n - 1 : way(n - 1)[i] = f[i - 1]
      BY <1>7, <2>1
    <3> HIDE DEF way
    <3> QED BY <2>1, <2>3, <3>1, AppendProperties
  <2>5. way(n) = t
    <3>1. way(n) \in Seq(R) /\ Len(way(n)) = n /\ \A i \in 1 .. n : way(n)[i] = f[i - 1]
      BY <1>7, <2>1
    <3>2. \A i \in 1 .. n : way(n)[i] = t[i]
      <4> HIDE DEF way, t
      <4>1. \A i \in 1 .. n : i = n \/ i \in 1 .. n - 1
        OBVIOUS
      <4> QED BY <4>1, <3>1, <2>4
    <3> HIDE DEF way, t
    <3> QED BY <2>4, <3>1, <3>2, SeqEqual
  <2> HIDE DEF way
  <2> QED BY <2>2, <2>3, <2>5 DEF t
<1>10. W = [n \in 1 .. C |-> IF n = 1 THEN <<First(R)>>
                             ELSE LET w == W[n - 1] IN Append(w, Against(b, Last(w)))]
  <2> SUFFICES ASSUME NEW n \in 1 .. C
               PROVE  way(n) = IF n = 1 THEN <<First(R)>>
                               ELSE LET w == W[n - 1] IN Append(w, Against(b, Last(w)))
    OBVIOUS
  <2> HIDE DEF way
  <2>1. CASE n = 1
    BY <1>8, <2>1
  <2>2. CASE n # 1
    <3>1. n \in 2 .. C /\ n - 1 \in 1 .. C
      BY <1>1, <2>2
    <3>2. W[n - 1] = way(n - 1)
      BY <3>1
    <3> QED BY <1>9, <2>2, <3>1, <3>2
  <2> QED BY <2>1, <2>2
<1>11. walk = [n \in 1 .. C |-> IF n = 1 THEN <<First(R)>>
                             ELSE LET w == walk[n - 1] IN Append(w, Against(b, Last(w)))]
  <2> HIDE DEF W
  <2> QED BY <1>10
<1>12. Loop(b, R) = walk[C]
  BY DEF Loop
<1> HIDE DEF walk
<1>13. walk[C] = way(C)
  <2> DEFINE T == {n \in 0 .. N : walk[n + 1] = way(n + 1)}
  <2> HIDE DEF way
  <2>1. 0 \in T
    <3>1. walk[1] = <<First(R)>>
      BY <1>1, <1>11
    <3> QED BY <1>1, <1>8, <3>1
  <2>2. \A n \in 0 .. N : n \in T /\ n < N => n + 1 \in T
    <3> SUFFICES ASSUME NEW n \in 0 .. N, n \in T, n < N PROVE n + 1 \in T
      OBVIOUS
    <3>1. (n + 1) + 1 \in 2 .. C /\ ((n + 1) + 1) - 1 = n + 1 /\ n + 1 \in 0 .. N
          /\ (n + 1) + 1 \in 1 .. C
          /\ (n + 1) + 1 # 1
      BY <1>1
    <3>2. walk[(n + 1) + 1] = Append(walk[n + 1], Against(b, Last(walk[n + 1])))
      BY <1>11, <3>1
    <3>3. way((n + 1) + 1) = Append(way(n + 1), Against(b, Last(way(n + 1))))
      BY <1>9, <3>1
    <3> QED BY <3>1, <3>2, <3>3
  <2>3. 0 .. N \subseteq T
    <3> HIDE DEF T, N
    <3> QED BY <1>1, <2>1, <2>2, InductionUpTo
  <2> QED BY <1>1, <2>3
<1>14. C \in 1 .. C
  BY <1>1
<1>15. Loop(b, R) \in Seq(R) /\ Len(Loop(b, R)) = C /\ \A i \in 1 .. C : Loop(b, R)[i] = f[i - 1]
  BY <1>7, <1>12, <1>13, <1>14
<1>16. \A n \in 2 .. C : Loop(b, R)[n] = Against(b, Loop(b, R)[n - 1])
  <2> TAKE n \in 2 .. C
  <2>1. n \in 1 .. C /\ n - 1 \in 1 .. C /\ n - 1 \in 1 .. N
    BY <1>1
  <2>2. Loop(b, R)[n] = f[n - 1] /\ Loop(b, R)[n - 1] = f[(n - 1) - 1]
    BY <1>15, <2>1
  <2> QED BY <1>6, <2>1, <2>2
<1> QED BY <1>1, <1>15, <1>16

(* The pairs of neighbours in a closed walk.                               *)
Succ(s, k) == IF k = Len(s) THEN 1 ELSE k + 1
Pairs(s) == {<<s[k], s[Succ(s, k)]>> : k \in DOMAIN s}
NoneAgain(s) == \A i, j \in DOMAIN s : s[i] = s[j] => i = j

(* A loop goes through every corner of its ring once, against every edge  *)
(* that lies in the ring and no other. *)
WalksRound(b, R, s) ==
  /\ s \in Seq(R) /\ Len(s) = Cardinality(R) /\ Len(s) > 0 /\ NoneAgain(s) /\ ToSet(s) = R
  /\ \A x, y : <<x, y>> \in Pairs(s) <=> (x \in R /\ y \in R /\ <<y, x>> \in b)
(* A corner that came twice would close the walk on a part of the ring,    *)
(* and that part would be closed: but the ring is what is reached from     *)
(* any of its corners.                                                     *)
LEMMA LoopWalksRound ==
  ASSUME NEW b, Edges(b), NEW R \in Rings(b), IsLoop(b, R)
  PROVE  WalksRound(b, R, Loop(b, R)) /\ \A v \in R : <<v, v>> \notin b
<1> DEFINE s == Loop(b, R)
           C == Cardinality(R)
           next(v) == Against(b, v)
<1>1. R # {} /\ R \subseteq Nat /\ IsFiniteSet(R) /\ \A v \in R : Reached(b, v) = R
  BY RingsAre
<1>2. OneWay(b, R)
  BY LoopIsOneWay
<1>3. /\ s \in Seq(R) /\ C \in Nat /\ Len(s) = C /\ C > 0
      /\ \A n \in 2 .. C : s[n] = next(s[n - 1])
  BY <1>1, <1>2, WalkIs
<1>4. DOMAIN s = 1 .. C /\ \A i \in 1 .. C : s[i] \in R
  BY <1>3, LenProperties, ElementOfSeq
<1>5. \A v, w \in R : next(v) = next(w) => v = w
  BY <1>2 DEF OneWay
<1>6. \A v \in R : next(v) \in R /\ <<next(v), v>> \in b
  BY <1>2 DEF OneWay
<1>7. \A v \in R : \A w : <<w, v>> \in b => w = next(v)
  BY <1>2 DEF OneWay
<1>8. \A v \in R : \A w : <<w, v>> \in b \/ <<v, w>> \in b => w \in R
  BY <1>2 DEF OneWay
<1> HIDE DEF next, s
<1>9. NoneAgain(s)
  <2> DEFINE T == {i \in 1 .. C : \E j \in 1 .. C : i < j /\ s[i] = s[j]}
  <2>1. ASSUME T # {} PROVE FALSE
    <3>1. PICK i \in T : \A k \in T : i <= k
      <4>1. T \subseteq Nat OBVIOUS
      <4> HIDE DEF T
      <4> QED BY <2>1, <4>1, Least
    <3>2. i \in 1 .. C
      BY <3>1
    <3>a. PICK j \in 1 .. C : i < j /\ s[i] = s[j]
      BY <3>1
    <3>3. i = 1
      <4> SUFFICES ASSUME i # 1 PROVE FALSE
        OBVIOUS
      <4>1. i \in 2 .. C /\ j \in 2 .. C /\ i - 1 \in 1 .. C /\ j - 1 \in 1 .. C
            /\ i - 1 < j - 1 /\ ~(i <= i - 1)
        BY <1>3, <3>2, <3>a
      <4>2. next(s[i - 1]) = next(s[j - 1])
        BY <1>3, <3>a, <4>1
      <4>3. s[i - 1] = s[j - 1]
        BY <1>4, <1>5, <4>1, <4>2
      <4>4. i - 1 \in T
        BY <4>1, <4>3
      <4> HIDE DEF T
      <4> QED BY <3>1, <4>1, <4>4
    <3> DEFINE g == [k \in 1 .. j - 1 |-> s[k]]
               O == {g[k] : k \in 1 .. j - 1}
    <3>4. \A k \in 1 .. j - 1 : k \in 1 .. C /\ g[k] = s[k]
      BY <1>3, <3>a
    <3>5. O \subseteq R
      BY <1>4, <3>4
    <3>6. \A k \in 1 .. j - 1 : next(s[k]) \in O
      <4> TAKE k \in 1 .. j - 1
      <4>1. CASE k = j - 1
        <5>1. j \in 2 .. C /\ 1 \in 1 .. j - 1
          BY <1>3, <3>2, <3>3, <3>a
        <5>2. next(s[k]) = s[1]
          BY <1>3, <3>3, <3>a, <4>1, <5>1
        <5> QED BY <3>4, <5>1, <5>2
      <4>2. CASE k # j - 1
        <5>1. k + 1 \in 2 .. C /\ (k + 1) - 1 = k /\ k + 1 \in 1 .. j - 1
          BY <1>3, <3>a, <4>2
        <5>2. next(s[k]) = s[k + 1]
          BY <1>3, <5>1
        <5> QED BY <3>4, <5>1, <5>2
      <4> QED BY <4>1, <4>2
    <3>7. \A k \in 1 .. j - 1 : \E l \in 1 .. j - 1 : next(s[l]) = s[k]
      <4> TAKE k \in 1 .. j - 1
      <4>1. CASE k = 1
        <5>1. j \in 2 .. C /\ j - 1 \in 1 .. j - 1
          BY <1>3, <3>2, <3>3, <3>a
        <5>2. next(s[j - 1]) = s[1]
          BY <1>3, <3>3, <3>a, <5>1
        <5> QED BY <4>1, <5>1, <5>2
      <4>2. CASE k # 1
        <5>1. k \in 2 .. C /\ k - 1 \in 1 .. j - 1
          BY <1>3, <3>a, <4>2
        <5> QED BY <1>3, <5>1
      <4> QED BY <4>1, <4>2
    <3>8. Closed(b, O)
      <4> SUFFICES ASSUME NEW v \in O, NEW w \in Neighbors(b, v) PROVE w \in O
        BY DEF Closed
      <4>1. PICK k \in 1 .. j - 1 : v = s[k]
        BY <3>4
      <4>2. v \in R
        BY <3>5
      <4>3. <<v, w>> \in b \/ <<w, v>> \in b
        BY NeighborsAre
      <4>4. CASE <<w, v>> \in b
        BY <1>7, <3>6, <4>1, <4>2, <4>4
      <4>5. CASE <<v, w>> \in b
        <5>1. w \in R
          BY <1>8, <4>2, <4>5
        <5>2. next(w) = v
          BY <1>7, <4>5, <5>1
        <5>3. PICK l \in 1 .. j - 1 : next(s[l]) = s[k]
          BY <3>7
        <5>4. s[l] \in R
          BY <1>4, <3>4
        <5>5. w = s[l]
          BY <1>5, <4>1, <5>1, <5>2, <5>3, <5>4
        <5> QED BY <3>4, <5>5
      <4> QED BY <4>3, <4>4, <4>5
    <3>9. s[1] \in O /\ s[1] \in R
      <4>1. 1 \in 1 .. j - 1
        BY <3>2, <3>3, <3>a
      <4> QED BY <3>4, <3>5, <4>1
    <3>10. R \subseteq O
      <4> HIDE DEF O
      <4>1. Reached(b, s[1]) \subseteq O
        BY <3>8, <3>9, ReachedIs DEF LeastClosed
      <4> QED BY <1>1, <3>9, <4>1
    <3>11. Cardinality(O) <= j - 1 /\ Cardinality(O) \in Nat /\ j - 1 < C
      <4>1. IsFiniteSet(1 .. j - 1) /\ Cardinality(1 .. j - 1) = j - 1
        <5>1. 1 \in Int /\ j - 1 \in Int /\ ~(1 > j - 1) /\ (j - 1) - 1 + 1 = j - 1
          BY <3>2, <3>3, <3>a
        <5> QED BY <5>1, FS_Interval
      <4>2. g = [k \in 1 .. j - 1 |-> g[k]] /\ O = {g[k] : k \in 1 .. j - 1}
        OBVIOUS
      <4> HIDE DEF g, O
      <4>3. Cardinality(O) \in Nat /\ Cardinality(O) <= Cardinality(1 .. j - 1)
        BY <4>1, <4>2, FiniteImage
      <4> QED BY <1>3, <3>a, <4>1, <4>3
    <3>12. O = R
      BY <3>5, <3>10
    <3> HIDE DEF O
    <3> QED BY <1>3, <3>11, <3>12
  <2>2. ASSUME NEW i \in 1 .. C, NEW j \in 1 .. C, s[i] = s[j], i # j PROVE FALSE
    <3>1. i < j \/ j < i
      BY <2>2
    <3> QED BY <2>1, <2>2, <3>1
  <2> QED BY <1>4, <2>2 DEF NoneAgain
<1>10. ToSet(s) = R
  <2>1. Cardinality(ToSet(s)) = Len(s)
    BY <1>3, <1>9, NoRepetition DEF NoneAgain
  <2>2. ToSet(s) \subseteq R
    BY <1>4 DEF ToSet
  <2> QED BY <1>1, <1>3, <2>1, <2>2, FS_Subset
<1>11. next(s[C]) = s[1]
  <2>1. C \in 1 .. C /\ s[C] \in R
    BY <1>3, <1>4
  <2>2. PICK k \in 1 .. C : next(s[C]) = s[k]
    BY <1>4, <1>6, <1>10, <2>1 DEF ToSet
  <2>3. CASE k = 1
    BY <2>2, <2>3
  <2>4. CASE k # 1
    <3>1. k \in 2 .. C /\ k - 1 \in 1 .. C /\ k - 1 # C
      BY <1>3, <2>4
    <3>2. s[k] = next(s[k - 1]) /\ s[k - 1] \in R
      BY <1>3, <1>4, <3>1
    <3>3. s[C] = s[k - 1]
      BY <1>5, <2>1, <2>2, <3>2
    <3> QED BY <1>4, <1>9, <2>1, <3>1, <3>3 DEF NoneAgain
  <2> QED BY <2>3, <2>4
<1>12. \A k \in 1 .. C : s[Succ(s, k)] = next(s[k]) /\ Succ(s, k) \in 1 .. C
  <2> TAKE k \in 1 .. C
  <2>1. CASE k = C
    BY <1>3, <1>11, <2>1 DEF Succ
  <2>2. CASE k # C
    <3>1. k + 1 \in 2 .. C /\ (k + 1) - 1 = k /\ k + 1 \in 1 .. C
      BY <1>3, <2>2
    <3> QED BY <1>3, <2>2, <3>1 DEF Succ
  <2> QED BY <2>1, <2>2
<1>13. Pairs(s) = {<<s[k], next(s[k])>> : k \in 1 .. C}
  BY <1>4, <1>12 DEF Pairs
<1>14. \A x, y : <<x, y>> \in Pairs(s) <=> (x \in R /\ y \in R /\ <<y, x>> \in b)
  <2>1. ASSUME NEW x, NEW y, <<x, y>> \in Pairs(s) PROVE x \in R /\ y \in R /\ <<y, x>> \in b
    <3>1. PICK k \in 1 .. C : <<x, y>> = <<s[k], next(s[k])>>
      BY <1>13, <2>1
    <3>2. x = s[k] /\ y = next(s[k]) /\ s[k] \in R
      BY <1>4, <3>1
    <3> QED BY <1>6, <3>2
  <2>2. ASSUME NEW x \in R, NEW y \in R, <<y, x>> \in b PROVE <<x, y>> \in Pairs(s)
    <3>1. PICK k \in 1 .. C : x = s[k]
      BY <1>4, <1>10 DEF ToSet
    <3>2. y = next(x)
      BY <1>7, <2>2
    <3> QED BY <1>13, <3>1, <3>2
  <2> QED BY <2>1, <2>2
<1>15. WalksRound(b, R, s)
  BY <1>3, <1>9, <1>10, <1>14 DEF WalksRound
<1> QED BY <1>2, <1>15 DEF OneWay, s

-----------------------------------------------------------------------------
(* Ears. Cutting one off a walk.                                           *)

(* The corner after and before one, round a ring.                          *)
Pred(s, k) == IF k = 1 THEN Len(s) ELSE k - 1
(* The remainders of numbers below twice the divisor.                      *)
LEMMA Remainders ==
  ASSUME NEW n \in Nat \ {0}, NEW i \in 0 .. n - 1
  PROVE  i % n = i /\ (i + n) % n = i /\ n % n = 0
<1>1. i % n = i
  OBVIOUS
<1>2. (i + n) % n = i
  OBVIOUS
<1>3. n % n = 0
  OBVIOUS
<1> QED BY <1>1, <1>2, <1>3
LEMMA RingIs ==
  ASSUME NEW s, Len(s) \in Nat, Len(s) > 0, NEW i \in 1 .. Len(s)
  PROVE  /\ Ring(s, i + 1) = s[Succ(s, i)] /\ Ring(s, i + Len(s) - 1) = s[Pred(s, i)]
         /\ Succ(s, i) \in 1 .. Len(s) /\ Pred(s, i) \in 1 .. Len(s)
<1> DEFINE n == Len(s)
<1>1. n \in Nat \ {0} /\ i \in 1 .. n
  OBVIOUS
<1> HIDE DEF n
<1>2. ((i + 1) - 1) % n = IF i = n THEN 0 ELSE i
  <2>1. CASE i = n
    <3>1. (i + 1) - 1 = n /\ 0 \in 0 .. n - 1
      BY <1>1, <2>1
    <3> QED BY <1>1, <2>1, <3>1, Remainders
  <2>2. CASE i # n
    <3>1. (i + 1) - 1 = i /\ i \in 0 .. n - 1
      BY <1>1, <2>2
    <3> QED BY <1>1, <2>2, <3>1, Remainders
  <2> QED BY <2>1, <2>2
<1>3. ((i + n - 1) - 1) % n = IF i = 1 THEN n - 1 ELSE i - 2
  <2>1. CASE i = 1
    <3>1. (i + n - 1) - 1 = n - 1 /\ n - 1 \in 0 .. n - 1
      BY <1>1, <2>1
    <3> QED BY <1>1, <2>1, <3>1, Remainders
  <2>2. CASE i # 1
    <3>1. (i + n - 1) - 1 = (i - 2) + n /\ i - 2 \in 0 .. n - 1
      BY <1>1, <2>2
    <3> QED BY <1>1, <2>2, <3>1, Remainders
  <2> QED BY <2>1, <2>2
<1>4. Ring(s, i + 1) = s[(((i + 1) - 1) % n) + 1] /\ Ring(s, i + n - 1) = s[(((i + n - 1) - 1) % n) + 1]
  BY DEF Ring, n
<1>5. Ring(s, i + 1) = s[Succ(s, i)]
  <2>1. Succ(s, i) = (IF i = n THEN 0 ELSE i) + 1
    BY <1>1 DEF Succ, n
  <2> QED BY <1>2, <1>4, <2>1
<1>6. Ring(s, i + n - 1) = s[Pred(s, i)]
  <2>1. Pred(s, i) = (IF i = 1 THEN n - 1 ELSE i - 2) + 1
    BY <1>1 DEF Pred, n
  <2> QED BY <1>3, <1>4, <2>1
<1>7. Succ(s, i) \in 1 .. n /\ Pred(s, i) \in 1 .. n
  BY <1>1 DEF Succ, Pred, n
<1> QED BY <1>5, <1>6, <1>7 DEF n

(* The edges of triangles, as they run.                                    *)
SidesOf(t) == {<<t[1], t[2]>>, <<t[2], t[3]>>, <<t[3], t[1]>>}
RunsOf(faces) == {Run(faces, r) : r \in Runs(faces)}
(* A run of triangles is a side of one of them.                            *)
LEMMA RunsAre ==
  ASSUME NEW faces
  PROVE  \A e : e \in RunsOf(faces) <=> \E i \in DOMAIN faces : e \in SidesOf(faces[i])
<1>1. 1 .. 3 = {1, 2, 3} /\ (1 % 3) + 1 = 2 /\ (2 % 3) + 1 = 3 /\ (3 % 3) + 1 = 1
  OBVIOUS
<1>2. \A i : /\ Run(faces, <<i, 1>>) = <<faces[i][1], faces[i][2]>>
             /\ Run(faces, <<i, 2>>) = <<faces[i][2], faces[i][3]>>
             /\ Run(faces, <<i, 3>>) = <<faces[i][3], faces[i][1]>>
  BY <1>1 DEF Run
<1>3. \A e : e \in RunsOf(faces) <=>
         \E i \in DOMAIN faces : \E k \in 1 .. 3 : e = Run(faces, <<i, k>>)
  <2>1. \A e : e \in RunsOf(faces) <=> \E r \in Runs(faces) : e = Run(faces, r)
    BY DEF RunsOf
  <2>2. \A r : r \in Runs(faces) <=> \E i \in DOMAIN faces : \E k \in 1 .. 3 : r = <<i, k>>
    BY DEF Runs
  <2>3. ASSUME NEW e, e \in RunsOf(faces)
        PROVE  \E i \in DOMAIN faces : \E k \in 1 .. 3 : e = Run(faces, <<i, k>>)
    <3>1. PICK r \in Runs(faces) : e = Run(faces, r)
      BY <2>1, <2>3
    <3>2. PICK i \in DOMAIN faces : \E k \in 1 .. 3 : r = <<i, k>>
      BY <2>2
    <3> QED BY <3>1, <3>2
  <2>4. ASSUME NEW e, NEW i \in DOMAIN faces, NEW k \in 1 .. 3, e = Run(faces, <<i, k>>)
        PROVE  e \in RunsOf(faces)
    <3>1. <<i, k>> \in Runs(faces)
      BY <2>2
    <3> QED BY <2>1, <2>4, <3>1
  <2> QED BY <2>3, <2>4
<1>4. \A i, e : (\E k \in 1 .. 3 : e = Run(faces, <<i, k>>)) <=> e \in SidesOf(faces[i])
  BY <1>1, <1>2 DEF SidesOf
<1> QED BY <1>3, <1>4

(* Cutting an ear off a walk.                                              *)
EarIsCut(s, e, t) ==
  /\ t \in Seq(Nat) /\ Len(t) = Len(s) - 1 /\ NoneAgain(t) /\ ToSet(t) \subseteq ToSet(s)
  /\ e \in Triangle /\ \A k \in 1 .. 3 : e[k] \in ToSet(s)
  /\ e[1] # e[2] /\ e[2] # e[3] /\ e[3] # e[1]
  /\ <<e[1], e[2]>> \in Pairs(s) /\ <<e[2], e[3]>> \in Pairs(s) /\ <<e[1], e[3]>> \in Pairs(t)
  /\ Pairs(s) \subseteq Pairs(t) \cup {<<e[1], e[2]>>, <<e[2], e[3]>>}
  /\ Pairs(t) \subseteq Pairs(s) \cup {<<e[1], e[3]>>}
(* RemoveAt leaves the items before and moves those after.                 *)
LEMMA RemovedAt ==
  ASSUME NEW s \in Seq(Nat), NEW i \in 1 .. Len(s)
  PROVE  /\ RemoveAt(s, i) \in Seq(Nat) /\ Len(RemoveAt(s, i)) = Len(s) - 1
         /\ \A j \in 1 .. Len(s) - 1 : RemoveAt(s, i)[j] = IF j < i THEN s[j] ELSE s[j + 1]
<1> DEFINE u == SubSeq(s, 1, i - 1)
           v == SubSeq(s, i + 1, Len(s))
<1>1. Len(s) \in Nat /\ \A k \in 1 .. Len(s) : s[k] \in Nat
  BY LenProperties, ElementOfSeq
<1>2. u \in Seq(Nat) /\ Len(u) = i - 1 /\ \A k \in 1 .. i - 1 : u[k] = s[k]
  <2>1. 1 \in 1 .. Len(s) + 1 /\ i - 1 \in 0 .. Len(s)
    BY <1>1
  <2> QED BY <1>1, <2>1, SubSeqProperties
<1>3. v \in Seq(Nat) /\ Len(v) = Len(s) - i /\ \A k \in 1 .. Len(s) - i : v[k] = s[k + i]
  <2>1. i + 1 \in 1 .. Len(s) + 1 /\ Len(s) \in 0 .. Len(s)
    BY <1>1
  <2> QED BY <1>1, <2>1, SubSeqProperties
<1> HIDE DEF u, v
<1>4. u \o v \in Seq(Nat) /\ Len(u \o v) = Len(s) - 1
  <2>1. u \o v \in Seq(Nat) /\ Len(u \o v) = Len(u) + Len(v)
    BY <1>2, <1>3, ConcatProperties
  <2> QED BY <1>1, <1>2, <1>3, <2>1
<1>5. \A j \in 1 .. Len(s) - 1 : (u \o v)[j] = IF j < i THEN s[j] ELSE s[j + 1]
  <2> TAKE j \in 1 .. Len(s) - 1
  <2>1. j \in 1 .. Len(u) + Len(v)
    BY <1>1, <1>2, <1>3
  <2>2. (u \o v)[j] = IF j <= Len(u) THEN u[j] ELSE v[j - Len(u)]
    BY <1>2, <1>3, <2>1, ConcatProperties
  <2>3. CASE j < i
    BY <1>1, <1>2, <2>2, <2>3
  <2>4. CASE ~(j < i)
    <3>1. j - Len(u) \in 1 .. Len(s) - i /\ (j - Len(u)) + i = j + 1 /\ ~(j <= Len(u))
      BY <1>1, <1>2, <2>4
    <3> QED BY <1>3, <2>2, <2>4, <3>1
  <2> QED BY <2>3, <2>4
<1> QED BY <1>4, <1>5 DEF RemoveAt, u, v

(* The walk without the corner of an ear has the third side of the ear in  *)
(* place of its other two.                                                 *)
LEMMA CutEar ==
  ASSUME NEW s \in Seq(Nat), NoneAgain(s), Len(s) > 3, NEW i \in DOMAIN s
  PROVE  EarIsCut(s, Ear(s, i), RemoveAt(s, i))
<1> DEFINE n == Len(s)
           e == Ear(s, i)
           t == RemoveAt(s, i)
           p == Pred(s, i)
           q == Succ(s, i)
<1>1. n \in Nat /\ n > 3 /\ DOMAIN s = 1 .. n /\ i \in 1 .. n /\ \A k \in 1 .. n : s[k] \in Nat
  BY LenProperties, ElementOfSeq
<1>2. /\ t \in Seq(Nat) /\ Len(t) = n - 1 /\ DOMAIN t = 1 .. n - 1
      /\ \A j \in 1 .. n - 1 : t[j] = IF j < i THEN s[j] ELSE s[j + 1]
  <2>1. t \in Seq(Nat) /\ Len(t) = n - 1
        /\ \A j \in 1 .. n - 1 : t[j] = IF j < i THEN s[j] ELSE s[j + 1]
    BY <1>1, RemovedAt
  <2> HIDE DEF t, n
  <2> QED BY <2>1, LenProperties
<1>3. e = <<s[p], s[i], s[q]>> /\ p \in 1 .. n /\ q \in 1 .. n
  <2>1. Len(s) \in Nat /\ Len(s) > 0 /\ i \in 1 .. Len(s)
    BY <1>1
  <2> QED BY <2>1, RingIs DEF Ear
<1>4. p = (IF i = 1 THEN n ELSE i - 1) /\ q = (IF i = n THEN 1 ELSE i + 1)
  BY DEF Succ, Pred
<1>5. \A k \in 1 .. n : Succ(s, k) = IF k = n THEN 1 ELSE k + 1
  BY DEF Succ
<1>6. \A k \in 1 .. n - 1 : Succ(t, k) = IF k = n - 1 THEN 1 ELSE k + 1
  BY <1>2 DEF Succ
<1> HIDE DEF n, e, t, p, q
<1>7. e[1] = s[p] /\ e[2] = s[i] /\ e[3] = s[q]
  BY <1>3
<1>8. e \in Triangle /\ \A k \in 1 .. 3 : e[k] \in ToSet(s)
  <2>1. DOMAIN e = 1 .. 3 /\ 1 .. 3 = {1, 2, 3} /\ e = [k \in 1 .. 3 |-> e[k]]
    BY <1>3
  <2>2. \A k \in 1 .. 3 : e[k] \in Nat /\ e[k] \in ToSet(s)
    BY <1>1, <1>3, <1>7, <2>1 DEF ToSet
  <2> QED BY <2>1, <2>2 DEF Triangle
<1>9. e[1] # e[2] /\ e[2] # e[3] /\ e[3] # e[1]
  <2>1. p # i /\ i # q /\ q # p
    BY <1>1, <1>4
  <2> QED BY <1>1, <1>3, <1>7, <2>1 DEF NoneAgain
<1> DEFINE old(k) == IF k < i THEN k ELSE k + 1
<1>10. \A k \in 1 .. n - 1 : old(k) \in 1 .. n /\ old(k) # i /\ t[k] = s[old(k)]
  BY <1>1, <1>2
<1>11. NoneAgain(t)
  <2> SUFFICES ASSUME NEW j \in 1 .. n - 1, NEW k \in 1 .. n - 1, t[j] = t[k] PROVE j = k
    BY <1>2 DEF NoneAgain
  <2>1. old(j) = old(k)
    BY <1>1, <1>10 DEF NoneAgain
  <2> QED BY <1>1, <2>1
<1>12. ToSet(t) \subseteq ToSet(s)
  BY <1>1, <1>2, <1>10 DEF ToSet
<1>13. Pairs(s) = {<<s[k], s[Succ(s, k)]>> : k \in 1 .. n}
  BY <1>1 DEF Pairs
<1>14. Pairs(t) = {<<t[k], t[Succ(t, k)]>> : k \in 1 .. n - 1}
  BY <1>2 DEF Pairs
<1>15. Succ(s, p) = i /\ Succ(s, i) = q
  BY <1>1, <1>3, <1>4, <1>5
<1>16. <<e[1], e[2]>> \in Pairs(s) /\ <<e[2], e[3]>> \in Pairs(s)
  BY <1>1, <1>3, <1>7, <1>13, <1>15
<1>17. \A k \in 1 .. n - 1 : /\ Succ(t, k) \in 1 .. n - 1
                             /\ old(k) # p => old(Succ(t, k)) = Succ(s, old(k))
                             /\ old(k) = p => old(Succ(t, k)) = q
  <2> TAKE k \in 1 .. n - 1
  <2>1. Succ(t, k) \in 1 .. n - 1
    BY <1>1, <1>6
  <2>2. Succ(s, old(k)) = IF old(k) = n THEN 1 ELSE old(k) + 1
    BY <1>5, <1>10
  <2>3. Succ(t, k) = IF k = n - 1 THEN 1 ELSE k + 1
    BY <1>6
  <2>4. old(k) # p => old(Succ(t, k)) = Succ(s, old(k))
    BY <1>1, <1>4, <2>2, <2>3
  <2>5. old(k) = p => old(Succ(t, k)) = q
    BY <1>1, <1>4, <2>2, <2>3
  <2> QED BY <2>1, <2>4, <2>5
<1>18. \A j \in 1 .. n : j # i => \E k \in 1 .. n - 1 : old(k) = j
  <2> SUFFICES ASSUME NEW j \in 1 .. n, j # i PROVE \E k \in 1 .. n - 1 : old(k) = j
    OBVIOUS
  <2>1. CASE j < i
    <3>1. j \in 1 .. n - 1 /\ old(j) = j
      BY <1>1, <2>1
    <3> QED BY <3>1
  <2>2. CASE ~(j < i)
    <3>1. j - 1 \in 1 .. n - 1 /\ old(j - 1) = j
      BY <1>1, <2>2
    <3> QED BY <3>1
  <2> QED BY <2>1, <2>2
<1>19. p # i /\ q # i
  BY <1>1, <1>4
<1> HIDE DEF old
<1>20. <<e[1], e[3]>> \in Pairs(t)
  <2>1. PICK k \in 1 .. n - 1 : old(k) = p
    BY <1>3, <1>18, <1>19
  <2>2. t[k] = s[p] /\ t[Succ(t, k)] = s[q]
    BY <1>10, <1>17, <2>1
  <2> QED BY <1>7, <1>14, <2>2
<1>21. Pairs(s) \subseteq Pairs(t) \cup {<<e[1], e[2]>>, <<e[2], e[3]>>}
  <2> SUFFICES ASSUME NEW j \in 1 .. n
               PROVE  <<s[j], s[Succ(s, j)]>> \in Pairs(t) \cup {<<e[1], e[2]>>, <<e[2], e[3]>>}
    BY <1>13
  <2>1. CASE j = i
    BY <1>7, <1>15, <2>1
  <2>2. CASE j = p
    BY <1>7, <1>15, <2>2
  <2>3. CASE j # i /\ j # p
    <3>1. PICK k \in 1 .. n - 1 : old(k) = j
      BY <1>18, <2>3
    <3>2. t[k] = s[j] /\ t[Succ(t, k)] = s[Succ(s, j)]
      BY <1>10, <1>17, <2>3, <3>1
    <3> QED BY <1>14, <3>2
  <2> QED BY <2>1, <2>2, <2>3
<1>22. Pairs(t) \subseteq Pairs(s) \cup {<<e[1], e[3]>>}
  <2> SUFFICES ASSUME NEW k \in 1 .. n - 1
               PROVE  <<t[k], t[Succ(t, k)]>> \in Pairs(s) \cup {<<e[1], e[3]>>}
    BY <1>14
  <2>1. CASE old(k) = p
    <3>1. t[k] = s[p] /\ t[Succ(t, k)] = s[q]
      BY <1>10, <1>17, <2>1
    <3> QED BY <1>7, <3>1
  <2>2. CASE old(k) # p
    <3>1. t[k] = s[old(k)] /\ t[Succ(t, k)] = s[Succ(s, old(k))] /\ old(k) \in 1 .. n
      BY <1>10, <1>17, <2>2
    <3> QED BY <1>13, <3>1
  <2> QED BY <2>1, <2>2
<1>23. EarIsCut(s, e, t)
  BY <1>2, <1>8, <1>9, <1>11, <1>12, <1>16, <1>20, <1>21, <1>22 DEF EarIsCut, n
<1> QED BY <1>23 DEF e, t

-----------------------------------------------------------------------------
(* Cutting ears until three corners are left closes a loop.                *)

(* What remains to be closed: the edges L of a loop, against the edges E of *)
(* the triangles so far and the walk P round what is left. *)
Closing(L, E, P) ==
  /\ \A x, y : <<x, y>> \in L => <<x, y>> \in P \/ <<x, y>> \in E
  /\ \A x, y : <<x, y>> \in E => <<x, y>> \in L \/ <<y, x>> \in E \/ <<y, x>> \in P
  /\ \A x, y : <<x, y>> \in P => <<x, y>> \in L \/ <<y, x>> \in E
(* Cutting an ear off keeps this.                                          *)
LEMMA ClosingGoesOn ==
  ASSUME NEW L, NEW E, NEW P, NEW Q, NEW F, NEW a, NEW b, NEW c, Closing(L, E, P),
         F = E \cup {<<a, b>>, <<b, c>>, <<c, a>>},
         <<a, b>> \in P, <<b, c>> \in P, <<a, c>> \in Q,
         P \subseteq Q \cup {<<a, b>>, <<b, c>>}, Q \subseteq P \cup {<<a, c>>}
  PROVE  Closing(L, F, Q)
<1>0. /\ \A x, y : <<x, y>> \in L => <<x, y>> \in P \/ <<x, y>> \in E
      /\ \A x, y : <<x, y>> \in E => <<x, y>> \in L \/ <<y, x>> \in E \/ <<y, x>> \in P
      /\ \A x, y : <<x, y>> \in P => <<x, y>> \in L \/ <<y, x>> \in E
  BY DEF Closing
<1>1. /\ \A x, y : <<x, y>> \in E => <<x, y>> \in F
      /\ <<a, b>> \in F /\ <<b, c>> \in F /\ <<c, a>> \in F
      /\ \A x, y : <<x, y>> \in F => \/ <<x, y>> \in E \/ (x = a /\ y = b) \/ (x = b /\ y = c)
                                     \/ (x = c /\ y = a)
  OBVIOUS
<1>2. \A x, y : <<x, y>> \in P => <<x, y>> \in Q \/ (x = a /\ y = b) \/ (x = b /\ y = c)
  OBVIOUS
<1>3. \A x, y : <<x, y>> \in Q => <<x, y>> \in P \/ (x = a /\ y = c)
  OBVIOUS
<1>4. \A x, y : <<x, y>> \in L => <<x, y>> \in Q \/ <<x, y>> \in F
  BY <1>0, <1>1, <1>2
<1>5. ASSUME NEW x, NEW y, <<x, y>> \in F
      PROVE  <<x, y>> \in L \/ <<y, x>> \in F \/ <<y, x>> \in Q
  <2>1. CASE <<x, y>> \in E
    BY <1>0, <1>1, <1>2, <2>1
  <2>2. CASE x = a /\ y = b
    BY <1>0, <1>1, <2>2
  <2>3. CASE x = b /\ y = c
    BY <1>0, <1>1, <2>3
  <2>4. CASE x = c /\ y = a
    BY <2>4
  <2> QED BY <1>1, <1>5, <2>1, <2>2, <2>3, <2>4
<1>6. \A x, y : <<x, y>> \in Q => <<x, y>> \in L \/ <<y, x>> \in F
  BY <1>0, <1>1, <1>3
<1> QED BY <1>4, <1>5, <1>6 DEF Closing

(* What the triangles that close a loop are.                               *)
ClosesLoop(cut, loop) ==
  /\ cut \in Seq(Triangle)
  /\ \A n \in DOMAIN cut : \A k \in 1 .. 3 : cut[n][k] \in ToSet(loop)
  /\ \A x, y : <<x, y>> \in RunsOf(cut) =>
       x # y /\ (<<x, y>> \in Pairs(loop) \/ <<y, x>> \in RunsOf(cut))
  /\ cut # <<>> => \A x, y : <<x, y>> \in Pairs(loop) => <<x, y>> \in RunsOf(cut)
LEMMA NoTriangleCloses == ASSUME NEW loop PROVE ClosesLoop(<<>>, loop)
<1>1. DOMAIN <<>> = {} /\ <<>> \in Seq(Triangle)
  OBVIOUS
<1>2. \A e : e \notin RunsOf(<<>>)
  BY <1>1, RunsAre
<1> QED BY <1>1, <1>2 DEF ClosesLoop

(* A walk of three is a triangle.                                          *)
LEMMA LastThree ==
  ASSUME NEW s \in Seq(Nat), Len(s) = 3, NoneAgain(s)
  PROVE  /\ s \in Triangle /\ Pairs(s) = SidesOf(s) /\ \A k \in 1 .. 3 : s[k] \in ToSet(s)
         /\ s[1] # s[2] /\ s[2] # s[3] /\ s[3] # s[1]
<1>1. DOMAIN s = 1 .. 3 /\ 1 .. 3 = {1, 2, 3} /\ s \in [1 .. 3 -> Nat]
  BY LenProperties
<1>2. Succ(s, 1) = 2 /\ Succ(s, 2) = 3 /\ Succ(s, 3) = 1
  BY DEF Succ
<1>3. Pairs(s) = SidesOf(s)
  <2>1. Pairs(s) = {<<s[k], s[Succ(s, k)]>> : k \in {1, 2, 3}}
    BY <1>1 DEF Pairs
  <2> QED BY <1>2, <2>1 DEF SidesOf
<1> QED BY <1>1, <1>3 DEF Triangle, ToSet, NoneAgain

(* The rest of the walk after each cut.                                    *)
Cuts(m, loop, sign, rest) ==
  /\ \A n \in 0 .. Len(loop) - 3 : rest[n] \in Seq(Nat)
  /\ rest[0] = loop
  /\ \A n \in 1 .. Len(loop) - 3 :
       LET ears == Ears(m, rest[n - 1], sign) IN
       rest[n] = IF ears = {} THEN rest[n - 1] ELSE RemoveAt(rest[n - 1], First(ears))
  /\ Clipped(m, loop, sign) =
       IF \E n \in 0 .. Len(loop) - 3 - 1 : Ears(m, rest[n], sign) = {} THEN <<>>
       ELSE Append([n \in 1 .. Len(loop) - 3 |->
                      Ear(rest[n - 1], First(Ears(m, rest[n - 1], sign)))], rest[Len(loop) - 3])
LEMMA FirstEar ==
  ASSUME NEW m, NEW s \in Seq(Nat), NEW sign, Ears(m, s, sign) # {}
  PROVE  First(Ears(m, s, sign)) \in 1 .. Len(s) /\ First(Ears(m, s, sign)) \in Ears(m, s, sign)
<1>1. DOMAIN s = 1 .. Len(s) /\ Len(s) \in Nat
  BY LenProperties
<1>2. Ears(m, s, sign) \subseteq 1 .. Len(s)
  BY <1>1 DEF Ears
<1>3. Ears(m, s, sign) \subseteq Nat
  BY <1>1, <1>2
<1> QED BY <1>2, <1>3, FirstIsLeast

LEMMA CutsAre ==
  ASSUME NEW m, NEW loop \in Seq(Nat), Len(loop) >= 3, NEW sign
  PROVE  \E rest : Cuts(m, loop, sign, rest)
<1> DEFINE cuts == Len(loop) - 3
           after(s) == IF Ears(m, s, sign) = {} THEN s ELSE RemoveAt(s, First(Ears(m, s, sign)))
           step == [x \in Seq(Nat) \X (1 .. cuts) |-> after(x[1])]
           rest[n \in 0 .. cuts] ==
             IF n = 0 THEN loop
             ELSE LET s == rest[n - 1]
                      ears == Ears(m, s, sign)
                  IN  IF ears = {} THEN s ELSE RemoveAt(s, First(ears))
<1>1. cuts \in Nat
  BY LenProperties
<1>2. \A s \in Seq(Nat) : after(s) \in Seq(Nat)
  BY FirstEar, RemovedAt
<1>3. step \in [Seq(Nat) \X (1 .. cuts) -> Seq(Nat)]
  <2> HIDE DEF after, cuts
  <2> QED BY <1>2
<1>4. PICK f : Solves(f, Seq(Nat), loop, cuts, step)
  <2> HIDE DEF step, cuts, rest
  <2> QED BY <1>1, <1>3, Recursion
<1>5. \A n \in 1 .. cuts : f[n] = after(f[n - 1])
  <2> TAKE n \in 1 .. cuts
  <2>1. f[n - 1] \in Seq(Nat)
    <3> HIDE DEF step, cuts, rest, after
    <3>1. n - 1 \in 0 .. cuts
      BY <1>1
    <3> QED BY <1>4, <3>1 DEF Solves
  <2>2. step[<<f[n - 1], n>>] = after(f[n - 1])
    <3> HIDE DEF after, cuts
    <3> QED BY <2>1
  <2> QED BY <1>4, <2>2 DEF Solves
<1>6. f = [n \in 0 .. cuts |->
             IF n = 0 THEN loop
             ELSE LET s == f[n - 1]
                      ears == Ears(m, s, sign)
                  IN  IF ears = {} THEN s ELSE RemoveAt(s, First(ears))]
  <2>1. \A n \in 0 .. cuts : f[n] = 
             IF n = 0 THEN loop
             ELSE LET s == f[n - 1]
                      ears == Ears(m, s, sign)
                  IN  IF ears = {} THEN s ELSE RemoveAt(s, First(ears))
    <3> HIDE DEF cuts, step, rest
    <3> TAKE n \in 0 .. cuts
    <3>1. CASE n = 0
      BY <1>4, <3>1 DEF Solves
    <3>2. CASE n # 0
      <4>1. n \in 1 .. cuts
        BY <1>1, <3>2
      <4>2. f[n] = after(f[n - 1])
        BY <1>5, <4>1
      <4> QED BY <3>2, <4>2
    <3> QED BY <3>1, <3>2
  <2>2. DOMAIN f = 0 .. cuts /\ f = [n \in DOMAIN f |-> f[n]]
    <3> HIDE DEF cuts, step, rest
    <3> QED BY <1>4 DEF Solves
  <2> HIDE DEF cuts
  <2> QED BY <2>1, <2>2
<1>7. rest = [n \in 0 .. cuts |->
                IF n = 0 THEN loop
                ELSE LET s == rest[n - 1]
                         ears == Ears(m, s, sign)
                     IN  IF ears = {} THEN s ELSE RemoveAt(s, First(ears))]
  <2> HIDE DEF cuts, step, after
  <2> QED BY <1>6
<1>8. Clipped(m, loop, sign) =
        IF \E n \in 0 .. cuts - 1 : Ears(m, rest[n], sign) = {} THEN <<>>
        ELSE Append([n \in 1 .. cuts |-> Ear(rest[n - 1], First(Ears(m, rest[n - 1], sign)))],
                    rest[cuts])
  BY DEF Clipped
<1> HIDE DEF rest, step
<1>9. rest[0] = loop
  <2> HIDE DEF cuts
  <2> QED BY <1>1, <1>7
<1>10. \A n \in 1 .. cuts : rest[n] = after(rest[n - 1])
  <2> HIDE DEF cuts
  <2> TAKE n \in 1 .. cuts
  <2>1. n \in 0 .. cuts /\ n # 0
    BY <1>1
  <2> QED BY <1>7, <2>1
<1>11. \A n \in 0 .. cuts : rest[n] \in Seq(Nat)
  <2> DEFINE T == {n \in 0 .. cuts : rest[n] \in Seq(Nat)}
  <2> HIDE DEF cuts, after
  <2>1. 0 \in T
    BY <1>1, <1>9
  <2>2. \A n \in 0 .. cuts : n \in T /\ n < cuts => n + 1 \in T
    <3> SUFFICES ASSUME NEW n \in 0 .. cuts, n \in T, n < cuts PROVE n + 1 \in T
      OBVIOUS
    <3>1. n + 1 \in 1 .. cuts /\ (n + 1) - 1 = n /\ n + 1 \in 0 .. cuts
      BY <1>1
    <3>2. rest[n + 1] = after(rest[n])
      BY <1>10, <3>1
    <3> QED BY <1>2, <3>1, <3>2
  <2>3. 0 .. cuts \subseteq T
    <3> HIDE DEF T
    <3> QED BY <1>1, <2>1, <2>2, InductionUpTo
  <2> QED BY <2>3
<1> QED BY <1>8, <1>9, <1>10, <1>11 DEF Cuts

(* Cutting ears closes a loop or gives it up.                              *)
LEMMA ClippedCloses ==
  ASSUME NEW m, NEW loop \in Seq(Nat), NoneAgain(loop), Len(loop) >= 3, NEW sign
  PROVE  ClosesLoop(Clipped(m, loop, sign), loop)
<1> DEFINE cuts == Len(loop) - 3
           L == Pairs(loop)
<1>1. cuts \in Nat /\ Len(loop) = cuts + 3
  BY LenProperties
<1>2. PICK rest : Cuts(m, loop, sign, rest)
  BY CutsAre
<1> DEFINE ears(n) == Ears(m, rest[n], sign)
           ear(n) == Ear(rest[n - 1], First(ears(n - 1)))
<1>3. /\ \A n \in 0 .. cuts : rest[n] \in Seq(Nat)
      /\ rest[0] = loop
      /\ \A n \in 1 .. cuts :
           rest[n] = IF ears(n - 1) = {} THEN rest[n - 1] ELSE RemoveAt(rest[n - 1], First(ears(n - 1)))
      /\ Clipped(m, loop, sign) =
           IF \E n \in 0 .. cuts - 1 : ears(n) = {} THEN <<>>
           ELSE Append([n \in 1 .. cuts |-> ear(n)], rest[cuts])
  BY <1>2 DEF Cuts
<1> HIDE DEF cuts
<1>4. CASE \E n \in 0 .. cuts - 1 : ears(n) = {}
  BY <1>3, <1>4, NoTriangleCloses
<1>5. CASE ~\E n \in 0 .. cuts - 1 : ears(n) = {}
  <2> DEFINE E(n) == UNION {SidesOf(ear(k)) : k \in 1 .. n}
             Good(n) == /\ Len(rest[n]) = Len(loop) - n /\ NoneAgain(rest[n])
                        /\ ToSet(rest[n]) \subseteq ToSet(loop)
                        /\ Closing(L, E(n), Pairs(rest[n]))
             T == {n \in 0 .. cuts : Good(n)}
  <2>1. \A n \in 0 .. cuts - 1 : /\ First(ears(n)) \in 1 .. Len(rest[n])
                                 /\ rest[n + 1] = RemoveAt(rest[n], First(ears(n)))
                                 /\ ear(n + 1) = Ear(rest[n], First(ears(n)))
                                 /\ n + 1 \in 1 .. cuts /\ n \in 0 .. cuts
    <3> TAKE n \in 0 .. cuts - 1
    <3>1. n + 1 \in 1 .. cuts /\ n \in 0 .. cuts /\ (n + 1) - 1 = n
      BY <1>1
    <3>2. ears(n) # {} /\ rest[n] \in Seq(Nat)
      BY <1>3, <1>5, <3>1
    <3>3. First(ears(n)) \in 1 .. Len(rest[n])
      BY <3>2, FirstEar
    <3>4. rest[n + 1] = RemoveAt(rest[n], First(ears(n)))
      <4> HIDE DEF ears, cuts
      <4> QED BY <1>3, <3>1, <3>2
    <3> QED BY <3>1, <3>3, <3>4
  <2>2. \A n \in 0 .. cuts - 1 : n \in T => EarIsCut(rest[n], ear(n + 1), rest[n + 1])
    <3> SUFFICES ASSUME NEW n \in 0 .. cuts - 1, n \in T
                 PROVE  EarIsCut(rest[n], ear(n + 1), rest[n + 1])
      OBVIOUS
    <3>1. rest[n] \in Seq(Nat) /\ NoneAgain(rest[n])
      BY <1>3, <2>1
    <3>2. Len(rest[n]) > 3
      <4>1. Len(rest[n]) = Len(loop) - n
        OBVIOUS
      <4> HIDE DEF T
      <4> QED BY <1>1, <4>1
    <3>3. First(ears(n)) \in DOMAIN rest[n]
      BY <2>1, <3>1, LenProperties
    <3> HIDE DEF ears, ear
    <3>4. EarIsCut(rest[n], Ear(rest[n], First(ears(n))), RemoveAt(rest[n], First(ears(n))))
      BY <3>1, <3>2, <3>3, CutEar
    <3> QED BY <2>1, <3>4
  <2>3. 0 \in T
    <3>1. 1 .. 0 = {}
      OBVIOUS
    <3>2. E(0) = {}
      BY <3>1
    <3>3. Closing(L, E(0), Pairs(rest[0]))
      BY <1>3, <3>2 DEF Closing
    <3> HIDE DEF E, L
    <3> QED BY <1>1, <1>3, <3>3
  <2>4. \A n \in 0 .. cuts : n \in T /\ n < cuts => n + 1 \in T
    <3> SUFFICES ASSUME NEW n \in 0 .. cuts, n \in T, n < cuts PROVE n + 1 \in T
      OBVIOUS
    <3>1. n \in 0 .. cuts - 1 /\ n + 1 \in 0 .. cuts /\ n + 1 \in Nat
      <4> HIDE DEF T
      <4> QED BY <1>1
    <3>2. EarIsCut(rest[n], ear(n + 1), rest[n + 1])
      <4> HIDE DEF T, ear
      <4> QED BY <2>2, <3>1
    <3>3. E(n + 1) = E(n) \cup SidesOf(ear(n + 1))
      <4>1. 1 .. n + 1 = (1 .. n) \cup {n + 1}
        <5> HIDE DEF T
        <5> QED BY <3>1
      <4> HIDE DEF ear
      <4> QED BY <4>1
    <3>4. Closing(L, E(n), Pairs(rest[n])) /\ Len(rest[n]) = Len(loop) - n
          /\ ToSet(rest[n]) \subseteq ToSet(loop)
      OBVIOUS
    <3>5. Closing(L, E(n + 1), Pairs(rest[n + 1]))
      <4> DEFINE a == ear(n + 1)[1]
                 b == ear(n + 1)[2]
                 c == ear(n + 1)[3]
                 P == Pairs(rest[n])
                 Q == Pairs(rest[n + 1])
                 F == E(n + 1)
                 G == E(n)
      <4>1. F = G \cup {<<a, b>>, <<b, c>>, <<c, a>>}
        BY <3>3 DEF SidesOf
      <4>2. <<a, b>> \in P /\ <<b, c>> \in P /\ <<a, c>> \in Q
            /\ P \subseteq Q \cup {<<a, b>>, <<b, c>>} /\ Q \subseteq P \cup {<<a, c>>}
        <5> HIDE DEF ear
        <5> QED BY <3>2 DEF EarIsCut
      <4>3. Closing(L, G, P)
        BY <3>4
      <4> HIDE DEF a, b, c, P, Q, F, G, L, T, E, ear, ears
      <4>4. Closing(L, F, Q)
        BY <4>1, <4>2, <4>3, ClosingGoesOn
      <4> QED BY <4>4 DEF F, Q
    <3>6. Len(rest[n + 1]) = Len(loop) - (n + 1) /\ NoneAgain(rest[n + 1])
          /\ ToSet(rest[n + 1]) \subseteq ToSet(loop)
      <4> HIDE DEF ear, E, T
      <4> QED BY <1>1, <3>1, <3>2, <3>4 DEF EarIsCut
    <3> HIDE DEF E, L
    <3> QED BY <3>1, <3>5, <3>6
  <2>5. 0 .. cuts \subseteq T
    <3> HIDE DEF T, cuts
    <3> QED BY <1>1, <2>3, <2>4, InductionUpTo
  <2>6. cuts \in T
    <3> HIDE DEF T
    <3> QED BY <1>1, <2>5
  <2> DEFINE s == rest[cuts]
             F == [n \in 1 .. cuts |-> ear(n)]
             cut == Append(F, s)
  <2>7. /\ s \in Triangle /\ Pairs(s) = SidesOf(s) /\ \A k \in 1 .. 3 : s[k] \in ToSet(loop)
        /\ s[1] # s[2] /\ s[2] # s[3] /\ s[3] # s[1]
    <3>1. s \in Seq(Nat) /\ Len(s) = 3 /\ NoneAgain(s) /\ ToSet(s) \subseteq ToSet(loop)
      <4>1. Len(s) = Len(loop) - cuts /\ NoneAgain(s) /\ ToSet(s) \subseteq ToSet(loop)
        BY <2>6
      <4>2. cuts \in 0 .. cuts
        BY <1>1
      <4> HIDE DEF T
      <4> QED BY <1>1, <1>3, <4>1, <4>2
    <3> HIDE DEF s
    <3> QED BY <3>1, LastThree
  <2>8. Closing(L, E(cuts), Pairs(s))
    BY <2>6
  <2>9. \A n \in 1 .. cuts : /\ ear(n) \in Triangle /\ \A k \in 1 .. 3 : ear(n)[k] \in ToSet(loop)
                             /\ ear(n)[1] # ear(n)[2] /\ ear(n)[2] # ear(n)[3] /\ ear(n)[3] # ear(n)[1]
    <3> TAKE n \in 1 .. cuts
    <3>1. n - 1 \in 0 .. cuts - 1 /\ (n - 1) + 1 = n /\ n - 1 \in 0 .. cuts
      BY <1>1
    <3>2. n - 1 \in T
      BY <2>5, <3>1
    <3>3. ToSet(rest[n - 1]) \subseteq ToSet(loop)
      BY <3>2
    <3> HIDE DEF T, ear
    <3>4. EarIsCut(rest[n - 1], ear((n - 1) + 1), rest[(n - 1) + 1])
      BY <2>2, <3>1, <3>2
    <3>5. EarIsCut(rest[n - 1], ear(n), rest[n])
      BY <3>1, <3>4
    <3> QED BY <3>3, <3>5 DEF EarIsCut
  <2> HIDE DEF ear
  <2>10. F \in Seq(Triangle) /\ Len(F) = cuts /\ DOMAIN F = 1 .. cuts
    <3>1. F \in [1 .. cuts -> Triangle]
      BY <2>9
    <3> HIDE DEF F, cuts
    <3> QED BY <1>1, <3>1, AreSequences
  <2>11. /\ cut \in Seq(Triangle) /\ Len(cut) = cuts + 1 /\ cut # <<>> /\ DOMAIN cut = 1 .. cuts + 1
         /\ \A n \in 1 .. cuts : cut[n] = ear(n)
         /\ cut[cuts + 1] = s
    <3>1. \A n \in 1 .. cuts : F[n] = ear(n)
      OBVIOUS
    <3> HIDE DEF F, s, cuts
    <3>2. /\ cut \in Seq(Triangle) /\ Len(cut) = cuts + 1 /\ cut # <<>>
          /\ (\A n \in 1 .. cuts : cut[n] = F[n]) /\ cut[cuts + 1] = s
      BY <2>7, <2>10, AppendProperties
    <3> HIDE DEF cut
    <3> QED BY <3>1, <3>2, LenProperties
  <2>12. \A n \in 1 .. cuts + 1 : n \in 1 .. cuts \/ n = cuts + 1
    <3> HIDE DEF cut, F, s, T, E
    <3> QED BY <1>1
  <2>13. cuts + 1 \in 1 .. cuts + 1 /\ 1 .. cuts \subseteq 1 .. cuts + 1
    <3> HIDE DEF cut, F, s, T, E
    <3> QED BY <1>1
  <2>14. Clipped(m, loop, sign) = cut
    BY <1>3, <1>5
  <2> HIDE DEF F, cut, s, cuts, T
  <2>15. \A e : e \in RunsOf(cut) <=> e \in E(cuts) \/ e \in SidesOf(s)
    <3>1. \A e : e \in RunsOf(cut) <=> \E n \in 1 .. cuts + 1 : e \in SidesOf(cut[n])
      BY <2>11, RunsAre
    <3>2. \A e : e \in E(cuts) <=> \E n \in 1 .. cuts : e \in SidesOf(ear(n))
      OBVIOUS
    <3> HIDE DEF E
    <3>3. ASSUME NEW e, e \in RunsOf(cut) PROVE e \in E(cuts) \/ e \in SidesOf(s)
      BY <2>11, <2>12, <3>1, <3>2, <3>3
    <3>4. ASSUME NEW e, e \in E(cuts) PROVE e \in RunsOf(cut)
      BY <2>11, <2>13, <3>1, <3>2, <3>4
    <3>5. ASSUME NEW e, e \in SidesOf(s) PROVE e \in RunsOf(cut)
      BY <2>11, <2>13, <3>1, <3>5
    <3> QED BY <3>3, <3>4, <3>5
  <2>16. \A n \in DOMAIN cut : \A k \in 1 .. 3 : cut[n][k] \in ToSet(loop)
    BY <2>7, <2>9, <2>11, <2>12
  <2>17. \A x, y : <<x, y>> \in RunsOf(cut) => x # y
    <3>1. \A n \in DOMAIN cut : cut[n][1] # cut[n][2] /\ cut[n][2] # cut[n][3] /\ cut[n][3] # cut[n][1]
      BY <2>7, <2>9, <2>11, <2>12
    <3> SUFFICES ASSUME NEW x, NEW y, <<x, y>> \in RunsOf(cut) PROVE x # y
      OBVIOUS
    <3>2. PICK n \in DOMAIN cut : <<x, y>> \in SidesOf(cut[n])
      BY RunsAre
    <3> QED BY <3>1, <3>2 DEF SidesOf
  <2> HIDE DEF E, L
  <2>18. /\ \A x, y : <<x, y>> \in L => <<x, y>> \in RunsOf(cut)
         /\ \A x, y : <<x, y>> \in RunsOf(cut) => <<x, y>> \in L \/ <<y, x>> \in RunsOf(cut)
    BY <2>7, <2>8, <2>15 DEF Closing
  <2>19. ClosesLoop(cut, loop)
    BY <2>11, <2>16, <2>17, <2>18 DEF ClosesLoop, L
  <2> QED BY <2>14, <2>19
<1> QED BY <1>4, <1>5

-----------------------------------------------------------------------------
(* The order of the loops, and the triangles of all of them.               *)

(* Sequences of numbers are ordered by the first place at which they       *)
(* differ.                                                                 *)
LEMMA BeforeIsOrder ==
  /\ \A s \in Seq(Nat) : ~SeqBefore(s, s)
  /\ \A s, t, u \in Seq(Nat) : SeqBefore(s, t) /\ SeqBefore(t, u) => SeqBefore(s, u)
  /\ \A s, t \in Seq(Nat) : s = t \/ SeqBefore(s, t) \/ SeqBefore(t, s)
<1>0. \A s \in Seq(Nat) : Len(s) \in Nat /\ \A i \in 1 .. Len(s) : s[i] \in Nat
  BY LenProperties, ElementOfSeq
<1>1. ASSUME NEW s \in Seq(Nat), SeqBefore(s, s) PROVE FALSE
  <2>1. PICK n \in 0 .. Len(s) : n < Len(s) /\ (n = Len(s) \/ s[n + 1] < s[n + 1])
    BY <1>1 DEF SeqBefore
  <2>2. n + 1 \in 1 .. Len(s)
    BY <1>0, <2>1
  <2>3. s[n + 1] \in Nat
    BY <1>0, <2>2
  <2> QED BY <1>0, <2>1, <2>3
<1>2. ASSUME NEW s \in Seq(Nat), NEW t \in Seq(Nat), NEW u \in Seq(Nat), SeqBefore(s, t),
      SeqBefore(t, u)
      PROVE  SeqBefore(s, u)
  <2>1. PICK a \in 0 .. Len(s) : a < Len(t) /\ (\A i \in 1 .. a : s[i] = t[i])
                                 /\ (a = Len(s) \/ s[a + 1] < t[a + 1])
    BY <1>2 DEF SeqBefore
  <2>2. PICK c \in 0 .. Len(t) : c < Len(u) /\ (\A i \in 1 .. c : t[i] = u[i])
                                 /\ (c = Len(t) \/ t[c + 1] < u[c + 1])
    BY <1>2 DEF SeqBefore
  <2>3. Len(s) \in Nat /\ Len(t) \in Nat /\ Len(u) \in Nat
    BY <1>0
  <2>4. CASE c < a
    <3>1. c \in 0 .. Len(s) /\ c + 1 \in 1 .. a /\ c # Len(t) /\ c # Len(s)
          /\ \A i \in 1 .. c : i \in 1 .. a
      BY <2>1, <2>2, <2>3, <2>4
    <3>2. \A i \in 1 .. c : s[i] = u[i]
      BY <2>1, <2>2, <3>1
    <3>3. s[c + 1] < u[c + 1]
      BY <2>1, <2>2, <3>1
    <3> QED BY <2>2, <3>1, <3>2, <3>3 DEF SeqBefore
  <2>5. CASE c = a
    <3>1. c # Len(t)
      BY <2>1, <2>3, <2>5
    <3>2. \A i \in 1 .. a : s[i] = u[i]
      BY <2>1, <2>2, <2>5
    <3>3. a = Len(s) \/ s[a + 1] < u[a + 1]
      <4> SUFFICES ASSUME a # Len(s) PROVE s[a + 1] < u[a + 1]
        OBVIOUS
      <4>1. a + 1 \in 1 .. Len(s) /\ a + 1 \in 1 .. Len(t) /\ a + 1 \in 1 .. Len(u)
        BY <2>1, <2>2, <2>3, <2>5
      <4>2. s[a + 1] \in Nat /\ t[a + 1] \in Nat /\ u[a + 1] \in Nat
        BY <1>0, <4>1
      <4>3. s[a + 1] < t[a + 1] /\ t[a + 1] < u[a + 1]
        BY <2>1, <2>2, <2>5, <3>1
      <4> QED BY <4>2, <4>3
    <3> QED BY <2>2, <2>5, <3>2, <3>3 DEF SeqBefore
  <2>6. CASE c > a
    <3>1. a + 1 \in 1 .. c /\ a < Len(u) /\ \A i \in 1 .. a : i \in 1 .. c
      BY <2>1, <2>2, <2>3, <2>6
    <3>2. \A i \in 1 .. a : s[i] = u[i]
      BY <2>1, <2>2, <3>1
    <3>3. a = Len(s) \/ s[a + 1] < u[a + 1]
      BY <2>1, <2>2, <3>1
    <3> QED BY <3>1, <3>2, <3>3 DEF SeqBefore
  <2> QED BY <2>3, <2>4, <2>5, <2>6
<1>3. ASSUME NEW s \in Seq(Nat), NEW t \in Seq(Nat), s # t PROVE SeqBefore(s, t) \/ SeqBefore(t, s)
  <2> DEFINE T == {n \in Nat : (n < Len(s) \/ n < Len(t)) /\
                               (n >= Len(s) \/ n >= Len(t) \/ s[n + 1] # t[n + 1])}
  <2>1. Len(s) \in Nat /\ Len(t) \in Nat
    BY <1>0
  <2>2. T # {}
    <3>1. CASE Len(s) # Len(t)
      <4>1. Len(s) \in T \/ Len(t) \in T
        BY <2>1, <3>1
      <4> QED BY <4>1
    <3>2. CASE Len(s) = Len(t)
      <4>1. PICK i \in 1 .. Len(s) : s[i] # t[i]
        BY <1>3, <3>2, SeqEqual
      <4>2. i - 1 \in Nat /\ i - 1 < Len(s) /\ (i - 1) + 1 = i
        BY <2>1
      <4>3. i - 1 \in T
        BY <4>1, <4>2
      <4> QED BY <4>3
    <3> QED BY <3>1, <3>2
  <2>3. PICK n \in T : \A k \in T : n <= k
    <3>1. T \subseteq Nat OBVIOUS
    <3> HIDE DEF T
    <3> QED BY <2>2, <3>1, Least
  <2>4. n \in Nat /\ (n < Len(s) \/ n < Len(t)) /\ (n >= Len(s) \/ n >= Len(t) \/ s[n + 1] # t[n + 1])
    BY <2>3
  <2>5. \A i \in 1 .. n : i <= Len(s) /\ i <= Len(t) /\ s[i] = t[i]
    <3> TAKE i \in 1 .. n
    <3>1. i - 1 \in Nat /\ ~(n <= i - 1) /\ (i - 1) + 1 = i /\ (i - 1 < Len(s) \/ i - 1 < Len(t))
      BY <2>1, <2>4
    <3>2. i - 1 \notin T
      <4> HIDE DEF T
      <4> QED BY <2>3, <3>1
    <3>3. i - 1 < Len(s) /\ i - 1 < Len(t) /\ s[i] = t[i]
      BY <2>1, <3>1, <3>2
    <3> QED BY <2>1, <3>3
  <2>6. n \in 0 .. Len(s) /\ n \in 0 .. Len(t)
    <3>1. n = 0 \/ n \in 1 .. n
      BY <2>4
    <3> HIDE DEF T
    <3>2. CASE n = 0
      BY <2>1, <3>2
    <3>3. CASE n \in 1 .. n
      BY <2>1, <2>4, <2>5, <3>3
    <3> QED BY <3>1, <3>2, <3>3
  <2> HIDE DEF T
  <2>7. CASE n = Len(s)
    <3>1. n < Len(t)
      BY <2>1, <2>4, <2>7
    <3> QED BY <2>5, <2>6, <2>7, <3>1 DEF SeqBefore
  <2>8. CASE n = Len(t)
    <3>1. n < Len(s)
      BY <2>1, <2>4, <2>8
    <3> QED BY <2>5, <2>6, <2>8, <3>1 DEF SeqBefore
  <2>9. CASE n # Len(s) /\ n # Len(t)
    <3>1. n < Len(s) /\ n < Len(t) /\ n + 1 \in 1 .. Len(s) /\ n + 1 \in 1 .. Len(t)
      BY <2>1, <2>6, <2>9
    <3>2. s[n + 1] # t[n + 1] /\ s[n + 1] \in Nat /\ t[n + 1] \in Nat
      BY <1>0, <2>1, <2>4, <3>1
    <3>3. s[n + 1] < t[n + 1] \/ t[n + 1] < s[n + 1]
      BY <3>2
    <3> QED BY <2>5, <2>6, <3>1, <3>3 DEF SeqBefore
  <2> QED BY <2>7, <2>8, <2>9
<1> QED BY <1>1, <1>2, <1>3

(* The loops in their order.                                               *)
LEMMA LoopsInOrder ==
  ASSUME NEW S, S \subseteq Seq(Nat), IsFiniteSet(S), NEW at, NEW below,
         \A x \in S : below[x] = {y \in S : SeqBefore(y, x)}, at = InOrder(S, below)
  PROVE  /\ at \in Seq(S) /\ \A i \in DOMAIN at : at[i] \in S
         /\ \A x \in S : \E i \in DOMAIN at : at[i] = x
<1> DEFINE R == {p \in S \X S : SeqBefore(p[1], p[2])}
<1>1. \A x, y \in S : <<x, y>> \in R <=> SeqBefore(x, y)
  <2> SUFFICES ASSUME NEW x \in S, NEW y \in S PROVE <<x, y>> \in R <=> SeqBefore(x, y)
    OBVIOUS
  <2>1. <<x, y>> \in S \X S /\ <<x, y>>[1] = x /\ <<x, y>>[2] = y
    OBVIOUS
  <2> QED BY <2>1
<1>2. \A x \in S : Lower(R, S, x) = {y \in S : SeqBefore(y, x)}
  <2> HIDE DEF R
  <2> QED BY <1>1 DEF Lower
<1>3. \A x \in S : below[x] = Lower(R, S, x)
  <2> HIDE DEF R
  <2> QED BY <1>2
<1>4. TotalOrder(R, S)
  <2> HIDE DEF R
  <2>1. \A x, y, z \in S : x \in Seq(Nat) /\ y \in Seq(Nat) /\ z \in Seq(Nat)
    OBVIOUS
  <2>2. /\ \A x \in S : ~SeqBefore(x, x)
        /\ \A x, y, z \in S : SeqBefore(x, y) /\ SeqBefore(y, z) => SeqBefore(x, z)
        /\ \A x, y \in S : x = y \/ SeqBefore(x, y) \/ SeqBefore(y, x)
    BY <2>1, BeforeIsOrder
  <2> QED BY <1>1, <2>2 DEF TotalOrder, StrictOrder
<1> HIDE DEF R
<1>6. Enumerates(at, S, R)
  BY <1>3, <1>4, Enumerated
<1>7. /\ Cardinality(S) \in Nat
      /\ at \in [1 .. Cardinality(S) -> S]
      /\ \A x \in S : \E i \in 1 .. Cardinality(S) : at[i] = x
  BY <1>6 DEF Enumerates
<1>8. at \in Seq(S) /\ DOMAIN at = 1 .. Cardinality(S)
  BY <1>7, AreSequences
<1> QED BY <1>7, <1>8

(* Sequences put together have the items of each.                          *)
Together(flat, S, seqs) ==
  /\ flat \in Seq(S)
  /\ \A x : (\E j \in DOMAIN flat : flat[j] = x) <=>
            (\E i \in DOMAIN seqs : \E k \in DOMAIN seqs[i] : seqs[i][k] = x)
HasItemsOf(u, s, t) ==
  \A x : (\E j \in DOMAIN u : u[j] = x) <=>
         ((\E j \in DOMAIN s : s[j] = x) \/ (\E j \in DOMAIN t : t[j] = x))
LEMMA Concatenated ==
  ASSUME NEW S, NEW s \in Seq(S), NEW t \in Seq(S)
  PROVE  HasItemsOf(s \o t, s, t)
<1> DEFINE u == s \o t
<1>1. /\ u \in Seq(S) /\ Len(u) = Len(s) + Len(t) /\ Len(s) \in Nat /\ Len(t) \in Nat
      /\ DOMAIN u = 1 .. Len(s) + Len(t) /\ DOMAIN s = 1 .. Len(s) /\ DOMAIN t = 1 .. Len(t)
      /\ \A i \in 1 .. Len(s) + Len(t) : u[i] = IF i <= Len(s) THEN s[i] ELSE t[i - Len(s)]
  <2>1. u \in Seq(S) /\ Len(u) = Len(s) + Len(t)
        /\ \A i \in 1 .. Len(s) + Len(t) : u[i] = IF i <= Len(s) THEN s[i] ELSE t[i - Len(s)]
    BY ConcatProperties
  <2> HIDE DEF u
  <2> QED BY <2>1, LenProperties
<1> HIDE DEF u
<1>2. ASSUME NEW i \in DOMAIN u
      PROVE  (\E j \in DOMAIN s : s[j] = u[i]) \/ (\E j \in DOMAIN t : t[j] = u[i])
  <2>1. CASE i <= Len(s)
    BY <1>1, <2>1
  <2>2. CASE ~(i <= Len(s))
    <3>1. i - Len(s) \in 1 .. Len(t)
      BY <1>1, <2>2
    <3> QED BY <1>1, <2>2, <3>1
  <2> QED BY <2>1, <2>2
<1>3. ASSUME NEW j \in DOMAIN s PROVE \E i \in DOMAIN u : u[i] = s[j]
  <2>1. j \in 1 .. Len(s) + Len(t) /\ j <= Len(s)
    BY <1>1
  <2> QED BY <1>1, <2>1
<1>4. ASSUME NEW j \in DOMAIN t PROVE \E i \in DOMAIN u : u[i] = t[j]
  <2>1. j + Len(s) \in 1 .. Len(s) + Len(t) /\ ~(j + Len(s) <= Len(s)) /\ (j + Len(s)) - Len(s) = j
    BY <1>1
  <2> QED BY <1>1, <2>1
<1> QED BY <1>2, <1>3, <1>4 DEF u, HasItemsOf

LEMMA Flattened ==
  ASSUME NEW S, NEW seqs \in Seq(Seq(S))
  PROVE  Together(FlattenSeq(seqs), S, seqs)
<1> DEFINE N == Len(seqs)
<1>1. N \in Nat /\ DOMAIN seqs = 1 .. N /\ \A i \in 1 .. N : seqs[i] \in Seq(S)
  BY LenProperties, ElementOfSeq
<1>2. CASE N = 0
  <2>1. seqs = <<>> /\ FlattenSeq(seqs) = seqs
    BY <1>2, EmptySeq DEF FlattenSeq
  <2>2. DOMAIN <<>> = {} /\ <<>> \in Seq(S)
    OBVIOUS
  <2> QED BY <2>1, <2>2 DEF Together
<1>3. CASE N # 0
  <2> DEFINE M == N - 1
             step == [x \in Seq(S) \X (1 .. M) |-> x[1] \o seqs[x[2] + 1]]
             flatten[i \in 1 .. N] == IF i = 1 THEN seqs[i] ELSE flatten[i - 1] \o seqs[i]
  <2>1. M \in Nat /\ N = M + 1 /\ 1 \in 1 .. N
    BY <1>1, <1>3
  <2>2. step \in [Seq(S) \X (1 .. M) -> Seq(S)]
    <3> SUFFICES ASSUME NEW x \in Seq(S) \X (1 .. M) PROVE x[1] \o seqs[x[2] + 1] \in Seq(S)
      OBVIOUS
    <3>1. x[1] \in Seq(S) /\ x[2] + 1 \in 1 .. N
      BY <2>1
    <3>2. seqs[x[2] + 1] \in Seq(S)
      BY <1>1, <3>1
    <3> QED BY <3>1, <3>2, ConcatProperties
  <2>3. PICK f : Solves(f, Seq(S), seqs[1], M, step)
    <3>1. seqs[1] \in Seq(S)
      BY <1>1, <2>1
    <3> HIDE DEF step, M, flatten
    <3> QED BY <2>1, <2>2, <3>1, Recursion
  <2> DEFINE F == [i \in 1 .. N |-> f[i - 1]]
  <2>4. F = [i \in 1 .. N |-> IF i = 1 THEN seqs[i] ELSE F[i - 1] \o seqs[i]]
    <3> SUFFICES ASSUME NEW i \in 1 .. N
                 PROVE  f[i - 1] = IF i = 1 THEN seqs[i] ELSE F[i - 1] \o seqs[i]
      OBVIOUS
    <3>1. CASE i = 1
      <4>1. i - 1 = 0
        BY <3>1
      <4> HIDE DEF step, M, F
      <4> QED BY <2>3, <3>1, <4>1 DEF Solves
    <3>2. CASE i # 1
      <4>1. i - 1 \in 1 .. M /\ i - 1 \in 1 .. N /\ (i - 1) - 1 \in 0 .. M /\ (i - 1) + 1 = i
        BY <2>1, <3>2
      <4>2. F[i - 1] = f[(i - 1) - 1]
        <5> HIDE DEF M
        <5> QED BY <4>1
      <4> HIDE DEF F, M
      <4>3. f[(i - 1) - 1] \in Seq(S)
        <5> HIDE DEF step
        <5> QED BY <2>3, <4>1 DEF Solves
      <4>4. step[<<f[(i - 1) - 1], i - 1>>] = f[(i - 1) - 1] \o seqs[i]
        BY <4>1, <4>3
      <4> HIDE DEF step
      <4>5. f[i - 1] = step[<<f[(i - 1) - 1], i - 1>>]
        BY <2>3, <4>1 DEF Solves
      <4> QED BY <3>2, <4>2, <4>4, <4>5
    <3> QED BY <3>1, <3>2
  <2>5. flatten = [i \in 1 .. N |-> IF i = 1 THEN seqs[i] ELSE flatten[i - 1] \o seqs[i]]
    <3> HIDE DEF F, step, M
    <3> QED BY <2>4
  <2>6. FlattenSeq(seqs) = flatten[N]
    BY <1>3 DEF FlattenSeq
  <2> HIDE DEF flatten, step, F
  <2> DEFINE Upto(n) == /\ flatten[n] \in Seq(S)
                        /\ \A x : (\E j \in DOMAIN flatten[n] : flatten[n][j] = x) <=>
                                  (\E i \in 1 .. n : \E k \in DOMAIN seqs[i] : seqs[i][k] = x)
             T == {n \in 0 .. M : Upto(n + 1)}
  <2> HIDE DEF M, N
  <2>7. 0 \in T
    <3>1. flatten[1] = seqs[1] /\ seqs[1] \in Seq(S)
      BY <1>1, <2>1, <2>5
    <3>2. 1 .. 1 = {1} /\ 0 + 1 = 1 /\ 0 \in 0 .. M
      BY <2>1
    <3> QED BY <3>1, <3>2
  <2>8. \A n \in 0 .. M : n \in T /\ n < M => n + 1 \in T
    <3> SUFFICES ASSUME NEW n \in 0 .. M, n \in T, n < M PROVE n + 1 \in T
      OBVIOUS
    <3> DEFINE p == n + 1
               q == p + 1
    <3>1. p \in 0 .. M /\ p \in 1 .. N /\ q \in 1 .. N /\ q # 1 /\ q - 1 = p /\ p \in Nat
      <4> HIDE DEF T
      <4> QED BY <2>1
    <3>2. Upto(p)
      OBVIOUS
    <3> HIDE DEF p, q
    <3>3. flatten[q] = flatten[p] \o seqs[q]
      BY <2>5, <3>1
    <3>4. 1 .. q = (1 .. p) \cup {q}
      <4> HIDE DEF T
      <4> QED BY <3>1
    <3>5. flatten[p] \in Seq(S) /\ seqs[q] \in Seq(S)
      BY <1>1, <3>1, <3>2
    <3> DEFINE u == flatten[p]
               w == seqs[q]
    <3>6. /\ u \o w \in Seq(S)
          /\ \A x : (\E j \in DOMAIN (u \o w) : (u \o w)[j] = x) <=>
                (\E j \in DOMAIN u : u[j] = x) \/ (\E j \in DOMAIN w : w[j] = x)
      <4>1. u \in Seq(S) /\ w \in Seq(S)
        BY <3>5
      <4> HIDE DEF u, w, T, Upto
      <4>2. u \o w \in Seq(S)
        BY <4>1, ConcatProperties
      <4>3. HasItemsOf(u \o w, u, w)
        BY <4>1, Concatenated
      <4> QED BY <4>2, <4>3 DEF HasItemsOf
    <3>7. Upto(q)
      <4>1. \A x : (\E j \in DOMAIN u : u[j] = x) <=>
                   (\E i \in 1 .. p : \E k \in DOMAIN seqs[i] : seqs[i][k] = x)
        BY <3>2
      <4>2. \A x : (\E i \in 1 .. q : \E k \in DOMAIN seqs[i] : seqs[i][k] = x) <=>
                   \/ \E i \in 1 .. p : \E k \in DOMAIN seqs[i] : seqs[i][k] = x
                   \/ \E k \in DOMAIN w : w[k] = x
        BY <3>4
      <4>3. flatten[q] = u \o w
        BY <3>3
      <4> HIDE DEF u, w
      <4> QED BY <3>6, <4>1, <4>2, <4>3
    <3> HIDE DEF Upto
    <3> QED BY <3>1, <3>7 DEF p, q
  <2>9. 0 .. M \subseteq T
    <3> HIDE DEF T
    <3> QED BY <2>1, <2>7, <2>8, InductionUpTo
  <2>10. Upto(N)
    <3>1. M \in T /\ M + 1 = N
      <4> HIDE DEF T
      <4> QED BY <2>1, <2>9
    <3> HIDE DEF Upto
    <3> QED BY <3>1
  <2> QED BY <1>1, <2>6, <2>10 DEF Together
<1> QED BY <1>2, <1>3

-----------------------------------------------------------------------------
(* Filling the small holes of a mesh.                                      *)

(* A loop of a mesh is cut into triangles that close it, or left.          *)
LEMMA EarsClose ==
  ASSUME NEW m, WellFormed(m), NEW loop \in Seq(Nat), NoneAgain(loop),
         \A i \in DOMAIN loop : loop[i] \in DOMAIN m.points
  PROVE  ClosesLoop(CutIntoEars(m, loop), loop)
<1> DEFINE n == Len(loop)
<1>1. n \in Nat /\ DOMAIN loop = 1 .. n
  BY LenProperties
<1>2. CASE n < 3 \/ SignedArea(m, loop) = 0
  BY <1>2, NoTriangleCloses DEF CutIntoEars
<1>3. CASE ~(n < 3) /\ SignedArea(m, loop) # 0
  <2> DEFINE turns == [i \in DOMAIN loop |->
                         Turn(<<0, 0>>, m.points[loop[i]], m.points[Ring(loop, i + 1)])]
  <2>1. n >= 3 /\ n > 0
    BY <1>1, <1>3
  <2>2. \A i \in 1 .. n : Ring(loop, i + 1) \in DOMAIN m.points /\ loop[i] \in DOMAIN m.points
    BY <1>1, <2>1, RingIs
  <2>3. \A k \in DOMAIN m.points : m.points[k] \in Int \X Int
    BY LenProperties, ElementOfSeq DEF WellFormed
  <2>4. \A p, q \in Int \X Int : Turn(<<0, 0>>, p, q) \in Int
    <3> SUFFICES ASSUME NEW p \in Int \X Int, NEW q \in Int \X Int
                 PROVE  (p[1] - 0) * (q[2] - 0) - (p[2] - 0) * (q[1] - 0) \in Int
      BY DEF Turn
    <3>1. p[1] \in Int /\ p[2] \in Int /\ q[1] \in Int /\ q[2] \in Int
      OBVIOUS
    <3> QED BY <3>1
  <2>5. turns \in [1 .. n -> Int]
    <3> SUFFICES ASSUME NEW i \in 1 .. n
                 PROVE  Turn(<<0, 0>>, m.points[loop[i]], m.points[Ring(loop, i + 1)]) \in Int
      BY <1>1
    <3> QED BY <2>2, <2>3, <2>4
  <2>6. Total(turns) \in Int
    <3> HIDE DEF turns, n
    <3>1. turns \in Seq(Int)
      BY <1>1, <2>5, AreSequences
    <3> QED BY <3>1, TotalIsInteger
  <2>7. SignedArea(m, loop) \in Int
    BY <2>6 DEF SignedArea
  <2>8. CASE SignedArea(m, loop) > 0
    <3>1. CutIntoEars(m, loop) = Clipped(m, loop, 1)
      BY <1>3, <2>1, <2>7, <2>8 DEF CutIntoEars
    <3> QED BY <2>1, <3>1, ClippedCloses
  <2>9. CASE SignedArea(m, loop) < 0
    <3>1. CutIntoEars(m, loop) = Clipped(m, loop, -1)
      BY <1>3, <2>1, <2>7, <2>9 DEF CutIntoEars
    <3> QED BY <2>1, <3>1, ClippedCloses
  <2> QED BY <1>3, <2>7, <2>8, <2>9
<1> QED BY <1>2, <1>3

(* The boundary of triangles.                                              *)
Triangles(faces) == faces \in Seq(Triangle)
(* There are finitely many runs, each a pair of corners.                   *)
LEMMA RunsAreFinite ==
  ASSUME NEW faces, Triangles(faces)
  PROVE  /\ IsFiniteSet(Runs(faces))
         /\ \A r \in Runs(faces) : Run(faces, r) \in Nat \X Nat
         /\ \A edge : IsFiniteSet(Uses(faces, edge)) /\ Uses(faces, edge) \subseteq Runs(faces)
<1>1. DOMAIN faces = 1 .. Len(faces) /\ Len(faces) \in Nat
      /\ \A i \in DOMAIN faces : faces[i] \in Triangle
  BY LenProperties, ElementOfSeq DEF Triangles
<1>2. Runs(faces) = (DOMAIN faces) \X (1 .. 3)
  BY DEF Runs
<1>3. IsFiniteSet(Runs(faces))
  <2>1. IsFiniteSet(1 .. Len(faces)) /\ IsFiniteSet(1 .. 3)
    <3>1. 1 \in Int /\ 3 \in Int /\ Len(faces) \in Int
      BY <1>1
    <3> QED BY <3>1, FS_Interval
  <2> QED BY <1>1, <1>2, <2>1, FS_Product
<1>4. \A r \in Runs(faces) : Run(faces, r) \in Nat \X Nat
  <2> TAKE r \in Runs(faces)
  <2>3. r[1] \in DOMAIN faces /\ r[2] \in 1 .. 3
    BY <1>2
  <2> DEFINE i == r[1]
             k == r[2]
  <2> HIDE DEF i, k
  <2>4. i \in DOMAIN faces /\ k \in 1 .. 3
    BY <2>3 DEF i, k
  <2>1. (k % 3) + 1 \in 1 .. 3
    BY <2>4
  <2>2. faces[i][k] \in Nat /\ faces[i][(k % 3) + 1] \in Nat
    BY <1>1, <2>1, <2>4 DEF Triangle
  <2> QED BY <2>2 DEF Run, i, k
<1>5. \A edge : Uses(faces, edge) \in SUBSET Runs(faces)
  BY DEF Uses
<1> QED BY <1>3, <1>4, <1>5, FS_Subset

(* The boundary is what is used once, and finite.                          *)
LEMMA BoundaryIs ==
  ASSUME NEW faces, Triangles(faces)
  PROVE  /\ \A e : e \in Boundary(faces) <=>
              \E r \in Runs(faces) : e = Run(faces, r) /\ Cardinality(Uses(faces, ToSet(e))) = 1
         /\ Edges(Boundary(faces))
<1>1. \A e : e \in Boundary(faces) <=>
        \E r \in Runs(faces) : e = Run(faces, r) /\ Cardinality(Uses(faces, ToSet(e))) = 1
  BY DEF Boundary
<1>2. Boundary(faces) \subseteq Nat \X Nat
  BY <1>1, RunsAreFinite
<1>3. IsFiniteSet(Boundary(faces))
  <2> DEFINE f == [r \in Runs(faces) |-> Run(faces, r)]
             T == {f[r] : r \in Runs(faces)}
  <2>1. f = [r \in Runs(faces) |-> f[r]] /\ T = {f[r] : r \in Runs(faces)}
    OBVIOUS
  <2>2. Boundary(faces) \subseteq T
    BY <1>1
  <2> HIDE DEF f, T
  <2>3. IsFiniteSet(T)
    BY <2>1, RunsAreFinite, FiniteImage
  <2> QED BY <2>2, <2>3, FS_Subset
<1> QED BY <1>1, <1>2, <1>3 DEF Edges

(* An edge that triangles use both ways is not on the boundary.            *)
LEMMA BothWays ==
  ASSUME NEW faces, Triangles(faces), NEW x, NEW y, x # y,
         <<x, y>> \in RunsOf(faces), <<y, x>> \in RunsOf(faces)
  PROVE  <<x, y>> \notin Boundary(faces)
<1>1. PICK r \in Runs(faces) : Run(faces, r) = <<x, y>>
  BY DEF RunsOf
<1>2. PICK s \in Runs(faces) : Run(faces, s) = <<y, x>>
  BY DEF RunsOf
<1> DEFINE U == Uses(faces, ToSet(<<x, y>>))
<1>3. ToSet(<<x, y>>) = ToSet(<<y, x>>)
  <2>1. ToSet(<<x, y>>) = {x, y} /\ ToSet(<<y, x>>) = {y, x}
    BY EndsOf
  <2> QED BY <2>1
<1>4. r \in U /\ s \in U
  BY <1>1, <1>2, <1>3 DEF Uses
<1>5. r # s
  BY <1>1, <1>2
<1>6. IsFiniteSet(U)
  BY RunsAreFinite
<1>7. Cardinality(U) # 1
  <2> HIDE DEF U
  <2> QED BY <1>4, <1>5, <1>6, OneMember
<1> QED BY <1>7, BoundaryIs

(* The small loops of a mesh.                                              *)
LEMMA SmallLoopsAre ==
  ASSUME NEW b, Edges(b)
  PROVE  /\ IsFiniteSet(SmallLoops(b)) /\ SmallLoops(b) \subseteq Seq(Nat)
         /\ \A s \in SmallLoops(b) : \E R \in Rings(b) :
              IsLoop(b, R) /\ Cardinality(R) <= MaxHoleEdges /\ s = Loop(b, R) /\ WalksRound(b, R, s)
         /\ \A R \in Rings(b) : IsLoop(b, R) /\ Cardinality(R) <= MaxHoleEdges => Loop(b,
            R) \in SmallLoops(b)
<1> DEFINE D == {R \in Rings(b) : IsLoop(b, R) /\ Cardinality(R) <= MaxHoleEdges}
           f == [R \in D |-> Loop(b, R)]
<1>1. IsFiniteSet(D)
  <2>1. D \in SUBSET Rings(b)
    OBVIOUS
  <2> HIDE DEF D
  <2> QED BY <2>1, RingsAre, FS_Subset
<1>2. SmallLoops(b) = {f[R] : R \in D} /\ f = [R \in D |-> f[R]]
  BY DEF SmallLoops
<1>3. IsFiniteSet(SmallLoops(b))
  <2> HIDE DEF f, D
  <2> QED BY <1>1, <1>2, FiniteImage
<1>4. \A s \in SmallLoops(b) : \E R \in Rings(b) :
        IsLoop(b, R) /\ Cardinality(R) <= MaxHoleEdges /\ s = Loop(b, R) /\ WalksRound(b, R, s)
  <2> SUFFICES ASSUME NEW R \in Rings(b), IsLoop(b, R) PROVE WalksRound(b, R, Loop(b, R))
    BY <1>2
  <2> QED BY LoopWalksRound
<1>5. \A R \in Rings(b) : IsLoop(b, R) /\ Cardinality(R) <= MaxHoleEdges => Loop(b, R) \in SmallLoops(b)
  BY <1>2
<1>6. SmallLoops(b) \subseteq Seq(Nat)
  <2> SUFFICES ASSUME NEW s \in SmallLoops(b) PROVE s \in Seq(Nat)
    OBVIOUS
  <2>1. PICK R \in Rings(b) : WalksRound(b, R, s)
    BY <1>4
  <2>2. s \in Seq(R) /\ R \subseteq Nat
    BY <2>1, RingsAre DEF WalksRound
  <2>3. s \in [1 .. Len(s) -> R] /\ Len(s) \in Nat
    BY <2>2, LenProperties
  <2>4. s \in [1 .. Len(s) -> Nat]
    BY <2>2, <2>3
  <2> QED BY <2>3, <2>4, AreSequences
<1> QED BY <1>3, <1>4, <1>5, <1>6

(* The triangles of a mesh whose holes have been filled: those it had, and *)
(* those that close its small loops. *)
Fills(f, g, m, small) ==
  /\ Triangles(g) /\ Triangles(f)
  /\ \A r \in Runs(f) : r \in Runs(g) /\ Run(g, r) = Run(f, r)
  /\ \A r \in Runs(g) : r \in Runs(f) \/ \E s \in small : Run(g, r) \in RunsOf(CutIntoEars(m, s))
  /\ \A s \in small : RunsOf(CutIntoEars(m, s)) \subseteq RunsOf(g)
  /\ \A s \in small : ClosesLoop(CutIntoEars(m, s), s)
LEMMA FillAdds ==
  ASSUME NEW m, WellFormed(m)
  PROVE  /\ Fills(m.faces, FillSmallHoles(m).faces, m, SmallLoops(Boundary(m.faces)))
         /\ \E more \in Seq(Triangle) : FillSmallHoles(m) = MeshOf(m.points, m.faces \o more)
<1> DEFINE f == m.faces
           b == Boundary(f)
           small == SmallLoops(b)
           loops == InOrder(small, [s \in small |-> {t \in small : SeqBefore(t, s)}])
           seqs == [i \in DOMAIN loops |-> CutIntoEars(m, loops[i])]
           flat == FlattenSeq(seqs)
           g == f \o flat
<1>1. FillSmallHoles(m).faces = g /\ FillSmallHoles(m) = MeshOf(m.points, f \o flat)
  BY MeshParts DEF FillSmallHoles
<1>2. Triangles(f) /\ f \in Seq(Triangle)
  BY DEF WellFormed, Triangles
<1>3. Edges(b)
  BY <1>2, BoundaryIs
<1>4. EndPoints(b) \subseteq DOMAIN m.points
  <2>1. ASSUME NEW r \in Runs(f) PROVE Run(f, r)[1] \in DOMAIN m.points /\ Run(f,
        r)[2] \in DOMAIN m.points
    <3>1. PICK i \in DOMAIN f : \E k \in 1 .. 3 : r = <<i, k>>
      BY DEF Runs
    <3>2. PICK k \in 1 .. 3 : r = <<i, k>>
      BY <3>1
    <3>3. (k % 3) + 1 \in 1 .. 3
      OBVIOUS
    <3>4. Run(f, r) = <<f[i][k], f[i][(k % 3) + 1]>>
      BY <3>2 DEF Run
    <3>5. f[i][k] \in DOMAIN m.points /\ f[i][(k % 3) + 1] \in DOMAIN m.points
      BY <3>3 DEF WellFormed
    <3> QED BY <3>4, <3>5
  <2>2. \A e \in b : e[1] \in DOMAIN m.points /\ e[2] \in DOMAIN m.points
    BY <1>2, <2>1, BoundaryIs
  <2> HIDE DEF b
  <2> QED BY <1>3, <2>2, EdgeEnds
<1> HIDE DEF b
<1>5. IsFiniteSet(small) /\ small \subseteq Seq(Nat)
  BY <1>3, SmallLoopsAre
<1>6. ASSUME NEW s \in small PROVE ClosesLoop(CutIntoEars(m, s), s)
  <2>1. PICK R \in Rings(b) : WalksRound(b, R, s)
    BY <1>3, SmallLoopsAre
  <2>2. R \subseteq DOMAIN m.points
    BY <1>3, <1>4, RingsAre
  <2>3. NoneAgain(s) /\ s \in Seq(Nat) /\ ToSet(s) = R
    BY <1>5, <2>1 DEF WalksRound
  <2>4. \A i \in DOMAIN s : s[i] \in DOMAIN m.points
    BY <2>2, <2>3 DEF ToSet
  <2> QED BY <2>3, <2>4, EarsClose
<1>7. /\ loops \in Seq(small) /\ \A i \in DOMAIN loops : loops[i] \in small
      /\ \A x \in small : \E i \in DOMAIN loops : loops[i] = x
  <2> DEFINE S == small
             below == [s \in S |-> {t \in S : SeqBefore(t, s)}]
             at == InOrder(S, below)
  <2>1. S \subseteq Seq(Nat) /\ IsFiniteSet(S)
    BY <1>5
  <2>2. at = InOrder(S, below) /\ \A x \in S : below[x] = {y \in S : SeqBefore(y, x)}
    OBVIOUS
  <2>4. at = loops
    OBVIOUS
  <2> HIDE DEF S, below
  <2>3. /\ at \in Seq(S) /\ \A i \in DOMAIN at : at[i] \in S
        /\ \A x \in S : \E i \in DOMAIN at : at[i] = x
    <3> HIDE DEF at
    <3> QED BY <2>1, <2>2, LoopsInOrder
  <2> HIDE DEF at
  <2> QED BY <2>3, <2>4 DEF S
<1> HIDE DEF small, loops
<1>8. seqs \in Seq(Seq(Triangle))
  <2>1. DOMAIN loops = 1 .. Len(loops) /\ Len(loops) \in Nat
    BY <1>7, LenProperties
  <2>2. seqs \in [1 .. Len(loops) -> Seq(Triangle)]
    BY <1>6, <1>7, <2>1 DEF ClosesLoop
  <2> HIDE DEF seqs
  <2> QED BY <2>1, <2>2, AreSequences
<1>9. DOMAIN seqs = DOMAIN loops /\ \A i \in DOMAIN loops : seqs[i] = CutIntoEars(m, loops[i])
  OBVIOUS
<1> HIDE DEF seqs
<1>10. /\ flat \in Seq(Triangle)
       /\ \A x : (\E j \in DOMAIN flat : flat[j] = x) <=>
                 (\E i \in DOMAIN seqs : \E k \in DOMAIN seqs[i] : seqs[i][k] = x)
  BY <1>8, Flattened DEF Together
<1> HIDE DEF flat, f
<1>11. /\ g \in Seq(Triangle) /\ Len(g) = Len(f) + Len(flat) /\ DOMAIN g = 1 .. Len(f) + Len(flat)
       /\ DOMAIN f = 1 .. Len(f) /\ DOMAIN flat = 1 .. Len(flat) /\ Len(f) \in Nat /\ Len(flat) \in Nat
       /\ \A i \in 1 .. Len(f) + Len(flat) : g[i] = IF i <= Len(f) THEN f[i] ELSE flat[i - Len(f)]
  <2>1. g \in Seq(Triangle) /\ Len(g) = Len(f) + Len(flat)
        /\ \A i \in 1 .. Len(f) + Len(flat) : g[i] = IF i <= Len(f) THEN f[i] ELSE flat[i - Len(f)]
    BY <1>2, <1>10, ConcatProperties
  <2> HIDE DEF g
  <2> QED BY <1>2, <1>10, <2>1, LenProperties
<1> HIDE DEF g
<1>12. ASSUME NEW r \in Runs(f) PROVE r \in Runs(g) /\ Run(g, r) = Run(f, r)
  <2>1. PICK i \in DOMAIN f : \E k \in 1 .. 3 : r = <<i, k>>
    BY DEF Runs
  <2>2. i \in DOMAIN g /\ g[i] = f[i]
    BY <1>11
  <2> QED BY <2>1, <2>2 DEF Runs, Run
<1>13. ASSUME NEW i \in DOMAIN g, i \notin DOMAIN f
       PROVE  \E s \in small : \E k \in DOMAIN CutIntoEars(m, s) : CutIntoEars(m, s)[k] = g[i]
  <2>1. i - Len(f) \in DOMAIN flat /\ g[i] = flat[i - Len(f)]
    BY <1>11, <1>13
  <2>2. \E l \in DOMAIN seqs : \E k \in DOMAIN seqs[l] : seqs[l][k] = g[i]
    BY <1>10, <2>1
  <2> QED BY <1>7, <1>9, <2>2
<1>14. ASSUME NEW s \in small, NEW k \in DOMAIN CutIntoEars(m, s)
       PROVE  \E i \in DOMAIN g : g[i] = CutIntoEars(m, s)[k]
  <2>1. PICK l \in DOMAIN loops : loops[l] = s
    BY <1>7
  <2>2. PICK j \in DOMAIN flat : flat[j] = CutIntoEars(m, s)[k]
    BY <1>9, <1>10, <2>1
  <2>3. j + Len(f) \in DOMAIN g /\ g[j + Len(f)] = flat[j]
    <3>1. j + Len(f) \in 1 .. Len(f) + Len(flat) /\ ~(j + Len(f) <= Len(f)) /\ (j + Len(f)) - Len(f) = j
      BY <1>11
    <3> QED BY <1>11, <3>1
  <2> QED BY <2>2, <2>3
<1>15. ASSUME NEW r \in Runs(g)
       PROVE  r \in Runs(f) \/ \E s \in small : Run(g, r) \in RunsOf(CutIntoEars(m, s))
  <2>1. PICK i \in DOMAIN g : \E k \in 1 .. 3 : r = <<i, k>>
    BY DEF Runs
  <2>2. PICK k \in 1 .. 3 : r = <<i, k>>
    BY <2>1
  <2>3. CASE i \in DOMAIN f
    BY <2>2, <2>3 DEF Runs
  <2>4. CASE i \notin DOMAIN f
    <3>1. PICK s \in small : \E l \in DOMAIN CutIntoEars(m, s) : CutIntoEars(m, s)[l] = g[i]
      BY <1>13, <2>4
    <3>2. PICK l \in DOMAIN CutIntoEars(m, s) : CutIntoEars(m, s)[l] = g[i]
      BY <3>1
    <3>3. <<l, k>> \in Runs(CutIntoEars(m, s)) /\ Run(CutIntoEars(m, s), <<l, k>>) = Run(g, r)
      BY <2>2, <3>2 DEF Runs, Run
    <3> QED BY <3>3 DEF RunsOf
  <2> QED BY <2>3, <2>4
<1>16. ASSUME NEW s \in small PROVE RunsOf(CutIntoEars(m, s)) \subseteq RunsOf(g)
  <2> SUFFICES ASSUME NEW e \in RunsOf(CutIntoEars(m, s)) PROVE e \in RunsOf(g)
    OBVIOUS
  <2>1. PICK k \in DOMAIN CutIntoEars(m, s) : e \in SidesOf(CutIntoEars(m, s)[k])
    BY RunsAre
  <2>2. PICK i \in DOMAIN g : g[i] = CutIntoEars(m, s)[k]
    BY <1>14
  <2> QED BY <2>1, <2>2, RunsAre
<1>17. Fills(f, g, m, small)
  BY <1>2, <1>6, <1>11, <1>12, <1>15, <1>16 DEF Fills, Triangles
<1>18. \E more \in Seq(Triangle) : FillSmallHoles(m) = MeshOf(m.points, f \o more)
  BY <1>1, <1>10
<1> QED BY <1>1, <1>17, <1>18 DEF f, small, b

(* What filling promises of a mesh before and after.                       *)
HolesClose(f, g) ==
  LET open == Boundary(f)
      left == Boundary(g)
      directed == {Run(g, r) : r \in Runs(g)}
  IN  /\ left \subseteq open
      /\ \A ring \in Rings(open) :
           LET edges == {e \in open : ToSet(e) \subseteq ring} IN
           \/ edges \subseteq left
           \/ \A e \in edges : e \notin left /\ <<e[2], e[1]>> \in directed
(* An edge of the boundary after filling was one before: a new run that    *)
(* is not against an old edge has its opposite among the new ones. A ring  *)
(* that was cut into ears has all its edges met by new ones; and the       *)
(* corners of any other ring belong to no triangle that is new, since      *)
(* rings lie apart.                                                        *)
LEMMA FillCloses ==
  ASSUME NEW m, WellFormed(m)
  PROVE  HolesClose(m.faces, FillSmallHoles(m).faces)
<1> DEFINE f == m.faces
           g == FillSmallHoles(m).faces
           open == Boundary(f)
           left == Boundary(g)
           small == SmallLoops(open)
           cut(s) == CutIntoEars(m, s)
<1>1. /\ Triangles(g) /\ Triangles(f)
      /\ \A r \in Runs(f) : r \in Runs(g) /\ Run(g, r) = Run(f, r)
      /\ \A r \in Runs(g) : r \in Runs(f) \/ \E s \in small : Run(g, r) \in RunsOf(cut(s))
      /\ \A s \in small : RunsOf(cut(s)) \subseteq RunsOf(g)
      /\ \A s \in small : ClosesLoop(cut(s), s)
  BY FillAdds DEF Fills
<1> HIDE DEF f, g, cut
<1>2. Edges(open)
  BY <1>1, BoundaryIs
<1>3. RunsOf(f) \subseteq RunsOf(g)
  BY <1>1 DEF RunsOf
<1>4. /\ \A e : e \in open <=> \E r \in Runs(f) : e = Run(f, r) /\ Cardinality(Uses(f, ToSet(e))) = 1
      /\ \A e : e \in left <=> \E r \in Runs(g) : e = Run(g, r) /\ Cardinality(Uses(g, ToSet(e))) = 1
  BY <1>1, BoundaryIs
<1>5. /\ \A s \in small : \E R \in Rings(open) :
           IsLoop(open, R) /\ Cardinality(R) <= MaxHoleEdges /\ s = Loop(open, R)
           /\ WalksRound(open, R, s)
      /\ \A R \in Rings(open) : IsLoop(open, R) /\ Cardinality(R) <= MaxHoleEdges => Loop(open,
         R) \in small
  BY <1>2, SmallLoopsAre
<1>6. open \subseteq RunsOf(f) /\ left \subseteq RunsOf(g)
  BY <1>4 DEF RunsOf
<1>7. \A x, y : x # y /\ <<x, y>> \in RunsOf(g) /\ <<y, x>> \in RunsOf(g) => <<x, y>> \notin left
  BY <1>1, BothWays
<1>8. \A edge : Uses(f, edge) \subseteq Uses(g, edge) /\ IsFiniteSet(Uses(g, edge))
  BY <1>1, RunsAreFinite DEF Uses
<1> HIDE DEF open, left, small
<1>9. ASSUME NEW s \in small, NEW x, NEW y, <<x, y>> \in RunsOf(cut(s)) PROVE <<x, y>> \notin left
  <2>1. x # y /\ (<<x, y>> \in Pairs(s) \/ <<y, x>> \in RunsOf(cut(s)))
    BY <1>1, <1>9 DEF ClosesLoop
  <2>2. <<x, y>> \in RunsOf(g)
    BY <1>1, <1>9
  <2>3. CASE <<x, y>> \in Pairs(s)
    <3>1. PICK R \in Rings(open) : WalksRound(open, R, s)
      BY <1>5
    <3>2. <<y, x>> \in open
      BY <2>3, <3>1 DEF WalksRound
    <3>3. <<y, x>> \in RunsOf(g)
      BY <1>3, <1>6, <3>2
    <3> QED BY <1>7, <2>1, <2>2, <3>3
  <2>4. CASE <<y, x>> \in RunsOf(cut(s))
    <3>1. <<y, x>> \in RunsOf(g)
      BY <1>1, <2>4
    <3> QED BY <1>7, <2>1, <2>2, <3>1
  <2> QED BY <2>1, <2>3, <2>4
<1>10. left \subseteq open
  <2> SUFFICES ASSUME NEW e \in left PROVE e \in open
    OBVIOUS
  <2>1. PICK r \in Runs(g) : e = Run(g, r) /\ Cardinality(Uses(g, ToSet(e))) = 1
    BY <1>4
  <2>2. CASE r \in Runs(f)
    <3>1. e = Run(f, r)
      BY <1>1, <2>1, <2>2
    <3>2. r \in Uses(f, ToSet(e))
      BY <2>2, <3>1 DEF Uses
    <3>3. \E x \in Uses(g, ToSet(e)) : \A y \in Uses(g, ToSet(e)) : y = x
      BY <1>8, <2>1, OneMember
    <3>4. Uses(f, ToSet(e)) = {r}
      BY <1>8, <3>2, <3>3
    <3>5. Cardinality(Uses(f, ToSet(e))) = 1
      BY <3>4, FS_Singleton
    <3> QED BY <1>4, <2>2, <3>1, <3>5
  <2>3. CASE \E s \in small : Run(g, r) \in RunsOf(cut(s))
    <3>1. e = <<e[1], e[2]>>
      BY <2>1 DEF Run
    <3> QED BY <1>9, <2>1, <2>3, <3>1
  <2> QED BY <1>1, <2>2, <2>3
<1>11. ASSUME NEW ring \in Rings(open), NEW e \in open, ToSet(e) \subseteq ring
       PROVE  e = <<e[1], e[2]>> /\ ToSet(e) = {e[1], e[2]} /\ e[1] \in ring /\ e[2] \in ring
  <2>1. e = <<e[1], e[2]>> /\ ToSet(e) = {e[1], e[2]}
    BY <1>2, EdgeEnds
  <2> QED BY <1>11, <2>1
<1>12. ASSUME NEW ring \in Rings(open), IsLoop(open, ring), Cardinality(ring) <= MaxHoleEdges,
              cut(Loop(open, ring)) # <<>>, NEW e \in open, ToSet(e) \subseteq ring
       PROVE  e \notin left /\ <<e[2], e[1]>> \in RunsOf(g)
  <2> DEFINE s == Loop(open, ring)
  <2>1. s \in small
    BY <1>5, <1>12
  <2>2. WalksRound(open, ring, s)
    BY <1>2, <1>12, LoopWalksRound
  <2>3. e = <<e[1], e[2]>> /\ e[1] \in ring /\ e[2] \in ring
    BY <1>11, <1>12
  <2> HIDE DEF s
  <2>4. <<e[2], e[1]>> \in Pairs(s)
    BY <2>2, <2>3 DEF WalksRound
  <2>5. <<e[2], e[1]>> \in RunsOf(cut(s))
    BY <1>1, <1>12, <2>1, <2>4 DEF ClosesLoop, s
  <2>6. <<e[2], e[1]>> \in RunsOf(g) /\ e[2] # e[1]
    BY <1>1, <2>1, <2>5 DEF ClosesLoop
  <2>7. <<e[1], e[2]>> \in RunsOf(g)
    BY <1>3, <1>6, <2>3
  <2> QED BY <1>7, <2>3, <2>6, <2>7
<1>13. ASSUME NEW ring \in Rings(open),
              ~(IsLoop(open, ring) /\ Cardinality(ring) <= MaxHoleEdges /\ cut(Loop(open,
              ring)) # <<>>),
              NEW e \in open, ToSet(e) \subseteq ring
       PROVE  e \in left
  <2> DEFINE U == Uses(g, ToSet(e))
  <2>1. ASSUME NEW r \in U, r \notin Runs(f) PROVE FALSE
    <3>1. r \in Runs(g) /\ ToSet(Run(g, r)) = ToSet(e)
      BY DEF Uses
    <3>2. PICK s \in small : Run(g, r) \in RunsOf(cut(s))
      BY <1>1, <2>1, <3>1
    <3>3. PICK R \in Rings(open) : /\ IsLoop(open, R) /\ Cardinality(R) <= MaxHoleEdges
                                   /\ s = Loop(open, R) /\ WalksRound(open, R, s)
      BY <1>5
    <3>4. PICK k \in DOMAIN cut(s) : Run(g, r) \in SidesOf(cut(s)[k])
      BY <3>2, RunsAre
    <3> DEFINE p == Run(g, r)[1]
               q == Run(g, r)[2]
    <3>5. Run(g, r) = <<p, q>>
      BY DEF Run
    <3>6. p \in R
      <4>1. \A l \in 1 .. 3 : cut(s)[k][l] \in ToSet(s)
        BY <1>1 DEF ClosesLoop
      <4>2. cut(s)[k][1] \in ToSet(s) /\ cut(s)[k][2] \in ToSet(s) /\ cut(s)[k][3] \in ToSet(s)
        BY <4>1, ThreePlaces
      <4>3. p \in ToSet(s)
        BY <3>4, <4>2 DEF SidesOf
      <4> QED BY <3>3, <4>3 DEF WalksRound
    <3> HIDE DEF p, q
    <3>7. p \in ToSet(e)
      <4>1. ToSet(<<p, q>>) = {p, q}
        BY EndsOf
      <4> QED BY <3>1, <3>5, <4>1
    <3>8. R = ring
      BY <1>2, <1>13, <3>6, <3>7, RingsAre
    <3>9. cut(s) # <<>>
      <4>1. DOMAIN <<>> = {}
        OBVIOUS
      <4> QED BY <3>4, <4>1
    <3> QED BY <1>13, <3>3, <3>8, <3>9
  <2>2. U = Uses(f, ToSet(e))
    <3>1. \A r \in U : r \in Uses(f, ToSet(e))
      BY <1>1, <2>1 DEF Uses
    <3> QED BY <1>8, <3>1
  <2>3. PICK r \in Runs(f) : e = Run(f, r) /\ Cardinality(Uses(f, ToSet(e))) = 1
    BY <1>4
  <2> QED BY <1>1, <1>4, <2>2, <2>3
<1>14. left \subseteq open
       /\ \A ring \in Rings(open) :
            \/ \A e \in open : ToSet(e) \subseteq ring => e \in left
            \/ \A e \in open : ToSet(e) \subseteq ring => e \notin left /\ <<e[2], e[1]>> \in RunsOf(g)
  BY <1>10, <1>12, <1>13
<1>15. HolesClose(f, g)
  <2>1. /\ Boundary(g) \subseteq Boundary(f)
        /\ \A ring \in Rings(Boundary(f)) :
            \/ \A e \in Boundary(f) : ToSet(e) \subseteq ring => e \in Boundary(g)
            \/ \A e \in Boundary(f) : ToSet(e) \subseteq ring => e \notin Boundary(g) /\ <<e[2],
               e[1]>> \in RunsOf(g)
    BY <1>14 DEF open, left
  <2> QED BY <2>1 DEF HolesClose, RunsOf
<1> QED BY <1>15 DEF f, g

(* A step that fills closes each hole as a whole, against the triangles *)
(* around it, or leaves it. *)
LEMMA FillStep ==
  ASSUME SourceInv, order <= Len(Operations), Fill
  PROVE  HolesClose(mesh.faces, mesh'.faces)
<1>1. phase = "repairing" /\ mesh' = FillSmallHoles(mesh)
  BY DEF Fill, HasTurn, Due, Becomes
<1>2. WellFormed(mesh)
  BY <1>1, WhenDue
<1> QED BY <1>1, <1>2, FillCloses

(* A hole is closed as a whole or left as it was, by triangles that run    *)
(* against those around it, and no new hole is made, for every mesh and    *)
(* every limit (FilledLoopsClose: _fill_small_holes, _boundary_loops and   *)
(* _triangulate_loop).                                                     *)
THEOREM HolesAreClosed == SourceSpec => FilledLoopsClose
<1>1. SourceInv /\ [SourceNext]_sourceVars =>
        [(order <= Len(Operations) /\ Fill) => HolesClose(mesh.faces, mesh'.faces)]_sourceVars
  BY FillStep
<1> QED BY <1>1, SourceInvariant, PTL DEF SourceSpec, FilledLoopsClose, HolesClose

(* The mesh that was filled is found again in the filled one: the new *)
(* triangles come after those that were there. *)
LEMMA FilledIsLonger ==
  ASSUME NEW m, WellFormed(m), NEW filled, filled = FillSmallHoles(m)
  PROVE  /\ filled.points = m.points /\ Len(m.faces) \in 0 .. Len(filled.faces)
         /\ MeshOf(filled.points, SubSeq(filled.faces, 1, Len(m.faces))) = m
<1>1. PICK more \in Seq(Triangle) : filled = MeshOf(m.points, m.faces \o more)
  BY FillAdds
<1>2. m = MeshOf(m.points, m.faces) /\ m.faces \in Seq(Triangle)
  BY DEF WellFormed
<1>3. filled.points = m.points /\ filled.faces = m.faces \o more
  BY <1>1 DEF MeshOf
<1> DEFINE f == m.faces
           n == Len(f)
<1> HIDE DEF f
<1>4. f \in Seq(Triangle) /\ n \in Nat /\ Len(more) \in Nat /\ DOMAIN f = 1 .. n
      /\ Len(f \o more) = n + Len(more)
      /\ \A i \in 1 .. n : (f \o more)[i] = f[i]
  BY <1>2, ConcatProperties, LenProperties DEF f
<1>5. n \in 0 .. Len(f \o more)
  BY <1>4
<1>6. SubSeq(f \o more, 1, n) = f
  <2>1. SubSeq(f \o more, 1, n) = [i \in 1 .. n |-> (f \o more)[i]]
    BY <1>4
  <2>2. SubSeq(f \o more, 1, n) = [i \in 1 .. n |-> f[i]]
    BY <1>4, <2>1
  <2>3. f = [i \in 1 .. n |-> f[i]]
    BY <1>4
  <2> QED BY <2>2, <2>3
<1> QED
  BY <1>2, <1>3, <1>5, <1>6 DEF f

(* A mesh that is clear is diagnosed so.                                   *)
LEMMA CleanWhenClear ==
  ASSUME NEW m, WellFormed(m), NEW n \in Nat, n > 4, Clear(m, n)
  PROVE  Clean(m)
<1>1. NoneNear(m) /\ NoneDegenerate(m) /\ NoneTwice(m) /\ AllUsed(m)
  BY DEF Clear
<1>2. Diagnosis(m).degenerate = 0 /\ Diagnosis(m).duplicateFaces = 0 /\ Diagnosis(m).duplicatePoints = 0
  BY <1>1, ClearDiagnosis
<1> QED
  BY <1>1, <1>2 DEF Clean, NoneNear, AllUsed

LEMMA InvLeftovers == SourceInv => NoLeftovers
<1> SUFFICES ASSUME SourceInv, phase = "repaired", Clearing \subseteq wanted
             PROVE  IF "fill_small_holes" \in wanted THEN \E n \in 0 .. Len(mesh.faces) : ClearedBefore(n)
                    ELSE Clean(mesh)
  BY DEF NoLeftovers
<1>1. order \in Nat /\ order > Len(Operations) /\ Len(Operations) = 9
  BY OperationsAre DEF SourceInv, ClearedInOrder
<1>2. CASE "fill_small_holes" \notin wanted
  <2>1. WellFormed(mesh) /\ Clear(mesh, order)
    BY <1>2 DEF SourceInv, ClearedInOrder, Filled
  <2> QED BY <1>1, <1>2, <2>1, CleanWhenClear
<1>3. CASE "fill_small_holes" \in wanted
  <2>1. PICK before : FilledFrom(before)
    BY <1>1, <1>3 DEF SourceInv, ClearedInOrder, Filled
  <2>2. WellFormed(before) /\ Clear(before, 9) /\ mesh = FillSmallHoles(before)
    BY <1>1, <2>1 DEF FilledFrom
  <2>3. Clean(before)
    BY <2>2, CleanWhenClear
  <2>4. /\ mesh.points = before.points /\ Len(before.faces) \in 0 .. Len(mesh.faces)
        /\ MeshOf(mesh.points, SubSeq(mesh.faces, 1, Len(before.faces))) = before
    BY <2>2, FilledIsLonger
  <2>5. ClearedBefore(Len(before.faces))
    BY <2>2, <2>3, <2>4 DEF ClearedBefore
  <2> QED BY <1>3, <2>4, <2>5
<1> QED
  BY <1>2, <1>3

(* A repair that was asked to clear the mesh leaves no near points, no     *)
(* degenerate and no double triangles and no point without a use; when it  *)
(* also fills holes, that is so of the mesh that was filled, and what is   *)
(* left then is in the triangles that filling adds. For every mesh and     *)
(* every other operation (NoLeftovers: repair_mesh).                       *)
THEOREM RepairClears == SourceSpec => []NoLeftovers
BY SourceInvariant, InvLeftovers, PTL

-----------------------------------------------------------------------------
(* Union-find. It joins triangles that share an edge and no others.        *)

(* Triangles touch when they share an edge, and a set of triangles is      *)
(* whole when it cannot be divided without cutting such an edge.           *)
Touching(m, i, j) == EdgesOf(m.faces[i]) \cap EdgesOf(m.faces[j]) # {}
Whole(m, S) == \A part \in (SUBSET S) \ {{}, S} : \E i \in part, j \in S \ part : Touching(m, i, j)
With(root, r) == {i \in DOMAIN root : root[i] = r}
(* What has one root is whole, and the first n triangles have the roots    *)
(* of the owners of their edges.                                           *)
RootsAreWhole(m, root) == \A r : Whole(m, With(root, r))
OwnersShare(m, root, n) ==
  \A i \in 1 .. n : \A k \in 1 .. 3 : root[i] = root[OwnerOf(m, Edge(m.faces[i], k), i)]

(* Two whole sets with triangles that touch make a whole set.              *)
LEMMA WholeTogether ==
  ASSUME NEW m, NEW S, NEW T, Whole(m, S), Whole(m, T), NEW i \in S, NEW j \in T, Touching(m, i, j)
  PROVE  Whole(m, S \cup T)
<1> SUFFICES ASSUME NEW part \in (SUBSET (S \cup T)) \ {{}, S \cup T}
             PROVE  \E x \in part, y \in (S \cup T) \ part : Touching(m, x, y)
  BY DEF Whole
<1>1. Touching(m, j, i)
  BY DEF Touching
<1>2. CASE part \cap S \notin {{}, S}
  <2>1. PICK x \in part \cap S, y \in S \ (part \cap S) : Touching(m, x, y)
    BY <1>2 DEF Whole
  <2> QED BY <2>1
<1>3. CASE part \cap T \notin {{}, T}
  <2>1. PICK x \in part \cap T, y \in T \ (part \cap T) : Touching(m, x, y)
    BY <1>3 DEF Whole
  <2> QED BY <2>1
<1>4. CASE part \cap S = {} /\ part \cap T = T
  BY <1>1, <1>4
<1>5. CASE part \cap S = S /\ part \cap T = {}
  BY <1>5
<1>6. part \cap S = {} /\ part \cap T = {} => part = {}
  OBVIOUS
<1>7. part \cap S = S /\ part \cap T = T => part = S \cup T
  OBVIOUS
<1> QED BY <1>2, <1>3, <1>4, <1>5, <1>6, <1>7

(* To unite joins what has the root of either and leaves the rest.         *)
Joins(united, D, root, i, j) ==
  /\ united \in [D -> D]
  /\ united[i] = united[j]
  /\ \A x, y \in D : root[x] = root[y] => united[x] = united[y]
  /\ \A r : With(united, r) \in {{}, With(root, r), With(root, root[i]) \cup With(root, root[j])}
(* United does that.                                                       *)
LEMMA UnitedJoins ==
  ASSUME NEW D, NEW root \in [D -> D], D \subseteq Nat, NEW i \in D, NEW j \in D
  PROVE  Joins(United(root, i, j), D, root, i, j)
<1> DEFINE united == United(root, i, j)
           low == IF root[i] < root[j] THEN root[i] ELSE root[j]
<1>1. /\ low \in {root[i], root[j]} /\ DOMAIN united = D /\ DOMAIN root = D
      /\ \A n \in D : united[n] = IF root[n] \in {root[i], root[j]} THEN low ELSE root[n]
  BY DEF United
<1>2. united \in [D -> D]
  BY UnitedIs
<1> HIDE DEF low, united
<1>3. united[i] = united[j] /\ \A x, y \in D : root[x] = root[y] => united[x] = united[y]
  BY <1>1
<1>4. ASSUME NEW r
      PROVE  With(united, r) \in {{}, With(root, r), With(root, root[i]) \cup With(root, root[j])}
  <2>1. CASE r = low
    <3>1. With(united, r) = With(root, root[i]) \cup With(root, root[j])
      BY <1>1, <2>1 DEF With
    <3> QED BY <3>1
  <2>2. CASE r # low /\ r \in {root[i], root[j]}
    <3>1. \A n \in D : united[n] # r
      BY <1>1, <2>2
    <3>2. With(united, r) = {}
      BY <1>1, <3>1 DEF With
    <3> QED BY <3>2
  <2>3. CASE r \notin {root[i], root[j]}
    <3>1. With(united, r) = With(root, r)
      BY <1>1, <2>3 DEF With
    <3> QED BY <3>1
  <2> QED BY <2>1, <2>2, <2>3
<1> QED BY <1>2, <1>3, <1>4 DEF united, Joins

(* Uniting two triangles that touch keeps what has one root whole.         *)
LEMMA UnitedWhole ==
  ASSUME NEW m, NEW D, NEW root \in [D -> D], D \subseteq Nat, NEW i \in D, NEW j \in D,
         RootsAreWhole(m, root), Touching(m, i, j)
  PROVE  RootsAreWhole(m, United(root, i, j))
<1>1. i \in With(root, root[i]) /\ j \in With(root, root[j])
  BY DEF With
<1>2. Whole(m, With(root, root[i]) \cup With(root, root[j]))
  BY <1>1, WholeTogether DEF RootsAreWhole
<1>3. Whole(m, {})
  BY DEF Whole
<1>4. \A r : With(United(root, i, j), r) \in
                {{}, With(root, r), With(root, root[i]) \cup With(root, root[j])}
  BY UnitedJoins DEF Joins
<1> QED BY <1>2, <1>3, <1>4 DEF RootsAreWhole

(* The owner of an edge has the edge, and is the same for all triangles    *)
(* that have it.                                                           *)
LEMMA OwnersOf ==
  ASSUME NEW m, NEW N \in Nat
  PROVE  /\ \A i \in 1 .. N : \A k \in 1 .. 3 :
              LET owner == OwnerOf(m, Edge(m.faces[i], k), i) IN
              owner \in 1 .. i /\ Touching(m, owner, i)
         /\ \A i, j \in 1 .. N : \A e \in EdgesOf(m.faces[i]) \cap EdgesOf(m.faces[j]) :
              OwnerOf(m, e, i) = OwnerOf(m, e, j)
<1> DEFINE having(e, i) == {n \in 1 .. i : e \in EdgesOf(m.faces[n])}
<1>1. ASSUME NEW i \in 1 .. N, NEW e \in EdgesOf(m.faces[i])
      PROVE  /\ OwnerOf(m, e, i) \in having(e, i)
             /\ \A n \in having(e, i) : OwnerOf(m, e, i) <= n
  <2>1. i \in having(e, i) /\ having(e, i) \subseteq Nat
    OBVIOUS
  <2>2. OwnerOf(m, e, i) = First(having(e, i))
    BY DEF OwnerOf
  <2> HIDE DEF having
  <2> QED BY <2>1, <2>2, FirstIsLeast
<1>2. ASSUME NEW i \in 1 .. N, NEW k \in 1 .. 3
      PROVE  /\ OwnerOf(m, Edge(m.faces[i], k), i) \in 1 .. i
             /\ Touching(m, OwnerOf(m, Edge(m.faces[i], k), i), i)
  <2>1. Edge(m.faces[i], k) \in EdgesOf(m.faces[i])
    BY DEF EdgesOf
  <2> QED BY <1>1, <2>1 DEF Touching
<1>3. ASSUME NEW i \in 1 .. N, NEW j \in 1 .. N,
             NEW e \in EdgesOf(m.faces[i]) \cap EdgesOf(m.faces[j])
      PROVE  OwnerOf(m, e, i) = OwnerOf(m, e, j)
  <2> DEFINE a == OwnerOf(m, e, i)
             b == OwnerOf(m, e, j)
  <2>1. /\ a \in having(e, i) /\ \A n \in having(e, i) : a <= n
        /\ b \in having(e, j) /\ \A n \in having(e, j) : b <= n
    BY <1>1
  <2> HIDE DEF a, b
  <2>2. a \in Nat /\ b \in Nat /\ a <= i /\ b <= j
    BY <2>1
  <2>3. \A x, y \in 1 .. N : \A n \in having(e, x) : n <= y => n \in having(e, y)
    OBVIOUS
  <2>4. a <= j => a \in having(e, j)
    BY <2>1, <2>3
  <2>5. b <= i => b \in having(e, i)
    BY <2>1, <2>3
  <2> HIDE DEF having
  <2>6. a <= j => b <= a
    BY <2>1, <2>4
  <2>7. b <= i => a <= b
    BY <2>1, <2>5
  <2> QED BY <2>2, <2>6, <2>7 DEF a, b
<1> QED BY <1>2, <1>3

(* A round of the union-find: the next triangle gets the roots of the      *)
(* owners of its edges, and the earlier ones keep theirs.                  *)
LEMMA RoundShares ==
  ASSUME NEW m, NEW N \in Nat, NEW n \in 1 .. N, NEW root \in [1 .. N -> 1 .. N],
         RootsAreWhole(m, root), OwnersShare(m, root, n - 1)
  PROVE  /\ Rooted(m, root, n) \in [1 .. N -> 1 .. N] /\ RootsAreWhole(m, Rooted(m, root, n))
         /\ OwnersShare(m, Rooted(m, root, n), n)
<1> DEFINE D == 1 .. N
           owner(i, k) == OwnerOf(m, Edge(m.faces[i], k), i)
           r1 == United(root, owner(n, 1), n)
           r2 == United(r1, owner(n, 2), n)
           r3 == United(r2, owner(n, 3), n)
<1>1. Rooted(m, root, n) = r3
  BY DEF Rooted
<1>2. \A i \in D : \A k \in 1 .. 3 : owner(i, k) \in 1 .. i /\ Touching(m, owner(i, k), i)
  BY OwnersOf
<1> HIDE DEF owner
<1>3. /\ owner(n, 1) \in D /\ owner(n, 2) \in D /\ owner(n, 3) \in D /\ n \in D /\ D \subseteq Nat
      /\ Touching(m, owner(n, 1), n) /\ Touching(m, owner(n, 2), n) /\ Touching(m, owner(n, 3), n)
  <2>1. 1 \in 1 .. 3 /\ 2 \in 1 .. 3 /\ 3 \in 1 .. 3 /\ 1 .. n \subseteq D /\ n \in D /\ D \subseteq Nat
    OBVIOUS
  <2> HIDE DEF D
  <2> QED BY <1>2, <2>1
<1>4. root \in [D -> D]
  OBVIOUS
<1>5. \A i \in 1 .. n - 1 : \A k \in 1 .. 3 : i \in D /\ owner(i, k) \in D
      /\ root[i] = root[owner(i, k)]
  <2> TAKE i \in 1 .. n - 1, k \in 1 .. 3
  <2>1. i \in D /\ 1 .. i \subseteq D
    OBVIOUS
  <2>2. root[i] = root[owner(i, k)]
    BY DEF OwnersShare, owner
  <2> QED BY <1>2, <2>1, <2>2
<1>6. \A i \in 1 .. n : i = n \/ i \in 1 .. n - 1
  OBVIOUS
<1> HIDE DEF D
<1>7. /\ r1 \in [D -> D] /\ RootsAreWhole(m, r1) /\ r1[owner(n, 1)] = r1[n]
      /\ \A x, y \in D : root[x] = root[y] => r1[x] = r1[y]
  <2>1. Joins(r1, D, root, owner(n, 1), n)
    BY <1>3, <1>4, UnitedJoins
  <2>2. /\ r1 \in [D -> D] /\ r1[owner(n, 1)] = r1[n]
        /\ \A x, y \in D : root[x] = root[y] => r1[x] = r1[y]
    <3> HIDE DEF r1
    <3> QED BY <2>1 DEF Joins
  <2>3. RootsAreWhole(m, r1)
    BY <1>3, <1>4, UnitedWhole
  <2> QED BY <2>2, <2>3
<1> HIDE DEF r1
<1>8. /\ r2 \in [D -> D] /\ RootsAreWhole(m, r2) /\ r2[owner(n, 2)] = r2[n]
      /\ \A x, y \in D : r1[x] = r1[y] => r2[x] = r2[y]
  <2>1. Joins(r2, D, r1, owner(n, 2), n)
    BY <1>3, <1>7, UnitedJoins
  <2>2. /\ r2 \in [D -> D] /\ r2[owner(n, 2)] = r2[n]
        /\ \A x, y \in D : r1[x] = r1[y] => r2[x] = r2[y]
    <3> HIDE DEF r2
    <3> QED BY <2>1 DEF Joins
  <2>3. RootsAreWhole(m, r2)
    BY <1>3, <1>7, UnitedWhole
  <2> QED BY <2>2, <2>3
<1> HIDE DEF r2
<1>9. /\ r3 \in [D -> D] /\ RootsAreWhole(m, r3) /\ r3[owner(n, 3)] = r3[n]
      /\ \A x, y \in D : r2[x] = r2[y] => r3[x] = r3[y]
  <2>1. Joins(r3, D, r2, owner(n, 3), n)
    BY <1>3, <1>8, UnitedJoins
  <2>2. /\ r3 \in [D -> D] /\ r3[owner(n, 3)] = r3[n]
        /\ \A x, y \in D : r2[x] = r2[y] => r3[x] = r3[y]
    <3> HIDE DEF r3
    <3> QED BY <2>1 DEF Joins
  <2>3. RootsAreWhole(m, r3)
    BY <1>3, <1>8, UnitedWhole
  <2> QED BY <2>2, <2>3
<1> HIDE DEF r3
<1>10. \A k \in 1 .. 3 : r3[n] = r3[owner(n, k)]
  <2>1. r3[owner(n, 1)] = r3[n] /\ r3[owner(n, 2)] = r3[n]
    BY <1>3, <1>7, <1>8, <1>9
  <2>2. \A k \in 1 .. 3 : k = 1 \/ k = 2 \/ k = 3
    OBVIOUS
  <2> QED BY <1>9, <2>1, <2>2
<1>11. \A i \in 1 .. n - 1 : \A k \in 1 .. 3 : r3[i] = r3[owner(i, k)]
  BY <1>5, <1>7, <1>8, <1>9
<1>12. OwnersShare(m, r3, n)
  BY <1>6, <1>10, <1>11 DEF OwnersShare, owner
<1> QED BY <1>1, <1>9, <1>12 DEF D

(* In the end what has one root is whole, and triangles that touch have    *)
(* one root.                                                               *)
LEMMA RootsConnect ==
  ASSUME NEW m, m.faces \in Seq(Triangle)
  PROVE  /\ RootsAreWhole(m, Roots(m))
         /\ \A i, j \in DOMAIN m.faces : Touching(m, i, j) => Roots(m)[i] = Roots(m)[j]
<1> DEFINE D == DOMAIN m.faces
           N == Len(m.faces)
<1>1. N \in Nat /\ D = 1 .. N
  BY LenProperties
<1>2. PICK root : RootsTaken(m, root)
  BY RootsStep
<1> DEFINE T == {n \in 0 .. N : root[n] \in [D -> D] /\ RootsAreWhole(m, root[n]) /\ OwnersShare(m,
           root[n], n)}
<1>3. 0 \in T
  <2>1. root[0] = [i \in D |-> i] /\ root[0] \in [D -> D]
    BY <1>2 DEF RootsTaken
  <2>2. ASSUME NEW r PROVE Whole(m, With(root[0], r))
    <3>1. \A i \in With(root[0], r) : i = r
      BY <2>1 DEF With
    <3>2. \A part \in SUBSET With(root[0], r) : part # {} => part = With(root[0], r)
      BY <3>1
    <3> QED BY <3>2 DEF Whole
  <2>3. 1 .. 0 = {}
    OBVIOUS
  <2>4. OwnersShare(m, root[0], 0)
    BY <2>3 DEF OwnersShare
  <2>5. 0 \in 0 .. N
    BY <1>1
  <2> QED BY <2>1, <2>2, <2>4, <2>5 DEF RootsAreWhole
<1>4. \A n \in 0 .. N : n \in T /\ n < N => n + 1 \in T
  <2> SUFFICES ASSUME NEW n \in 0 .. N, n \in T, n < N PROVE n + 1 \in T
    OBVIOUS
  <2>1. n + 1 \in 1 .. N /\ n + 1 \in 0 .. N /\ (n + 1) - 1 = n
    BY <1>1
  <2>2. root[n + 1] = Rooted(m, root[n], n + 1)
    BY <1>2, <2>1 DEF RootsTaken
  <2>3. root[n] \in [1 .. N -> 1 .. N] /\ RootsAreWhole(m, root[n]) /\ OwnersShare(m, root[n],
        (n + 1) - 1)
    BY <1>1, <2>1
  <2> HIDE DEF T, N
  <2>4. /\ root[n + 1] \in [1 .. N -> 1 .. N] /\ RootsAreWhole(m, root[n + 1])
        /\ OwnersShare(m, root[n + 1], n + 1)
    <3> DEFINE x == root[n]
    <3>1. /\ x \in [1 .. N -> 1 .. N] /\ RootsAreWhole(m, x) /\ OwnersShare(m, x, (n + 1) - 1)
          /\ root[n + 1] = Rooted(m, x, n + 1) /\ N \in Nat /\ n + 1 \in 1 .. N
      BY <1>1, <2>1, <2>2, <2>3
    <3> HIDE DEF x
    <3> DEFINE k == n + 1
    <3>2. OwnersShare(m, x, k - 1) /\ k \in 1 .. N
      BY <3>1
    <3> HIDE DEF k
    <3>3. /\ Rooted(m, x, k) \in [1 .. N -> 1 .. N] /\ RootsAreWhole(m, Rooted(m, x, k))
          /\ OwnersShare(m, Rooted(m, x, k), k)
      BY <3>1, <3>2, RoundShares
    <3> QED BY <3>1, <3>3 DEF k
  <2> QED BY <1>1, <2>1, <2>4 DEF T
<1>5. N \in T
  <2>1. N \in 0 .. N
    BY <1>1
  <2> HIDE DEF T
  <2> QED BY <1>1, <1>3, <1>4, <2>1, InductionUpTo
<1>6. Roots(m) = root[N]
  BY <1>2 DEF RootsTaken
<1>7. RootsAreWhole(m, Roots(m)) /\ OwnersShare(m, Roots(m), N)
  BY <1>5, <1>6
<1>8. ASSUME NEW i \in D, NEW j \in D, Touching(m, i, j) PROVE Roots(m)[i] = Roots(m)[j]
  <2>1. PICK e \in EdgesOf(m.faces[i]) \cap EdgesOf(m.faces[j]) : TRUE
    BY <1>8 DEF Touching
  <2>2. PICK k \in 1 .. 3 : e = Edge(m.faces[i], k)
    BY <2>1 DEF EdgesOf
  <2>3. PICK l \in 1 .. 3 : e = Edge(m.faces[j], l)
    BY <2>1 DEF EdgesOf
  <2>4. OwnerOf(m, e, i) = OwnerOf(m, e, j)
    BY <1>1, OwnersOf
  <2>5. /\ Roots(m)[i] = Roots(m)[OwnerOf(m, e, i)]
        /\ Roots(m)[j] = Roots(m)[OwnerOf(m, e, j)]
    BY <1>1, <1>7, <2>2, <2>3 DEF OwnersShare
  <2> QED BY <2>4, <2>5
<1> QED BY <1>7, <1>8

-----------------------------------------------------------------------------
(* The components of a mesh are those of its edges.                        *)

(* The components are the sets with one root.                              *)
Connects(m, components) ==
  /\ UNION components = DOMAIN m.faces
  /\ \A c, d \in components : \A i \in c, j \in d : Touching(m, i, j) => c = d
  /\ \A c \in components : Whole(m, c)
(* They are those of the edges.                                            *)
LEMMA ComponentsConnect ==
  ASSUME NEW m, m.faces \in Seq(Triangle)
  PROVE  Connects(m, Components(m))
<1> DEFINE roots == Roots(m)
           D == DOMAIN m.faces
<1>1. roots \in [D -> D]
  BY RootsAre
<1>2. RootsAreWhole(m, roots) /\ \A i, j \in D : Touching(m, i, j) => roots[i] = roots[j]
  BY RootsConnect
<1>3. Components(m) = {{i \in D : roots[i] = r} : r \in ToSet(roots)}
  BY DEF Components
<1> HIDE DEF roots, D
<1>4. \A c \in Components(m) : c \subseteq D /\ \E r : c = {i \in D : roots[i] = r}
  BY <1>3
<1>5. \A i \in D : \E c \in Components(m) : i \in c
  <2> TAKE i \in D
  <2>1. roots[i] \in ToSet(roots)
    BY <1>1 DEF ToSet
  <2>2. {j \in D : roots[j] = roots[i]} \in Components(m)
    BY <1>3, <2>1
  <2> QED BY <2>2
<1>6. UNION Components(m) = D
  BY <1>4, <1>5
<1>7. \A c, d \in Components(m) : \A i \in c, j \in d : Touching(m, i, j) => c = d
  <2> SUFFICES ASSUME NEW c \in Components(m), NEW d \in Components(m), NEW i \in c, NEW j \in d,
                      Touching(m, i, j)
               PROVE  c = d
    OBVIOUS
  <2>1. PICK r : c = {x \in D : roots[x] = r}
    BY <1>4
  <2>2. PICK t : d = {x \in D : roots[x] = t}
    BY <1>4
  <2>3. i \in D /\ j \in D /\ roots[i] = r /\ roots[j] = t
    BY <2>1, <2>2
  <2>4. r = t
    BY <1>2, <2>3
  <2> QED BY <2>1, <2>2, <2>4
<1>8. \A c \in Components(m) : Whole(m, c)
  <2> TAKE c \in Components(m)
  <2>1. PICK r : c = {i \in D : roots[i] = r}
    BY <1>4
  <2>2. c = With(roots, r)
    BY <1>1, <2>1 DEF With
  <2> QED BY <1>2, <2>2 DEF RootsAreWhole
<1> QED BY <1>6, <1>7, <1>8 DEF Connects, D

(* While a mesh is repaired it is a list of triangles, also when its       *)
(* holes have been filled.                                                 *)
ListInv == phase = "repairing" => Triangles(mesh.faces)
(* Filling adds triangles, and before it the mesh is well formed.          *)
LEMMA ListStep == SourceInv /\ SourceInv' /\ ListInv /\ [SourceNext]_sourceVars => ListInv'
<1> SUFFICES ASSUME SourceInv, SourceInv', ListInv, [SourceNext]_sourceVars, (phase = "repairing")'
             PROVE  Triangles(mesh'.faces)
  BY DEF ListInv
<1>1. CASE ~Filled'
  BY <1>1 DEF SourceInv, ClearedInOrder, WellFormed, Triangles
<1>2. CASE Filled'
  <2>1. order' > Len(Operations) /\ "fill_small_holes" \in wanted' /\ Len(Operations) = 9
        /\ Operations[9] = "fill_small_holes"
    BY <1>2, OperationsAre DEF Filled
  <2>2. CASE Fill
    <3>1. phase = "repairing" /\ order <= Len(Operations) /\ mesh' = FillSmallHoles(mesh)
      BY <2>2 DEF Fill, HasTurn, Due, Becomes
    <3>2. WellFormed(mesh)
      BY <3>1, WhenDue
    <3> QED BY <3>1, <3>2, FillAdds DEF Fills
  <2>3. CASE UNCHANGED sourceVars
    BY <2>3 DEF sourceVars, ListInv
  <2>4. CASE SourceNext /\ ~Fill
    <3>1. phase = "repairing" => order \in Nat
      BY DEF SourceInv, ClearedInOrder
    <3>2. CASE \E m : Becomes(m)
      <4>1. order' = order + 1 /\ phase = "repairing" /\ wanted' = wanted
        BY <3>2 DEF Becomes
      <4>2. order <= 9 => order = 9
        BY <2>1, <3>1, <4>1
      <4> QED BY <2>1, <2>4, <4>1, <4>2, OperationsAre
             DEF SourceNext, Skip, Merge, ClearDegenerate, ClearDuplicates, ClearUnreferenced,
                 Orient, KeepOne, Drop, Upload, Ingest, AskRepair, Finish, HasTurn, Due
    <3>3. CASE ~(\E m : Becomes(m))
      <4>1. Ingest => phase' \in {"unreadable", "mesh"}
        BY DEF Ingest, Unreadable
      <4> QED BY <2>1, <2>4, <3>3, <4>1
         DEF SourceNext, Skip, Merge, ClearDegenerate, ClearDuplicates, ClearUnreferenced,
             Orient, KeepOne, Drop, Upload, AskRepair, Finish
    <3> QED BY <3>2, <3>3
  <2> QED BY <2>2, <2>3, <2>4
<1> QED BY <1>1, <1>2

(* The components of a mesh under repair are those of its edges:           *)
(* triangles that share an edge are in one component, and no component     *)
(* can be divided without cutting such an edge, for every mesh             *)
(* (ComponentsAreConnectivity: _face_component_indices).                   *)
THEOREM ComponentsFollowEdges == SourceSpec => []ComponentsAreConnectivity
<1>1. SourceInit => ListInv
  BY DEF SourceInit, ListInv
<1>2. ListInv => ComponentsAreConnectivity
  <2> SUFFICES ASSUME phase = "repairing", mesh.faces \in Seq(Triangle)
               PROVE  ComponentsAreConnectivity
    BY DEF ListInv, Triangles, ComponentsAreConnectivity
  <2>1. Connects(mesh, Components(mesh))
    BY ComponentsConnect
  <2> QED BY <2>1 DEF Connects, Whole, Touching, Touch, ComponentsAreConnectivity
<1> QED BY <1>1, <1>2, SourceInvariant, ListStep, PTL DEF SourceSpec

-----------------------------------------------------------------------------
(* Patches and their edits. An edit is kept by the id of its patch. The    *)
(* ids stay apart, because they are sets that no two patches share         *)
(* (Apart), and so the patch that is looked up by an id is the one that    *)
(* has it.                                                                 *)
Apart == patches \in Seq(SurfacePatch) /\ Distinct(patches)
(* What the settings of a document say of the patches it came with.        *)
Recorded ==
  /\ found \in Seq(SurfacePatch) /\ Distinct(found)
  /\ analysis # Other => BoundedOptions(analysis) /\ found = Segmented(Replayed(analysis))

PatchInv == Apart /\ Recorded /\ IntentIsApplied /\ ReplayIsExact

-----------------------------------------------------------------------------
(* Ids.                                                                    *)

LEMMA NamedIs ==
  ASSUME NEW ps \in Seq(SurfacePatch), Distinct(ps), NEW i \in DOMAIN ps
  PROVE  Named(ps, ps[i].id) = ps[i]
<1>1. \A k \in DOMAIN ps : ps[k].id = ps[i].id => k = i
  <2> SUFFICES ASSUME NEW k \in DOMAIN ps, ps[k].id = ps[i].id, k # i PROVE FALSE
    OBVIOUS
  <2>1. ps[i].id # {} /\ ps[i].id \cap ps[k].id = {}
    BY DEF Distinct
  <2> QED
    BY <2>1
<1>2. (CHOOSE k \in DOMAIN ps : ps[k].id = ps[i].id) = i
  BY <1>1
<1> QED
  BY <1>2 DEF Named

(* An update keeps the ids and the places of the patches.                  *)
LEMMA UpdatedPatches ==
  ASSUME Apart, NEW id \in Ids(patches), NEW body \in Updates, UpdatePatch(id, body)
  PROVE  /\ Apart' /\ DOMAIN patches' = DOMAIN patches
         /\ \A i \in DOMAIN patches :
              /\ patches'[i].id = patches[i].id /\ patches'[i].triangles = patches[i].triangles
<1> DEFINE p == Changed(Named(patches, id), body)
           chosen == Get(body, "smooth", p.smooth)
<1>1. Named(patches, id) \in SurfacePatch /\ Named(patches, id).id = id
  <2>1. PICK i \in DOMAIN patches : patches[i].id = id
    BY DEF Ids
  <2>2. Named(patches, id) = patches[i]
    BY <2>1, NamedIs DEF Apart
  <2> QED
    BY <2>1, <2>2 DEF Apart
<1>2. p \in SurfacePatch /\ p.id = id /\ p.triangles = Named(patches, id).triangles
  BY <1>1, UpdatesAssumption DEF Changed, Get, SurfacePatch
<1>3. chosen \in SUBSET PatchId
  BY <1>2, UpdatesAssumption DEF Get, SurfacePatch
<1>4. patches' = [i \in DOMAIN patches |->
                    Joined(IF patches[i].id = id THEN p ELSE patches[i], p, chosen)]
  BY DEF UpdatePatch
<1>5. ASSUME NEW q \in SurfacePatch
      PROVE  /\ Joined(q, p, chosen) \in SurfacePatch
             /\ Joined(q, p, chosen).id = q.id /\ Joined(q, p, chosen).triangles = q.triangles
  BY <1>2, <1>3 DEF Joined, SurfacePatch, PatchId
<1>6. ASSUME NEW i \in DOMAIN patches
      PROVE  /\ patches'[i] \in SurfacePatch /\ patches'[i].id = patches[i].id
             /\ patches'[i].triangles = patches[i].triangles
  <2>1. patches[i] \in SurfacePatch
    BY DEF Apart
  <2>2. CASE patches[i].id = id
    <3>1. patches[i] = Named(patches, id)
      BY <2>2, NamedIs DEF Apart
    <3> QED
      BY <1>2, <1>4, <1>5, <2>2, <3>1
  <2>3. CASE patches[i].id # id
    BY <1>4, <1>5, <2>1, <2>3
  <2> QED
    BY <2>2, <2>3
<1>7. DOMAIN patches' = DOMAIN patches /\ patches' \in Seq(SurfacePatch)
  <2>1. DOMAIN patches' = 1..Len(patches) /\ Len(patches) \in Nat
    BY <1>4 DEF Apart
  <2>2. patches' = [i \in 1..Len(patches) |-> patches'[i]]
    BY <1>4, <2>1
  <2> QED
    BY <1>6, <2>1, <2>2 DEF Apart
<1>8. Distinct(patches')
  BY <1>6, <1>7 DEF Distinct, Apart
<1> QED
  BY <1>6, <1>7, <1>8 DEF Apart

(* A merge leaves the other patches as they are, in their order.           *)
LEMMA LeftAlone ==
  ASSUME NEW ps \in Seq(SurfacePatch), NEW k \in DOMAIN ps
  PROVE  LET s == RemoveAt(ps, k) IN
         /\ s \in Seq(SurfacePatch) /\ Len(s) = Len(ps) - 1
         /\ \A i \in 1..Len(s) : s[i] = IF i < k THEN ps[i] ELSE ps[i + 1]
<1> DEFINE head == SubSeq(ps, 1, k - 1)
           tail == SubSeq(ps, k + 1, Len(ps))
<1>1. /\ head \in Seq(SurfacePatch) /\ Len(head) = k - 1
      /\ \A i \in 1..(k - 1) : head[i] = ps[i]
  OBVIOUS
<1>2. /\ tail \in Seq(SurfacePatch) /\ Len(tail) = Len(ps) - k
      /\ \A i \in 1..(Len(ps) - k) : tail[i] = ps[k + i]
  OBVIOUS
<1> HIDE DEF head, tail
<1>3. /\ head \o tail \in Seq(SurfacePatch) /\ Len(head \o tail) = Len(ps) - 1
      /\ \A i \in 1..Len(head \o tail) :
           (head \o tail)[i] = IF i < k THEN head[i] ELSE tail[i - (k - 1)]
  <2>1. /\ k \in Nat /\ Len(ps) \in Nat
        /\ head \in Seq(SurfacePatch) /\ tail \in Seq(SurfacePatch)
    BY <1>1, <1>2
  <2>2. /\ head \o tail \in Seq(SurfacePatch) /\ Len(head \o tail) = Len(head) + Len(tail)
        /\ \A i \in 1..(Len(head) + Len(tail)) :
             (head \o tail)[i] = IF i <= Len(head) THEN head[i] ELSE tail[i - Len(head)]
    BY <2>1
  <2> QED
    BY <1>1, <1>2, <2>1, <2>2
<1>4. ASSUME NEW i \in 1..Len(head \o tail)
      PROVE  (head \o tail)[i] = IF i < k THEN ps[i] ELSE ps[i + 1]
  <2>1. k \in 1..Len(ps) /\ Len(ps) \in Nat
    OBVIOUS
  <2>2. CASE i < k
    BY <1>1, <1>3, <2>1, <2>2
  <2>3. CASE ~(i < k)
    <3>1. i - (k - 1) \in 1..(Len(ps) - k) /\ k + (i - (k - 1)) = i + 1
      BY <1>3, <2>1, <2>3
    <3> QED
      BY <1>2, <1>3, <2>3, <3>1
  <2> QED
    BY <2>2, <2>3
<1>5. RemoveAt(ps, k) = head \o tail
  BY DEF RemoveAt, head, tail
<1> QED
  BY <1>3, <1>4, <1>5

LEMMA MergedPatches ==
  ASSUME Apart, NEW i \in DOMAIN patches, NEW j \in DOMAIN patches, MergePatches(i, j)
  PROVE  /\ Apart'
         /\ Merged(patches[i], patches[j]).id \notin Ids(patches)
         /\ \A k \in DOMAIN patches \ {i, j} : patches[k] \in ToSet(patches')
         /\ \A q \in ToSet(patches') : q \in ToSet(patches) \/ q = Merged(patches[i], patches[j])
         /\ Divides(patches) => Divides(patches')
<1> DEFINE a == patches[i]
           b == patches[j]
           n == Len(patches)
           m == Merged(a, b)
           without == Without(i, j)
           Source(k) == IF k < i THEN k ELSE IF k < j - 1 THEN k + 1 ELSE k + 2
<1>1. i \in 1..n /\ j \in 1..n /\ i < j /\ n \in Nat
  BY DEF Apart, MergePatches
<1>2. /\ without \in Seq(SurfacePatch) /\ Len(without) = n - 2
      /\ \A k \in 1..(n - 2) : without[k] = patches[Source(k)]
  <2> DEFINE s == RemoveAt(patches, j)
  <2>1. /\ s \in Seq(SurfacePatch) /\ Len(s) = n - 1
        /\ \A k \in 1..(n - 1) : s[k] = IF k < j THEN patches[k] ELSE patches[k + 1]
    BY <1>1, LeftAlone DEF Apart
  <2>2. i \in DOMAIN s
    BY <1>1, <2>1
  <2> HIDE DEF s
  <2>3. /\ RemoveAt(s, i) \in Seq(SurfacePatch) /\ Len(RemoveAt(s, i)) = n - 2
        /\ \A k \in 1..(n - 2) : RemoveAt(s, i)[k] = IF k < i THEN s[k] ELSE s[k + 1]
    <3>1. /\ RemoveAt(s, i) \in Seq(SurfacePatch) /\ Len(RemoveAt(s, i)) = Len(s) - 1
          /\ \A k \in 1..Len(RemoveAt(s, i)) :
               RemoveAt(s, i)[k] = IF k < i THEN s[k] ELSE s[k + 1]
      BY <2>1, <2>2, LeftAlone
    <3>2. Len(RemoveAt(s, i)) = n - 2
      BY <1>1, <2>1, <3>1
    <3> QED
      BY <3>1, <3>2
  <2>4. without = RemoveAt(s, i)
    BY DEF Without, s
  <2> QED
    BY <1>1, <2>1, <2>3, <2>4
<1>3. m \in SurfacePatch /\ m.id = a.id \cup b.id /\ m.triangles = a.triangles \cup b.triangles
  <2>1. a \in SurfacePatch /\ b \in SurfacePatch
    BY DEF Apart
  <2>2. a.id \cup b.id \in PatchId /\ a.triangles \cup b.triangles \in SUBSET Mesh
    BY <2>1 DEF SurfacePatch, PatchId
  <2> HIDE DEF a, b
  <2> QED
    BY <2>1, <2>2 DEF Merged, SurfacePatch
<1>4. patches' = Append(without, m)
  BY DEF MergePatches
<1> HIDE DEF without, m
<1>5. /\ patches' \in Seq(SurfacePatch) /\ Len(patches') = n - 1 /\ DOMAIN patches' = 1..(n - 1)
      /\ patches'[n - 1] = m /\ \A k \in 1..(n - 2) : patches'[k] = patches[Source(k)]
  BY <1>1, <1>2, <1>3, <1>4
<1>6. /\ \A k \in 1..(n - 2) : Source(k) \in 1..n \ {i, j}
      /\ \A k, l \in 1..(n - 2) : k # l => Source(k) # Source(l)
  BY <1>1
<1>7. \A k \in 1..n \ {i, j} : \E l \in 1..(n - 2) : Source(l) = k
  <2> TAKE k \in 1..n \ {i, j}
  <2> DEFINE l == IF k < i THEN k ELSE IF k < j THEN k - 1 ELSE k - 2
  <2>1. l \in 1..(n - 2) /\ Source(l) = k
    BY <1>1
  <2> QED
    BY <2>1
<1>8. /\ \A k \in 1..n : patches[k].id # {}
      /\ \A k, l \in 1..n : k # l => patches[k].id \cap patches[l].id = {}
  BY DEF Apart, Distinct
<1> HIDE DEF Source
<1>9. Distinct(patches')
  <2>1. ASSUME NEW k \in 1..(n - 1) PROVE patches'[k].id # {}
    <3>1. CASE k = n - 1
      BY <1>1, <1>3, <1>5, <1>8, <3>1
    <3>2. CASE k # n - 1
      <4>1. k \in 1..(n - 2)
        BY <1>1, <3>2
      <4>2. patches'[k] = patches[Source(k)] /\ Source(k) \in 1..n
        BY <1>5, <1>6, <4>1
      <4> QED
        BY <1>8, <4>2
    <3> QED
      BY <3>1, <3>2
  <2>2. ASSUME NEW k \in 1..(n - 2) PROVE patches'[k].id \cap m.id = {}
    BY <1>1, <1>3, <1>5, <1>6, <1>8
  <2>3. ASSUME NEW k \in 1..(n - 2), NEW l \in 1..(n - 2), k # l
        PROVE  patches'[k].id \cap patches'[l].id = {}
    BY <1>5, <1>6, <1>8, <2>3
  <2>4. ASSUME NEW k \in 1..(n - 1), NEW l \in 1..(n - 1), k # l
        PROVE  patches'[k].id \cap patches'[l].id = {}
    <3>1. \A x \in 1..(n - 1) : x = n - 1 \/ x \in 1..(n - 2)
      BY <1>1
    <3>2. k = n - 1 /\ l = n - 1 => FALSE
      BY <2>4
    <3> QED
      BY <1>5, <2>2, <2>3, <2>4, <3>1, <3>2
  <2> QED
    BY <1>5, <2>1, <2>4 DEF Distinct
<1>10. m.id \notin Ids(patches)
  <2> SUFFICES ASSUME NEW k \in 1..n, patches[k].id = a.id \cup b.id PROVE FALSE
    BY <1>3 DEF Ids, Apart
  <2>1. k # i => FALSE
    BY <1>1, <1>8
  <2>2. k # j => FALSE
    BY <1>1, <1>8
  <2> QED
    BY <1>1, <2>1, <2>2
<1>11. \A k \in DOMAIN patches \ {i, j} : patches[k] \in ToSet(patches')
  <2> TAKE k \in DOMAIN patches \ {i, j}
  <2>1. PICK l \in 1..(n - 2) : Source(l) = k
    BY <1>7 DEF Apart
  <2>2. l \in DOMAIN patches' /\ patches'[l] = patches[k]
    BY <1>1, <1>5, <2>1
  <2> QED
    BY <2>2 DEF ToSet
<1>12. \A q \in ToSet(patches') : q \in ToSet(patches) \/ q = m
  <2> SUFFICES ASSUME NEW k \in 1..(n - 1) PROVE patches'[k] \in ToSet(patches) \/ patches'[k] = m
    BY <1>5 DEF ToSet
  <2>1. CASE k = n - 1
    BY <1>5, <2>1
  <2>2. CASE k # n - 1
    <3>1. k \in 1..(n - 2)
      BY <1>1, <2>2
    <3>2. patches'[k] = patches[Source(k)] /\ Source(k) \in DOMAIN patches
      BY <1>5, <1>6, <3>1 DEF Apart
    <3> QED
      BY <3>2 DEF ToSet
  <2> QED
    BY <2>1, <2>2
<1>13. Divides(patches) => Divides(patches')
  <2> SUFFICES ASSUME Divides(patches), NEW t \in Mesh
               PROVE  \E k \in 1..(n - 1) :
                        /\ t \in patches'[k].triangles
                        /\ \A l \in 1..(n - 1) \ {k} : t \notin patches'[l].triangles
    BY <1>5 DEF Divides
  <2>1. PICK k \in 1..n :
          t \in patches[k].triangles /\ \A l \in 1..n \ {k} : t \notin patches[l].triangles
    BY DEF Divides, Apart
  <2>2. \A l \in 1..(n - 1) : l # n - 1 => l \in 1..(n - 2)
    BY <1>1
  <2>3. CASE k \in {i, j}
    <3>1. t \in patches'[n - 1].triangles /\ n - 1 \in 1..(n - 1)
      BY <1>1, <1>3, <1>5, <2>1, <2>3
    <3>2. \A l \in 1..(n - 2) : t \notin patches'[l].triangles
      BY <1>5, <1>6, <2>1, <2>3
    <3> QED
      BY <2>2, <3>1, <3>2
  <2>4. CASE k \notin {i, j}
    <3>1. PICK l \in 1..(n - 2) : Source(l) = k
      BY <1>7, <2>4
    <3>2. l \in 1..(n - 1) /\ t \in patches'[l].triangles
      BY <1>1, <1>5, <2>1, <3>1
    <3>3. t \notin patches'[n - 1].triangles
      BY <1>1, <1>3, <1>5, <2>1, <2>4
    <3>4. \A r \in 1..(n - 2) \ {l} : t \notin patches'[r].triangles
      BY <1>5, <1>6, <2>1, <3>1
    <3> QED
      BY <2>2, <3>2, <3>3, <3>4
  <2> QED
    BY <2>3, <2>4
<1> QED
  BY <1>5, <1>9, <1>10, <1>11, <1>12, <1>13 DEF Apart, m

-----------------------------------------------------------------------------
(* What holds of the patches, and of the settings they came with.          *)

LEMMA AnalysisIsRecorded ==
  ASSUME NEW raw \in AnalysisAsks, AnalysisAccepts(raw)
  PROVE  /\ BoundedOptions(AnalysisSettings(raw))
         /\ Replayed(AnalysisSettings(raw)) \in {AnalysisSettings(raw), SegmentationSettings}
         /\ AnalysisSettings(raw) # Other => Replayed(AnalysisSettings(raw)) = AnalysisSettings(raw)
<1> DEFINE s == AnalysisSettings(raw)
<1>1. /\ DOMAIN s = DOMAIN SegmentationSettings
      /\ s = [f \in DOMAIN SegmentationSettings |-> s[f]]
  <2>1. DOMAIN s = DOMAIN SegmentationSettings
    BY DEF AnalysisSettings
  <2>2. s = [f \in DOMAIN s |-> s[f]]
    BY DEF AnalysisSettings
  <2> QED
    BY <2>1, <2>2
<1>2. /\ s["minimumFacetedCylinderSideCount"] = 16
      /\ s["maximumFacetedCylinderSagittaMm"] = 10000
      /\ {"minimumFacetedCylinderSideCount", "maximumFacetedCylinderSagittaMm"} \subseteq DOMAIN s
  BY DEF AnalysisSettings, SegmentationSettings
<1> HIDE DEF s
<1>3. Sides(16) /\ Length(10000)
  BY SettingsAssumption DEF Sides, Length, BoundedNumber
<1>4. BoundedOptions(s)
  BY <1>2, <1>3 DEF BoundedOptions, Get
<1>5. s # Other => Replayed(s) = s
  BY <1>1 DEF Replayed, Get
<1>6. s = Other => Replayed(s) = SegmentationSettings
  BY DEF Replayed
<1> QED
  BY <1>4, <1>5, <1>6 DEF s

(* Settings that are replayed are recorded, and replayed again are what    *)
(* they were.                                                              *)
LEMMA ReplayedIsRecorded ==
  ASSUME NEW s, s # Other, BoundedOptions(s)
  PROVE  /\ BoundedOptions(Replayed(s))
         /\ Replayed(s) # Other => Replayed(Replayed(s)) = Replayed(s)
<1> DEFINE d == SegmentationSettings
           r == [f \in DOMAIN d |-> Get(s, f, d[f])]
<1>1. Replayed(s) = r
  BY DEF Replayed
<1>2. /\ d["minimumFacetedCylinderSideCount"] = 16
      /\ d["maximumFacetedCylinderSagittaMm"] = 10000
      /\ "minimumFacetedCylinderSideCount" \in DOMAIN d
      /\ "maximumFacetedCylinderSagittaMm" \in DOMAIN d
  BY DEF SegmentationSettings
<1> HIDE DEF d
<1>3. /\ DOMAIN r = DOMAIN d
      /\ \A f \in DOMAIN d : r[f] = Get(s, f, d[f])
  OBVIOUS
<1> HIDE DEF r
<1>4. /\ Get(r, "minimumFacetedCylinderSideCount", 16)
           = Get(s, "minimumFacetedCylinderSideCount", 16)
      /\ Get(r, "maximumFacetedCylinderSagittaMm", 10000)
           = Get(s, "maximumFacetedCylinderSagittaMm", 10000)
  BY <1>2, <1>3 DEF Get
<1>5. BoundedOptions(r)
  BY <1>4 DEF BoundedOptions
<1>6. r # Other => Replayed(r) = r
  <2> SUFFICES ASSUME r # Other PROVE Replayed(r) = r
    OBVIOUS
  <2>1. Replayed(r) = [f \in DOMAIN d |-> Get(r, f, d[f])]
    BY DEF Replayed, d
  <2>2. \A f \in DOMAIN d : Get(r, f, d[f]) = Get(s, f, d[f])
    BY <1>3 DEF Get
  <2> QED
    BY <2>1, <2>2 DEF r
<1> QED
  BY <1>1, <1>5, <1>6

(* What the API admits is replayed, on every graph.                        *)
LEMMA AdmittedIsReplayable ==
  ASSUME NEW g, NEW s, NEW ps, Admission(g, s, ps) = "none" PROVE Replayable(s, ps)
BY DEF Admission

LEMMA PatchesAtFirst == Init => Apart /\ Recorded
<1> SUFFICES ASSUME Init PROVE Apart /\ Recorded
  OBVIOUS
<1>1. CASE analysis = Other /\ found = <<>>
  <2>1. patches = <<>>
    BY <1>1 DEF Init
  <2> QED
    BY <1>1, <2>1 DEF Apart, Distinct, Recorded
<1>2. CASE analysis \in Older /\ found = Segmented(Replayed(analysis))
  <2>1. found \in Seq(SurfacePatch) /\ Distinct(found)
    BY <1>2, SegmentationAssumption
  <2> QED
    BY <1>2, <2>1, OlderAssumption DEF Init, Apart, Recorded
<1> QED
  BY <1>1, <1>2 DEF Init

LEMMA CompletedKeeps ==
  ASSUME Apart, Recorded, NEW raw \in Asks, Reconstruct(raw)
  PROVE  Apart' /\ Recorded'
<1>1. CASE Mode(raw) = "automatic" /\ Completed(Mode(raw))
  <2>1. Replayable(analysis, found)
    BY <1>1, AdmittedIsReplayable DEF Reconstruct
  <2>2. analysis # Other
    BY <2>1 DEF Replayable
  <2>3. BoundedOptions(analysis) /\ found = Segmented(Replayed(analysis))
    BY <2>2 DEF Recorded
  <2>4. analysis' = Replayed(analysis) /\ found' = found /\ patches' = found
    BY <1>1, <2>3 DEF Completed
  <2>5. BoundedOptions(Replayed(analysis))
    BY <2>2, <2>3, ReplayedIsRecorded
  <2>6. Replayed(analysis) # Other => Replayed(Replayed(analysis)) = Replayed(analysis)
    BY <2>2, <2>3, ReplayedIsRecorded
  <2>7. analysis' # Other => BoundedOptions(analysis') /\ found' = Segmented(Replayed(analysis'))
    BY <2>3, <2>4, <2>5, <2>6
  <2> QED
    BY <2>4, <2>7 DEF Apart, Recorded
<1>2. CASE ~(Mode(raw) = "automatic" /\ Completed(Mode(raw)))
  <2>1. UNCHANGED <<analysis, found, patches>>
    BY <1>2 DEF Reconstruct, Completed
  <2> QED
    BY <2>1 DEF Apart, Recorded
<1> QED
  BY <1>1, <1>2

LEMMA PatchesStep == ASSUME Apart, Recorded, [Next]_vars PROVE Apart' /\ Recorded'
<1>1. CASE \E raw \in AnalysisAsks : Analyze(raw)
  <2>1. PICK raw \in AnalysisAsks : Analyze(raw)
    BY <1>1
  <2> DEFINE s == AnalysisSettings(raw)
  <2>2. /\ AnalysisAccepts(raw) /\ analysis' = s
        /\ found' = Segmented(s) /\ patches' = found'
    BY <2>1 DEF Analyze
  <2>3. Segmented(s) \in Seq(SurfacePatch) /\ Distinct(Segmented(s))
    BY <2>2, SegmentationAssumption
  <2>4. BoundedOptions(s) /\ (s # Other => Replayed(s) = s)
    BY <2>2, AnalysisIsRecorded
  <2> HIDE DEF s
  <2> QED
    BY <2>2, <2>3, <2>4 DEF Apart, Recorded
<1>2. CASE \E raw \in AnalysisAsks : AnalysisRefused(raw)
  BY <1>2 DEF AnalysisRefused, Apart, Recorded
<1>3. CASE \E id \in Ids(patches), body \in Updates : UpdatePatch(id, body)
  <2>1. Apart'
    BY <1>3, UpdatedPatches
  <2> QED
    BY <1>3, <2>1 DEF UpdatePatch, Recorded
<1>4. CASE \E i, j \in DOMAIN patches : MergePatches(i, j)
  <2>1. Apart'
    BY <1>4, MergedPatches
  <2> QED
    BY <1>4, <2>1 DEF MergePatches, Recorded
<1>5. CASE \E raw \in Asks : Reconstruct(raw)
  BY <1>5, CompletedKeeps
<1>6. CASE (\E raw \in Asks : Refused(raw)) \/ UNCHANGED vars
  BY <1>6 DEF Refused, vars, Apart, Recorded
<1>7. CASE UploadSource
  <2>1. analysis' = Other /\ found' = <<>> /\ patches' = <<>>
    BY <1>7 DEF UploadSource
  <2> QED
    BY <2>1 DEF Apart, Distinct, Recorded
<1> QED
  BY <1>1, <1>2, <1>3, <1>4, <1>5, <1>6, <1>7 DEF Next

-----------------------------------------------------------------------------
(* What a reconstruction makes of the edits and of the settings.           *)

LEMMA CurvedHonours ==
  ASSUME Apart, conversion' = CurvedOutcome PROVE IntentIsApplied'
<1> SUFFICES ASSUME conversion'.refusal = "none",
                    NEW i \in DOMAIN conversion'.asked
             PROVE  LET p == conversion'.asked[i] IN
                    /\ p.locked \/ p.overridden =>
                         \E a \in conversion'.applied :
                           a.id = p.id /\ (p.overridden => a.kind = p.kind) /\ (p.locked => a.locked)
                    /\ \A n \in p.smooth : {p.id, n} \in conversion'.pairs
  BY DEF IntentIsApplied
<1>1. /\ AllKnown
      /\ conversion' = [mode |-> "curved", refusal |-> "none", applied |-> Applied,
                        pairs |-> SmoothPairs, asked |-> patches]
  BY DEF CurvedOutcome
<1>2. /\ conversion'.asked = patches /\ conversion'.applied = Applied
      /\ conversion'.pairs = SmoothPairs
  BY <1>1
<1> DEFINE p == patches[i]
           o == [id |-> p.id, what |-> Override(p)]
<1>3. p \in SurfacePatch /\ p \in ToSet(patches)
  BY <1>2 DEF Apart, ToSet
<1>4. p.overridden \/ p.locked \/ p.smooth # {} => o \in Overrides /\ o.id \in Ids(Curved)
  BY <1>1, <1>3 DEF Overrides, AllKnown
<1>5. p.locked \/ p.overridden =>
        \E a \in Applied :
          a.id = p.id /\ (p.overridden => a.kind = p.kind) /\ (p.locked => a.locked)
  <2> SUFFICES ASSUME p.locked \/ p.overridden
               PROVE  \E a \in Applied :
                        a.id = p.id /\ (p.overridden => a.kind = p.kind) /\ (p.locked => a.locked)
    OBVIOUS
  <2> DEFINE a == [id |-> o.id,
                   kind |-> IF o.what.kind = "none" THEN Named(Curved, o.id).kind ELSE o.what.kind,
                   locked |-> o.what.locked]
  <2>1. o \in Overrides /\ o.id \in Ids(Curved)
    BY <1>4
  <2>2. a \in Applied
    BY <2>1 DEF Applied
  <2>3. o.what.locked = p.locked /\ (p.overridden => o.what.kind = p.kind)
    BY DEF Override
  <2>4. p.kind # "none"
    BY <1>3 DEF SurfacePatch, PatchKind
  <2> QED
    BY <2>2, <2>3, <2>4
<1>6. \A n \in p.smooth : {p.id, n} \in SmoothPairs
  <2> TAKE n \in p.smooth
  <2>1. o \in Overrides /\ o.id \in Ids(Curved) /\ o.what.smooth = p.smooth
    BY <1>4 DEF Override
  <2>2. {o.id, n} \in {{o.id, x} : x \in o.what.smooth}
    BY <2>1
  <2> QED
    BY <2>1, <2>2 DEF SmoothPairs
<1> QED
  BY <1>2, <1>5, <1>6

LEMMA RefusalStep ==
  ASSUME Recorded, NEW raw \in Asks, Refused(raw)
  PROVE  IntentIsApplied' /\ ReplayIsExact'
<1> DEFINE offer == Offer(graph, "none", analysis, found)
           refusal == Admission(graph, analysis, found)
<1>1. conversion' = [mode |-> "automatic", refusal |-> refusal, offer |-> offer]
  BY DEF Refused
<1>2. refusal \in {"analysis_required", "automatic_reconstruction_unsupported"}
  BY DEF Refused, Admission
<1>3. offer # "analysis"
  <2> SUFFICES ASSUME offer = "analysis" PROVE FALSE
    OBVIOUS
  <2>1. graph # "sample" /\ analysis # Other /\ found # <<>> /\ ServiceSettings(analysis)
    BY DEF Offer
  <2>2. Replayable(analysis, found)
    BY <2>1 DEF Recorded, ServiceSettings, Replayable
  <2>3. Admission(graph, analysis, found) = "none"
    BY <2>1, <2>2 DEF Admission
  <2> QED
    BY <2>3 DEF Refused
<1> HIDE DEF offer, refusal
<1>4. conversion'.mode = "automatic" /\ conversion'.refusal = refusal /\ conversion'.offer = offer
  BY <1>1
<1> QED
  BY <1>2, <1>3, <1>4 DEF IntentIsApplied, ReplayIsExact

LEMMA ReconstructionStep ==
  ASSUME Apart, Recorded, NEW raw \in Asks, Reconstruct(raw)
  PROVE  IntentIsApplied' /\ ReplayIsExact'
<1>1. conversion' = Outcome(raw)
  BY DEF Reconstruct
<1>2. CASE SettingsRefusal(raw, "mm") # "none"
  <2>1. conversion' = [mode |-> Mode(raw), refusal |-> SettingsRefusal(raw, "mm")]
    BY <1>1, <1>2 DEF Outcome
  <2>2. SettingsRefusal(raw, "mm") \in
          {"none", "invalid_curved_settings", "invalid_faceted_settings",
           "invalid_reconstruction_mode", "invalid_reconstruction_settings",
           "invalid_detail_mode"}
    BY DEF SettingsRefusal, Mode, CurvedRefusal, FacetedRefusal, AutomaticRefusal
  <2> QED
    BY <1>2, <2>1, <2>2 DEF IntentIsApplied, ReplayIsExact
<1>3. CASE SettingsRefusal(raw, "mm") = "none"
  <2>1. CASE Mode(raw) = "faceted"
    <3>1. conversion' = [mode |-> "faceted", refusal |-> "none"]
      BY <1>1, <1>3, <2>1 DEF Outcome
    <3> QED
      BY <3>1 DEF IntentIsApplied, ReplayIsExact
  <2>2. CASE Mode(raw) = "curved"
    <3>1. conversion' = CurvedOutcome
      BY <1>1, <1>3, <2>2 DEF Outcome
    <3>2. conversion'.mode = "curved"
      BY <3>1 DEF CurvedOutcome
    <3> QED
      BY <3>1, <3>2, CurvedHonours DEF ReplayIsExact
  <2>3. CASE Mode(raw) = "automatic"
    <3>1. Replayable(analysis, found)
      BY <2>3, AdmittedIsReplayable DEF Reconstruct
    <3>2. ReplayRefusal(analysis, patches) = "none"
      BY <3>1 DEF Replayable, ReplayRefusal
    <3>3. conversion' = [mode |-> "automatic", refusal |-> "none", shown |-> found,
                         segmented |-> Segmented(Replayed(analysis))]
      BY <1>1, <1>3, <2>3, <3>2 DEF Outcome
    <3>4. found = Segmented(Replayed(analysis))
      BY <3>1 DEF Replayable, Recorded
    <3> QED
      BY <3>3, <3>4 DEF IntentIsApplied, ReplayIsExact
  <2> QED
    BY <2>1, <2>2, <2>3 DEF Mode
<1> QED
  BY <1>2, <1>3

LEMMA PatchInvariant == Spec => []PatchInv
<1>1. Init => PatchInv
  <2>1. Init => IntentIsApplied /\ ReplayIsExact
    <3> SUFFICES ASSUME Init PROVE IntentIsApplied /\ ReplayIsExact
      OBVIOUS
    <3>1. conversion.mode = "none"
      BY DEF Init, NoConversion
    <3>2. conversion.mode # "curved" /\ conversion.mode # "automatic"
      BY <3>1
    <3> QED
      BY <3>2 DEF IntentIsApplied, ReplayIsExact
  <2> QED
    BY <2>1, PatchesAtFirst DEF PatchInv
<1>2. PatchInv /\ [Next]_vars => PatchInv'
  <2> SUFFICES ASSUME PatchInv, [Next]_vars PROVE PatchInv'
    OBVIOUS
  <2>1. Apart /\ Recorded /\ Apart' /\ Recorded'
    BY PatchesStep DEF PatchInv
  <2>2. CASE \E raw \in Asks : Refused(raw) \/ Reconstruct(raw)
    BY <2>1, <2>2, RefusalStep, ReconstructionStep DEF PatchInv
  <2>3. CASE ~ \E raw \in Asks : Refused(raw) \/ Reconstruct(raw)
    <3>1. conversion' = conversion
      BY <2>3 DEF Next, vars, UploadSource, Analyze, AnalysisRefused, UpdatePatch, MergePatches
    <3> QED
      BY <2>1, <3>1 DEF PatchInv, IntentIsApplied, ReplayIsExact
  <2> QED
    BY <2>2, <2>3
<1> QED
  BY <1>1, <1>2, PTL DEF Spec

(* A curved conversion that succeeds honours every lock, classification    *)
(* and join on record, however many edits and merges there were.           *)
THEOREM IntentIsAppliedHolds == Spec => []IntentIsApplied
<1>1. PatchInv => IntentIsApplied
  BY DEF PatchInv
<1> QED
  BY <1>1, PatchInvariant, PTL

(* What the page offers on account of an analysis by the service the API   *)
(* admits, what the API admits is never refused for the settings that are  *)
(* replayed, and the replay finds the patches that the analysis showed.    *)
THEOREM ReplayIsExactHolds == Spec => []ReplayIsExact
<1>1. PatchInv => ReplayIsExact
  BY DEF PatchInv
<1> QED
  BY <1>1, PatchInvariant, PTL

-----------------------------------------------------------------------------
(* What the patches cover.                                                 *)

(* No edit leaves a triangle out or gives it to two patches.               *)
THEOREM EveryTriangleOnceHolds == Spec => []EveryTriangleOnce
<1>1. Init => EveryTriangleOnce
  BY DEF Init, EveryTriangleOnce
<1>2. PatchInv /\ EveryTriangleOnce /\ [Next]_vars => EveryTriangleOnce'
  <2> SUFFICES ASSUME PatchInv, EveryTriangleOnce, [Next]_vars PROVE EveryTriangleOnce'
    OBVIOUS
  <2>1. ASSUME found' = found, Divides(patches) => Divides(patches') PROVE EveryTriangleOnce'
    BY <2>1 DEF EveryTriangleOnce, Divides
  <2>2. CASE UploadSource \/ \E raw \in AnalysisAsks : Analyze(raw)
    <3>1. patches' = found'
      BY <2>2 DEF UploadSource, Analyze
    <3> QED
      BY <3>1 DEF EveryTriangleOnce
  <2>3. CASE \/ \E raw \in AnalysisAsks : AnalysisRefused(raw)
             \/ \E raw \in Asks : Refused(raw) \/ Reconstruct(raw)
             \/ UNCHANGED vars
    <3>1. \/ patches' = found'
          \/ found' = found /\ patches' = patches
      BY <2>3 DEF AnalysisRefused, Refused, Reconstruct, Completed, vars
    <3>2. CASE patches' = found'
      BY <3>2 DEF EveryTriangleOnce
    <3>3. CASE found' = found /\ patches' = patches
      BY <2>1, <3>3 DEF Divides
    <3> QED
      BY <3>1, <3>2, <3>3
  <2>4. CASE \E id \in Ids(patches), body \in Updates : UpdatePatch(id, body)
    <3>1. /\ found' = found /\ DOMAIN patches' = DOMAIN patches
          /\ \A i \in DOMAIN patches : patches'[i].triangles = patches[i].triangles
      BY <2>4, UpdatedPatches DEF PatchInv, UpdatePatch
    <3>2. Divides(patches) => Divides(patches')
      BY <3>1 DEF Divides
    <3> QED
      BY <2>1, <3>1, <3>2
  <2>5. CASE \E i, j \in DOMAIN patches : MergePatches(i, j)
    <3>1. found' = found
      BY <2>5 DEF MergePatches
    <3>2. Divides(patches) => Divides(patches')
      BY <2>5, MergedPatches DEF PatchInv
    <3> QED
      BY <2>1, <3>1, <3>2
  <2> QED
    BY <2>2, <2>3, <2>4, <2>5 DEF Next
<1> QED
  BY <1>1, <1>2, PatchInvariant, PTL DEF Spec

-----------------------------------------------------------------------------
(* Locks.                                                                  *)

(* The patch p, and what every patch declares of it, after an edit.        *)
Kept(p) == KeepsIts(p, {"id", "triangles", "locked", "smooth"}) /\ KeepsItsJoins(p)

LEMMA UnchangedKeeps ==
  ASSUME patches' = patches, NEW p \in ToSet(patches) PROVE Kept(p)
BY DEF Kept, KeepsIts, KeepsItsJoins

LEMMA UpdateKeeps ==
  ASSUME Apart, NEW id \in Ids(patches), NEW body \in Updates, UpdatePatch(id, body),
         NEW p \in ToSet(patches), p.locked
  PROVE  \/ Kept(p)
         \/ Unlocks(p) /\ KeepsIts(p, {"id", "triangles"})
<1> DEFINE c == Changed(Named(patches, id), body)
           chosen == Get(body, "smooth", c.smooth)
<1>1. PICK i \in DOMAIN patches : patches[i] = p
  BY DEF ToSet
<1>2. PICK j \in DOMAIN patches : patches[j].id = id
  BY DEF Ids
<1>3. Named(patches, id) = patches[j] /\ Named(patches, p.id) = p
  BY <1>1, <1>2, NamedIs DEF Apart
<1>4. patches[j] \in SurfacePatch /\ p \in SurfacePatch
  BY <1>1 DEF Apart
<1>5. /\ c \in SurfacePatch /\ c.id = id /\ c.smooth = patches[j].smooth
      /\ c.locked = Get(body, "locked", patches[j].locked)
  BY <1>2, <1>3, <1>4, UpdatesAssumption DEF Changed, Get, SurfacePatch
<1>6. chosen \in SUBSET PatchId
  BY <1>5, UpdatesAssumption DEF Get, SurfacePatch
<1>7. \A k \in DOMAIN patches :
        patches'[k] = Joined(IF patches[k].id = id THEN c ELSE patches[k], c, chosen)
  BY DEF UpdatePatch
<1>8. "smooth" \in DOMAIN body => BoundaryAllowed(c, chosen)
  BY DEF UpdatePatch
<1>9. "smooth" \notin DOMAIN body => chosen = c.smooth
  BY DEF Get
<1> HIDE DEF c, chosen
<1>10. /\ Apart' /\ DOMAIN patches' = DOMAIN patches
       /\ \A k \in DOMAIN patches :
            /\ patches'[k].id = patches[k].id /\ patches'[k].triangles = patches[k].triangles
  BY UpdatedPatches
<1>11. patches'[i] \in ToSet(patches')
  BY <1>10 DEF ToSet
<1>12. p.id \in Toggled(c, chosen) => FALSE
  <2> SUFFICES ASSUME p.id \in Toggled(c, chosen) PROVE FALSE
    OBVIOUS
  <2>1. "smooth" \in DOMAIN body
    BY <1>9 DEF Toggled
  <2>2. p.id \in Ids(patches)
    BY <1>1 DEF Ids
  <2> QED
    BY <1>3, <1>8, <2>1, <2>2 DEF BoundaryAllowed
<1>13. CASE p.id = id /\ ~c.locked
  <2>1. p = patches[j]
    BY <1>2, <1>3, <1>13
  <2>2. "locked" \in DOMAIN body /\ ~body.locked
    BY <1>5, <1>13, <2>1 DEF Get
  <2>3. Unlocks(p)
    BY <1>13, <2>2 DEF Unlocks
  <2>4. KeepsIts(p, {"id", "triangles"})
    BY <1>1, <1>10, <1>11 DEF KeepsIts
  <2> QED
    BY <2>3, <2>4
<1>14. CASE ~(p.id = id /\ ~c.locked)
  <2>1. patches'[i].smooth = p.smooth /\ patches'[i].locked = p.locked
    <3>1. CASE p.id = id
      <4>1. p = patches[j] /\ c.locked
        BY <1>2, <1>3, <1>14, <3>1
      <4>2. "smooth" \notin DOMAIN body
        BY <1>8, <4>1 DEF BoundaryAllowed
      <4>3. patches'[i] = [c EXCEPT !.smooth = chosen]
        BY <1>1, <1>5, <1>7, <3>1 DEF Joined
      <4>4. patches'[i].smooth = chosen /\ patches'[i].locked = c.locked
        BY <1>5, <4>3 DEF SurfacePatch
      <4>5. c.locked = TRUE /\ p.locked = TRUE
        BY <1>4, <1>5, <4>1 DEF SurfacePatch
      <4> QED
        BY <1>5, <1>9, <4>1, <4>2, <4>4, <4>5
    <3>2. CASE p.id # id
      <4>1. patches'[i] = p
        BY <1>1, <1>5, <1>7, <1>12, <3>2 DEF Joined
      <4> QED
        BY <4>1
    <3> QED
      BY <3>1, <3>2
  <2>2. ASSUME NEW k \in DOMAIN patches
        PROVE  p.id \in patches[k].smooth <=> p.id \in patches'[k].smooth
    <3>1. patches[k] \in SurfacePatch
      BY DEF Apart
    <3>2. CASE patches[k].id = id
      <4>1. patches[k] = patches[j]
        BY <1>3, <3>2, NamedIs DEF Apart
      <4>2. patches'[k] = [c EXCEPT !.smooth = chosen]
        BY <1>5, <1>7, <3>2 DEF Joined
      <4>3. patches'[k].smooth = chosen
        BY <1>5, <4>2 DEF SurfacePatch
      <4> QED
        BY <1>5, <1>12, <4>1, <4>3 DEF Toggled
    <3>3. CASE patches[k].id # id /\ patches[k].id \in Toggled(c, chosen)
      <4>1. "smooth" \in DOMAIN body
        BY <1>9, <3>3 DEF Toggled
      <4>2. p.id # id
        BY <1>8, <1>14, <4>1 DEF BoundaryAllowed
      <4>3. patches'[k] = [patches[k] EXCEPT !.smooth = IF patches[k].id \in chosen
                                                         THEN @ \cup {id} ELSE @ \ {id}]
        BY <1>5, <1>7, <3>3 DEF Joined
      <4> QED
        BY <3>1, <4>2, <4>3 DEF SurfacePatch
    <3>4. CASE patches[k].id # id /\ patches[k].id \notin Toggled(c, chosen)
      BY <1>5, <1>7, <3>4 DEF Joined
    <3> QED
      BY <3>2, <3>3, <3>4
  <2>3. ASSUME NEW n \in Ids(patches) \cap Ids(patches')
        PROVE  p.id \in Named(patches, n).smooth <=> p.id \in Named(patches', n).smooth
    <3>1. PICK k \in DOMAIN patches : patches[k].id = n
      BY DEF Ids
    <3>2. Named(patches, n) = patches[k] /\ Named(patches', n) = patches'[k]
      BY <1>10, <3>1, NamedIs DEF Apart
    <3> QED
      BY <2>2, <3>2
  <2>4. KeepsIts(p, {"id", "triangles", "locked", "smooth"})
    BY <1>1, <1>10, <1>11, <2>1 DEF KeepsIts
  <2>5. KeepsItsJoins(p)
    BY <2>3 DEF KeepsItsJoins
  <2> QED
    BY <2>4, <2>5 DEF Kept
<1> QED
  BY <1>13, <1>14

LEMMA MergedKeep ==
  ASSUME Apart, NEW i \in DOMAIN patches, NEW j \in DOMAIN patches, MergePatches(i, j),
         NEW p \in ToSet(patches), p.locked
  PROVE  Kept(p)
<1>1. PICK k \in DOMAIN patches : patches[k] = p
  BY DEF ToSet
<1>2. ~patches[i].locked /\ ~patches[j].locked
  BY DEF MergePatches, MergeAllowed
<1>3. /\ Apart' /\ Merged(patches[i], patches[j]).id \notin Ids(patches)
      /\ \A l \in DOMAIN patches \ {i, j} : patches[l] \in ToSet(patches')
  BY MergedPatches
<1>4. p \in ToSet(patches')
  BY <1>1, <1>2, <1>3
<1>5. \A q \in ToSet(patches') : q \in ToSet(patches) \/ q = Merged(patches[i], patches[j])
  BY MergedPatches
<1>6. ASSUME NEW n \in Ids(patches) \cap Ids(patches')
      PROVE  Named(patches, n) = Named(patches', n)
  <2>1. PICK l \in DOMAIN patches' : patches'[l].id = n
    BY DEF Ids
  <2>2. patches'[l] \in ToSet(patches')
    BY <2>1 DEF ToSet
  <2>3. patches'[l] \in ToSet(patches)
    BY <1>3, <1>5, <2>1, <2>2
  <2>4. PICK m \in DOMAIN patches : patches[m] = patches'[l]
    BY <2>3 DEF ToSet
  <2> QED
    BY <1>3, <2>1, <2>4, NamedIs DEF Apart
<1>7. KeepsIts(p, {"id", "triangles", "locked", "smooth"})
  BY <1>4 DEF KeepsIts
<1> QED
  BY <1>6, <1>7 DEF Kept, KeepsItsJoins

(* A locked patch keeps its triangles, its lock and its joins through      *)
(* every edit of any patch, until an update unlocks it or an upload, an    *)
(* analysis or an automatic reconstruction replaces all patches.           *)
THEOREM LockHoldsAlways == Spec => LockHolds
<1> DEFINE Step ==
      \A p \in ToSet(patches) : p.locked =>
        \/ KeepsIts(p, {"id", "triangles", "locked", "smooth"}) /\ KeepsItsJoins(p)
        \/ Unlocks(p) /\ KeepsIts(p, {"id", "triangles"})
        \/ Replaces
<1>1. PatchInv /\ [Next]_vars => [Step]_vars
  <2> SUFFICES ASSUME PatchInv, Next, NEW p \in ToSet(patches), p.locked
               PROVE  \/ Kept(p)
                      \/ Unlocks(p) /\ KeepsIts(p, {"id", "triangles"})
                      \/ Replaces
    BY DEF Kept
  <2>1. CASE UploadSource \/ \E raw \in AnalysisAsks : Analyze(raw)
    BY <2>1 DEF Replaces
  <2>2. CASE (\E raw \in AnalysisAsks : AnalysisRefused(raw)) \/ \E raw \in Asks : Refused(raw)
    BY <2>2, UnchangedKeeps DEF AnalysisRefused, Refused
  <2>3. CASE \E raw \in Asks : Reconstruct(raw)
    <3>1. PICK raw \in Asks : Reconstruct(raw)
      BY <2>3
    <3>2. CASE Mode(raw) = "automatic"
      BY <3>1, <3>2 DEF Replaces
    <3>3. CASE Mode(raw) # "automatic"
      <4>1. patches' = patches
        BY <3>1, <3>3 DEF Reconstruct, Completed
      <4> QED
        BY <4>1, UnchangedKeeps
    <3> QED
      BY <3>2, <3>3
  <2>4. CASE \E id \in Ids(patches), body \in Updates : UpdatePatch(id, body)
    BY <2>4, UpdateKeeps DEF PatchInv
  <2>5. CASE \E i, j \in DOMAIN patches : MergePatches(i, j)
    BY <2>5, MergedKeep DEF PatchInv
  <2> QED
    BY <2>1, <2>2, <2>3, <2>4, <2>5 DEF Next
<1> QED
  BY <1>1, PatchInvariant, PTL DEF Spec, LockHolds
=============================================================================
