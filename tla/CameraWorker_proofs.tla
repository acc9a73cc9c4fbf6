------------------------- MODULE CameraWorker_proofs -------------------------
(***************************************************************************)
(* Proofs about a camera worker, the plates its sessions are fused from,   *)
(* and what becomes of the evidence it saves.                              *)
(***************************************************************************)
EXTENDS CameraWorker, PlateBuffer, EvidenceLifecycle, FiniteSetTheorems, FunctionTheorems, WellFoundedInduction,
        TLAPS

-----------------------------------------------------------------------------
(* Induction and the greatest element, for sets *)

Smaller == {p \in Nat \X Nat : p[1] < p[2]}

\* No numbers get smaller for ever.
LEMMA SmallerIsWellFounded == IsWellFoundedOn(Smaller, Nat)
BY NatLessThanWellFounded DEF OpToRel, Smaller

\* What holds of 0, and of n + 1 when it holds of n, holds of every number.
LEMMA Induction ==
  ASSUME NEW S, 0 \in S, \A n \in Nat : n \in S => n + 1 \in S
  PROVE  Nat \subseteq S
<1>1. SUFFICES ASSUME Nat \ S # {} PROVE FALSE
  OBVIOUS
<1>2. PICK x \in Nat \ S : \A y \in Nat \ S : <<y, x>> \notin Smaller
  BY <1>1, WFMin, SmallerIsWellFounded
<1>3. x # 0 /\ x - 1 \in Nat
  BY <1>2, SMT
<1>4. <<x - 1, x>> \in Smaller
  BY <1>3 DEF Smaller
<1>5. x - 1 \in S
  BY <1>2, <1>3, <1>4
<1> QED
  BY <1>2, <1>3, <1>5

\* A set of places that is not empty has a first one.
LEMMA LeastExists ==
  ASSUME NEW I, I \subseteq Nat, I # {}
  PROVE  \E i \in I : \A j \in I : i <= j
<1>1. PICK x \in I : \A y \in I : <<y, x>> \notin Smaller
  BY WFMin, SmallerIsWellFounded
<1>2. ASSUME NEW y \in I PROVE x <= y
  <2>1. y < x => <<y, x>> \in Smaller
    BY DEF Smaller
  <2> QED
    BY <1>1, <2>1
<1> QED
  BY <1>1, <1>2

\* Python's max() of a list that is not empty.
LEMMA FirstMaxExists ==
  ASSUME NEW m \in Nat, NEW I, I \subseteq 1..m, I # {},
         NEW score, \A i \in I : score[i] \in Int
  PROVE  /\ FirstMax(score, I) \in I
         /\ \A j \in I : \/ score[j] < score[FirstMax(score, I)]
                         \/ score[j] = score[FirstMax(score, I)] /\ FirstMax(score, I) <= j
<1> DEFINE Best(i, n) == \A j \in I \cap 1..n :
                           score[j] < score[i] \/ (score[j] = score[i] /\ i <= j)
           S == {n \in Nat : I \cap 1..n # {} => \E i \in I \cap 1..n : Best(i, n)}
<1>1. 0 \in S
  OBVIOUS
<1>2. ASSUME NEW n \in Nat, n \in S PROVE n + 1 \in S
  <2>1. CASE n + 1 \notin I
    <3>1. I \cap 1..(n + 1) = I \cap 1..n
      BY <2>1
    <3> QED
      BY <1>2, <3>1
  <2>2. CASE n + 1 \in I /\ I \cap 1..n = {}
    <3>1. I \cap 1..(n + 1) = {n + 1}
      BY <2>2
    <3>2. Best(n + 1, n + 1)
      BY <3>1
    <3> QED
      BY <3>1, <3>2
  <2>3. CASE n + 1 \in I /\ I \cap 1..n # {}
    <3>1. PICK i \in I \cap 1..n : Best(i, n)
      BY <2>3, <1>2
    <3>2. I \cap 1..(n + 1) = (I \cap 1..n) \cup {n + 1}
      BY <2>3
    <3>3. CASE score[n + 1] <= score[i]
      <4>1. Best(i, n + 1)
        BY <3>1, <3>2, <3>3
      <4> QED
        BY <3>1, <3>2, <4>1
    <3>4. CASE score[i] < score[n + 1]
      <4>1. Best(n + 1, n + 1)
        BY <3>1, <3>2, <3>4
      <4> QED
        BY <3>2, <4>1
    <3> QED
      BY <3>1, <3>3, <3>4, <2>3
  <2> QED
    BY <2>1, <2>2, <2>3
<1>3. m \in S
  BY <1>1, <1>2, Induction
<1>4. I \cap 1..m = I
  OBVIOUS
<1> QED
  BY <1>3, <1>4 DEF FirstMax
-----------------------------------------------------------------------------
(* Sums over the places of a list *)

\* f is a list of m whole numbers.
Numbers(f, m) == m \in Nat /\ Len(f) = m /\ \A i \in 1..m : f[i] \in Int

\* g adds up f over I, place by place.
Adds(g, f, I, m) ==
  /\ g \in [0..m -> Int]
  /\ g[0] = 0
  /\ \A n \in 1..m : g[n] = g[n - 1] + (IF n \in I THEN f[n] ELSE 0)

\* There is such a g, so the recursion of Total is well defined.
LEMMA TotalAdds ==
  ASSUME NEW f, NEW m, Numbers(f, m), NEW I
  PROVE  \E g : Adds(g, f, I, m) /\ Total(f, I) = g[m]
<1> DEFINE S == {n \in Nat : n <= m => \E g : Adds(g, f, I, n)}
           Step(g) == [n \in 0..m |->
                        IF n = 0 THEN 0 ELSE g[n - 1] + (IF n \in I THEN f[n] ELSE 0)]
           sum == CHOOSE g : g = Step(g)
<1>1. 0 \in S
  <2>1. Adds([n \in 0..0 |-> 0], f, I, 0)
    BY DEF Adds
  <2> QED
    BY <2>1
<1>2. ASSUME NEW n \in Nat, n \in S PROVE n + 1 \in S
  <2>1. SUFFICES ASSUME n + 1 <= m PROVE \E g : Adds(g, f, I, n + 1)
    OBVIOUS
  <2>2. PICK g : Adds(g, f, I, n)
    BY <1>2, <2>1 DEF Numbers
  <2> DEFINE h == [k \in 0..(n + 1) |->
                     IF k <= n THEN g[k] ELSE g[n] + (IF n + 1 \in I THEN f[n + 1] ELSE 0)]
  <2>3. h \in [0..(n + 1) -> Int]
    BY <2>1, <2>2 DEF Adds, Numbers
  <2>4. ASSUME NEW k \in 1..(n + 1)
        PROVE  h[k] = h[k - 1] + (IF k \in I THEN f[k] ELSE 0)
    <3>1. CASE k <= n
      BY <2>2, <3>1 DEF Adds
    <3>2. CASE k = n + 1
      BY <3>2
    <3> QED
      BY <3>1, <3>2
  <2>5. h[0] = 0
    BY <2>2 DEF Adds
  <2> QED
    BY <2>3, <2>4, <2>5 DEF Adds
<1>3. m \in S /\ m \in Nat
  BY <1>1, <1>2, Induction DEF Numbers
<1>4. PICK g : Adds(g, f, I, m)
  BY <1>3
<1>5. g = Step(g)
  BY <1>3, <1>4 DEF Adds
<1>6. sum = Step(sum)
  BY <1>5
<1>7. Total(f, I) = sum[m]
  BY DEF Total, Numbers
<1> HIDE DEF sum
<1>8. Adds(sum, f, I, m)
  <2> DEFINE T == {n \in Nat : n <= m => sum[n] \in Int}
  <2>1. sum[0] = 0 /\ DOMAIN sum = 0..m
    BY <1>3, <1>6
  <2>2. ASSUME NEW n \in 1..m PROVE sum[n] = sum[n - 1] + (IF n \in I THEN f[n] ELSE 0)
    BY <1>3, <1>6
  <2>3. ASSUME NEW n \in Nat, n \in T PROVE n + 1 \in T
    <3>1. SUFFICES ASSUME n + 1 <= m PROVE sum[n + 1] \in Int
      OBVIOUS
    <3>2. n + 1 \in 1..m /\ (n + 1) - 1 = n
      BY <1>3, <3>1
    <3>3. sum[n] \in Int /\ f[n + 1] \in Int
      BY <1>3, <2>3, <3>1, <3>2 DEF Numbers
    <3> QED
      BY <2>2, <3>2, <3>3
  <2>4. 0 \in T
    BY <2>1
  <2> HIDE DEF T
  <2>5. Nat \subseteq T
    BY <2>3, <2>4, Induction
  <2>6. sum = [n \in 0..m |-> sum[n]]
    BY <1>3, <1>6
  <2>7. \A n \in 0..m : sum[n] \in Int
    BY <1>3, <2>5 DEF T
  <2>8. sum \in [0..m -> Int]
    BY <2>6, <2>7
  <2> QED
    BY <2>1, <2>2, <2>8 DEF Adds
<1> QED
  BY <1>7, <1>8
\* The term that place n adds to the sum of f over I.
Term(f, I, n) == IF n \in I THEN f[n] ELSE 0

\* A sum of whole numbers is one.
LEMMA TotalIsInt ==
  ASSUME NEW m, NEW f, Numbers(f, m), NEW I
  PROVE  Total(f, I) \in Int
<1>1. PICK g : Adds(g, f, I, m) /\ Total(f, I) = g[m]
  BY TotalAdds
<1> QED
  BY <1>1 DEF Adds, Numbers

\* A sum whose every term is at most c times the term of another is at most c
\* times that other sum.
LEMMA TotalBounded ==
  ASSUME NEW m, NEW f, NEW g, Numbers(f, m), Numbers(g, m), NEW I, NEW J, NEW c \in Int,
         \A n \in 1..m : Term(f, I, n) <= c * Term(g, J, n)
  PROVE  Total(f, I) <= c * Total(g, J)
<1>1. PICK a : Adds(a, f, I, m) /\ Total(f, I) = a[m]
  BY TotalAdds
<1>2. PICK b : Adds(b, g, J, m) /\ Total(g, J) = b[m]
  BY TotalAdds
<1>3. m \in Nat
  BY DEF Numbers
<1> DEFINE S == {n \in Nat : n <= m => a[n] <= c * b[n]}
<1>4. 0 \in S
  BY <1>1, <1>2 DEF Adds
<1>5. ASSUME NEW n \in Nat, n \in S PROVE n + 1 \in S
  <2>1. SUFFICES ASSUME n + 1 <= m PROVE a[n + 1] <= c * b[n + 1]
    OBVIOUS
  <2>2. n + 1 \in 1..m /\ (n + 1) - 1 = n /\ n \in 0..m
    BY <1>3, <2>1
  <2>3. Term(f, I, n + 1) \in Int /\ Term(g, J, n + 1) \in Int
    BY <2>2 DEF Term, Numbers
  <2>4. a[n + 1] = a[n] + Term(f, I, n + 1) /\ b[n + 1] = b[n] + Term(g, J, n + 1)
    BY <1>1, <1>2, <2>2 DEF Adds, Term
  <2>5. a[n] \in Int /\ b[n] \in Int
    BY <1>1, <1>2, <2>2 DEF Adds
  <2>6. c * (b[n] + Term(g, J, n + 1)) = c * b[n] + c * Term(g, J, n + 1)
    BY <2>3, <2>5
  <2>7. a[n] <= c * b[n] /\ Term(f, I, n + 1) <= c * Term(g, J, n + 1)
    BY <1>5, <2>1, <2>2
  <2>8. c * b[n] \in Int /\ c * Term(g, J, n + 1) \in Int
    BY <2>3, <2>5
  <2> QED
    BY <2>3, <2>4, <2>5, <2>6, <2>7, <2>8
<1> HIDE DEF S
<1>6. m \in S
  BY <1>3, <1>4, <1>5, Induction
<1> QED
  BY <1>1, <1>2, <1>3, <1>6 DEF S

\* A sum whose every term is at most the term of another is at most that other.
LEMMA TotalMonotone ==
  ASSUME NEW m, NEW f, NEW g, Numbers(f, m), Numbers(g, m), NEW I, NEW J,
         \A n \in 1..m : Term(f, I, n) <= Term(g, J, n)
  PROVE  Total(f, I) <= Total(g, J)
<1>1. PICK c \in Int : c = 1
  OBVIOUS
<1>2. \A n \in 1..m : Term(g, J, n) \in Int
  BY DEF Term, Numbers
<1>3. \A n \in 1..m : Term(f, I, n) <= c * Term(g, J, n)
  BY <1>1, <1>2
<1>4. Total(f, I) <= c * Total(g, J)
  BY <1>3, TotalBounded
<1>5. Total(g, J) \in Int
  BY TotalIsInt
<1> QED
  BY <1>1, <1>4, <1>5

\* A sum whose terms are those of two others together is the two sums together.
LEMMA TotalSplits ==
  ASSUME NEW m, NEW f, NEW g, NEW h, Numbers(f, m), Numbers(g, m), Numbers(h, m),
         NEW I, NEW J, NEW K, \A n \in 1..m : Term(f, I, n) = Term(g, J, n) + Term(h, K, n)
  PROVE  Total(f, I) = Total(g, J) + Total(h, K)
<1>1. PICK a : Adds(a, f, I, m) /\ Total(f, I) = a[m]
  BY TotalAdds
<1>2. PICK b : Adds(b, g, J, m) /\ Total(g, J) = b[m]
  BY TotalAdds
<1>3. PICK d : Adds(d, h, K, m) /\ Total(h, K) = d[m]
  BY TotalAdds
<1>4. m \in Nat
  BY DEF Numbers
<1> DEFINE S == {n \in Nat : n <= m => a[n] = b[n] + d[n]}
<1>5. 0 \in S
  BY <1>1, <1>2, <1>3 DEF Adds
<1>6. ASSUME NEW n \in Nat, n \in S PROVE n + 1 \in S
  <2>1. SUFFICES ASSUME n + 1 <= m PROVE a[n + 1] = b[n + 1] + d[n + 1]
    OBVIOUS
  <2>2. n + 1 \in 1..m /\ (n + 1) - 1 = n /\ n \in 0..m
    BY <1>4, <2>1
  <2>3. /\ Term(f, I, n + 1) \in Int
        /\ Term(g, J, n + 1) \in Int
        /\ Term(h, K, n + 1) \in Int
    BY <2>2 DEF Term, Numbers
  <2>4. /\ a[n + 1] = a[n] + Term(f, I, n + 1)
        /\ b[n + 1] = b[n] + Term(g, J, n + 1)
        /\ d[n + 1] = d[n] + Term(h, K, n + 1)
    BY <1>1, <1>2, <1>3, <2>2 DEF Adds, Term
  <2>5. a[n] \in Int /\ b[n] \in Int /\ d[n] \in Int
    BY <1>1, <1>2, <1>3, <2>2 DEF Adds
  <2>6. a[n] = b[n] + d[n]
    BY <1>6, <2>1, <2>2
  <2>7. Term(f, I, n + 1) = Term(g, J, n + 1) + Term(h, K, n + 1)
    BY <2>2
  <2> QED
    BY <2>3, <2>4, <2>5, <2>6, <2>7
<1> HIDE DEF S
<1>7. m \in S
  BY <1>4, <1>5, <1>6, Induction
<1> QED
  BY <1>1, <1>2, <1>3, <1>4, <1>7 DEF S

\* One more place adds its term to the sum over the places before it.
LEMMA TotalExtends ==
  ASSUME NEW m \in Nat, NEW f, NEW g, Numbers(f, m + 1), Numbers(g, m), NEW I, NEW J,
         \A n \in 1..m : Term(f, I, n) = Term(g, J, n)
  PROVE  Total(f, I) = Total(g, J) + Term(f, I, m + 1)
<1>1. PICK a : Adds(a, f, I, m + 1) /\ Total(f, I) = a[m + 1]
  BY TotalAdds
<1>2. PICK b : Adds(b, g, J, m) /\ Total(g, J) = b[m]
  BY TotalAdds
<1> DEFINE S == {n \in Nat : n <= m => a[n] = b[n]}
<1>3. 0 \in S
  BY <1>1, <1>2 DEF Adds
<1>4. ASSUME NEW n \in Nat, n \in S PROVE n + 1 \in S
  <2>1. SUFFICES ASSUME n + 1 <= m PROVE a[n + 1] = b[n + 1]
    OBVIOUS
  <2>2. n + 1 \in 1..m /\ n + 1 \in 1..(m + 1) /\ (n + 1) - 1 = n
    BY <2>1
  <2>3. a[n + 1] = a[n] + Term(f, I, n + 1) /\ b[n + 1] = b[n] + Term(g, J, n + 1)
    BY <1>1, <1>2, <2>2 DEF Adds, Term
  <2>4. a[n] = b[n] /\ Term(f, I, n + 1) = Term(g, J, n + 1)
    BY <1>4, <2>1, <2>2
  <2> QED
    BY <2>3, <2>4
<1> HIDE DEF S
<1>5. m \in S
  BY <1>3, <1>4, Induction
<1>6. a[m] = b[m]
  BY <1>5 DEF S
<1>7. m + 1 \in 1..(m + 1) /\ (m + 1) - 1 = m
  OBVIOUS
<1>8. a[m + 1] = a[m] + Term(f, I, m + 1)
  BY <1>1, <1>7 DEF Adds, Term
<1> QED
  BY <1>1, <1>2, <1>6, <1>8
-----------------------------------------------------------------------------
(* The weight of some reads of a buffer *)

\* A buffer of m reads.
Reads(s, m) ==
  /\ m \in Nat
  /\ Len(s) = m
  /\ DOMAIN s = 1..m
  /\ \A i \in 1..m : IsObservation(s[i])

\* A list of numbers over the places of a buffer is one Total can add up.
LEMMA ListIsNumbers ==
  ASSUME NEW m \in Nat, NEW f, f = [i \in 1..m |-> f[i]], \A i \in 1..m : f[i] \in Int
  PROVE  Numbers(f, m)
<1>1. f \in Seq(Int)
  <2>1. [i \in 1..m |-> f[i]] \in Seq(Int)
    OBVIOUS
  <2> QED
    BY <2>1
<1>2. Len(f) = m
  BY <1>1
<1> QED
  BY <1>2 DEF Numbers

\* A sum over no place is nothing.
LEMMA TotalOfNone ==
  ASSUME NEW m, NEW f, Numbers(f, m)
  PROVE  Total(f, {}) = 0
<1>1. Total(f, {}) \in Int
  BY TotalIsInt
<1>2. \A n \in 1..m : Term(f, {}, n) = Term(f, {}, n) + Term(f, {}, n)
  BY DEF Term
<1>3. Total(f, {}) = Total(f, {}) + Total(f, {})
  BY <1>2, TotalSplits
<1> QED
  BY <1>1, <1>3

\* The sums of lists without negative numbers: they are numbers, more places
\* add more, and what is disjoint adds up.
LEMMA TotalOfNats ==
  ASSUME NEW m, NEW f, Numbers(f, m), \A i \in 1..m : f[i] >= 0, NEW I, NEW J
  PROVE  /\ Total(f, I) \in Nat
         /\ I \cap 1..m \subseteq J => Total(f, I) <= Total(f, J)
         /\ I \cap J = {} => Total(f, I \cup J) = Total(f, I) + Total(f, J)
         /\ \A i \in I \cap 1..m : f[i] <= Total(f, I)
<1>1. ASSUME NEW K PROVE Total(f, K) \in Int
  BY TotalIsInt
<1>2. \A n \in 1..m : \A K : Term(f, K, n) \in Int /\ Term(f, K, n) >= 0
  BY DEF Term, Numbers
<1>3. ASSUME NEW K, NEW L, K \cap 1..m \subseteq L PROVE Total(f, K) <= Total(f, L)
  <2>1. \A n \in 1..m : Term(f, K, n) <= Term(f, L, n)
    BY <1>3 DEF Term, Numbers
  <2>2. Total(f, K) <= Total(f, L)
    BY <2>1, TotalMonotone
  <2> QED
    BY <2>2, <1>1
<1>4. Total(f, I) \in Nat
  <2>1. Total(f, {}) <= Total(f, I)
    BY <1>3
  <2> QED
    BY <2>1, <1>1, TotalOfNone
<1>5. ASSUME NEW K, NEW L, K \cap L = {}
      PROVE  Total(f, K \cup L) = Total(f, K) + Total(f, L)
  <2>1. \A n \in 1..m : Term(f, K \cup L, n) = Term(f, K, n) + Term(f, L, n)
    BY <1>5 DEF Term, Numbers
  <2> QED
    BY <2>1, TotalSplits
<1>6. ASSUME NEW i \in I \cap 1..m PROVE f[i] <= Total(f, I)
  <2> DEFINE h == [n \in 1..m |-> IF n = i THEN f[i] ELSE 0]
  <2>1. m \in Nat /\ \A n \in 1..m : h[n] \in Int
    BY DEF Numbers
  <2>2. Numbers(h, m)
    BY <2>1, ListIsNumbers
  <2>3. \A n \in 1..m : Term(h, {i}, n) <= Term(f, I, n)
    BY <1>6 DEF Term, Numbers
  <2> HIDE DEF h
  <2>4. Total(h, {i}) <= Total(f, I)
    BY <2>2, <2>3, TotalMonotone
  <2>5. PICK a : Adds(a, h, {i}, m) /\ Total(h, {i}) = a[m]
    BY <2>2, TotalAdds
  <2> USE DEF h
  <2> DEFINE S == {n \in Nat : n <= m => a[n] = IF n < i THEN 0 ELSE f[i]}
  <2>6. 0 \in S
    BY <2>5 DEF Adds
  <2>7. ASSUME NEW n \in Nat, n \in S PROVE n + 1 \in S
    <3>1. SUFFICES ASSUME n + 1 <= m
                   PROVE  a[n + 1] = IF n + 1 < i THEN 0 ELSE f[i]
      OBVIOUS
    <3>2. n + 1 \in 1..m /\ (n + 1) - 1 = n
      BY <2>1, <3>1
    <3>3. a[n + 1] = a[n] + (IF n + 1 = i THEN f[i] ELSE 0)
      BY <2>5, <3>2 DEF Adds
    <3>4. f[i] \in Int /\ i \in Nat
      BY DEF Numbers
    <3>5. a[n] = IF n < i THEN 0 ELSE f[i]
      BY <2>1, <2>7, <3>1
    <3> QED
      BY <3>3, <3>4, <3>5
  <2> HIDE DEF S
  <2>8. m \in S
    BY <2>1, <2>6, <2>7, Induction
  <2>9. a[m] = f[i]
    BY <2>1, <2>8 DEF S
  <2> QED
    BY <1>1, <2>4, <2>5, <2>9
<1> QED
  BY <1>3, <1>4, <1>5, <1>6

Weights(s) == [i \in DOMAIN s |-> s[i].weight]

\* The weight of the reads at some places of a buffer, as TotalOfNats has it.
LEMMA WeightOfReads ==
  ASSUME NEW m, NEW s, Reads(s, m), NEW I, NEW J
  PROVE  /\ Weight(s, I) \in Nat
         /\ I \cap 1..m \subseteq J => Weight(s, I) <= Weight(s, J)
         /\ I \cap J = {} => Weight(s, I \cup J) = Weight(s, I) + Weight(s, J)
         /\ \A i \in I \cap 1..m : s[i].weight <= Weight(s, I)
         /\ Numbers(Weights(s), m)
         /\ Weight(s, I) = Total(Weights(s), I)
<1>1. ASSUME NEW i \in 1..m PROVE Weights(s)[i] = s[i].weight /\ s[i].weight \in Nat
  <2>1. IsObservation(s[i]) /\ i \in DOMAIN s
    BY DEF Reads
  <2> QED
    BY <2>1 DEF Weights, IsObservation
<1>2. Numbers(Weights(s), m)
  <2>1. m \in Nat /\ Weights(s) = [i \in 1..m |-> Weights(s)[i]]
    BY DEF Weights, Reads
  <2>2. \A i \in 1..m : Weights(s)[i] \in Int
    BY <1>1
  <2> QED
    BY <2>1, <2>2, ListIsNumbers
<1>3. ASSUME NEW K PROVE Weight(s, K) = Total(Weights(s), K)
  BY DEF Weight, Weights
<1> DEFINE f == Weights(s)
<1>4. \A i \in 1..m : f[i] >= 0
  BY <1>1
<1>5. Numbers(f, m)
  BY <1>2
<1> HIDE DEF f
<1>6. /\ Total(f, I) \in Nat
      /\ I \cap 1..m \subseteq J => Total(f, I) <= Total(f, J)
      /\ I \cap J = {} => Total(f, I \cup J) = Total(f, I) + Total(f, J)
      /\ \A i \in I \cap 1..m : f[i] <= Total(f, I)
  BY <1>4, <1>5, TotalOfNats
<1> QED
  BY <1>1, <1>2, <1>3, <1>6 DEF f
\* It is a number.
LEMMA WeightIsNat ==
  ASSUME NEW m, NEW s, Reads(s, m), NEW I
  PROVE  Weight(s, I) \in Nat
<1> DEFINE J == I
<1> HIDE DEF J
<1>1. Weight(s, I) \in Nat /\ (I \cap 1..m \subseteq J => Weight(s, I) <= Weight(s, J))
  BY WeightOfReads
<1> QED
  BY <1>1
-----------------------------------------------------------------------------
(* The normaliser, the candidates and the vote *)

\* What normalize() returns, if anything, is valid and as long as what it got.
LEMMA NormalizedIsValid ==
  ASSUME NEW n \in Nat, NEW text, DOMAIN text = 1..n, Normalize(text) # NoPlate
  PROVE  /\ IsValid(Normalize(text))
         /\ DOMAIN Normalize(text) = 1..n
         /\ text \in Seq(Alphabet) => Normalize(text) \in Seq(Alphabet)
<1>1. CASE IsValid(text)
  BY <1>1 DEF Normalize
<1>2. CASE ~IsValid(text)
  <2>1. Correctable(text) # {} /\ Normalize(text) = Corrected(text)
    BY <1>2 DEF Normalize
  <2>2. Correctable(text) \subseteq Nat
    BY DEF Correctable
  <2> DEFINE first == CHOOSE i \in Correctable(text) : \A j \in Correctable(text) : i <= j
  <2>3. first \in Correctable(text)
    BY <2>1, <2>2, LeastExists
  <2>4. IsValid(Swapped(text, first))
    BY <2>3 DEF Correctable
  <2>5. DOMAIN Swapped(text, first) = 1..n
    BY DEF Swapped
  <2>6. Corrected(text) = Swapped(text, first)
    BY DEF Corrected
  <2> HIDE DEF first
  <2>7. Swapped(text, first) \in Seq(Alphabet)
    <3> DEFINE t == Swapped(text, first)
    <3>1. PICK f \in Formats : Len(f) = Len(t) /\ \A i \in DOMAIN f : t[i] \in f[i]
      BY <2>4 DEF IsValid
    <3>2. t = [i \in 1..n |-> t[i]]
      BY <2>5 DEF Swapped
    <3> HIDE DEF t
    <3>3. Len(t) = n
      BY <3>2
    <3>4. f \in Seq(SUBSET Alphabet) /\ DOMAIN f = 1..n
      BY <3>1, <3>3, FormatsAssumption
    <3>5. \A i \in 1..n : t[i] \in Alphabet
      BY <3>1, <3>4
    <3>6. [i \in 1..n |-> t[i]] \in Seq(Alphabet)
      BY <3>5
    <3> QED
      BY <3>2, <3>6 DEF t
  <2> QED
    BY <2>1, <2>4, <2>5, <2>6, <2>7
<1> QED
  BY <1>1, <1>2

\* The places that are looked at are places of the buffer.
LEMMA PlacesOfReads ==
  ASSUME NEW m, NEW s, Reads(s, m)
  PROVE  /\ m \in Nat
         /\ Weighty(s) \subseteq 1..m
         /\ \A n : OfLength(s, n) \subseteq Weighty(s)
         /\ \A i \in 1..m : Len(s[i].text) \in Nat /\ DOMAIN s[i].text = 1..Len(s[i].text)
         /\ \A i \in 1..m : IsObservation(s[i])
BY DEF Reads, Weighty, OfLength, IsObservation

\* The candidates are the reads of one length, and no other length weighs more.
\* Of lengths that weigh the same it is the one of the first read.
LEMMA CandidatesAreHeaviest ==
  ASSUME NEW m, NEW s, Reads(s, m), Weighty(s) # {}
  PROVE  \E i \in Weighty(s) :
           /\ Candidates(s) = OfLength(s, Len(s[i].text))
           /\ \A j \in Weighty(s) :
                LET wi == Weight(s, OfLength(s, Len(s[i].text)))
                    wj == Weight(s, OfLength(s, Len(s[j].text)))
                IN wj < wi \/ (wj = wi /\ i <= j)
<1> DEFINE score == [i \in Weighty(s) |-> Weight(s, OfLength(s, Len(s[i].text)))]
           i == FirstMax(score, Weighty(s))
<1>1. \A j \in Weighty(s) : score[j] \in Int
  <2>1. ASSUME NEW I PROVE Weight(s, I) \in Int
    BY WeightIsNat
  <2> QED
    BY <2>1
<1>2. m \in Nat /\ Weighty(s) \subseteq 1..m
  BY PlacesOfReads
<1> HIDE DEF score
<1>3. /\ i \in Weighty(s)
      /\ \A j \in Weighty(s) : score[j] < score[i] \/ (score[j] = score[i] /\ i <= j)
  BY <1>1, <1>2, FirstMaxExists
<1>4. Candidates(s) = OfLength(s, Len(s[i].text))
  BY DEF Candidates, score
<1> HIDE DEF i
<1> QED
  BY <1>3, <1>4 DEF score

\* C is a list of candidates: not empty, and all of the length n.
Alike(s, m, C, n) ==
  /\ C # {} /\ C \subseteq 1..m /\ n \in Nat
  /\ \A i \in C : Len(s[i].text) = n /\ s[i].weight > 0

LEMMA CandidatesAreAlike ==
  ASSUME NEW m, NEW s, Reads(s, m), Weighty(s) # {}
  PROVE  \E n : Alike(s, m, Candidates(s), n) /\ Candidates(s) = OfLength(s, n)
<1>1. PICK i \in Weighty(s) : Candidates(s) = OfLength(s, Len(s[i].text))
  BY CandidatesAreHeaviest
<1>2. i \in OfLength(s, Len(s[i].text))
  BY DEF OfLength
<1>3. \A j \in OfLength(s, Len(s[i].text)) : Len(s[j].text) = Len(s[i].text) /\ s[j].weight > 0
  BY DEF OfLength, Weighty
<1> QED
  BY <1>1, <1>2, <1>3, PlacesOfReads DEF Alike

\* The vote has a character of one of the candidates at every position, for
\* which no other character weighs more there; of those that weigh the same it is
\* the one that was read first.
LEMMA VoteIsHeaviest ==
  ASSUME NEW m, NEW s, Reads(s, m), NEW C, NEW n, Alike(s, m, C, n)
  PROVE  /\ DOMAIN CharVote(s, C) = 1..n
         /\ \A k \in 1..n : \E e \in C :
              /\ CharVote(s, C)[k] = s[e].text[k]
              /\ \A j \in C : LET wj == Weight(s, Ballot(s, C, j, k))
                                  we == Weight(s, Ballot(s, C, e, k))
                              IN wj < we \/ (wj = we /\ e <= j)
<1>1. DOMAIN CharVote(s, C) = 1..n
  <2>1. \A i \in C : DOMAIN s[i].text = 1..n
    BY PlacesOfReads DEF Alike
  <2>2. (CHOOSE i \in C : TRUE) \in C
    BY DEF Alike
  <2> QED
    BY <2>1, <2>2 DEF CharVote
<1>2. ASSUME NEW k \in 1..n
      PROVE  \E e \in C :
               /\ CharVote(s, C)[k] = s[e].text[k]
               /\ \A j \in C : LET wj == Weight(s, Ballot(s, C, j, k))
                                   we == Weight(s, Ballot(s, C, e, k))
                               IN wj < we \/ (wj = we /\ e <= j)
  <2> DEFINE score == [i \in C |-> Weight(s, Ballot(s, C, i, k))]
             e == FirstMax(score, C)
  <2>1. \A j \in C : score[j] \in Int
    <3>1. ASSUME NEW I PROVE Weight(s, I) \in Int
      BY WeightIsNat
    <3> QED
      BY <3>1
  <2>2. CharVote(s, C)[k] = s[e].text[k]
    BY <1>1 DEF CharVote
  <2>3. m \in Nat /\ C \subseteq 1..m /\ C # {}
    BY DEF Reads, Alike
  <2> HIDE DEF score
  <2>4. e \in C /\ \A j \in C : score[j] < score[e] \/ (score[j] = score[e] /\ e <= j)
    BY <2>1, <2>3, FirstMaxExists
  <2> HIDE DEF e
  <2> QED
    BY <2>2, <2>4 DEF score
<1> QED
  BY <1>1, <1>2
-----------------------------------------------------------------------------
(* The fused text and its confidence *)

LEMMA FusedTextIsValid ==
  ASSUME NEW m, NEW s, Reads(s, m), NEW C, NEW n, Alike(s, m, C, n)
  PROVE  /\ IsValid(FusedText(s, C))
         /\ DOMAIN FusedText(s, C) = 1..n
         /\ FusedText(s, C) \in Seq(Alphabet) \ {NoPlate}
<1>1. CASE Normalize(CharVote(s, C)) # NoPlate
  <2>1. DOMAIN CharVote(s, C) = 1..n
    BY VoteIsHeaviest
  <2>2. n \in Nat
    BY DEF Alike
  <2>3. CharVote(s, C) \in Seq(Alphabet)
    <3> DEFINE V == CharVote(s, C)
    <3>1. V = [k \in 1..n |-> V[k]]
      <4>1. V = [k \in DOMAIN V |-> V[k]]
        BY DEF CharVote
      <4> QED
        BY <2>1, <4>1
    <3>2. ASSUME NEW k \in 1..n PROVE V[k] \in Alphabet
      <4>1. PICK e \in C : V[k] = s[e].text[k]
        BY VoteIsHeaviest
      <4>2. e \in 1..m /\ Len(s[e].text) = n
        BY DEF Alike
      <4>3. IsObservation(s[e])
        BY <4>2 DEF Reads
      <4>4. s[e].text \in Seq(Alphabet)
        BY <4>3 DEF IsObservation
      <4> QED
        BY <4>1, <4>2, <4>4
    <3> HIDE DEF V
    <3>3. [k \in 1..n |-> V[k]] \in Seq(Alphabet)
      BY <2>2, <3>2
    <3> QED
      BY <3>1, <3>3 DEF V
  <2>4. /\ IsValid(Normalize(CharVote(s, C)))
        /\ DOMAIN Normalize(CharVote(s, C)) = 1..n
        /\ Normalize(CharVote(s, C)) \in Seq(Alphabet)
    BY <1>1, <2>1, <2>2, <2>3, NormalizedIsValid
  <2> QED
    BY <1>1, <2>4 DEF FusedText
<1>2. CASE Normalize(CharVote(s, C)) = NoPlate
  <2> DEFINE score == [i \in C |-> s[i].weight]
             e == FirstMax(score, C)
  <2>1. m \in Nat /\ C \subseteq 1..m /\ C # {}
    BY DEF Alike, Reads
  <2>2. ASSUME NEW i \in C
        PROVE  /\ score[i] \in Int
               /\ IsValid(s[i].text)
               /\ DOMAIN s[i].text = 1..n
               /\ s[i].text \in Seq(Alphabet) \ {NoPlate}
    <3>1. i \in 1..m /\ Len(s[i].text) = n
      BY <2>1 DEF Alike
    <3>2. IsObservation(s[i]) /\ DOMAIN s[i].text = 1..n
      BY <3>1, PlacesOfReads
    <3> QED
      BY <3>2 DEF IsObservation
  <2>3. FusedText(s, C) = s[e].text
    BY <1>2 DEF FusedText
  <2> HIDE DEF score
  <2>4. e \in C
    BY <2>1, <2>2, FirstMaxExists
  <2> QED
    BY <2>2, <2>3, <2>4
<1> QED
  BY <1>1, <1>2

\* Reads of no weight add none.
LEMMA WeightOfWeighty ==
  ASSUME NEW m, NEW s, Reads(s, m), NEW I
  PROVE  Weight(s, I) <= Weight(s, I \cap Weighty(s))
<1>1. Numbers(Weights(s), m)
  BY WeightOfReads
<1>2. ASSUME NEW n \in 1..m
      PROVE  Term(Weights(s), I, n) <= Term(Weights(s), I \cap Weighty(s), n)
  <2>1. n \in DOMAIN s /\ s[n].weight \in Nat
    BY DEF Reads, IsObservation
  <2> QED
    BY <2>1 DEF Weights, Weighty, Term
<1>3. Total(Weights(s), I) <= Total(Weights(s), I \cap Weighty(s))
  BY <1>1, <1>2, TotalMonotone
<1> QED
  BY <1>3, WeightOfReads

LEMMA WeightOfNone ==
  ASSUME NEW m, NEW s, Reads(s, m)
  PROVE  Weight(s, {}) = 0
<1>1. Numbers(Weights(s), m) /\ Weight(s, {}) = Total(Weights(s), {})
  BY WeightOfReads
<1> QED
  BY <1>1, TotalOfNone

\* Of two disjoint parts of a whole, the one with more than half outweighs the other.
LEMMA HalfOutweighs ==
  ASSUME NEW m, NEW s, Reads(s, m), NEW A, NEW B, NEW U,
         A \subseteq U, B \subseteq U, A \cap B = {}, 2 * Weight(s, A) > Weight(s, U)
  PROVE  Weight(s, B) < Weight(s, A)
<1>1. Weight(s, A \cup B) = Weight(s, A) + Weight(s, B)
  BY WeightOfReads
<1>2. Weight(s, A \cup B) <= Weight(s, U)
  <2>1. (A \cup B) \cap 1..m \subseteq U
    OBVIOUS
  <2> QED
    BY <2>1, WeightOfReads
<1>3. /\ Weight(s, A) \in Nat /\ Weight(s, B) \in Nat
      /\ Weight(s, U) \in Nat /\ Weight(s, A \cup B) \in Nat
  BY WeightIsNat
<1> QED
  BY <1>1, <1>2, <1>3

\* A text with more than half of the weight is what is fused.
LEMMA MajorityIsFused ==
  ASSUME NEW m, NEW s, Reads(s, m), NEW i \in 1..m,
         2 * Weight(s, {j \in 1..m : s[j].text = s[i].text}) > Weight(s, 1..m)
  PROVE  Weighty(s) # {} /\ FusedText(s, Candidates(s)) = s[i].text
<1> DEFINE text == s[i].text
           A == {j \in 1..m : s[j].text = text} \cap Weighty(s)
<1>1. 2 * Weight(s, A) > Weight(s, 1..m)
  <2>1. Weight(s, {j \in 1..m : s[j].text = text}) <= Weight(s, A)
    BY WeightOfWeighty
  <2>2. /\ Weight(s, {j \in 1..m : s[j].text = text}) \in Nat
        /\ Weight(s, A) \in Nat /\ Weight(s, 1..m) \in Nat
    BY WeightIsNat
  <2> QED
    BY <2>1, <2>2
<1>2. /\ m \in Nat /\ Weighty(s) \subseteq 1..m
      /\ \A n : OfLength(s, n) \subseteq Weighty(s)
      /\ \A j \in 1..m : Len(s[j].text) \in Nat /\ DOMAIN s[j].text = 1..Len(s[j].text)
  BY PlacesOfReads
<1>3. IsObservation(s[i])
  BY DEF Reads
<1>4. A # {}
  <2>1. SUFFICES ASSUME A = {} PROVE FALSE
    OBVIOUS
  <2>2. Weight(s, A) = 0
    BY <2>1, WeightOfNone
  <2> QED
    BY <1>1, <2>2, WeightIsNat
<1>5. A \subseteq 1..m /\ A \subseteq Weighty(s) /\ \A j \in A : s[j].text = text
  OBVIOUS
<1> HIDE DEF A
<1>6. Weighty(s) # {}
  BY <1>4, <1>5
<1> DEFINE n == Len(text)
           C == Candidates(s)
<1>7. A \subseteq OfLength(s, n)
  BY <1>5 DEF OfLength
<1>8. C = OfLength(s, n)
  <2>1. PICK c \in Weighty(s) :
          /\ C = OfLength(s, Len(s[c].text))
          /\ \A j \in Weighty(s) :
               LET wi == Weight(s, OfLength(s, Len(s[c].text)))
                   wj == Weight(s, OfLength(s, Len(s[j].text)))
               IN wj < wi \/ (wj = wi /\ c <= j)
    BY <1>6, CandidatesAreHeaviest
  <2>2. SUFFICES ASSUME Len(s[c].text) # n PROVE FALSE
    BY <2>1
  <2> DEFINE B == OfLength(s, Len(s[c].text))
  <2>3. A \cap B = {} /\ B \subseteq 1..m
    BY <1>2, <1>7, <2>2 DEF OfLength
  <2> HIDE DEF B
  <2>4. Weight(s, B) < Weight(s, A)
    BY <1>1, <1>5, <2>3, HalfOutweighs
  <2>5. Weight(s, A) <= Weight(s, OfLength(s, n))
    BY <1>7, WeightOfReads
  <2>6. PICK j \in A : TRUE
    BY <1>4
  <2>7. j \in Weighty(s) /\ Len(s[j].text) = n
    BY <1>5, <2>6
  <2>8. Weight(s, OfLength(s, n)) <= Weight(s, B)
    BY <2>1, <2>7, WeightIsNat DEF B
  <2> QED
    BY <2>4, <2>5, <2>8, WeightIsNat
<1> HIDE DEF C
<1>9. Alike(s, m, C, n)
  <2>1. C # {} /\ C \subseteq 1..m
    BY <1>2, <1>4, <1>7, <1>8
  <2>2. \A j \in C : Len(s[j].text) = n /\ s[j].weight > 0
    BY <1>8 DEF OfLength, Weighty
  <2> QED
    BY <1>2, <2>1, <2>2 DEF Alike
<1>10. CharVote(s, C) = text
  <2>1. DOMAIN CharVote(s, C) = 1..n
    BY <1>9, VoteIsHeaviest
  <2>2. DOMAIN text = 1..n
    BY <1>2
  <2>3. ASSUME NEW k \in 1..n PROVE CharVote(s, C)[k] = text[k]
    <3>1. PICK e \in C :
            /\ CharVote(s, C)[k] = s[e].text[k]
            /\ \A j \in C : LET wj == Weight(s, Ballot(s, C, j, k))
                                we == Weight(s, Ballot(s, C, e, k))
                            IN wj < we \/ (wj = we /\ e <= j)
      BY <1>9, VoteIsHeaviest
    <3>2. SUFFICES ASSUME s[e].text[k] # text[k] PROVE FALSE
      BY <3>1
    <3>3. PICK j \in A : j \in C
      BY <1>4, <1>7, <1>8
    <3> DEFINE B == Ballot(s, C, e, k)
               D == Ballot(s, C, j, k)
    <3>4. A \subseteq D
      BY <1>5, <1>7, <1>8, <3>3 DEF Ballot
    <3>5. A \cap B = {} /\ B \subseteq 1..m
      BY <1>5, <1>9, <3>2 DEF Ballot, Alike
    <3> HIDE DEF B, D
    <3>6. Weight(s, B) < Weight(s, A)
      BY <1>1, <1>5, <3>5, HalfOutweighs
    <3>7. Weight(s, A) <= Weight(s, D)
      BY <3>4, WeightOfReads
    <3>8. Weight(s, D) <= Weight(s, B)
      BY <3>1, <3>3, WeightIsNat DEF B, D
    <3> QED
      BY <3>6, <3>7, <3>8, WeightIsNat
  <2>4. CharVote(s, C) = [k \in DOMAIN s[CHOOSE j \in C : TRUE].text |-> CharVote(s, C)[k]]
    BY DEF CharVote
  <2>5. text = [k \in 1..n |-> text[k]]
    BY <1>3, <2>2 DEF IsObservation
  <2> QED
    BY <2>1, <2>2, <2>3, <2>4, <2>5
<1>11. Normalize(text) = text /\ text # NoPlate
  BY <1>3 DEF IsObservation, Normalize
<1> QED
  BY <1>6, <1>10, <1>11 DEF FusedText, C
\* A quotient lies between the bounds its numerator has in units of the divisor.
LEMMA QuotientBetween ==
  ASSUME NEW a \in Int, NEW b \in Nat \ {0}, NEW lo \in Int, NEW hi \in Int,
         lo * b <= a, a <= hi * b
  PROVE  lo <= a \div b /\ a \div b <= hi /\ a \div b \in Int
OBVIOUS

LEMMA QuotientUpTo ==
  ASSUME NEW a \in Nat, NEW b \in Nat \ {0}, NEW hi \in Nat, a <= hi * b
  PROVE  a \div b \in 0..hi
OBVIOUS

LEMMA TimesMonotone ==
  ASSUME NEW a \in Nat, NEW b \in Nat, NEW c \in Nat, b <= c
  PROVE  a * b <= c * a
<1>1. (c - b) * a >= 0
  OBVIOUS
<1>2. (c - b) * a = c * a - a * b
  OBVIOUS
<1> QED
  BY <1>1, <1>2

\* What the reads at the places of I add to the confidence.
Shares(s) == [i \in DOMAIN s |-> s[i].weight * s[i].conf]

LEMMA SharesAreNumbers ==
  ASSUME NEW m, NEW s, Reads(s, m)
  PROVE  Numbers(Shares(s), m) /\ \A i \in 1..m : Shares(s)[i] \in Nat
<1>1. ASSUME NEW i \in 1..m PROVE Shares(s)[i] \in Nat
  <2>1. i \in DOMAIN s /\ IsObservation(s[i])
    BY DEF Reads
  <2>2. s[i].weight \in Nat /\ s[i].conf \in 0..100
    BY <2>1 DEF IsObservation
  <2>3. s[i].weight * s[i].conf \in Nat
    BY <2>2
  <2> QED
    BY <2>1, <2>3 DEF Shares
<1>2. m \in Nat /\ Shares(s) = [i \in 1..m |-> Shares(s)[i]]
  BY DEF Shares, Reads
<1>3. Numbers(Shares(s), m)
  BY <1>1, <1>2, ListIsNumbers
<1> QED
  BY <1>1, <1>3

LEMMA CandidatesWeigh ==
  ASSUME NEW m, NEW s, Reads(s, m), NEW C, NEW n, Alike(s, m, C, n)
  PROVE  Weight(s, C) \in Nat \ {0}
<1>1. PICK i \in C : i \in 1..m /\ s[i].weight > 0
  BY DEF Alike
<1>2. s[i].weight <= Weight(s, C)
  BY <1>1, WeightOfReads
<1>3. s[i].weight \in Nat
  BY <1>1 DEF Reads, IsObservation
<1> QED
  BY <1>1, <1>2, <1>3, WeightIsNat

\* The confidence counts the reads that agree, and is between nothing and the
\* surest of them.
LEMMA ConfidenceOfReads ==
  ASSUME NEW m, NEW s, Reads(s, m), NEW C, NEW n, Alike(s, m, C, n), NEW text
  PROVE  /\ IsFiniteSet(Agreeing(s, C, text))
         /\ BaseConfidence(s, C, text) \in 0..100
         /\ Agreeing(s, C, text) = {} => BaseConfidence(s, C, text) = 0
         /\ Agreeing(s, C, text) # {} =>
              \E i \in Agreeing(s, C, text) : BaseConfidence(s, C, text) <= s[i].conf
<1> DEFINE A == Agreeing(s, C, text)
           T == Total(Shares(s), A)
           W == Weight(s, C)
<1>1. BaseConfidence(s, C, text) = T \div W
  BY DEF BaseConfidence, Shares
<1>2. A \subseteq C /\ A \subseteq 1..m /\ m \in Nat
  BY DEF Agreeing, Alike, Reads
<1>3. ASSUME NEW i \in 1..m
      PROVE  /\ s[i].weight \in Nat /\ s[i].conf \in 0..100
             /\ Shares(s)[i] = s[i].weight * s[i].conf /\ Weights(s)[i] = s[i].weight
  <2>1. i \in DOMAIN s /\ IsObservation(s[i])
    BY DEF Reads
  <2> QED
    BY <2>1 DEF IsObservation, Shares, Weights
<1>4. Numbers(Shares(s), m) /\ Numbers(Weights(s), m)
  BY SharesAreNumbers, WeightOfReads
<1>5. W \in Nat \ {0}
  BY CandidatesWeigh
<1>6. T \in Nat
  <2>1. \A i \in 1..m : Shares(s)[i] >= 0
    BY SharesAreNumbers
  <2> DEFINE J == A
  <2> HIDE DEF J, A
  <2>2. Total(Shares(s), A) \in Nat /\ (A \cap 1..m \subseteq J => Total(Shares(s), A) <= Total(Shares(s), J))
    BY <1>4, <2>1, TotalOfNats
  <2> QED
    BY <2>2
<1> HIDE DEF A
<1>7. ASSUME NEW c \in 0..100, \A i \in A : s[i].conf <= c
      PROVE  T \div W \in 0..c
  <2>1. ASSUME NEW k \in 1..m PROVE Term(Shares(s), A, k) <= c * Term(Weights(s), A, k)
    <3>1. CASE k \in A
      <4>1. s[k].weight * s[k].conf <= c * s[k].weight
        <5>1. s[k].weight \in Nat /\ s[k].conf \in Nat /\ c \in Nat /\ s[k].conf <= c
          BY <1>3, <1>7, <3>1
        <5> QED
          BY <5>1, TimesMonotone
      <4> QED
        BY <1>3, <3>1, <4>1 DEF Term
    <3>2. CASE k \notin A
      BY <3>2 DEF Term
    <3> QED
      BY <3>1, <3>2
  <2>2. Total(Shares(s), A) <= c * Total(Weights(s), A)
    BY <1>4, <2>1, TotalBounded
  <2>3. Total(Weights(s), A) = Weight(s, A)
    BY WeightOfReads
  <2>4. Weight(s, A) <= W /\ Weight(s, A) \in Nat
    BY <1>2, WeightOfReads, WeightIsNat
  <2>5. c * Weight(s, A) <= c * W
    BY <1>5, <2>4
  <2>6. T <= c * W /\ c \in Nat
    BY <1>5, <1>6, <2>2, <2>3, <2>4, <2>5
  <2> HIDE DEF T, W
  <2> QED
    BY <1>5, <1>6, <2>6
<1>8. IsFiniteSet(A)
  <2>1. IsFiniteSet(1..m)
    BY <1>2, FS_Interval
  <2> QED
    BY <1>2, <2>1, FS_Subset
<1>9. T \div W \in 0..100
  <2>1. \A i \in A : s[i].conf <= 100
    BY <1>2, <1>3
  <2> QED
    BY <1>7, <2>1
<1>10. A = {} => T \div W = 0
  BY <1>7
<1>11. ASSUME A # {} PROVE \E i \in A : T \div W <= s[i].conf
  <2> DEFINE score == [i \in A |-> s[i].conf]
             e == FirstMax(score, A)
  <2>1. \A i \in A : score[i] \in Int
    BY <1>2, <1>3
  <2> HIDE DEF score
  <2>2. e \in A /\ \A j \in A : score[j] < score[e] \/ (score[j] = score[e] /\ e <= j)
    BY <1>2, <1>11, <2>1, FirstMaxExists
  <2> HIDE DEF e
  <2>3. ASSUME NEW j \in A PROVE s[j].conf <= s[e].conf
    <3>1. score[j] = s[j].conf /\ score[e] = s[e].conf
      BY <2>2 DEF score
    <3>2. s[j].conf \in 0..100 /\ s[e].conf \in 0..100
      BY <1>2, <1>3, <2>2
    <3>3. score[j] < score[e] \/ score[j] = score[e]
      BY <2>2
    <3> DEFINE a == score[j]
               b == score[e]
    <3>4. a \in Int /\ b \in Int /\ (a < b \/ a = b)
      BY <3>1, <3>2, <3>3
    <3> HIDE DEF a, b
    <3>5. a <= b
      BY <3>4
    <3> QED
      BY <3>1, <3>5 DEF a, b
  <2>4. s[e].conf \in 0..100
    BY <1>2, <1>3, <2>2
  <2>5. T \div W \in 0..(s[e].conf)
    BY <1>7, <2>3, <2>4
  <2> QED
    BY <2>2, <2>4, <2>5
<1> QED
  BY <1>1, <1>8, <1>9, <1>10, <1>11 DEF A
-----------------------------------------------------------------------------
(* The buffer of one track *)

\* The buffer holds reads of the track, and no more than it may.
BufferInv == buffer \in Seq(Observations) /\ Len(buffer) <= MaxObservations

LEMMA AppendedIsBounded ==
  ASSUME NEW S, NEW s \in Seq(S), NEW o \in S, Len(s) <= MaxObservations
  PROVE  /\ Appended(s, o) \in Seq(S)
         /\ Len(Appended(s, o)) <= MaxObservations
         /\ Appended(s, o) # <<>>
<1>1. CASE Len(s) < MaxObservations
  <2>1. Appended(s, o) = Append(s, o)
    BY <1>1 DEF Appended
  <2> QED
    BY <1>1, <2>1, ObservationBounds
<1>2. CASE ~(Len(s) < MaxObservations)
  <2>1. Appended(s, o) = Append(Tail(s), o)
    BY <1>2 DEF Appended
  <2>2. Len(s) = MaxObservations /\ s # <<>>
    BY <1>2, ObservationBounds
  <2>3. Tail(s) \in Seq(S) /\ Len(Tail(s)) = Len(s) - 1
    BY <2>2
  <2> QED
    BY <2>1, <2>2, <2>3, ObservationBounds
<1> QED
  BY <1>1, <1>2

LEMMA BufferInvariant == BufferSpec => []BufferInv
<1>1. BufferInit => BufferInv
  BY ObservationBounds DEF BufferInit, BufferInv
<1>2. BufferInv /\ [BufferNext]_buffer => BufferInv'
  <2> SUFFICES ASSUME BufferInv, [BufferNext]_buffer PROVE BufferInv'
    OBVIOUS
  <2>1. CASE BufferNext
    <3>1. PICK o \in Observations : buffer' = Appended(buffer, o)
      BY <2>1 DEF BufferNext, Observe
    <3> QED
      BY <3>1, AppendedIsBounded DEF BufferInv
  <2>2. CASE UNCHANGED buffer
    BY <2>2 DEF BufferInv
  <2> QED
    BY <2>1, <2>2
<1> QED
  BY <1>1, <1>2, PTL DEF BufferSpec

LEMMA BufferReads ==
  ASSUME NEW s \in Seq(Observations)
  PROVE  Reads(s, Len(s))
BY ObservationsAssumption DEF Reads

\* A fusion that has a result is made of the candidates of the buffer.
LEMMA FuseOfReads ==
  ASSUME NEW m, NEW s, Reads(s, m)
  PROVE  /\ Fuse(s) # NoFusion <=>
              /\ Weighty(s) # {}
              /\ Cardinality(Weighty(s)) >= MinObservations
         /\ Fuse(s) = NoFusion \/ Fuse(s).text \in Seq(Alphabet) \ {NoPlate}
         /\ Fuse(s) # NoFusion => Fuse(s).confidence \in Int
         /\ Weighty(s) # {} /\ Cardinality(Weighty(s)) >= MinObservations =>
              LET C == Candidates(s)
                  text == FusedText(s, C)
              IN /\ Fuse(s).text = text
                 /\ Fuse(s).confidence = Confidence(s, C, text)
                 /\ Fuse(s).agreeing = Cardinality(Agreeing(s, C, text))
<1>1. IsFiniteSet(Weighty(s))
  <2>1. Weighty(s) \subseteq 1..m /\ m \in Nat
    BY PlacesOfReads
  <2>2. IsFiniteSet(1..m)
    BY <2>1, FS_Interval
  <2> QED
    BY <2>1, <2>2, FS_Subset
<1>2. Cardinality(Weighty(s)) \in Nat
  BY <1>1, FS_CardinalityType
<1> DEFINE C == Candidates(s)
           text == FusedText(s, C)
           Found == Weighty(s) # {} /\ Cardinality(Weighty(s)) >= MinObservations
<1>3. ASSUME Found PROVE text \in Seq(Alphabet) \ {NoPlate} /\ Confidence(s, C, text) \in Int
  <2>1. PICK n : Alike(s, m, C, n)
    BY <1>3, CandidatesAreAlike
  <2>2. text \in Seq(Alphabet) \ {NoPlate}
    BY <2>1, FusedTextIsValid
  <2>3. BaseConfidence(s, C, text) \in 0..100 /\ IsFiniteSet(Agreeing(s, C, text))
    BY <2>1, ConfidenceOfReads
  <2>4. Cardinality(Agreeing(s, C, text)) \in Nat
    BY <2>3, FS_CardinalityType
  <2>5. Confidence(s, C, text) \in Int
    BY <2>3, <2>4 DEF Confidence
  <2> QED
    BY <2>2, <2>5
<1>4. Found => /\ Fuse(s).text = text
               /\ Fuse(s).confidence = Confidence(s, C, text)
               /\ Fuse(s).agreeing = Cardinality(Agreeing(s, C, text))
  BY <1>2, ObservationBounds DEF Fuse
<1>5. ~Found => Fuse(s) = NoFusion
  BY <1>2, ObservationBounds DEF Fuse
<1>6. NoFusion.text = NoPlate
  BY DEF NoFusion
<1> HIDE DEF text
<1>7. Found => Fuse(s) # NoFusion
  BY <1>3, <1>4, <1>6
<1> QED
  BY <1>3, <1>4, <1>5, <1>7 DEF text

\* Whatever a track is read as, what is fused for it is a valid plate.
THEOREM FusionsAreValid == BufferSpec => []FusedPlateIsValid
<1>1. BufferInv => FusedPlateIsValid
  <2> SUFFICES ASSUME BufferInv, Fused # NoFusion PROVE IsValid(Fused.text)
    BY DEF FusedPlateIsValid
  <2> DEFINE m == Len(buffer)
             C == Candidates(buffer)
  <2>1. Reads(buffer, m)
    BY BufferReads DEF BufferInv
  <2> HIDE DEF m
  <2>2. Weighty(buffer) # {} /\ Fused.text = FusedText(buffer, C)
    BY <2>1, FuseOfReads DEF Fused
  <2>3. PICK n : Alike(buffer, m, C, n)
    BY <2>1, <2>2, CandidatesAreAlike
  <2> QED
    BY <2>1, <2>2, <2>3, FusedTextIsValid
<1> QED
  BY <1>1, BufferInvariant, PTL

\* The text that most of the weight is for is the one that is fused, however the
\* other reads are split by length, by character and by ties.
THEOREM MajorityAlwaysWins == BufferSpec => []MajorityWins
<1>1. BufferInv => MajorityWins
  <2> SUFFICES ASSUME BufferInv, NEW i \in DOMAIN buffer,
                      2 * Weight(buffer, Saying(buffer[i].text)) > Weight(buffer, DOMAIN buffer),
                      Cardinality(Weighty(buffer)) >= MinObservations
               PROVE  Fused.text = buffer[i].text
    BY DEF MajorityWins
  <2> DEFINE m == Len(buffer)
  <2>1. Reads(buffer, m)
    BY BufferReads DEF BufferInv
  <2>2. DOMAIN buffer = 1..m
    BY <2>1 DEF Reads
  <2>3. Saying(buffer[i].text) = {j \in 1..m : buffer[j].text = buffer[i].text}
    BY <2>2 DEF Saying
  <2> HIDE DEF m
  <2>4. Weighty(buffer) # {} /\ FusedText(buffer, Candidates(buffer)) = buffer[i].text
    BY <2>1, <2>2, <2>3, MajorityIsFused
  <2> QED
    BY <2>1, <2>4, FuseOfReads DEF Fused
<1> QED
  BY <1>1, BufferInvariant, PTL

\* Repetition adds at most eight points to the surest read that agrees, a plate is
\* at most 99 % sure, and only one that nobody read is less than nothing.
THEOREM ConfidenceAlwaysBacked == BufferSpec => []ConfidenceIsBacked
<1>1. BufferInv => ConfidenceIsBacked
  <2> SUFFICES ASSUME BufferInv, Fused # NoFusion
               PROVE  /\ Fused.confidence <= 99
                      /\ Fused.agreeing = 0 <=> Fused.confidence < 0
                      /\ Fused.agreeing > 0 =>
                           \E i \in Saying(Fused.text) : Fused.confidence <= buffer[i].conf + 8
    BY DEF ConfidenceIsBacked
  <2> DEFINE m == Len(buffer)
             C == Candidates(buffer)
             text == FusedText(buffer, C)
             A == Agreeing(buffer, C, text)
             base == BaseConfidence(buffer, C, text)
  <2>1. Reads(buffer, m)
    BY BufferReads DEF BufferInv
  <2>2. DOMAIN buffer = 1..m
    BY <2>1 DEF Reads
  <2> HIDE DEF m
  <2>3. /\ Weighty(buffer) # {} /\ Fused.text = text
        /\ Fused.confidence = Confidence(buffer, C, text) /\ Fused.agreeing = Cardinality(A)
    BY <2>1, FuseOfReads DEF Fused
  <2>4. PICK n : Alike(buffer, m, C, n)
    BY <2>1, <2>3, CandidatesAreAlike
  <2>5. /\ IsFiniteSet(A) /\ base \in 0..100 /\ (A = {} => base = 0)
        /\ A # {} => \E i \in A : base <= buffer[i].conf
    BY <2>1, <2>4, ConfidenceOfReads
  <2>6. Cardinality(A) \in Nat /\ (Cardinality(A) = 0 <=> A = {})
    BY <2>5, FS_CardinalityType, FS_EmptySet
  <2> DEFINE size == Cardinality(A)
             bonus == 2 * (size - 1)
             sum == base + (IF bonus < 8 THEN bonus ELSE 8)
  <2>7. Fused.confidence = IF sum < 99 THEN sum ELSE 99
    BY <2>3 DEF Confidence
  <2>8. A \subseteq Saying(text) /\ A \subseteq 1..m
    BY <2>2, <2>4 DEF Agreeing, Saying, Alike
  <2>9. ASSUME NEW i \in 1..m PROVE buffer[i].conf \in Int
    <3>1. IsObservation(buffer[i])
      BY <2>1 DEF Reads
    <3>2. buffer[i].conf \in 0..100
      BY <3>1 DEF IsObservation
    <3> QED
      BY <3>2
  <2> HIDE DEF A, base, text
  <2>10. Fused.confidence <= 99 /\ (size = 0 <=> Fused.confidence < 0)
    BY <2>5, <2>6, <2>7
  <2>11. ASSUME A # {} PROVE \E i \in Saying(text) : Fused.confidence <= buffer[i].conf + 8
    <3>1. PICK i \in A : base <= buffer[i].conf
      BY <2>5, <2>11
    <3>2. Fused.confidence <= base + 8
      BY <2>5, <2>6, <2>7
    <3>3. buffer[i].conf \in Int
      BY <2>8, <2>9
    <3>4. Fused.confidence \in Int
      BY <2>5, <2>6, <2>7
    <3>5. Fused.confidence <= buffer[i].conf + 8
      BY <2>5, <3>1, <3>2, <3>3, <3>4
    <3> QED
      BY <2>8, <3>5
  <2> QED
    BY <2>3, <2>6, <2>10, <2>11
<1> QED
  BY <1>1, BufferInvariant, PTL
-----------------------------------------------------------------------------
(* One more read *)

\* b is s and one more read.
Follows(b, s, m) ==
  /\ Reads(s, m) /\ Reads(b, m + 1)
  /\ \A i \in 1..m : b[i] = s[i]

\* What the places of I add up to, without it and with it.
SumsExtend(s, b, m, I) ==
  /\ Weight(b, I) = Weight(s, I)
  /\ Weight(b, I \cup {m + 1}) = Weight(s, I) + b[m + 1].weight
  /\ Total(Shares(b), I) = Total(Shares(s), I)
  /\ Total(Shares(b), I \cup {m + 1})
       = Total(Shares(s), I) + b[m + 1].weight * b[m + 1].conf

\* It adds its weight, and its share in the confidence, to the lists it is in.
LEMMA SumsOfFollowing ==
  ASSUME NEW m, NEW s, NEW b, Follows(b, s, m), NEW I, I \subseteq 1..m
  PROVE  SumsExtend(s, b, m, I)
<1>1. m \in Nat /\ DOMAIN s = 1..m /\ DOMAIN b = 1..(m + 1) /\ Reads(s, m) /\ Reads(b, m + 1)
  BY DEF Follows, Reads
<1>2. /\ Numbers(Weights(s), m) /\ Numbers(Weights(b), m + 1)
      /\ Numbers(Shares(s), m) /\ Numbers(Shares(b), m + 1)
  BY <1>1, WeightOfReads, SharesAreNumbers
<1>3. ASSUME NEW n \in 1..m
      PROVE  Weights(b)[n] = Weights(s)[n] /\ Shares(b)[n] = Shares(s)[n]
  <2>1. b[n] = s[n] /\ n \in DOMAIN s /\ n \in DOMAIN b
    BY <1>1 DEF Follows
  <2> QED
    BY <2>1 DEF Weights, Shares
<1> DEFINE J == I \cup {m + 1}
<1>4. \A n \in 1..m : /\ Term(Weights(b), I, n) = Term(Weights(s), I, n)
                      /\ Term(Weights(b), J, n) = Term(Weights(s), I, n)
                      /\ Term(Shares(b), I, n) = Term(Shares(s), I, n)
                      /\ Term(Shares(b), J, n) = Term(Shares(s), I, n)
  BY <1>1, <1>3 DEF Term
<1>5. m + 1 \notin I /\ m + 1 \in DOMAIN b
  BY <1>1
<1>6. /\ Term(Weights(b), I, m + 1) = 0 /\ Term(Weights(b), J, m + 1) = b[m + 1].weight
      /\ Term(Shares(b), I, m + 1) = 0
      /\ Term(Shares(b), J, m + 1) = b[m + 1].weight * b[m + 1].conf
  BY <1>5 DEF Term, Weights, Shares
<1> HIDE DEF J
<1>7. /\ Total(Weights(b), I) = Total(Weights(s), I) + Term(Weights(b), I, m + 1)
      /\ Total(Weights(b), J) = Total(Weights(s), I) + Term(Weights(b), J, m + 1)
      /\ Total(Shares(b), I) = Total(Shares(s), I) + Term(Shares(b), I, m + 1)
      /\ Total(Shares(b), J) = Total(Shares(s), I) + Term(Shares(b), J, m + 1)
  BY <1>1, <1>2, <1>4, TotalExtends
<1>8. Total(Weights(s), I) \in Int /\ Total(Shares(s), I) \in Int
  BY <1>2, TotalIsInt
<1>9. /\ Weight(b, I) = Total(Weights(b), I) /\ Weight(s, I) = Total(Weights(s), I)
      /\ Weight(b, J) = Total(Weights(b), J)
  BY <1>1, WeightOfReads
<1> QED
  BY <1>6, <1>7, <1>8, <1>9 DEF J, SumsExtend

\* The lists it is not in add up to what they did.
LEMMA SumsWithoutFollowing ==
  ASSUME NEW m, NEW s, NEW b, Follows(b, s, m), NEW I, I \subseteq 1..m
  PROVE  Weight(b, I) = Weight(s, I) /\ Total(Shares(b), I) = Total(Shares(s), I)
<1>1. SumsExtend(s, b, m, I)
  BY SumsOfFollowing
<1> QED
  BY <1>1 DEF SumsExtend

\* A read that counts joins the candidates if it is as long as they are.
LEMMA CandidatesOfFollowing ==
  ASSUME NEW m, NEW s, NEW b, Follows(b, s, m), b[m + 1].weight > 0, Weighty(s) # {},
         NEW n, Alike(s, m, Candidates(s), n), Candidates(s) = OfLength(s, n),
         Len(b[m + 1].text) = n
  PROVE  /\ Weighty(b) = Weighty(s) \cup {m + 1}
         /\ Candidates(b) = Candidates(s) \cup {m + 1}
         /\ Alike(b, m + 1, Candidates(b), n)
<1>1. m \in Nat /\ DOMAIN s = 1..m /\ DOMAIN b = 1..(m + 1) /\ Reads(s, m) /\ Reads(b, m + 1)
  BY DEF Follows, Reads
<1>2. \A i \in 1..m : b[i] = s[i]
  BY DEF Follows
<1>3. Weighty(b) = Weighty(s) \cup {m + 1} /\ m + 1 \notin Weighty(s) /\ Weighty(s) \subseteq 1..m
  <2>1. m + 1 \in Weighty(b)
    BY <1>1 DEF Weighty
  <2>2. \A i \in 1..m : i \in Weighty(b) <=> i \in Weighty(s)
    BY <1>1, <1>2 DEF Weighty
  <2>3. Weighty(b) \subseteq 1..(m + 1) /\ Weighty(s) \subseteq 1..m
    BY <1>1 DEF Weighty
  <2>4. 1..(m + 1) = 1..m \cup {m + 1} /\ m + 1 \notin 1..m
    BY <1>1
  <2> QED
    BY <2>1, <2>2, <2>3, <2>4
<1>4. /\ OfLength(b, n) = OfLength(s, n) \cup {m + 1}
      /\ \A k : k # n => OfLength(b, k) = OfLength(s, k)
      /\ \A k : OfLength(s, k) \subseteq 1..m
  BY <1>2, <1>3 DEF OfLength
<1>5. Weight(b, OfLength(b, n)) > Weight(s, OfLength(s, n))
  <2>1. SumsExtend(s, b, m, OfLength(s, n))
    BY <1>4, SumsOfFollowing
  <2>2. b[m + 1].weight \in Nat
    BY <1>1 DEF Reads, IsObservation
  <2>3. Weight(s, OfLength(s, n)) \in Nat
    BY <1>1, WeightIsNat
  <2> QED
    BY <1>4, <2>1, <2>2, <2>3 DEF SumsExtend
<1>6. Candidates(b) = OfLength(b, n)
  <2>1. PICK c \in Weighty(b) :
          /\ Candidates(b) = OfLength(b, Len(b[c].text))
          /\ \A j \in Weighty(b) :
               LET wi == Weight(b, OfLength(b, Len(b[c].text)))
                   wj == Weight(b, OfLength(b, Len(b[j].text)))
               IN wj < wi \/ (wj = wi /\ c <= j)
    BY <1>1, <1>3, CandidatesAreHeaviest
  <2>2. SUFFICES ASSUME Len(b[c].text) # n PROVE FALSE
    BY <2>1
  <2> DEFINE k == Len(b[c].text)
  <2>3. c \in Weighty(s) /\ b[c] = s[c]
    BY <1>2, <1>3, <2>1, <2>2
  <2>4. Weight(b, OfLength(b, n)) <= Weight(b, OfLength(b, k))
    <3>1. m + 1 \in Weighty(b)
      BY <1>3
    <3>2. /\ Weight(b, OfLength(b, n)) \in Nat
          /\ Weight(b, OfLength(b, k)) \in Nat
      BY <1>1, WeightIsNat
    <3> QED
      BY <2>1, <3>1, <3>2
  <2>5. Weight(b, OfLength(b, k)) = Weight(s, OfLength(s, k))
    BY <1>4, <2>2, SumsWithoutFollowing
  <2>6. Weight(s, OfLength(s, k)) <= Weight(s, OfLength(s, n))
    <3>1. PICK i \in Weighty(s) :
            /\ Candidates(s) = OfLength(s, Len(s[i].text))
            /\ \A j \in Weighty(s) :
                 LET wi == Weight(s, OfLength(s, Len(s[i].text)))
                     wj == Weight(s, OfLength(s, Len(s[j].text)))
                 IN wj < wi \/ (wj = wi /\ i <= j)
      BY <1>1, CandidatesAreHeaviest
    <3>2. /\ Weight(s, OfLength(s, n)) \in Nat
          /\ Weight(s, OfLength(s, k)) \in Nat
      BY <1>1, WeightIsNat
    <3> QED
      BY <2>3, <3>1, <3>2
  <2>7. /\ Weight(s, OfLength(s, n)) \in Nat /\ Weight(s, OfLength(s, k)) \in Nat
        /\ Weight(b, OfLength(b, n)) \in Nat
    BY <1>1, WeightIsNat
  <2> QED
    BY <1>5, <2>4, <2>5, <2>6, <2>7
<1>7. Alike(b, m + 1, Candidates(b), n)
  <2>1. Candidates(b) \subseteq 1..(m + 1) /\ Candidates(b) # {}
    BY <1>1, <1>4, <1>6
  <2>2. \A i \in Candidates(b) : Len(b[i].text) = n /\ b[i].weight > 0
    BY <1>6 DEF OfLength, Weighty
  <2>3. n \in Nat
    BY DEF Alike
  <2> QED
    BY <2>1, <2>2, <2>3 DEF Alike
<1> QED
  BY <1>3, <1>4, <1>6, <1>7

\* At every position its vote makes no character win but its own.
LEMMA VoteOfFollowing ==
  ASSUME NEW m, NEW s, NEW b, Follows(b, s, m), NEW n, NEW C, Alike(s, m, C, n),
         Alike(b, m + 1, C \cup {m + 1}, n), NEW k \in 1..n
  PROVE  \/ CharVote(b, C \cup {m + 1})[k] = CharVote(s, C)[k]
         \/ CharVote(b, C \cup {m + 1})[k] = b[m + 1].text[k]
<1> DEFINE D == C \cup {m + 1}
<1>1. m \in Nat /\ Reads(s, m) /\ Reads(b, m + 1)
  BY DEF Follows, Reads
<1>2. C \subseteq 1..m /\ m + 1 \notin C /\ \A i \in C : b[i] = s[i]
  BY <1>1 DEF Follows, Alike
<1>3. PICK e \in C :
        /\ CharVote(s, C)[k] = s[e].text[k]
        /\ \A j \in C : LET wj == Weight(s, Ballot(s, C, j, k))
                            we == Weight(s, Ballot(s, C, e, k))
                        IN wj < we \/ (wj = we /\ e <= j)
  BY <1>1, VoteIsHeaviest
<1>4. PICK d \in D :
        /\ CharVote(b, D)[k] = b[d].text[k]
        /\ \A j \in D : LET wj == Weight(b, Ballot(b, D, j, k))
                            wd == Weight(b, Ballot(b, D, d, k))
                        IN wj < wd \/ (wj = wd /\ d <= j)
  BY <1>1, VoteIsHeaviest
<1>5. SUFFICES ASSUME b[d].text[k] # b[m + 1].text[k] PROVE d = e
  BY <1>2, <1>3, <1>4
<1>6. d \in C
  BY <1>5
<1>7. Ballot(b, D, d, k) = Ballot(s, C, d, k)
  BY <1>2, <1>5, <1>6 DEF Ballot
<1>8. Ballot(s, C, e, k) \subseteq Ballot(b, D, e, k) /\ Ballot(s, C, e, k) \subseteq 1..m
  BY <1>2 DEF Ballot
<1> DEFINE wd == Weight(s, Ballot(s, C, d, k))
           we == Weight(s, Ballot(s, C, e, k))
           vd == Weight(b, Ballot(b, D, d, k))
           ve == Weight(b, Ballot(b, D, e, k))
<1>9. wd \in Nat /\ we \in Nat /\ vd \in Nat /\ ve \in Nat
  BY <1>1, WeightIsNat
<1>10. vd = wd
  <2>1. Ballot(s, C, d, k) \subseteq 1..m
    BY <1>2 DEF Ballot
  <2> QED
    BY <1>7, <2>1, SumsWithoutFollowing
<1>11. we <= ve
  <2>1. Weight(b, Ballot(s, C, e, k)) = we
    BY <1>8, SumsWithoutFollowing
  <2>2. Weight(b, Ballot(s, C, e, k)) <= ve
    BY <1>1, <1>8, WeightOfReads
  <2> QED
    BY <2>1, <2>2
<1>12. wd < we \/ (wd = we /\ e <= d)
  BY <1>3, <1>6
<1>13. ve < vd \/ (ve = vd /\ d <= e)
  BY <1>4
<1>14. d \in Nat /\ e \in Nat
  BY <1>1, <1>2, <1>6
<1> HIDE DEF wd, we, vd, ve
<1> QED
  BY <1>9, <1>10, <1>11, <1>12, <1>13, <1>14

\* A read that agrees with a plate that was voted, or corrected from the vote,
\* leaves it what it is.
LEMMA FusedTextOfFollowing ==
  ASSUME NEW m, NEW s, NEW b, Follows(b, s, m), NEW n, NEW C, Alike(s, m, C, n),
         Alike(b, m + 1, C \cup {m + 1}, n),
         Normalize(CharVote(s, C)) # NoPlate, b[m + 1].text = Normalize(CharVote(s, C))
  PROVE  FusedText(b, C \cup {m + 1}) = FusedText(s, C)
<1> DEFINE D == C \cup {m + 1}
           V == CharVote(s, C)
           W == CharVote(b, D)
           T == b[m + 1].text
<1>1. m \in Nat /\ Reads(s, m) /\ Reads(b, m + 1)
  BY DEF Follows, Reads
<1>2. DOMAIN V = 1..n /\ DOMAIN W = 1..n
  BY <1>1, VoteIsHeaviest
<1>3. V = [k \in 1..n |-> V[k]] /\ W = [k \in 1..n |-> W[k]]
  <2>1. V = [k \in DOMAIN V |-> V[k]] /\ W = [k \in DOMAIN W |-> W[k]]
    BY DEF CharVote
  <2> QED
    BY <1>2, <2>1
<1>4. IsValid(T) /\ T # NoPlate /\ T \in Seq(Alphabet) /\ DOMAIN T = 1..n
  <2>1. IsObservation(b[m + 1]) /\ Len(b[m + 1].text) = n
    BY <1>1 DEF Reads, Alike
  <2> QED
    BY <2>1 DEF IsObservation
<1>5. ASSUME NEW k \in 1..n PROVE W[k] = V[k] \/ W[k] = T[k]
  BY VoteOfFollowing
<1>6. T = Normalize(V)
  OBVIOUS
<1>7. T = [k \in 1..n |-> T[k]]
  BY <1>4
<1> HIDE DEF V, W, T
<1>8. W = V \/ W = T
  <2>1. CASE IsValid(V)
    <3>1. T = V
      BY <1>6, <2>1 DEF Normalize
    <3>2. \A k \in 1..n : W[k] = V[k]
      BY <1>5, <3>1
    <3> QED
      BY <1>3, <3>2
  <2>2. CASE ~IsValid(V)
    <3>1. T = Corrected(V)
      BY <1>4, <1>6, <2>2 DEF Normalize
    <3>2. PICK i : T = Swapped(V, i)
      BY <3>1 DEF Corrected
    <3>3. \A k \in 1..n : k # i => T[k] = V[k]
      BY <1>2, <3>2 DEF Swapped
    <3>4. \A k \in 1..n : k # i => W[k] = V[k] /\ W[k] = T[k]
      BY <1>5, <3>3
    <3>5. CASE i \in 1..n /\ W[i] = T[i]
      <4>1. \A k \in 1..n : W[k] = T[k]
        BY <3>4, <3>5
      <4> QED
        BY <1>3, <1>7, <4>1
    <3>6. CASE ~(i \in 1..n /\ W[i] = T[i])
      <4>1. \A k \in 1..n : W[k] = V[k]
        BY <1>5, <3>4, <3>6
      <4> QED
        BY <1>3, <4>1
    <3> QED
      BY <3>5, <3>6
  <2> QED
    BY <2>1, <2>2
<1>9. Normalize(W) = T
  BY <1>4, <1>6, <1>8 DEF Normalize
<1> QED
  BY <1>4, <1>6, <1>9 DEF FusedText, V, W
\* The confidence that a share of the weight and a number of reads amount to.
Sure(base, size) ==
  LET bonus == 2 * (size - 1)
      sum == base + (IF bonus < 8 THEN bonus ELSE 8)
  IN IF sum < 99 THEN sum ELSE 99

\* One more read, as sure as the whole, does not lower an average.
LEMMA SureGrows ==
  ASSUME NEW X \in Nat, NEW W \in Nat \ {0}, NEW w \in Nat \ {0}, NEW c \in 0..100,
         NEW size \in Nat, X \div W \in 0..100, size = 0 => X \div W = 0,
         c >= Sure(X \div W, size)
  PROVE  Sure((X + w * c) \div (W + w), size + 1) >= Sure(X \div W, size)
<1> DEFINE base == X \div W
           later == (X + w * c) \div (W + w)
           q == IF base < 99 THEN base ELSE 99
<1>1. W + w \in Nat \ {0} /\ w * c \in Nat
  OBVIOUS
<1>2. later \in Nat
  <2>1. X + w * c \in Nat
    BY <1>1
  <2> QED
    BY <1>1, <2>1
<1>3. base * W <= X
  OBVIOUS
<1>4. q \in Nat /\ q <= base /\ base \in Nat
  OBVIOUS
<1>5. ASSUME size # 0 PROVE q <= later
  <2>1. q <= c
    BY <1>5 DEF Sure
  <2>2. q * W <= base * W
    <3>1. W * q <= base * W
      BY <1>4, TimesMonotone
    <3> QED
      BY <1>4, <3>1
  <2>3. q * w <= w * c
    <3>1. w * q <= c * w
      BY <1>4, <2>1, TimesMonotone
    <3> QED
      BY <1>4, <3>1
  <2>4. q * (W + w) = q * W + q * w
    BY <1>4
  <2>5. q * (W + w) <= X + w * c
    BY <1>3, <1>4, <2>2, <2>3, <2>4
  <2> DEFINE a == X + w * c
             b == W + w
  <2>6. a \in Int /\ b \in Nat \ {0} /\ q * b <= a /\ later = a \div b
    BY <1>1, <2>5
  <2> HIDE DEF a, b, later, q
  <2>7. q <= a \div b
    BY <1>4, <2>6
  <2> QED
    BY <2>6, <2>7
<1> HIDE DEF later, base
<1>6. CASE size = 0
  BY <1>2, <1>6 DEF Sure, base
<1>7. CASE size # 0
  BY <1>2, <1>4, <1>5, <1>7 DEF Sure
<1> QED
  BY <1>6, <1>7 DEF later, base

\* The fusion of one more read that counts and agrees with a voted plate is that
\* plate, and no less sure, as long as the reads are enough.
LEMMA FusionOfFollowing ==
  ASSUME NEW m, NEW s, NEW b, Follows(b, s, m), Weighty(s) # {},
         NEW text, text = Normalize(CharVote(s, Candidates(s))), text # NoPlate,
         b[m + 1].text = text, b[m + 1].weight > 0,
         b[m + 1].conf >= Confidence(s, Candidates(s), text),
         Cardinality(Weighty(b)) >= MinObservations
  PROVE  Fuse(b).text = text /\ Fuse(b).confidence >= Confidence(s, Candidates(s), text)
<1> DEFINE C == Candidates(s)
<1>1. m \in Nat /\ Reads(s, m) /\ Reads(b, m + 1)
  BY DEF Follows, Reads
<1>3. PICK n : Alike(s, m, C, n) /\ C = OfLength(s, n)
  BY <1>1, CandidatesAreAlike
<1>4. FusedText(s, C) = text /\ DOMAIN text = 1..n
  <2>1. FusedText(s, C) = text
    BY DEF FusedText
  <2> QED
    BY <1>1, <1>3, <2>1, FusedTextIsValid
<1>5. n \in Nat /\ C \subseteq 1..m
  BY <1>3 DEF Alike
<1>6. IsObservation(b[m + 1])
  BY <1>1 DEF Reads
<1>7. b[m + 1].weight \in Nat /\ b[m + 1].conf \in 0..100 /\ Len(b[m + 1].text) = n
  BY <1>4, <1>5, <1>6 DEF IsObservation
<1>8. /\ Agreeing(s, C, text) \subseteq 1..m
      /\ IsFiniteSet(Agreeing(s, C, text))
      /\ BaseConfidence(s, C, text) \in 0..100
      /\ Agreeing(s, C, text) = {} => BaseConfidence(s, C, text) = 0
  <2>1. Agreeing(s, C, text) \subseteq C
    BY DEF Agreeing
  <2>2. /\ IsFiniteSet(Agreeing(s, C, text))
        /\ BaseConfidence(s, C, text) \in 0..100
        /\ Agreeing(s, C, text) = {} => BaseConfidence(s, C, text) = 0
    <3> HIDE DEF C
    <3> QED
      BY <1>1, <1>3, ConfidenceOfReads
  <2> QED
    BY <1>5, <2>1, <2>2
<1>9. \A q, K, t : Confidence(q, K, t) = Sure(BaseConfidence(q, K, t), Cardinality(Agreeing(q, K, t)))
  BY DEF Confidence, Sure
<1> DEFINE D == C \cup {m + 1}
<1>10. /\ Weighty(b) = Weighty(s) \cup {m + 1}
       /\ Candidates(b) = D /\ Alike(b, m + 1, D, n)
  <2>1. /\ Weighty(b) = Weighty(s) \cup {m + 1}
        /\ Candidates(b) = Candidates(s) \cup {m + 1}
        /\ Alike(b, m + 1, Candidates(b), n)
    BY <1>3, <1>7, CandidatesOfFollowing
  <2> QED
    BY <2>1
<1>11. FusedText(b, D) = text
  BY <1>3, <1>4, <1>10, FusedTextOfFollowing
<1>12. Fuse(b).text = text /\ Fuse(b).confidence = Confidence(b, D, text)
  BY <1>1, <1>10, <1>11, FuseOfReads
<1> DEFINE A == Agreeing(s, C, text)
           X == Total(Shares(s), A)
           W == Weight(s, C)
           w == b[m + 1].weight
           c == b[m + 1].conf
           size == Cardinality(A)
<1>13. Agreeing(b, D, text) = A \cup {m + 1} /\ m + 1 \notin A
  <2>1. \A i \in C : b[i] = s[i]
    BY <1>5 DEF Follows
  <2> QED
    BY <1>1, <1>5, <2>1 DEF Agreeing
<1>14. Cardinality(Agreeing(b, D, text)) = size + 1 /\ size \in Nat /\ (size = 0 <=> A = {})
  BY <1>8, <1>13, FS_AddElement, FS_CardinalityType, FS_EmptySet
<1>15. SumsExtend(s, b, m, A) /\ SumsExtend(s, b, m, C)
  BY <1>5, <1>8, SumsOfFollowing
<1>16. BaseConfidence(b, D, text) = (X + w * c) \div (W + w)
  BY <1>13, <1>15 DEF BaseConfidence, SumsExtend, Shares
<1>17. BaseConfidence(s, C, text) = X \div W
  BY DEF BaseConfidence, Shares
<1>18. X \in Nat
  <2>1. Numbers(Shares(s), m) /\ \A i \in 1..m : Shares(s)[i] >= 0
    BY <1>1, SharesAreNumbers
  <2> DEFINE J == A
  <2> HIDE DEF J, A
  <2>2. /\ Total(Shares(s), A) \in Nat
        /\ A \cap 1..m \subseteq J => Total(Shares(s), A) <= Total(Shares(s), J)
    BY <2>1, TotalOfNats
  <2> QED
    BY <2>2
<1>19. W \in Nat \ {0}
  BY <1>1, <1>3, CandidatesWeigh
<1>20. w \in Nat \ {0} /\ c \in 0..100
  BY <1>7
<1>21. Confidence(s, C, text) = Sure(X \div W, size)
  BY <1>9, <1>17
<1>22. Confidence(b, D, text) = Sure((X + w * c) \div (W + w), size + 1)
  BY <1>9, <1>14, <1>16
<1>23. c >= Sure(X \div W, size)
  BY <1>21
<1>24. X \div W \in 0..100 /\ (size = 0 => X \div W = 0)
  BY <1>8, <1>14, <1>17
<1> HIDE DEF X, W, w, c, size, A, D
<1>25. Sure((X + w * c) \div (W + w), size + 1) >= Sure(X \div W, size)
  BY <1>14, <1>18, <1>19, <1>20, <1>23, <1>24, SureGrows
<1> QED
  BY <1>12, <1>21, <1>22, <1>25
-----------------------------------------------------------------------------
(* One read less: the deque is full and drops the oldest *)

\* t is s without its first read.
Drops(t, s, m) ==
  /\ Reads(t, m) /\ Reads(s, m + 1)
  /\ \A i \in 1..m : t[i] = s[i + 1]

\* Where the reads at the places of I were before.
Before(I) == {i + 1 : i \in I}

LEMMA PlacesBefore ==
  ASSUME NEW m \in Nat, NEW I, I \subseteq 1..m
  PROVE  /\ Before(I) \subseteq 2..(m + 1)
         /\ \A n \in 1..m : n + 1 \in Before(I) <=> n \in I
         /\ IsFiniteSet(Before(I)) /\ Cardinality(Before(I)) = Cardinality(I)
<1>1. /\ Before(I) \subseteq 2..(m + 1)
      /\ \A n \in 1..m : n + 1 \in Before(I) <=> n \in I
  BY DEF Before
<1> DEFINE f == [i \in I |-> i + 1]
<1>2. f \in Bijection(I, Before(I))
  <2>1. f \in [I -> Before(I)] /\ \A i, j \in I : f[i] = f[j] => i = j
    BY DEF Before
  <2>2. \A k \in Before(I) : \E i \in I : f[i] = k
    BY DEF Before
  <2> QED
    BY <2>1, <2>2, Fun_IsBij
<1>3. IsFiniteSet(I)
  <2>1. IsFiniteSet(1..m)
    BY FS_Interval
  <2> QED
    BY <2>1, FS_Subset
<1>4. ExistsBijection(I, Before(I))
  BY <1>2, Fun_ExistsBij
<1> QED
  BY <1>1, <1>3, <1>4, FS_Bijection

\* A sum to which the first place adds nothing is the sum without that place.
LEMMA TotalShifts ==
  ASSUME NEW m \in Nat, NEW f, NEW g, Numbers(f, m + 1), Numbers(g, m), NEW I, NEW J,
         Term(f, I, 1) = 0, \A n \in 1..m : Term(f, I, n + 1) = Term(g, J, n)
  PROVE  Total(f, I) = Total(g, J)
<1>1. PICK a : Adds(a, f, I, m + 1) /\ Total(f, I) = a[m + 1]
  BY TotalAdds
<1>2. PICK b : Adds(b, g, J, m) /\ Total(g, J) = b[m]
  BY TotalAdds
<1> DEFINE S == {n \in Nat : n <= m => a[n + 1] = b[n]}
<1>3. 0 \in S
  <2>1. 1 \in 1..(m + 1) /\ 1 - 1 = 0
    OBVIOUS
  <2>2. a[1] = a[0] + Term(f, I, 1) /\ a[0] = 0 /\ b[0] = 0
    BY <1>1, <1>2, <2>1 DEF Adds, Term
  <2> QED
    BY <2>2
<1>4. ASSUME NEW n \in Nat, n \in S PROVE n + 1 \in S
  <2>1. SUFFICES ASSUME n + 1 <= m PROVE a[(n + 1) + 1] = b[n + 1]
    OBVIOUS
  <2>2. /\ n + 1 \in 1..m /\ (n + 1) - 1 = n
        /\ (n + 1) + 1 \in 1..(m + 1) /\ ((n + 1) + 1) - 1 = n + 1
    BY <2>1
  <2>3. /\ a[(n + 1) + 1] = a[n + 1] + Term(f, I, (n + 1) + 1)
        /\ b[n + 1] = b[n] + Term(g, J, n + 1)
    BY <1>1, <1>2, <2>2 DEF Adds, Term
  <2>4. a[n + 1] = b[n] /\ Term(f, I, (n + 1) + 1) = Term(g, J, n + 1)
    BY <1>4, <2>1, <2>2
  <2> QED
    BY <2>3, <2>4
<1> HIDE DEF S
<1>5. m \in S
  BY <1>3, <1>4, Induction
<1> QED
  BY <1>1, <1>2, <1>5 DEF S

\* What is left weighs what it weighed, and says it as surely.
LEMMA SumsOfDropping ==
  ASSUME NEW m, NEW s, NEW t, Drops(t, s, m), NEW I, I \subseteq 1..m
  PROVE  /\ Weight(s, Before(I)) = Weight(t, I)
         /\ Total(Shares(s), Before(I)) = Total(Shares(t), I)
<1>1. m \in Nat /\ DOMAIN t = 1..m /\ DOMAIN s = 1..(m + 1) /\ Reads(t, m) /\ Reads(s, m + 1)
  BY DEF Drops, Reads
<1>2. /\ Numbers(Weights(t), m) /\ Numbers(Weights(s), m + 1)
      /\ Numbers(Shares(t), m) /\ Numbers(Shares(s), m + 1)
  BY <1>1, WeightOfReads, SharesAreNumbers
<1>3. ASSUME NEW n \in 1..m
      PROVE  Weights(s)[n + 1] = Weights(t)[n] /\ Shares(s)[n + 1] = Shares(t)[n]
  <2>1. t[n] = s[n + 1] /\ n + 1 \in DOMAIN s /\ n \in DOMAIN t
    BY <1>1 DEF Drops
  <2> QED
    BY <2>1 DEF Weights, Shares
<1>4. 1 \notin Before(I) /\ \A n \in 1..m : n + 1 \in Before(I) <=> n \in I
  <2>1. 1 \notin 2..(m + 1)
    BY <1>1
  <2> QED
    BY <1>1, <2>1, PlacesBefore
<1>5. /\ Term(Weights(s), Before(I), 1) = 0 /\ Term(Shares(s), Before(I), 1) = 0
      /\ \A n \in 1..m : /\ Term(Weights(s), Before(I), n + 1) = Term(Weights(t), I, n)
                         /\ Term(Shares(s), Before(I), n + 1) = Term(Shares(t), I, n)
  BY <1>3, <1>4 DEF Term
<1>6. /\ Total(Weights(s), Before(I)) = Total(Weights(t), I)
      /\ Total(Shares(s), Before(I)) = Total(Shares(t), I)
  BY <1>1, <1>2, <1>5, TotalShifts
<1>7. Weight(s, Before(I)) = Total(Weights(s), Before(I)) /\ Weight(t, I) = Total(Weights(t), I)
  BY <1>1, WeightOfReads
<1> QED
  BY <1>6, <1>7

\* The candidates stay the candidates if the read that goes is none of them.
LEMMA CandidatesOfDropping ==
  ASSUME NEW m, NEW s, NEW t, Drops(t, s, m), Weighty(s) # {},
         NEW n, Alike(s, m + 1, Candidates(s), n), Candidates(s) = OfLength(s, n),
         s[1].weight = 0 \/ Len(s[1].text) # n
  PROVE  /\ Weighty(t) # {}
         /\ Candidates(s) = Before(Candidates(t))
         /\ Alike(t, m, Candidates(t), n)
<1>1. m \in Nat /\ DOMAIN t = 1..m /\ DOMAIN s = 1..(m + 1) /\ Reads(t, m) /\ Reads(s, m + 1)
  BY DEF Drops, Reads
<1>2. \A i \in 1..m : t[i] = s[i + 1]
  BY DEF Drops
<1>3. Weighty(t) \subseteq 1..m /\ Weighty(s) \subseteq 1..(m + 1)
  BY <1>1, PlacesOfReads
<1>4. \A k : OfLength(t, k) \subseteq 1..m /\ OfLength(s, k) \subseteq 1..(m + 1)
  BY <1>3 DEF OfLength
<1>5. \A i \in 1..m : i + 1 \in 1..(m + 1)
  BY <1>1
<1>6. /\ \A i \in 1..m : i + 1 \in Weighty(s) <=> i \in Weighty(t)
      /\ \A k : \A i \in 1..m : i + 1 \in OfLength(s, k) <=> i \in OfLength(t, k)
  BY <1>1, <1>2, <1>5 DEF OfLength, Weighty
<1>7. \A j \in 1..(m + 1) : j = 1 \/ \E i \in 1..m : j = i + 1
  <2> SUFFICES ASSUME NEW j \in 1..(m + 1), j # 1 PROVE \E i \in 1..m : j = i + 1
    OBVIOUS
  <2>1. j - 1 \in 1..m /\ j = (j - 1) + 1
    BY <1>1
  <2> QED
    BY <2>1
<1>8. 1 \notin OfLength(s, n)
  BY DEF OfLength, Weighty
<1>9. OfLength(s, n) = Before(OfLength(t, n))
  BY <1>4, <1>6, <1>7, <1>8 DEF Before
<1>10. OfLength(t, n) # {} /\ n \in Nat
  BY <1>9 DEF Alike, Before
<1>11. Weighty(t) # {}
  BY <1>10 DEF OfLength
<1> DEFINE w(k) == Weight(t, OfLength(t, k))
           v(k) == Weight(s, OfLength(s, k))
<1>12. \A k : w(k) \in Nat /\ v(k) \in Nat
  BY <1>1, WeightIsNat
<1>13. v(n) = w(n)
  BY <1>4, <1>9, SumsOfDropping
<1>14. ASSUME NEW k PROVE w(k) <= v(k)
  <2>1. Before(OfLength(t, k)) \subseteq OfLength(s, k)
    BY <1>4, <1>6 DEF Before
  <2>2. Weight(s, Before(OfLength(t, k))) = w(k)
    BY <1>4, SumsOfDropping
  <2>3. Weight(s, Before(OfLength(t, k))) <= v(k)
    BY <1>1, <2>1, WeightOfReads
  <2> QED
    BY <2>2, <2>3
<1>15. PICK d \in Weighty(s) :
         /\ Candidates(s) = OfLength(s, Len(s[d].text))
         /\ \A j \in Weighty(s) : v(Len(s[j].text)) < v(Len(s[d].text))
              \/ (v(Len(s[j].text)) = v(Len(s[d].text)) /\ d <= j)
  BY <1>1, CandidatesAreHeaviest
<1>16. Len(s[d].text) = n
  <2>1. d \in Candidates(s)
    BY <1>15 DEF OfLength
  <2> QED
    BY <2>1 DEF Alike
<1>17. PICK e \in 1..m : d = e + 1 /\ e \in Weighty(t) /\ Len(t[e].text) = n
  <2>1. d # 1
    BY <1>8, <1>15, <1>16 DEF OfLength
  <2>2. PICK e \in 1..m : d = e + 1
    BY <1>3, <1>7, <2>1
  <2> QED
    BY <1>2, <1>6, <1>15, <1>16, <2>2
<1>18. PICK c \in Weighty(t) :
         /\ Candidates(t) = OfLength(t, Len(t[c].text))
         /\ \A j \in Weighty(t) : w(Len(t[j].text)) < w(Len(t[c].text))
              \/ (w(Len(t[j].text)) = w(Len(t[c].text)) /\ c <= j)
  BY <1>1, <1>11, CandidatesAreHeaviest
<1> DEFINE k == Len(t[c].text)
<1>19. c \in 1..m /\ c + 1 \in Weighty(s) /\ Len(s[c + 1].text) = k
  BY <1>2, <1>3, <1>6, <1>18
<1>20. v(k) < v(n) \/ (v(k) = v(n) /\ d <= c + 1)
  BY <1>15, <1>16, <1>19
<1>21. w(n) < w(k) \/ (w(n) = w(k) /\ c <= e)
  BY <1>17, <1>18
<1>22. w(k) <= v(k) /\ w(k) \in Nat /\ v(k) \in Nat /\ w(n) \in Nat
  BY <1>12, <1>14
<1>23. c = e
  <2>1. c \in Nat /\ e \in Nat /\ d = e + 1
    BY <1>17, <1>19
  <2> HIDE DEF w, v, k
  <2> QED
    BY <1>13, <1>20, <1>21, <1>22, <2>1
<1>24. Candidates(t) = OfLength(t, n)
  BY <1>17, <1>18, <1>23
<1>25. Alike(t, m, Candidates(t), n)
  <2>1. \A i \in OfLength(t, n) : Len(t[i].text) = n /\ t[i].weight > 0
    BY DEF OfLength, Weighty
  <2> QED
    BY <1>4, <1>10, <1>24, <2>1 DEF Alike
<1> QED
  BY <1>9, <1>11, <1>24, <1>25

\* They vote as they did.
LEMMA VoteOfDropping ==
  ASSUME NEW m, NEW s, NEW t, Drops(t, s, m), NEW n, NEW C, Alike(t, m, C, n),
         Alike(s, m + 1, Before(C), n)
  PROVE  CharVote(s, Before(C)) = CharVote(t, C)
<1> DEFINE B == Before(C)
<1>1. m \in Nat /\ Reads(t, m) /\ Reads(s, m + 1)
  BY DEF Drops, Reads
<1>2. C \subseteq 1..m /\ \A i \in C : i + 1 \in B /\ s[i + 1] = t[i]
  BY DEF Alike, Drops, Before
<1>3. ASSUME NEW i \in C, NEW k PROVE Weight(s, Ballot(s, B, i + 1, k)) = Weight(t, Ballot(t, C, i, k))
  <2>1. Ballot(s, B, i + 1, k) = Before(Ballot(t, C, i, k))
    BY <1>2 DEF Ballot, Before
  <2>2. Ballot(t, C, i, k) \subseteq 1..m
    BY <1>2 DEF Ballot
  <2> QED
    BY <2>1, <2>2, SumsOfDropping
<1>4. /\ DOMAIN CharVote(s, B) = 1..n /\ DOMAIN CharVote(t, C) = 1..n
  BY <1>1, VoteIsHeaviest
<1>5. ASSUME NEW k \in 1..n PROVE CharVote(s, B)[k] = CharVote(t, C)[k]
  <2> DEFINE v(i) == Weight(s, Ballot(s, B, i, k))
             w(i) == Weight(t, Ballot(t, C, i, k))
  <2>1. PICK d \in B : /\ CharVote(s, B)[k] = s[d].text[k]
                       /\ \A j \in B : v(j) < v(d) \/ (v(j) = v(d) /\ d <= j)
    BY <1>1, VoteIsHeaviest
  <2>2. PICK e \in C : /\ CharVote(t, C)[k] = t[e].text[k]
                       /\ \A j \in C : w(j) < w(e) \/ (w(j) = w(e) /\ e <= j)
    BY <1>1, VoteIsHeaviest
  <2>3. PICK c \in C : d = c + 1
    BY <2>1 DEF Before
  <2>4. v(c + 1) = w(c) /\ v(e + 1) = w(e)
    BY <1>3
  <2>5. v(e + 1) < v(c + 1) \/ (v(e + 1) = v(c + 1) /\ c + 1 <= e + 1)
    BY <1>2, <2>1, <2>3
  <2>6. w(c) < w(e) \/ (w(c) = w(e) /\ e <= c)
    BY <2>2
  <2>7. w(c) \in Nat /\ w(e) \in Nat /\ c \in Nat /\ e \in Nat
    BY <1>1, <1>2, WeightIsNat
  <2>8. c = e
    <3> HIDE DEF v, w
    <3> QED
      BY <2>4, <2>5, <2>6, <2>7
  <2> QED
    BY <1>2, <2>1, <2>2, <2>3, <2>8
<1>6. /\ CharVote(s, B) = [k \in 1..n |-> CharVote(s, B)[k]]
      /\ CharVote(t, C) = [k \in 1..n |-> CharVote(t, C)[k]]
  <2>1. /\ CharVote(s, B) = [k \in DOMAIN CharVote(s, B) |-> CharVote(s, B)[k]]
        /\ CharVote(t, C) = [k \in DOMAIN CharVote(t, C) |-> CharVote(t, C)[k]]
    BY DEF CharVote
  <2> QED
    BY <1>4, <2>1
<1> QED
  BY <1>5, <1>6

\* What is left is fused to the same plate, as surely, and there is at most one
\* read less that counts.
LEMMA FusionOfDropping ==
  ASSUME NEW m, NEW s, NEW t, Drops(t, s, m), Weighty(s) # {},
         s[1].weight = 0 \/ Len(s[1].text) # Len(FusedText(s, Candidates(s)))
  PROVE  /\ Weighty(t) # {}
         /\ Cardinality(Weighty(s)) <= Cardinality(Weighty(t)) + 1
         /\ CharVote(t, Candidates(t)) = CharVote(s, Candidates(s))
         /\ \A text : Confidence(t, Candidates(t), text) = Confidence(s, Candidates(s), text)
<1>1. m \in Nat /\ Reads(t, m) /\ Reads(s, m + 1) /\ \A i \in 1..m : t[i] = s[i + 1]
  BY DEF Drops, Reads
<1> DEFINE C == Candidates(t)
<1>2. PICK n : Alike(s, m + 1, Candidates(s), n) /\ Candidates(s) = OfLength(s, n)
  BY <1>1, CandidatesAreAlike
<1>3. Len(FusedText(s, Candidates(s))) = n
  <2>1. /\ FusedText(s, Candidates(s)) \in Seq(Alphabet)
        /\ DOMAIN FusedText(s, Candidates(s)) = 1..n
    BY <1>1, <1>2, FusedTextIsValid
  <2> QED
    BY <1>2, <2>1 DEF Alike
<1>4. Weighty(t) # {} /\ Candidates(s) = Before(C) /\ Alike(t, m, C, n)
  BY <1>2, <1>3, CandidatesOfDropping
<1>5. C \subseteq 1..m
  BY <1>4 DEF Alike
<1>6. CharVote(t, C) = CharVote(s, Before(C))
  BY <1>2, <1>4, VoteOfDropping
<1>7. ASSUME NEW text PROVE Confidence(t, C, text) = Confidence(s, Before(C), text)
  <2>1. Agreeing(s, Before(C), text) = Before(Agreeing(t, C, text))
    BY <1>1, <1>5 DEF Agreeing, Before
  <2>2. Agreeing(t, C, text) \subseteq 1..m
    BY <1>5 DEF Agreeing
  <2>3. Cardinality(Agreeing(s, Before(C), text)) = Cardinality(Agreeing(t, C, text))
    BY <1>1, <2>1, <2>2, PlacesBefore
  <2>4. /\ Weight(s, Before(C)) = Weight(t, C)
        /\ Total(Shares(s), Before(Agreeing(t, C, text))) = Total(Shares(t), Agreeing(t, C, text))
    BY <1>5, <2>2, SumsOfDropping
  <2>5. BaseConfidence(s, Before(C), text) = BaseConfidence(t, C, text)
    BY <2>1, <2>4 DEF BaseConfidence, Shares
  <2> QED
    BY <2>3, <2>5 DEF Confidence
<1>8. Cardinality(Weighty(s)) <= Cardinality(Weighty(t)) + 1
  <2>1. Weighty(t) \subseteq 1..m /\ Weighty(s) \subseteq 1..(m + 1)
    BY <1>1, PlacesOfReads
  <2> DEFINE U == Before(Weighty(t))
  <2>2. IsFiniteSet(U) /\ Cardinality(U) = Cardinality(Weighty(t))
    BY <1>1, <2>1, PlacesBefore
  <2>3. IsFiniteSet(U \cup {1}) /\ Cardinality(U \cup {1}) <= Cardinality(U) + 1
    <3> HIDE DEF U
    <3>1. Cardinality(U) \in Nat
      BY <2>2, FS_CardinalityType
    <3>2. /\ IsFiniteSet(U \cup {1})
          /\ Cardinality(U \cup {1}) = IF 1 \in U THEN Cardinality(U) ELSE Cardinality(U) + 1
      BY <2>2, FS_AddElement
    <3> QED
      BY <3>1, <3>2
  <2>4. Weighty(s) \subseteq U \cup {1}
    <3> SUFFICES ASSUME NEW j \in Weighty(s), j # 1 PROVE j \in U
      OBVIOUS
    <3>1. j - 1 \in 1..m /\ j = (j - 1) + 1
      BY <1>1, <2>1
    <3>2. t[j - 1] = s[j] /\ s[j].weight > 0
      BY <1>1, <3>1 DEF Weighty
    <3>3. j - 1 \in Weighty(t)
      BY <1>1, <3>1, <3>2 DEF Weighty, Reads
    <3> QED
      BY <3>1, <3>3 DEF Before
  <2>5. Cardinality(Weighty(s)) <= Cardinality(U \cup {1}) /\ IsFiniteSet(Weighty(s))
    BY <2>3, <2>4, FS_Subset
  <2>6. /\ Cardinality(Weighty(s)) \in Nat /\ Cardinality(U) \in Nat
        /\ Cardinality(U \cup {1}) \in Nat
    BY <2>2, <2>3, <2>5, FS_CardinalityType
  <2> HIDE DEF U
  <2> QED
    BY <2>2, <2>3, <2>5, <2>6
<1> QED
  BY <1>4, <1>6, <1>7, <1>8

\* Only finitely many reads count.
LEMMA WeightyIsFinite ==
  ASSUME NEW m, NEW s, Reads(s, m)
  PROVE  IsFiniteSet(Weighty(s))
<1>1. Weighty(s) \subseteq 1..m /\ m \in Nat
  BY PlacesOfReads
<1>2. IsFiniteSet(1..m)
  BY <1>1, FS_Interval
<1> QED
  BY <1>1, <1>2, FS_Subset

\* One more read that counts is one more that counts.
LEMMA OneMoreCounts ==
  ASSUME NEW m, NEW s, NEW b, Follows(b, s, m), b[m + 1].weight > 0
  PROVE  /\ Cardinality(Weighty(b)) = Cardinality(Weighty(s)) + 1
         /\ Cardinality(Weighty(s)) \in Nat
<1>1. m \in Nat /\ Reads(s, m) /\ Reads(b, m + 1) /\ \A i \in 1..m : b[i] = s[i]
  BY DEF Follows, Reads
<1>2. Weighty(s) \subseteq 1..m
  BY <1>1, PlacesOfReads
<1>3. Weighty(b) = Weighty(s) \cup {m + 1}
  <2>1. m + 1 \in Weighty(b)
    BY <1>1 DEF Weighty, Reads
  <2>2. \A i \in 1..m : i \in Weighty(b) <=> i \in Weighty(s)
    BY <1>1 DEF Weighty, Reads
  <2>3. Weighty(b) \subseteq 1..(m + 1) /\ 1..(m + 1) = 1..m \cup {m + 1}
    BY <1>1, PlacesOfReads
  <2> QED
    BY <1>2, <2>1, <2>2, <2>3
<1>4. IsFiniteSet(Weighty(s)) /\ m + 1 \notin Weighty(s)
  <2>1. m + 1 \notin 1..m
    BY <1>1
  <2> QED
    BY <1>1, <1>2, <2>1, WeightyIsFinite
<1> QED
  BY <1>3, <1>4, FS_AddElement, FS_CardinalityType

\* One more read of the plate, kept by the deque as long as it drops none of the
\* candidates for it.
LEMMA FusionOfAppended ==
  ASSUME NEW s \in Seq(Observations), Len(s) <= MaxObservations, NEW o \in Observations,
         Fuse(s) # NoFusion, Voted(s), Corroborates(o, s), DropsNoEvidence(s)
  PROVE  LET b == Appended(s, o)
         IN Fuse(b).text = Fuse(s).text /\ Fuse(b).confidence >= Fuse(s).confidence
<1> DEFINE text == Fuse(s).text
           C == Candidates(s)
           b == Appended(s, o)
<1>1. Reads(s, Len(s)) /\ Len(s) \in Nat
  BY BufferReads
<1>2. /\ Weighty(s) # {} /\ Cardinality(Weighty(s)) >= MinObservations
      /\ text = FusedText(s, C) /\ Fuse(s).confidence = Confidence(s, C, text)
  BY <1>1, FuseOfReads
<1>3. text = Normalize(CharVote(s, C)) /\ text # NoPlate
  BY <1>2 DEF Voted, FusedText
<1>4. o.text = text /\ o.weight > 0 /\ o.conf >= Confidence(s, C, text)
  BY <1>2 DEF Corroborates
<1> HIDE DEF text
<1>5. CASE Len(s) < MaxObservations
  <2>1. b = Append(s, o)
    BY <1>5 DEF Appended
  <2>2. /\ b \in Seq(Observations) /\ Len(b) = Len(s) + 1 /\ b[Len(s) + 1] = o
        /\ \A i \in 1..Len(s) : b[i] = s[i]
    BY <2>1
  <2> HIDE DEF b
  <2>3. Follows(b, s, Len(s))
    <3>1. Reads(b, Len(s) + 1)
      BY <2>2, BufferReads
    <3> QED
      BY <1>1, <2>2, <3>1 DEF Follows
  <2>4. Cardinality(Weighty(b)) >= MinObservations
    <3>1. Cardinality(Weighty(b)) = Cardinality(Weighty(s)) + 1 /\ Cardinality(Weighty(s)) \in Nat
      BY <1>4, <2>2, <2>3, OneMoreCounts
    <3> QED
      BY <1>2, <3>1, ObservationBounds
  <2>5. Fuse(b).text = text /\ Fuse(b).confidence >= Confidence(s, C, text)
    BY <1>2, <1>3, <1>4, <2>2, <2>3, <2>4, FusionOfFollowing
  <2> QED
    BY <1>2, <2>5 DEF text, b
<1>6. CASE ~(Len(s) < MaxObservations)
  <2> DEFINE t == Tail(s)
             m == Len(s) - 1
  <2>1. b = Append(t, o) /\ s # <<>>
    BY <1>2, <1>6, ObservationBounds DEF Appended
  <2>2. /\ m \in Nat /\ Len(s) = m + 1
        /\ t \in Seq(Observations) /\ Len(t) = m /\ \A i \in 1..m : t[i] = s[i + 1]
    BY <1>1, <2>1
  <2>3. /\ b \in Seq(Observations) /\ Len(b) = m + 1 /\ b[m + 1] = o
        /\ \A i \in 1..m : b[i] = t[i]
    BY <2>1, <2>2
  <2> HIDE DEF b, t, m
  <2>4. Drops(t, s, m)
    <3>1. Reads(t, m) /\ Reads(s, m + 1)
      BY <1>1, <2>2, BufferReads
    <3> QED
      BY <2>2, <3>1 DEF Drops
  <2>5. Follows(b, t, m)
    <3>1. Reads(t, m) /\ Reads(b, m + 1)
      BY <2>2, <2>3, BufferReads
    <3> QED
      BY <2>3, <3>1 DEF Follows
  <2>6. s[1].weight = 0 \/ Len(s[1].text) # Len(FusedText(s, C))
    BY <1>2, <1>6 DEF DropsNoEvidence, text
  <2>7. /\ Weighty(t) # {}
        /\ Cardinality(Weighty(s)) <= Cardinality(Weighty(t)) + 1
        /\ CharVote(t, Candidates(t)) = CharVote(s, C)
        /\ Confidence(t, Candidates(t), text) = Confidence(s, C, text)
    BY <1>2, <2>4, <2>6, FusionOfDropping
  <2>8. Cardinality(Weighty(b)) >= MinObservations
    <3>1. Cardinality(Weighty(b)) = Cardinality(Weighty(t)) + 1
      BY <1>4, <2>3, <2>5, OneMoreCounts
    <3>2. Cardinality(Weighty(s)) \in Nat /\ Cardinality(Weighty(b)) \in Nat
      <4>1. Reads(b, m + 1) /\ Reads(s, Len(s))
        BY <1>1, <2>5 DEF Follows
      <4>2. IsFiniteSet(Weighty(s)) /\ IsFiniteSet(Weighty(b))
        BY <4>1, WeightyIsFinite
      <4> QED
        BY <4>2, FS_CardinalityType
    <3> QED
      BY <1>2, <2>7, <3>1, <3>2, ObservationBounds
  <2>9. Fuse(b).text = text /\ Fuse(b).confidence >= Confidence(t, Candidates(t), text)
    BY <1>3, <1>4, <2>3, <2>5, <2>7, <2>8, FusionOfFollowing
  <2> QED
    BY <1>2, <2>7, <2>9 DEF text, b
<1> QED
  BY <1>5, <1>6

\* Reading once more what was voted for changes neither the plate nor, for the
\* worse, the confidence, also in a full buffer that drops a read without a part
\* in the vote.
THEOREM CorroborationAlwaysHelps == BufferSpec => CorroborationHelps
<1> DEFINE Helps ==
      \A s \in {buffer}, b \in {buffer'} :
        Fuse(s) # NoFusion /\ Voted(s) /\ Corroborates(b[Len(b)], s) /\ DropsNoEvidence(s)
          => Fuse(b).text = Fuse(s).text /\ Fuse(b).confidence >= Fuse(s).confidence
<1>1. BufferInv /\ [BufferNext]_buffer => [Helps]_buffer
  <2> SUFFICES ASSUME BufferInv, BufferNext,
                      Fuse(buffer) # NoFusion, Voted(buffer),
                      NEW b, b = buffer', Corroborates(b[Len(b)], buffer),
                      DropsNoEvidence(buffer)
               PROVE  /\ Fuse(b).text = Fuse(buffer).text
                      /\ Fuse(b).confidence >= Fuse(buffer).confidence
    OBVIOUS
  <2>1. PICK o \in Observations : b = Appended(buffer, o)
    BY DEF BufferNext, Observe
  <2>2. b[Len(b)] = o
    <3>1. PICK r \in Seq(Observations) : b = Append(r, o)
      <4>1. buffer # <<>> => Tail(buffer) \in Seq(Observations)
        BY DEF BufferInv
      <4>2. Len(buffer) < MaxObservations \/ buffer # <<>>
        BY ObservationBounds
      <4> QED
        BY <2>1, <4>1, <4>2 DEF Appended, BufferInv
    <3> QED
      BY <3>1
  <2> QED
    BY <2>1, <2>2, FusionOfAppended DEF BufferInv
<1>2. BufferSpec => [][Helps]_buffer
  BY <1>1, BufferInvariant, PTL DEF BufferSpec
<1> QED
  BY <1>2 DEF CorroborationHelps
-----------------------------------------------------------------------------
(* The inductive invariant of a camera worker *)

\* All that s holds shows the vehicle v.
Shows(s, v) == s.who = {v} /\ s.image \in {NoImage, v}

\* The reads of a session can be fused, and stay enough.
Enough(obs) == obs # <<>> /\ Len(obs) >= MinObservations

\* A session whose announced plate can still be fused, be it to another plate.
Sound(s) ==
  /\ s \in Session
  /\ Len(s.obs) <= MaxObservations
  /\ s.announced # NoPlate => Enough(s.obs)

\* What its reads are fused to was announced, or is not sure enough for it.
Told(s) ==
  Fuse(s.obs) # NoFusion =>
    Fuse(s.obs).text = s.announced \/ Fuse(s.obs).confidence < s.published + Margin

\* A session that may become an event.
SessionOk(s) == Sound(s) /\ Told(s)

EventOk(e) ==
  /\ e \in VehicleEvent
  /\ e.announced # NoPlate => e.plate # NoPlate
  /\ e.plate \notin {NoPlate, e.announced} => e.confidence < e.published + Margin
  /\ \E v \in Vehicles : Shows(e, v)

\* w is a worker's tracker, sessions and events, of the right types.
Worker(w) ==
  /\ w = [ tracker |-> w.tracker, nextId |-> w.nextId, sessions |-> w.sessions,
           opened |-> w.opened, events |-> w.events, files |-> w.files ]
  /\ w.nextId \in Nat \ {0}
  /\ w.tracker \in [DOMAIN w.tracker -> [vehicle : Vehicles, lost : 0..Memory]]
  /\ DOMAIN w.tracker \cup DOMAIN w.sessions \subseteq 1..(w.nextId - 1)
  /\ w.sessions = [id \in DOMAIN w.sessions |-> w.sessions[id]]
  /\ w.opened \in Nat
  /\ w.events \in Seq(VehicleEvent)
  /\ w.files \in [DOMAIN w.files -> Vehicles]

\* Every session follows the vehicle that the tracker follows under its id, if
\* it still does.
Followed(w) ==
  \A id \in DOMAIN w.sessions :
    /\ SessionOk(w.sessions[id])
    /\ \E v \in Vehicles : /\ Shows(w.sessions[id], v)
                           /\ id \in DOMAIN w.tracker => w.tracker[id].vehicle = v

\* The sessions ever opened have the numbers from 1 to opened, one each, and
\* each is open or an event.
Numbered(w) ==
  /\ \A a, b \in DOMAIN w.sessions : w.sessions[a].n = w.sessions[b].n => a = b
  /\ \A i, j \in DOMAIN w.events : w.events[i].n = w.events[j].n => i = j
  /\ \A a \in DOMAIN w.sessions : \A i \in DOMAIN w.events : w.sessions[a].n # w.events[i].n
  /\ {w.sessions[a].n : a \in DOMAIN w.sessions} \cup {w.events[i].n : i \in DOMAIN w.events}
       = 1..w.opened

WorkerInv(w) ==
  /\ Worker(w)
  /\ Followed(w)
  /\ Numbered(w)
  /\ \A i \in DOMAIN w.events : EventOk(w.events[i])

\* No session has been missing for the grace period.
Patient(w) == \A id \in DOMAIN w.sessions : w.sessions[id].missing < Grace

LoopInv ==
  /\ stop \in BOOLEAN
  /\ thread \in {"running", "stopped"}
  /\ link \in {"down", "open"}
  /\ waiting \in BOOLEAN
  /\ failures \in 0..MaxFailures
  /\ link = "open" => failures < MaxFailures
  /\ opened <= MaxSessions
  /\ thread = "stopped" => DOMAIN sessions = {}

Inv == LoopInv /\ WorkerInv(Current) /\ Patient(Current)

-----------------------------------------------------------------------------
(* One session *)

\* The reads of a session all weigh something, so all of them count.
LEMMA ReadsOfSession ==
  ASSUME NEW obs \in Seq(PlateReads)
  PROVE  /\ Reads(obs, Len(obs))
         /\ Weighty(obs) = DOMAIN obs
         /\ Cardinality(Weighty(obs)) = Len(obs)
<1>1. DOMAIN obs = 1..Len(obs) /\ Len(obs) \in Nat /\ \A i \in DOMAIN obs : obs[i] \in PlateReads
  OBVIOUS
<1>2. Reads(obs, Len(obs))
  BY <1>1, ReadsAssumption DEF Reads
<1>3. Weighty(obs) = DOMAIN obs
  BY <1>1, ReadsAssumption DEF Weighty
<1>4. Cardinality(1..Len(obs)) = Len(obs)
  BY <1>1, FS_Interval
<1> QED
  BY <1>1, <1>2, <1>3, <1>4

\* A session's plate is there as soon as its reads are enough.
LEMMA FusedWhenEnough ==
  ASSUME NEW obs \in Seq(PlateReads)
  PROVE  /\ Fuse(obs) # NoFusion <=> Enough(obs)
         /\ Fuse(obs) # NoFusion => Fuse(obs).text # NoPlate
         /\ Fuse(obs) # NoFusion => Fuse(obs).confidence \in Int
         /\ Fuse(obs).text \in Seq(Alphabet) \cup {NoPlate}
<1>1. Reads(obs, Len(obs)) /\ Weighty(obs) = DOMAIN obs /\ Cardinality(Weighty(obs)) = Len(obs)
  BY ReadsOfSession
<1>2. /\ Fuse(obs) # NoFusion <=> Weighty(obs) # {} /\ Cardinality(Weighty(obs)) >= MinObservations
      /\ Fuse(obs) = NoFusion \/ Fuse(obs).text \in Seq(Alphabet) \ {NoPlate}
      /\ Fuse(obs) # NoFusion => Fuse(obs).confidence \in Int
  BY <1>1, FuseOfReads
<1>3. DOMAIN obs # {} <=> obs # <<>>
  <2>1. DOMAIN obs = 1..Len(obs) /\ Len(obs) \in Nat
    OBVIOUS
  <2>2. obs # <<>> <=> Len(obs) # 0
    OBVIOUS
  <2>3. Len(obs) # 0 => 1 \in DOMAIN obs
    BY <2>1
  <2>4. Len(obs) = 0 => DOMAIN obs = {}
    BY <2>1
  <2> QED
    BY <2>2, <2>3, <2>4
<1>4. NoFusion.text = NoPlate
  BY DEF NoFusion
<1> QED
  BY <1>1, <1>2, <1>3, <1>4 DEF Enough

\* One more read leaves the reads enough.
LEMMA AppendedIsEnough ==
  ASSUME NEW obs \in Seq(PlateReads), NEW o \in PlateReads, Len(obs) <= MaxObservations
  PROVE  /\ Appended(obs, o) \in Seq(PlateReads)
         /\ Len(Appended(obs, o)) <= MaxObservations
         /\ Enough(obs) => Enough(Appended(obs, o))
<1>1. /\ Appended(obs, o) \in Seq(PlateReads)
      /\ Len(Appended(obs, o)) <= MaxObservations
      /\ Appended(obs, o) # <<>>
  BY AppendedIsBounded
<1>2. Len(Appended(obs, o)) >= Len(obs)
  <2>1. CASE Len(obs) < MaxObservations
    BY <2>1, ObservationBounds DEF Appended
  <2>2. CASE ~(Len(obs) < MaxObservations)
    <3>1. Appended(obs, o) = Append(Tail(obs), o) /\ obs # <<>>
      BY <2>2, ObservationBounds DEF Appended
    <3> QED
      BY <3>1
  <2> QED
    BY <2>1, <2>2
<1> QED
  BY <1>1, <1>2, ObservationBounds DEF Enough

\* The same session, with all of its reads and images of the vehicle v, in the
\* middle of the work on it and after that.
Keeps(t, s, v) ==
  /\ Sound(t)
  /\ t.id = s.id
  /\ t.n = s.n
  /\ t.missing = 0
  /\ Shows(t, v)

Continues(t, s, v) == Keeps(t, s, v) /\ Told(t)

\* A detection continues the session it is recorded in.
LEMMA DetectionContinues ==
  ASSUME NEW s, SessionOk(s), NEW v \in Vehicles,
         s.who \subseteq {v}, s.image \in {NoImage, v}
  PROVE  Continues(RecordDetection(s, v), s, v)
<1>1. RecordDetection(s, v) \in Session
  <2>1. s.frames \in 0..MinFrames /\ s.who \cup {v} \in SUBSET Vehicles
    BY DEF SessionOk, Sound, Session
  <2>2. (IF s.frames < MinFrames THEN s.frames + 1 ELSE s.frames) \in 0..MinFrames
    BY <2>1, SessionAssumption
  <2>3. (IF s.state = "new" THEN "active" ELSE s.state) \in Lifecycle
    BY DEF SessionOk, Sound, Session, Lifecycle
  <2> QED
    BY <2>1, <2>2, <2>3 DEF RecordDetection, SessionOk, Sound, Session
<1>2. /\ RecordDetection(s, v).id = s.id
      /\ RecordDetection(s, v).n = s.n
      /\ RecordDetection(s, v).obs = s.obs
      /\ RecordDetection(s, v).published = s.published
      /\ RecordDetection(s, v).announced = s.announced
      /\ RecordDetection(s, v).missing = 0
      /\ RecordDetection(s, v).who = {v}
      /\ RecordDetection(s, v).image = s.image
  BY DEF RecordDetection, SessionOk, Sound, Session
<1> QED
  BY <1>1, <1>2, SessionAssumption DEF Continues, Keeps, SessionOk, Sound, Told, Shows

\* So does a better image of the vehicle,
LEMMA BestVehicleContinues ==
  ASSUME NEW t, NEW s, NEW v \in Vehicles, Continues(t, s, v), NEW better \in BOOLEAN
  PROVE  Continues(ConsiderBestVehicle(t, v, better), s, v)
<1>1. ConsiderBestVehicle(t, v, better) \in Session
  BY DEF ConsiderBestVehicle, Continues, Keeps, Sound, Session
<1> QED
  BY <1>1 DEF ConsiderBestVehicle, Continues, Keeps, Sound, Told, Session, Shows

\* a read of its plate,
LEMMA PlateContinues ==
  ASSUME NEW t, NEW s, NEW v \in Vehicles, Continues(t, s, v), NEW o \in PlateReads
  PROVE  Keeps(RecordPlate(t, o), s, v)
<1>1. t.obs \in Seq(PlateReads) /\ Len(t.obs) <= MaxObservations
  BY DEF Continues, Keeps, Sound, Session
<1>2. /\ Appended(t.obs, o) \in Seq(PlateReads)
      /\ Len(Appended(t.obs, o)) <= MaxObservations
      /\ Enough(t.obs) => Enough(Appended(t.obs, o))
  BY <1>1, AppendedIsEnough
<1>3. RecordPlate(t, o) \in Session
  BY <1>2 DEF RecordPlate, Continues, Keeps, Sound, Session, Lifecycle
<1> QED
  BY <1>2, <1>3 DEF RecordPlate, Continues, Keeps, Sound, Session, Shows

\* the fusion of its reads,
LEMMA FusionContinues ==
  ASSUME NEW t, NEW s, NEW v \in Vehicles, Keeps(t, s, v)
  PROVE  /\ Keeps(AfterFusedPlate(t), s, v)
         /\ AfterFusedPlate(t).obs = t.obs
<1>1. AfterFusedPlate(t) \in Session
  BY DEF AfterFusedPlate, Keeps, Sound, Session, Lifecycle
<1> QED
  BY <1>1 DEF AfterFusedPlate, Keeps, Sound, Session, Shows

\* the announcement of what they are fused to,
LEMMA PublicationContinues ==
  ASSUME NEW t, NEW s, NEW v \in Vehicles, Keeps(t, s, v), Fuse(t.obs) # NoFusion
  PROVE  Continues(RecordPublished(t, Fuse(t.obs)), s, v)
<1> DEFINE fused == Fuse(t.obs)
           r == RecordPublished(t, fused)
<1>1. t \in Session /\ t.published \in Nat /\ t.obs \in Seq(PlateReads)
  BY DEF Keeps, Sound, Session
<1>2. Enough(t.obs) /\ fused.confidence \in Int /\ fused.text \in Seq(Alphabet) \cup {NoPlate}
  BY <1>1, FusedWhenEnough
<1> DEFINE text == fused.text
           confidence == IF fused.confidence > t.published THEN fused.confidence
                         ELSE t.published
<1>3. r = [t EXCEPT !.published = confidence, !.announced = text]
  BY <1>1 DEF RecordPublished, Session
<1>10. confidence \in Nat /\ text \in Seq(Alphabet) \cup {NoPlate} /\ text = fused.text
  BY <1>1, <1>2
<1> HIDE DEF fused, r, confidence, text
<1>4. r \in Session
  BY <1>1, <1>3, <1>10 DEF Session
<1>5. /\ r.obs = t.obs /\ r.announced = fused.text
      /\ r.id = t.id /\ r.n = t.n /\ r.missing = t.missing
      /\ r.who = t.who /\ r.image = t.image
  BY <1>1, <1>3, <1>10 DEF Session
<1>6. Told(r)
  BY <1>5 DEF Told, fused
<1>7. Keeps(r, s, v)
  BY <1>2, <1>4, <1>5 DEF Keeps, Sound, Shows
<1> QED
  BY <1>6, <1>7 DEF Continues, r, fused

\* an attempt to classify it,
LEMMA ClassificationContinues ==
  ASSUME NEW t, NEW s, NEW v \in Vehicles, Continues(t, s, v), NEW found \in BOOLEAN
  PROVE  Continues(TryClassification(t, found), s, v)
<1>1. Classify(t, found) \in Session
  BY DEF Classify, Continues, Keeps, Sound, Session, Lifecycle
<1>2. Continues(Classify(t, found), s, v)
  BY <1>1 DEF Classify, Continues, Keeps, Sound, Told, Session, Shows
<1> QED
  BY <1>2 DEF TryClassification

\* and everything that is done about its plate.
LEMMA AnprContinues ==
  ASSUME NEW t, NEW s, NEW v \in Vehicles, Continues(t, s, v),
         NEW look, look = NoRead \/ look \in PlateReads
  PROVE  Continues(TryAnpr(t, look), s, v)
<1>1. CASE look = NoRead \/ ShouldSkipAnpr(t)
  BY <1>1 DEF TryAnpr
<1>2. CASE ~(look = NoRead \/ ShouldSkipAnpr(t))
  <2> DEFINE read == RecordPlate(t, look)
             fused == FusedPlate(read)
             after == AfterFusedPlate(read)
  <2>1. Keeps(read, s, v)
    BY <1>2, PlateContinues
  <2>2. fused = Fuse(read.obs)
    BY DEF FusedPlate
  <2>3. TryAnpr(t, look) = IF fused # NoFusion /\ ShouldPublish(after, fused.confidence)
                           THEN RecordPublished(after, fused) ELSE after
    BY <1>2 DEF TryAnpr
  <2> HIDE DEF read, fused
  <2>4. Keeps(after, s, v) /\ after.obs = read.obs
    BY <2>1, FusionContinues
  <2> HIDE DEF after
  <2>5. after.obs \in Seq(PlateReads) /\ after.published \in Nat
    BY <2>4 DEF Keeps, Sound, Session
  <2>6. CASE fused # NoFusion /\ ShouldPublish(after, fused.confidence)
    BY <2>2, <2>3, <2>4, <2>6, PublicationContinues
  <2>7. CASE ~(fused # NoFusion /\ ShouldPublish(after, fused.confidence))
    <3>1. fused # NoFusion => fused.confidence \in Int
      BY <2>2, <2>4, <2>5, FusedWhenEnough
    <3>2. fused # NoFusion => fused.confidence < after.published + Margin
      BY <2>5, <2>7, <3>1, SessionAssumption DEF ShouldPublish
    <3>3. Told(after)
      BY <2>2, <2>4, <3>2 DEF Told
    <3> QED
      BY <2>3, <2>4, <2>7, <3>3 DEF Continues
  <2> QED
    BY <2>6, <2>7
<1> QED
  BY <1>1, <1>2

\* The work on one object is the work on one session, of one vehicle.
LEMMA ProcessContinues ==
  ASSUME NEW s, SessionOk(s), NEW v \in Vehicles,
         s.who \subseteq {v}, s.image \in {NoImage, v}, NEW out \in Outcomes
  PROVE  Continues(ProcessObject(s, v, out), s, v)
<1> DEFINE seen == RecordDetection(s, v)
           best == ConsiderBestVehicle(seen, v, out.better)
           read == TryAnpr(best, out.look)
<1>1. Continues(seen, s, v)
  BY DetectionContinues
<1>2. CASE out.look = Blank
  BY <1>1, <1>2 DEF ProcessObject
<1>3. CASE out.look # Blank
  <2>1. out.better \in BOOLEAN /\ out.found \in BOOLEAN
    BY WorkerAssumption
  <2>2. out.look = NoRead \/ out.look \in PlateReads
    BY <1>3 DEF PlateReads
  <2>3. ProcessObject(s, v, out) = TryClassification(read, out.found)
    BY <1>3 DEF ProcessObject
  <2> HIDE DEF seen
  <2>4. Continues(best, s, v)
    BY <1>1, <2>1, BestVehicleContinues
  <2> HIDE DEF best
  <2>5. Continues(read, s, v)
    BY <2>2, <2>4, AnprContinues
  <2> HIDE DEF read
  <2> QED
    BY <2>1, <2>3, <2>5, ClassificationContinues
<1> QED
  BY <1>2, <1>3
\* What mark_seen does to a session, in the frame or not.
LEMMA MarksContinue ==
  ASSUME NEW s, SessionOk(s), NEW t \in {MarkSeen(s), MarkMissing(s)}
  PROVE  /\ SessionOk(t)
         /\ t.n = s.n /\ t.who = s.who /\ t.image = s.image
         /\ t = MarkSeen(s) => t.missing = 0
<1>1. CASE t = MarkSeen(s)
  <2>1. t \in Session
    BY <1>1 DEF MarkSeen, SessionOk, Sound, Session, Lifecycle
  <2> QED
    BY <1>1, <2>1 DEF MarkSeen, SessionOk, Sound, Told, Session
<1>2. CASE t = MarkMissing(s)
  <2>1. s.missing + 1 \in Nat
    BY DEF SessionOk, Sound, Session
  <2>2. t \in Session
    BY <1>2, <2>1 DEF MarkMissing, SessionOk, Sound, Session, Lifecycle
  <2>3. t = MarkSeen(s) => t.missing = 0
    BY DEF MarkSeen, SessionOk, Sound, Session
  <2> QED
    BY <1>2, <2>2, <2>3 DEF MarkMissing, SessionOk, Sound, Told, Session
<1> QED
  BY <1>1, <1>2

\* What a session becomes.
LEMMA FinalizeGivesEvent ==
  ASSUME NEW s, SessionOk(s), NEW v \in Vehicles, Shows(s, v)
  PROVE  EventOk(Finalize(s)) /\ Finalize(s).n = s.n
<1> DEFINE fused == Fuse(s.obs)
           plate == fused.text
           confidence == IF fused = NoFusion THEN 0 ELSE fused.confidence
           e == Finalize(s)
<1>1. s \in Session /\ s.obs \in Seq(PlateReads)
  BY DEF SessionOk, Sound, Session
<1>2. /\ plate \in Seq(Alphabet) \cup {NoPlate}
      /\ plate # NoPlate <=> fused # NoFusion
      /\ Enough(s.obs) => plate # NoPlate
      /\ confidence \in Int
  BY <1>1, FusedWhenEnough DEF NoFusion
<1>3. e = [ n |-> s.n, id |-> s.id, who |-> s.who, image |-> s.image, plate |-> plate,
            confidence |-> confidence, announced |-> s.announced, published |-> s.published ]
  BY <1>1 DEF Finalize, FusedPlate, Session
<1>4. s.announced # NoPlate => Enough(s.obs)
  BY DEF SessionOk, Sound
<1>5. plate \notin {NoPlate, s.announced} => confidence < s.published + Margin
  BY <1>2 DEF SessionOk, Told
<1> HIDE DEF plate, confidence, e
<1>6. e \in VehicleEvent
  BY <1>1, <1>2, <1>3 DEF Session, VehicleEvent
<1>7. Shows(e, v)
  BY <1>3 DEF Shows
<1>8. /\ e.announced # NoPlate => e.plate # NoPlate
      /\ e.plate \notin {NoPlate, e.announced} => e.confidence < e.published + Margin
  BY <1>2, <1>3, <1>4, <1>5
<1>9. e.n = s.n
  BY <1>3
<1> QED
  BY <1>6, <1>7, <1>8, <1>9 DEF EventOk, e

-----------------------------------------------------------------------------
(* Numbers in order *)

\* how many of I have a key up to that of i
Rank(key, I, i) == Cardinality({j \in I : key[j] <= key[i]})

\* The ranks of a finite set by distinct numbers are 1, 2, and so on.
LEMMA RanksAreNumbers ==
  ASSUME NEW I, IsFiniteSet(I), NEW key, \A i \in I : key[i] \in Nat,
         \A i, j \in I : key[i] = key[j] => i = j
  PROVE  /\ Cardinality(I) \in Nat
         /\ \A i \in I : Rank(key, I, i) \in 1..Cardinality(I)
         /\ \A i, j \in I : Rank(key, I, i) = Rank(key, I, j) => i = j
         /\ \A k \in 1..Cardinality(I) : \E i \in I : Rank(key, I, i) = k
<1> DEFINE Upto(i) == {j \in I : key[j] <= key[i]}
           rank == [i \in I |-> Rank(key, I, i)]
           C == Cardinality(I)
<1>1. C \in Nat
  BY FS_CardinalityType
<1>2. ASSUME NEW i \in I PROVE IsFiniteSet(Upto(i)) /\ Cardinality(Upto(i)) \in 1..C
  <2>1. IsFiniteSet(Upto(i)) /\ Cardinality(Upto(i)) <= C
    BY FS_Subset
  <2>2. i \in Upto(i)
    OBVIOUS
  <2>3. Cardinality(Upto(i)) \in Nat
    BY <2>1, FS_CardinalityType
  <2>4. Cardinality(Upto(i)) # 0
    BY <2>1, <2>2, FS_EmptySet
  <2> QED
    BY <1>1, <2>1, <2>3, <2>4
<1>3. ASSUME NEW i \in I, NEW j \in I, key[i] < key[j]
      PROVE  Cardinality(Upto(i)) < Cardinality(Upto(j))
  <2>1. Upto(i) \subseteq Upto(j)
    BY <1>3
  <2>2. j \in Upto(j) /\ j \notin Upto(i)
    BY <1>3
  <2>3. IsFiniteSet(Upto(j)) /\ Cardinality(Upto(i)) \in Nat /\ Cardinality(Upto(j)) \in Nat
    BY <1>1, <1>2
  <2> HIDE DEF Upto
  <2>4. Cardinality(Upto(i)) <= Cardinality(Upto(j))
    BY <2>1, <2>3, FS_Subset
  <2>5. Cardinality(Upto(i)) # Cardinality(Upto(j))
    BY <2>1, <2>2, <2>3, FS_Subset
  <2> QED
    BY <2>3, <2>4, <2>5
<1>4. \A i \in I : rank[i] = Cardinality(Upto(i)) /\ Rank(key, I, i) = Cardinality(Upto(i))
  BY DEF Rank
<1> HIDE DEF Upto
<1>5. rank \in [I -> 1..C]
  <2>1. \A i \in I : Rank(key, I, i) \in 1..C
    BY <1>2, <1>4
  <2> QED
    BY <2>1
<1> HIDE DEF rank
<1>6. ASSUME NEW i \in I, NEW j \in I, rank[i] = rank[j] PROVE i = j
  <2>1. ~(key[i] < key[j]) /\ ~(key[j] < key[i])
    <3>1. Cardinality(Upto(i)) = Cardinality(Upto(j)) /\ Cardinality(Upto(i)) \in 1..C
      BY <1>2, <1>4, <1>6
    <3>2. ~(Cardinality(Upto(i)) < Cardinality(Upto(j)))
      BY <1>1, <3>1
    <3>3. ~(Cardinality(Upto(j)) < Cardinality(Upto(i)))
      BY <1>1, <3>1
    <3> QED
      BY <1>3, <3>2, <3>3
  <2> QED
    BY <2>1
<1>7. rank \in Injection(I, 1..C)
  BY <1>5, <1>6, Fun_IsInj
<1>8. IsFiniteSet(1..C) /\ Cardinality(1..C) = C
  BY <1>1, FS_Interval
<1>9. rank \in Surjection(I, 1..C)
  BY <1>7, <1>8, FS_Injection
<1>10. \A k \in 1..C : \E i \in I : rank[i] = k
  BY <1>9, Fun_SurjectionProperties
<1> QED
  BY <1>1, <1>4, <1>5, <1>6, <1>10

\* The order in which sessions are finalized leaves none out and takes none twice.
LEMMA InOrderIsComplete ==
  ASSUME NEW w, WorkerInv(w), NEW I, I \subseteq DOMAIN w.sessions
  PROVE  /\ IsFiniteSet(I)
         /\ Cardinality(I) \in Nat
         /\ InOrder(w.sessions, I) \in [1..Cardinality(I) -> I]
         /\ \A k, l \in 1..Cardinality(I) : InOrder(w.sessions, I)[k] = InOrder(w.sessions, I)[l] => k = l
         /\ \A i \in I : \E k \in 1..Cardinality(I) : InOrder(w.sessions, I)[k] = i
<1> DEFINE key == [i \in DOMAIN w.sessions |-> w.sessions[i].n]
           C == Cardinality(I)
           Place(i) == Cardinality({j \in I : w.sessions[j].n <= w.sessions[i].n})
<1>1. IsFiniteSet(I)
  <2>1. I \subseteq 1..(w.nextId - 1) /\ w.nextId - 1 \in Int
    BY DEF WorkerInv, Worker
  <2> QED
    BY <2>1, FS_Interval, FS_Subset
<1>2. \A i \in I : key[i] = w.sessions[i].n /\ key[i] \in Nat
  BY DEF WorkerInv, Followed, SessionOk, Sound, Session
<1>3. \A i, j \in I : key[i] = key[j] => i = j
  BY DEF WorkerInv, Numbered
<1>4. ASSUME NEW i \in I PROVE Place(i) = Rank(key, I, i)
  <2>1. {j \in I : w.sessions[j].n <= w.sessions[i].n} = {j \in I : key[j] <= key[i]}
    OBVIOUS
  <2> QED
    BY <2>1 DEF Rank
<1> HIDE DEF key
<1>5. /\ C \in Nat
      /\ \A i \in I : Rank(key, I, i) \in 1..C
      /\ \A i, j \in I : Rank(key, I, i) = Rank(key, I, j) => i = j
      /\ \A k \in 1..C : \E i \in I : Rank(key, I, i) = k
  BY <1>1, <1>2, <1>3, RanksAreNumbers
<1> HIDE DEF C
<1>6. InOrder(w.sessions, I) = [k \in 1..C |-> CHOOSE i \in I : Place(i) = k]
  BY DEF InOrder, C
<1> HIDE DEF Place
<1>7. ASSUME NEW k \in 1..C
      PROVE  InOrder(w.sessions, I)[k] \in I /\ Rank(key, I, InOrder(w.sessions, I)[k]) = k
  <2>1. \E i \in I : Place(i) = k
    BY <1>4, <1>5
  <2>2. InOrder(w.sessions, I)[k] \in I /\ Place(InOrder(w.sessions, I)[k]) = k
    BY <1>6, <2>1
  <2> QED
    BY <1>4, <2>2
<1>8. InOrder(w.sessions, I) \in [1..C -> I]
  BY <1>6, <1>7
<1>9. \A k, l \in 1..C : InOrder(w.sessions, I)[k] = InOrder(w.sessions, I)[l] => k = l
  BY <1>7
<1>10. \A i \in I : \E k \in 1..C : InOrder(w.sessions, I)[k] = i
  BY <1>5, <1>7
<1> QED
  BY <1>1, <1>5, <1>8, <1>9, <1>10 DEF C
-----------------------------------------------------------------------------
(* Finalizing *)

\* Finalized sessions become as many events, in some order, each once.
LEMMA PublishedOnce ==
  ASSUME NEW w, WorkerInv(w), NEW I, I \subseteq DOMAIN w.sessions
  PROVE  /\ Published(w.sessions, I) \in Seq(VehicleEvent)
         /\ DOMAIN Published(w.sessions, I) = 1..Cardinality(I)
         /\ \A k \in DOMAIN Published(w.sessions, I) : EventOk(Published(w.sessions, I)[k])
         /\ \A k \in DOMAIN Published(w.sessions, I) : \E i \in I : Published(w.sessions, I)[k].n = w.sessions[i].n
         /\ \A i \in I : \E k \in DOMAIN Published(w.sessions, I) : Published(w.sessions, I)[k].n = w.sessions[i].n
         /\ \A k, l \in DOMAIN Published(w.sessions, I) : Published(w.sessions, I)[k].n = Published(w.sessions, I)[l].n => k = l
<1> DEFINE P == Published(w.sessions, I)
           C == Cardinality(I)
           order == InOrder(w.sessions, I)
<1>1. /\ C \in Nat
      /\ order \in [1..C -> I]
      /\ \A k, l \in 1..C : order[k] = order[l] => k = l
      /\ \A i \in I : \E k \in 1..C : order[k] = i
  BY InOrderIsComplete
<1>2. P = [k \in 1..C |-> Finalize(w.sessions[order[k]])]
  BY DEF Published
<1> HIDE DEF order, P, C
<1>3. ASSUME NEW i \in I
      PROVE  EventOk(Finalize(w.sessions[i])) /\ Finalize(w.sessions[i]).n = w.sessions[i].n
  <2>1. PICK v \in Vehicles : Shows(w.sessions[i], v)
    BY DEF WorkerInv, Followed
  <2>2. SessionOk(w.sessions[i])
    BY DEF WorkerInv, Followed
  <2> QED
    BY <2>1, <2>2, FinalizeGivesEvent
<1>4. ASSUME NEW k \in 1..C
      PROVE  order[k] \in I /\ EventOk(P[k]) /\ P[k].n = w.sessions[order[k]].n
  BY <1>1, <1>2, <1>3
<1>5. DOMAIN P = 1..C
  BY <1>2
<1>6. P \in Seq(VehicleEvent)
  <2>1. \A k \in 1..C : P[k] \in VehicleEvent
    BY <1>4 DEF EventOk
  <2>2. P = [k \in 1..C |-> P[k]]
    BY <1>2
  <2> QED
    BY <1>1, <2>1, <2>2
<1>7. \A a, b \in I : w.sessions[a].n = w.sessions[b].n => a = b
  BY DEF WorkerInv, Numbered
<1>8. \A k, l \in 1..C : P[k].n = P[l].n => k = l
  BY <1>1, <1>4, <1>7
<1>9. \A i \in I : \E k \in 1..C : P[k].n = w.sessions[i].n
  BY <1>1, <1>4
<1>10. \A k \in 1..C : \E i \in I : P[k].n = w.sessions[i].n
  BY <1>4
<1> QED
  BY <1>4, <1>5, <1>6, <1>8, <1>9, <1>10 DEF P, C

\* f is w without the sessions of I, which became events and files.
IsFinalized(f, w, I) ==
  /\ f = [ tracker |-> f.tracker, nextId |-> f.nextId, sessions |-> f.sessions,
           opened |-> f.opened, events |-> f.events, files |-> f.files ]
  /\ f.tracker = w.tracker
  /\ f.nextId = w.nextId
  /\ f.opened = w.opened
  /\ f.sessions = [i \in DOMAIN w.sessions \ I |-> w.sessions[i]]
  /\ f.events = w.events \o Published(w.sessions, I)
  /\ DOMAIN f.files = DOMAIN w.files \cup {i \in I : w.sessions[i].image # NoImage}
  /\ f.files = [i \in DOMAIN f.files |-> IF i \in I /\ w.sessions[i].image # NoImage
                                         THEN w.sessions[i].image ELSE w.files[i]]

\* Finalized does what IsFinalized says.
LEMMA FinalizedParts ==
  ASSUME NEW w, Worker(w), NEW I
  PROVE  IsFinalized(Finalized(w, I), w, I)
<1> DEFINE saved == {i \in I : w.sessions[i].image # NoImage}
           S == [i \in DOMAIN w.sessions \ I |-> w.sessions[i]]
           E == w.events \o Published(w.sessions, I)
           F == [i \in DOMAIN w.files \cup saved |->
                  IF i \in saved THEN w.sessions[i].image ELSE w.files[i]]
<1>1. Finalized(w, I) = [w EXCEPT !.sessions = S, !.events = E, !.files = F]
  BY DEF Finalized
<1>2. w = [ tracker |-> w.tracker, nextId |-> w.nextId, sessions |-> w.sessions,
            opened |-> w.opened, events |-> w.events, files |-> w.files ]
  BY DEF Worker
<1>a. DOMAIN F = DOMAIN w.files \cup saved
  OBVIOUS
<1>b. F = [i \in DOMAIN F |-> IF i \in I /\ w.sessions[i].image # NoImage
                              THEN w.sessions[i].image ELSE w.files[i]]
  OBVIOUS
<1> HIDE DEF S, E, F
<1>3. Finalized(w, I) = [ tracker |-> w.tracker, nextId |-> w.nextId, sessions |-> S,
                          opened |-> w.opened, events |-> E, files |-> F ]
  BY <1>1, <1>2
<1> DEFINE f == Finalized(w, I)
<1>4. /\ f = [ tracker |-> f.tracker, nextId |-> f.nextId, sessions |-> f.sessions,
               opened |-> f.opened, events |-> f.events, files |-> f.files ]
      /\ f.tracker = w.tracker
      /\ f.nextId = w.nextId
      /\ f.opened = w.opened
      /\ f.sessions = S
      /\ f.events = E
      /\ f.files = F
  BY <1>3
<1> HIDE DEF f
<1> QED
  BY <1>4, <1>a, <1>b DEF f, S, E, IsFinalized

\* u is the list s of m items with the list t of c items behind it.
Extends(u, s, t, m, c) ==
  /\ DOMAIN u = 1..(m + c)
  /\ \A i \in 1..m : i \in 1..(m + c) /\ u[i] = s[i]
  /\ \A k \in 1..c : m + k \in 1..(m + c) /\ u[m + k] = t[k]
  /\ \A i \in 1..(m + c) : i \in 1..m \/ \E k \in 1..c : i = m + k

\* Python's + of two lists.
LEMMA ConcatExtends ==
  ASSUME NEW S, NEW s \in Seq(S), NEW t \in Seq(S)
  PROVE  s \o t \in Seq(S) /\ Extends(s \o t, s, t, Len(s), Len(t))
<1>1. s \o t \in Seq(S) /\ Len(s \o t) = Len(s) + Len(t) /\ Len(s) \in Nat /\ Len(t) \in Nat
  OBVIOUS
<1>2. \A i \in 1..(Len(s) + Len(t)) : (s \o t)[i] = IF i <= Len(s) THEN s[i] ELSE t[i - Len(s)]
  OBVIOUS
<1>3. ASSUME NEW k \in 1..Len(t)
      PROVE  Len(s) + k \in 1..(Len(s) + Len(t)) /\ (s \o t)[Len(s) + k] = t[k]
  <2>1. /\ Len(s) + k \in 1..(Len(s) + Len(t))
        /\ ~(Len(s) + k <= Len(s))
        /\ (Len(s) + k) - Len(s) = k
    BY <1>1
  <2> QED
    BY <1>2, <2>1
<1>4. ASSUME NEW i \in 1..(Len(s) + Len(t)), i \notin 1..Len(s)
      PROVE  \E k \in 1..Len(t) : i = Len(s) + k
  <2>1. i - Len(s) \in 1..Len(t) /\ i = Len(s) + (i - Len(s))
    BY <1>1, <1>4
  <2> QED
    BY <2>1
<1>5. \A i \in 1..Len(s) : i \in 1..(Len(s) + Len(t)) /\ (s \o t)[i] = s[i]
  BY <1>1, <1>2
<1>6. DOMAIN (s \o t) = 1..(Len(s) + Len(t))
  BY <1>1
<1> QED
  BY <1>1, <1>3, <1>4, <1>5, <1>6 DEF Extends

\* Finalizing some of the sessions keeps the invariant, and no other session is touched.
LEMMA FinalizedKeepsInv ==
  ASSUME NEW w, WorkerInv(w), NEW I, I \subseteq DOMAIN w.sessions
  PROVE  /\ WorkerInv(Finalized(w, I))
         /\ DOMAIN Finalized(w, I).sessions = DOMAIN w.sessions \ I
         /\ \A i \in DOMAIN w.sessions \ I : Finalized(w, I).sessions[i] = w.sessions[i]
         /\ Finalized(w, I).opened = w.opened
         /\ Finalized(w, I).nextId = w.nextId
         /\ Finalized(w, I).tracker = w.tracker
<1> DEFINE f == Finalized(w, I)
           saved == {i \in I : w.sessions[i].image # NoImage}
           P == Published(w.sessions, I)
           m == Len(w.events)
           C == Cardinality(I)
<1>1. Worker(w) /\ Followed(w) /\ Numbered(w) /\ \A i \in DOMAIN w.events : EventOk(w.events[i])
  BY DEF WorkerInv
<1>2. IsFinalized(f, w, I)
  BY <1>1, FinalizedParts
<1>3. /\ P \in Seq(VehicleEvent)
      /\ DOMAIN P = 1..C
      /\ \A k \in DOMAIN P : EventOk(P[k])
      /\ \A k \in DOMAIN P : \E i \in I : P[k].n = w.sessions[i].n
      /\ \A i \in I : \E k \in DOMAIN P : P[k].n = w.sessions[i].n
      /\ \A k, l \in DOMAIN P : P[k].n = P[l].n => k = l
  BY PublishedOnce
<1>4. C \in Nat
  BY InOrderIsComplete
<1> HIDE DEF f, P, C
<1>5. m \in Nat /\ DOMAIN w.events = 1..m /\ w.events \in Seq(VehicleEvent)
  BY <1>1 DEF Worker
<1> HIDE DEF m
<1>e. f.events = w.events \o P
  BY <1>2 DEF IsFinalized, P
<1>n. \A a \in DOMAIN w.sessions : \A i \in DOMAIN w.events : w.sessions[a].n # w.events[i].n
  BY <1>1 DEF Numbered
<1>6. Len(P) = C
  BY <1>3, <1>4
<1>7. /\ f.events \in Seq(VehicleEvent)
      /\ DOMAIN f.events = 1..(m + C)
      /\ \A i \in 1..m : i \in 1..(m + C) /\ f.events[i] = w.events[i]
      /\ \A k \in 1..C : m + k \in 1..(m + C) /\ f.events[m + k] = P[k]
      /\ \A i \in 1..(m + C) : i \in 1..m \/ \E k \in 1..C : i = m + k
  <2>1. f.events \in Seq(VehicleEvent) /\ Extends(f.events, w.events, P, m, C)
    BY <1>e, <1>3, <1>5, <1>6, ConcatExtends DEF m
  <2> QED
    BY <2>1 DEF Extends
<1>8. DOMAIN f.sessions = DOMAIN w.sessions \ I /\ \A i \in DOMAIN f.sessions : f.sessions[i] = w.sessions[i]
  BY <1>2 DEF IsFinalized
<1>9. Worker(f)
  <2>1. \A i \in saved : w.sessions[i].image \in Vehicles
    <3> SUFFICES ASSUME NEW i \in saved PROVE w.sessions[i].image \in Vehicles
      OBVIOUS
    <3>1. PICK v \in Vehicles : Shows(w.sessions[i], v)
      BY <1>1 DEF Followed
    <3> QED
      BY <3>1 DEF Shows
  <2>2. f.files \in [DOMAIN f.files -> Vehicles]
    <3>1. DOMAIN f.files = DOMAIN w.files \cup saved
      BY <1>2 DEF IsFinalized
    <3>2. \A i \in DOMAIN w.files : w.files[i] \in Vehicles
      BY <1>1 DEF Worker
    <3>3. \A i \in DOMAIN w.files \cup saved : f.files[i] \in Vehicles
      BY <1>2, <2>1, <3>1, <3>2 DEF IsFinalized
    <3> QED
      BY <1>2, <3>1, <3>3 DEF IsFinalized
  <2>3. f.sessions = [i \in DOMAIN f.sessions |-> f.sessions[i]]
    BY <1>2 DEF IsFinalized
  <2>4. DOMAIN f.tracker \cup DOMAIN f.sessions \subseteq 1..(f.nextId - 1)
    BY <1>1, <1>2, <1>8 DEF Worker, IsFinalized
  <2> QED
    BY <1>1, <1>2, <1>7, <2>2, <2>3, <2>4 DEF Worker, IsFinalized
<1>10. Followed(f)
  BY <1>1, <1>2, <1>8 DEF Followed, IsFinalized
<1>11. \A i \in DOMAIN f.events : EventOk(f.events[i])
  BY <1>1, <1>3, <1>5, <1>7
<1>12. Numbered(f)
  <2>1. \A a, b \in DOMAIN f.sessions : f.sessions[a].n = f.sessions[b].n => a = b
    BY <1>1, <1>8 DEF Numbered
  <2>2. ASSUME NEW i \in 1..m, NEW k \in 1..C PROVE w.events[i].n # P[k].n
    BY <1>n, <1>3, <1>5
  <2>3. \A i, j \in DOMAIN f.events : f.events[i].n = f.events[j].n => i = j
    <3> SUFFICES ASSUME NEW i \in 1..(m + C), NEW j \in 1..(m + C), f.events[i].n = f.events[j].n
                 PROVE  i = j
      BY <1>7
    <3>1. CASE i \in 1..m /\ j \in 1..m
      BY <1>1, <1>5, <1>7, <3>1 DEF Numbered
    <3>2. CASE i \notin 1..m /\ j \notin 1..m
      BY <1>3, <1>7, <3>2
    <3>3. CASE i \in 1..m <=> j \notin 1..m
      BY <1>7, <2>2, <3>3
    <3> QED
      BY <3>1, <3>2, <3>3
  <2>4. \A a \in DOMAIN f.sessions : \A i \in DOMAIN f.events : f.sessions[a].n # f.events[i].n
    <3> SUFFICES ASSUME NEW a \in DOMAIN w.sessions \ I, NEW i \in 1..(m + C)
                 PROVE  w.sessions[a].n # f.events[i].n
      BY <1>7, <1>8
    <3>1. CASE i \in 1..m
      BY <1>n, <1>5, <1>7, <3>1
    <3>2. CASE i \notin 1..m
      <4>1. PICK k \in 1..C : i = m + k
        BY <1>7, <3>2
      <4>2. PICK b \in I : P[k].n = w.sessions[b].n
        BY <1>3
      <4> QED
        BY <1>1, <1>7, <4>1, <4>2 DEF Numbered
    <3> QED
      BY <3>1, <3>2
  <2> DEFINE A == {w.sessions[a].n : a \in DOMAIN w.sessions} \cup {w.events[i].n : i \in DOMAIN w.events}
             B == {f.sessions[a].n : a \in DOMAIN f.sessions} \cup {f.events[i].n : i \in DOMAIN f.events}
  <2>5. ASSUME NEW n PROVE n \in B => n \in A
    <3>1. CASE n \in {f.sessions[a].n : a \in DOMAIN f.sessions}
      BY <1>8, <3>1
    <3>2. CASE n \in {f.events[i].n : i \in DOMAIN f.events}
      <4>1. PICK i \in 1..(m + C) : n = f.events[i].n
        BY <1>7, <3>2
      <4>2. CASE i \in 1..m
        BY <1>5, <1>7, <4>1, <4>2
      <4>3. CASE i \notin 1..m
        BY <1>3, <1>7, <4>1, <4>3
      <4> QED
        BY <4>2, <4>3
    <3> QED
      BY <3>1, <3>2
  <2>6. ASSUME NEW n PROVE n \in A => n \in B
    <3>1. ASSUME NEW a \in DOMAIN w.sessions, n = w.sessions[a].n PROVE n \in B
      <4>1. CASE a \in I
        <5>1. PICK k \in 1..C : P[k].n = w.sessions[a].n
          BY <1>3, <4>1
        <5> QED
          BY <1>7, <3>1, <5>1
      <4>2. CASE a \notin I
        BY <1>8, <3>1, <4>2
      <4> QED
        BY <4>1, <4>2
    <3>2. ASSUME NEW i \in DOMAIN w.events, n = w.events[i].n PROVE n \in B
      <4>1. i \in DOMAIN f.events /\ f.events[i] = w.events[i]
        BY <1>4, <1>5, <1>7
      <4> QED
        BY <3>2, <4>1
    <3> QED
      BY <3>1, <3>2
  <2>7. A = B
    BY <2>5, <2>6
  <2>8. A = 1..w.opened
    BY <1>1 DEF Numbered
  <2>9. B = 1..f.opened
    BY <1>2, <2>7, <2>8 DEF IsFinalized
  <2> QED
    BY <2>1, <2>3, <2>4, <2>9 DEF Numbered
<1>13. WorkerInv(f)
  BY <1>9, <1>10, <1>11, <1>12 DEF WorkerInv
<1> QED
  BY <1>2, <1>8, <1>13 DEF f, IsFinalized
\* After a reset the invariant holds again, with no session left.
LEMMA ResetKeepsInv ==
  ASSUME NEW w, WorkerInv(w)
  PROVE  /\ WorkerInv(ResetTrackState(w))
         /\ DOMAIN ResetTrackState(w).sessions = {}
         /\ ResetTrackState(w).opened = w.opened
<1> DEFINE I == DOMAIN w.sessions
           f == Finalized(w, I)
           n == [w EXCEPT !.tracker = None, !.nextId = 1]
           one == 1
           r == ResetTrackState(w)
           saved == {i \in I : w.sessions[i].image # NoImage}
           S == [i \in I \ I |-> w.sessions[i]]
           E == w.events \o Published(w.sessions, I)
           F == [i \in DOMAIN w.files \cup saved |->
                  IF i \in saved THEN w.sessions[i].image ELSE w.files[i]]
<1>1. WorkerInv(f) /\ DOMAIN f.sessions = {} /\ f.opened = w.opened
  <2>1. WorkerInv(f) /\ DOMAIN f.sessions = I \ I /\ f.opened = w.opened
    BY FinalizedKeepsInv
  <2> QED
    BY <2>1
<1>2. w = [ tracker |-> w.tracker, nextId |-> w.nextId, sessions |-> w.sessions,
            opened |-> w.opened, events |-> w.events, files |-> w.files ]
  BY DEF WorkerInv, Worker
<1>3. n = [ tracker |-> None, nextId |-> 1, sessions |-> w.sessions,
            opened |-> w.opened, events |-> w.events, files |-> w.files ]
  <2>1. n = [w EXCEPT !.tracker = None, !.nextId = one]
    OBVIOUS
  <2> HIDE DEF n, one
  <2>2. n = [ tracker |-> None, nextId |-> one, sessions |-> w.sessions,
              opened |-> w.opened, events |-> w.events, files |-> w.files ]
    BY <1>2, <2>1
  <2> QED
    BY <2>2 DEF one
<1>4. n.sessions = w.sessions /\ n.events = w.events /\ n.files = w.files
  BY <1>3
<1> HIDE DEF n
<1>5. r = [n EXCEPT !.sessions = S, !.events = E, !.files = F]
  <2>1. r = Finalized(n, I)
    BY DEF ResetTrackState, n
  <2>2. Finalized(n, I) =
          [n EXCEPT !.sessions = [i \in DOMAIN n.sessions \ I |-> n.sessions[i]],
                    !.events = n.events \o Published(n.sessions, I),
                    !.files = [i \in DOMAIN n.files \cup {i \in I : n.sessions[i].image # NoImage} |->
                                IF i \in {j \in I : n.sessions[j].image # NoImage}
                                THEN n.sessions[i].image ELSE n.files[i]]]
    BY DEF Finalized
  <2> QED
    BY <1>4, <2>1, <2>2
<1>6. f = [w EXCEPT !.sessions = S, !.events = E, !.files = F]
  BY DEF Finalized
<1> HIDE DEF S, E, F, f, r
<1>7. r = [ tracker |-> None, nextId |-> 1, sessions |-> S,
            opened |-> w.opened, events |-> E, files |-> F ]
  BY <1>3, <1>5
<1>8. f = [ tracker |-> w.tracker, nextId |-> w.nextId, sessions |-> S,
            opened |-> w.opened, events |-> E, files |-> F ]
  BY <1>2, <1>6
<1>9. /\ r = [ tracker |-> r.tracker, nextId |-> r.nextId, sessions |-> r.sessions,
               opened |-> r.opened, events |-> r.events, files |-> r.files ]
      /\ r.tracker = None /\ r.nextId = 1 /\ r.sessions = f.sessions
      /\ r.opened = f.opened /\ r.events = f.events /\ r.files = f.files
      /\ r.opened = w.opened
  BY <1>7, <1>8
<1>10. DOMAIN None = {} /\ None \in [{} -> [vehicle : Vehicles, lost : 0..Memory]]
  <2>1. ASSUME NEW R PROVE None \in [{} -> R]
    BY DEF None
  <2> QED
    BY <2>1 DEF None
<1>11. Worker(r)
  <2>1. r.tracker \in [DOMAIN r.tracker -> [vehicle : Vehicles, lost : 0..Memory]]
    <3>1. r.tracker = None
      BY <1>9
    <3> QED
      BY <1>10, <3>1
  <2>2. DOMAIN r.tracker \cup DOMAIN r.sessions = {}
    <3>1. DOMAIN r.tracker = {} /\ DOMAIN r.sessions = {}
      BY <1>1, <1>9, <1>10
    <3> QED
      BY <3>1
  <2>3. r.nextId \in Nat \ {0}
    BY <1>9
  <2>4. Worker(f)
    BY <1>1 DEF WorkerInv
  <2> QED
    BY <1>9, <2>1, <2>2, <2>3, <2>4 DEF Worker
<1>12. Followed(r)
  BY <1>1, <1>9 DEF Followed
<1>13. Numbered(r)
  BY <1>1, <1>9 DEF WorkerInv, Numbered
<1>14. \A i \in DOMAIN r.events : EventOk(r.events[i])
  BY <1>1, <1>9 DEF WorkerInv
<1>15. WorkerInv(r)
  BY <1>11, <1>12, <1>13, <1>14 DEF WorkerInv
<1> QED
  BY <1>1, <1>9, <1>15 DEF r

\* The tracker's answer leaves every session with the vehicle it follows.
LEMMA TrackerKeepsInv ==
  ASSUME NEW w, WorkerInv(w), NEW seen \in SUBSET Vehicles, NEW fresh \in FreshIds(w, seen)
  PROVE  /\ WorkerInv(TrackerUpdate(w, seen, fresh))
         /\ TrackerUpdate(w, seen, fresh).sessions = w.sessions
         /\ TrackerUpdate(w, seen, fresh).opened = w.opened
<1> DEFINE U == Untracked(w, seen)
           c == Cardinality(U)
           known == {id \in DOMAIN w.tracker : w.tracker[id].vehicle \in seen}
           kept == {id \in DOMAIN w.tracker : id \in known \/ w.tracker[id].lost < Memory}
           Lost(id) == IF id \in known THEN 0 ELSE w.tracker[id].lost + 1
           T == [id \in kept \cup DOMAIN fresh |->
                  IF id \in DOMAIN fresh THEN [vehicle |-> fresh[id], lost |-> 0]
                  ELSE [vehicle |-> w.tracker[id].vehicle, lost |-> Lost(id)]]
           t == TrackerUpdate(w, seen, fresh)
<1>1. U \subseteq Vehicles /\ c \in Nat
  <2>1. U \subseteq Vehicles
    BY DEF Untracked
  <2> QED
    BY <2>1, WorkerAssumption, FS_Subset, FS_CardinalityType
<1>2. DOMAIN fresh = w.nextId..(w.nextId + c - 1) /\ \A id \in DOMAIN fresh : fresh[id] \in Vehicles
  <2> DEFINE D == w.nextId..(w.nextId + c - 1)
  <2>1. fresh \in Bijection(D, U)
    BY DEF FreshIds
  <2> HIDE DEF D, U
  <2>2. fresh \in [D -> U]
    BY <2>1, Fun_BijectionProperties
  <2>3. DOMAIN fresh = D /\ \A id \in D : fresh[id] \in Vehicles
    BY <1>1, <2>2
  <2> QED
    BY <2>3 DEF D
<1>3. w.nextId \in Nat \ {0} /\ DOMAIN w.tracker \cup DOMAIN w.sessions \subseteq 1..(w.nextId - 1)
  BY DEF WorkerInv, Worker
<1>4. w = [ tracker |-> w.tracker, nextId |-> w.nextId, sessions |-> w.sessions,
            opened |-> w.opened, events |-> w.events, files |-> w.files ]
  BY DEF WorkerInv, Worker
<1>5. t = [w EXCEPT !.tracker = T, !.nextId = w.nextId + c]
  BY DEF TrackerUpdate
<1>6. ASSUME NEW id \in DOMAIN w.tracker
      PROVE  w.tracker[id].vehicle \in Vehicles /\ w.tracker[id].lost \in 0..Memory
  BY DEF WorkerInv, Worker
<1>7. DOMAIN T = kept \cup DOMAIN fresh
  OBVIOUS
<1>8. ASSUME NEW id \in kept \cup DOMAIN fresh
      PROVE  T[id] \in [vehicle : Vehicles, lost : 0..Memory]
  <2>1. CASE id \in DOMAIN fresh
    BY <1>2, <2>1, WorkerAssumption
  <2>2. CASE id \notin DOMAIN fresh
    <3>1. id \in DOMAIN w.tracker /\ Lost(id) \in 0..Memory
      BY <1>6, <2>2, WorkerAssumption
    <3>2. T[id] = [vehicle |-> w.tracker[id].vehicle, lost |-> Lost(id)]
      BY <2>2
    <3> HIDE DEF T, Lost
    <3> QED
      BY <1>6, <3>1, <3>2
  <2> QED
    BY <2>1, <2>2
<1>9. T \in [DOMAIN T -> [vehicle : Vehicles, lost : 0..Memory]]
  BY <1>8
<1>10. ASSUME NEW id \in DOMAIN w.sessions, id \in DOMAIN T
       PROVE  id \in DOMAIN w.tracker /\ T[id].vehicle = w.tracker[id].vehicle
  BY <1>1, <1>2, <1>3, <1>7, <1>10
<1>11. DOMAIN T \cup DOMAIN w.sessions \subseteq 1..((w.nextId + c) - 1) /\ w.nextId + c \in Nat \ {0}
  BY <1>1, <1>2, <1>3, <1>7
<1> HIDE DEF T, t, c
<1>12. t = [ tracker |-> T, nextId |-> w.nextId + c, sessions |-> w.sessions,
             opened |-> w.opened, events |-> w.events, files |-> w.files ]
  BY <1>4, <1>5
<1>13. /\ t = [ tracker |-> t.tracker, nextId |-> t.nextId, sessions |-> t.sessions,
                opened |-> t.opened, events |-> t.events, files |-> t.files ]
       /\ t.tracker = T /\ t.nextId = w.nextId + c /\ t.sessions = w.sessions
       /\ t.opened = w.opened /\ t.events = w.events /\ t.files = w.files
  BY <1>12
<1>14. Worker(t)
  BY <1>9, <1>11, <1>13 DEF WorkerInv, Worker
<1>15. Followed(t)
  BY <1>10, <1>13 DEF WorkerInv, Followed
<1>16. Numbered(t)
  BY <1>13 DEF WorkerInv, Numbered
<1>17. \A i \in DOMAIN t.events : EventOk(t.events[i])
  BY <1>13 DEF WorkerInv
<1>18. WorkerInv(t)
  BY <1>14, <1>15, <1>16, <1>17 DEF WorkerInv
<1> QED
  BY <1>13, <1>18 DEF t
\* The objects of a frame are worked on in old sessions and in new ones, which
\* are numbered on from the last.
LEMMA ObjectsKeepInv ==
  ASSUME NEW w, WorkerInv(w), Patient(w),
         NEW ids, ids \subseteq DOMAIN w.tracker, NEW outs \in [ids -> Outcomes]
  PROVE  WorkerInv(ProcessObjects(w, outs)) /\ Patient(ProcessObjects(w, outs))
<1> DEFINE new == ids \ DOMAIN w.sessions
           order == [i \in Nat |-> i]
           C == Cardinality(new)
           Opened(id) == NewSession(id, w.opened + Cardinality({i \in new : i <= id}))
           Found(id) == IF id \in new THEN Opened(id) ELSE w.sessions[id]
           S == [id \in DOMAIN w.sessions \cup ids |->
                  IF id \in ids THEN ProcessObject(Found(id), w.tracker[id].vehicle, outs[id])
                  ELSE w.sessions[id]]
           p == ProcessObjects(w, outs)
<1>1. /\ DOMAIN w.tracker \cup DOMAIN w.sessions \subseteq 1..(w.nextId - 1)
      /\ w.nextId \in Nat \ {0}
      /\ w.opened \in Nat
      /\ \A id \in ids : w.tracker[id].vehicle \in Vehicles
      /\ \A id \in ids : outs[id] \in Outcomes
      /\ DOMAIN outs = ids
  BY DEF WorkerInv, Worker
<1>2. IsFiniteSet(new) /\ new \subseteq Nat \ {0}
  <2>1. new \subseteq 1..(w.nextId - 1) /\ w.nextId - 1 \in Int
    BY <1>1
  <2> HIDE DEF new
  <2>2. IsFiniteSet(1..(w.nextId - 1))
    BY <2>1, FS_Interval
  <2>3. IsFiniteSet(new)
    BY <2>1, <2>2, FS_Subset
  <2>4. new \subseteq Nat \ {0}
    BY <2>1
  <2> QED
    BY <2>3, <2>4
<1>3. /\ C \in Nat
      /\ \A i \in new : Rank(order, new, i) \in 1..C
      /\ \A i, j \in new : Rank(order, new, i) = Rank(order, new, j) => i = j
      /\ \A k \in 1..C : \E i \in new : Rank(order, new, i) = k
  <2>1. \A i \in new : order[i] \in Nat
    BY <1>2
  <2>2. \A i, j \in new : order[i] = order[j] => i = j
    BY <1>2
  <2>3. IsFiniteSet(new)
    BY <1>2
  <2> HIDE DEF order, new
  <2> QED
    BY <2>1, <2>2, <2>3, RanksAreNumbers
<1>4. ASSUME NEW id \in new
      PROVE  /\ Opened(id) = NewSession(id, w.opened + Rank(order, new, id))
             /\ w.opened + Rank(order, new, id) \in Nat \ {0}
  <2>1. {i \in new : order[i] <= order[id]} = {i \in new : i <= id}
    BY <1>2
  <2>2. Rank(order, new, id) = Cardinality({i \in new : i <= id})
    BY <2>1 DEF Rank
  <2>3. Rank(order, new, id) \in 1..C
    BY <1>3
  <2> HIDE DEF order, new
  <2> QED
    BY <1>1, <1>3, <2>2, <2>3
<1>5. p = [w EXCEPT !.sessions = S, !.opened = w.opened + C]
  BY <1>1 DEF ProcessObjects
<1>6. \A id \in DOMAIN w.sessions \cup ids :
        S[id] = IF id \in ids THEN ProcessObject(Found(id), w.tracker[id].vehicle, outs[id])
                ELSE w.sessions[id]
  OBVIOUS
<1>7. DOMAIN S = DOMAIN w.sessions \cup ids /\ S = [id \in DOMAIN S |-> S[id]]
  OBVIOUS
<1>8. ASSUME NEW id \in new
      PROVE  /\ SessionOk(Found(id))
             /\ Found(id).who \subseteq {w.tracker[id].vehicle}
             /\ Found(id).image \in {NoImage, w.tracker[id].vehicle}
             /\ Found(id).n = w.opened + Rank(order, new, id)
  <2> DEFINE n == w.opened + Rank(order, new, id)
  <2>1. Found(id) = NewSession(id, n) /\ n \in Nat \ {0} /\ id \in Nat \ {0}
    BY <1>2, <1>4
  <2> HIDE DEF n, Found, new
  <2>2. <<>> \in Seq(PlateReads) /\ Len(<<>>) = 0
    OBVIOUS
  <2>3. NewSession(id, n) \in Session
    BY <2>1, <2>2, SessionAssumption DEF NewSession, Session, Lifecycle
  <2>4. SessionOk(NewSession(id, n))
    <3>1. Fuse(<<>>) = NoFusion
      BY <2>2, FusedWhenEnough DEF Enough
    <3> QED
      BY <2>2, <2>3, <3>1, ObservationBounds DEF SessionOk, Sound, Told, NewSession
  <2> QED
    BY <2>1, <2>4 DEF NewSession, n
<1>9. ASSUME NEW id \in ids \ new
      PROVE  /\ id \in DOMAIN w.sessions
             /\ Found(id) = w.sessions[id]
             /\ SessionOk(Found(id))
             /\ Found(id).who \subseteq {w.tracker[id].vehicle}
             /\ Found(id).image \in {NoImage, w.tracker[id].vehicle}
  <2>1. id \in DOMAIN w.sessions /\ id \in DOMAIN w.tracker /\ Found(id) = w.sessions[id]
    BY <1>9
  <2>2. PICK v \in Vehicles : Shows(w.sessions[id], v) /\ w.tracker[id].vehicle = v
    BY <2>1 DEF WorkerInv, Followed
  <2>3. SessionOk(w.sessions[id])
    BY <2>1 DEF WorkerInv, Followed
  <2> HIDE DEF Found
  <2> QED
    BY <2>1, <2>2, <2>3 DEF Shows
<1>10. ASSUME NEW id \in ids
       PROVE  Continues(S[id], Found(id), w.tracker[id].vehicle)
  <2>1. /\ SessionOk(Found(id))
        /\ Found(id).who \subseteq {w.tracker[id].vehicle}
        /\ Found(id).image \in {NoImage, w.tracker[id].vehicle}
    <3> HIDE DEF Found
    <3> QED
      BY <1>8, <1>9
  <2>2. S[id] = ProcessObject(Found(id), w.tracker[id].vehicle, outs[id])
    BY <1>6
  <2> HIDE DEF S, Found
  <2>3. w.tracker[id].vehicle \in Vehicles /\ outs[id] \in Outcomes
    BY <1>1
  <2> QED
    BY <2>1, <2>2, <2>3, ProcessContinues
<1>11. \A id \in DOMAIN w.sessions \ ids : S[id] = w.sessions[id]
  BY <1>6
<1>12. ASSUME NEW id \in DOMAIN w.sessions PROVE S[id].n = w.sessions[id].n
  <2>1. CASE id \in ids
    <3>1. Found(id) = w.sessions[id]
      BY <1>9, <2>1
    <3> HIDE DEF S, Found
    <3> QED
      BY <1>10, <2>1, <3>1 DEF Continues, Keeps
  <2>2. CASE id \notin ids
    BY <1>11, <2>2
  <2> QED
    BY <2>1, <2>2
<1>13. ASSUME NEW id \in new PROVE S[id].n = w.opened + Rank(order, new, id)
  <2>1. Found(id).n = w.opened + Rank(order, new, id) /\ id \in ids
    BY <1>8
  <2> HIDE DEF S, Found
  <2> QED
    BY <1>10, <2>1 DEF Continues, Keeps
<1> HIDE DEF S, p, C, order, Opened, Found
<1>14. /\ p = [ tracker |-> p.tracker, nextId |-> p.nextId, sessions |-> p.sessions,
                opened |-> p.opened, events |-> p.events, files |-> p.files ]
       /\ p.tracker = w.tracker /\ p.nextId = w.nextId /\ p.sessions = S
       /\ p.opened = w.opened + C /\ p.events = w.events /\ p.files = w.files
  <2>1. w = [ tracker |-> w.tracker, nextId |-> w.nextId, sessions |-> w.sessions,
              opened |-> w.opened, events |-> w.events, files |-> w.files ]
    BY DEF WorkerInv, Worker
  <2> DEFINE O == w.opened + C
  <2> HIDE DEF O
  <2>2. p = [w EXCEPT !.sessions = S, !.opened = O]
    BY <1>5 DEF O
  <2>3. p = [ tracker |-> w.tracker, nextId |-> w.nextId, sessions |-> S,
              opened |-> O, events |-> w.events, files |-> w.files ]
    BY <2>1, <2>2
  <2> QED
    BY <2>3 DEF O
<1>15. Worker(p)
  <2>1. DOMAIN p.tracker \cup DOMAIN p.sessions \subseteq 1..(p.nextId - 1)
    BY <1>1, <1>7, <1>14
  <2>2. p.opened \in Nat
    BY <1>1, <1>3, <1>14
  <2> QED
    BY <1>7, <1>14, <2>1, <2>2 DEF WorkerInv, Worker
<1>16. Followed(p)
  <2> SUFFICES ASSUME NEW id \in DOMAIN S
               PROVE  /\ SessionOk(S[id])
                      /\ \E v \in Vehicles : /\ Shows(S[id], v)
                                             /\ id \in DOMAIN w.tracker => w.tracker[id].vehicle = v
    BY <1>14 DEF Followed
  <2>1. CASE id \in ids
    BY <1>1, <1>10, <2>1 DEF Continues, Keeps, SessionOk
  <2>2. CASE id \notin ids
    BY <1>7, <1>11, <2>2 DEF WorkerInv, Followed
  <2> QED
    BY <2>1, <2>2
<1>17. Patient(p)
  <2> SUFFICES ASSUME NEW id \in DOMAIN S PROVE S[id].missing < Grace
    BY <1>14 DEF Patient
  <2>1. CASE id \in ids
    BY <1>10, <2>1, SessionAssumption DEF Continues, Keeps
  <2>2. CASE id \notin ids
    BY <1>7, <1>11, <2>2 DEF Patient
  <2> QED
    BY <2>1, <2>2
<1>18. Numbered(p)
  <2>1. /\ \A a, b \in DOMAIN w.sessions : w.sessions[a].n = w.sessions[b].n => a = b
        /\ \A i, j \in DOMAIN w.events : w.events[i].n = w.events[j].n => i = j
        /\ \A a \in DOMAIN w.sessions : \A i \in DOMAIN w.events : w.sessions[a].n # w.events[i].n
    BY DEF WorkerInv, Numbered
  <2>2. {w.sessions[a].n : a \in DOMAIN w.sessions} \cup {w.events[i].n : i \in DOMAIN w.events}
          = 1..w.opened
    BY DEF WorkerInv, Numbered
  <2>3. /\ \A a \in DOMAIN w.sessions : w.sessions[a].n \in 1..w.opened
        /\ \A i \in DOMAIN w.events : w.events[i].n \in 1..w.opened
    BY <2>2
  <2>4. \A id \in DOMAIN S : id \in DOMAIN w.sessions \/ id \in new
    BY <1>7
  <2> HIDE DEF new
  <2>5. ASSUME NEW id \in new PROVE S[id].n > w.opened /\ S[id].n \in 1..(w.opened + C)
    <3>1. S[id].n = w.opened + Rank(order, new, id) /\ Rank(order, new, id) \in 1..C
      BY <1>3, <1>13
    <3> QED
      BY <1>1, <1>3, <3>1
  <2>6. \A a, b \in DOMAIN S : S[a].n = S[b].n => a = b
    <3> SUFFICES ASSUME NEW a \in DOMAIN S, NEW b \in DOMAIN S, S[a].n = S[b].n PROVE a = b
      OBVIOUS
    <3>1. CASE a \in DOMAIN w.sessions /\ b \in DOMAIN w.sessions
      BY <1>12, <2>1, <3>1
    <3>2. CASE a \in new /\ b \in new
      <4>1. /\ S[a].n = w.opened + Rank(order, new, a)
            /\ S[b].n = w.opened + Rank(order, new, b)
            /\ Rank(order, new, a) \in 1..C
            /\ Rank(order, new, b) \in 1..C
        BY <1>3, <1>13, <3>2
      <4>2. \A x, y \in 1..C : w.opened + x = w.opened + y => x = y
        BY <1>1, <1>3
      <4>3. Rank(order, new, a) = Rank(order, new, b)
        BY <4>1, <4>2
      <4> QED
        BY <1>3, <3>2, <4>3
    <3>3. CASE a \in DOMAIN w.sessions /\ b \in new
      <4>1. S[a].n \in 1..w.opened /\ S[b].n > w.opened
        BY <1>12, <2>3, <2>5, <3>3
      <4> QED
        BY <1>1, <4>1
    <3>4. CASE a \in new /\ b \in DOMAIN w.sessions
      <4>1. S[b].n \in 1..w.opened /\ S[a].n > w.opened
        BY <1>12, <2>3, <2>5, <3>4
      <4> QED
        BY <1>1, <4>1
    <3> QED
      BY <2>4, <3>1, <3>2, <3>3, <3>4
  <2>7. \A a \in DOMAIN S : \A i \in DOMAIN w.events : S[a].n # w.events[i].n
    <3> SUFFICES ASSUME NEW a \in DOMAIN S, NEW i \in DOMAIN w.events PROVE S[a].n # w.events[i].n
      OBVIOUS
    <3>1. CASE a \in DOMAIN w.sessions
      BY <1>12, <2>1, <3>1
    <3>2. CASE a \in new
      <4>1. w.events[i].n \in 1..w.opened /\ S[a].n > w.opened
        BY <2>3, <2>5, <3>2
      <4> QED
        BY <1>1, <4>1
    <3> QED
      BY <2>4, <3>1, <3>2
  <2> DEFINE A == {w.sessions[a].n : a \in DOMAIN w.sessions} \cup {w.events[i].n : i \in DOMAIN w.events}
             B == {S[a].n : a \in DOMAIN S} \cup {w.events[i].n : i \in DOMAIN w.events}
  <2>8. ASSUME NEW n \in B PROVE n \in 1..(w.opened + C)
    <3>1. CASE n \in {w.events[i].n : i \in DOMAIN w.events}
      BY <1>1, <1>3, <2>3, <3>1
    <3>2. CASE n \in {S[a].n : a \in DOMAIN S}
      <4>1. PICK a \in DOMAIN S : n = S[a].n
        BY <3>2
      <4> QED
        BY <1>1, <1>3, <1>12, <2>3, <2>4, <2>5, <4>1
    <3> QED
      BY <3>1, <3>2
  <2>9. ASSUME NEW n \in 1..(w.opened + C) PROVE n \in B
    <3>1. CASE n \in 1..w.opened
      <4>1. n \in A
        BY <2>2, <3>1
      <4>2. ASSUME NEW a \in DOMAIN w.sessions, n = w.sessions[a].n PROVE n \in B
        BY <1>7, <1>12, <4>2
      <4> QED
        BY <4>1, <4>2
    <3>2. CASE n \notin 1..w.opened
      <4>1. n - w.opened \in 1..C
        BY <1>1, <1>3, <3>2
      <4>2. PICK i \in new : Rank(order, new, i) = n - w.opened
        BY <1>3, <4>1
      <4>3. i \in DOMAIN S
        BY <1>7, <4>2 DEF new
      <4>4. S[i].n = w.opened + (n - w.opened)
        BY <1>13, <4>2
      <4>5. S[i].n = n
        BY <1>1, <1>3, <4>4
      <4> QED
        BY <4>3, <4>5
    <3> QED
      BY <3>1, <3>2
  <2>10. B = 1..(w.opened + C)
    BY <2>8, <2>9
  <2> QED
    BY <1>14, <2>1, <2>6, <2>7, <2>10 DEF Numbered
<1>19. \A i \in DOMAIN p.events : EventOk(p.events[i])
  BY <1>14 DEF WorkerInv
<1> QED
  BY <1>15, <1>16, <1>17, <1>18, <1>19 DEF WorkerInv, p
\* mark_seen leaves the invariant, and no session that should have been finalized.
LEMMA MarkingKeepsInv ==
  ASSUME NEW w, WorkerInv(w), NEW ids
  PROVE  /\ WorkerInv(MarkAndFinalize(w, ids))
         /\ Patient(MarkAndFinalize(w, ids))
         /\ MarkAndFinalize(w, ids).opened = w.opened
<1> DEFINE S == [id \in DOMAIN w.sessions |->
                  IF id \in ids THEN MarkSeen(w.sessions[id]) ELSE MarkMissing(w.sessions[id])]
           m == [w EXCEPT !.sessions = S]
           Ripe == {id \in DOMAIN S : IsFinalizable(S[id])}
           f == Finalized(m, Ripe)
<1>1. MarkAndFinalize(w, ids) = f
  BY DEF MarkAndFinalize
<1>2. ASSUME NEW id \in DOMAIN w.sessions
      PROVE  /\ SessionOk(S[id])
             /\ S[id].n = w.sessions[id].n
             /\ S[id].who = w.sessions[id].who
             /\ S[id].image = w.sessions[id].image
  <2>1. S[id] \in {MarkSeen(w.sessions[id]), MarkMissing(w.sessions[id])}
    OBVIOUS
  <2>2. SessionOk(w.sessions[id])
    BY DEF WorkerInv, Followed
  <2> HIDE DEF S
  <2> QED
    BY <2>1, <2>2, MarksContinue
<1>3. DOMAIN S = DOMAIN w.sessions /\ S = [id \in DOMAIN S |-> S[id]]
  OBVIOUS
<1> HIDE DEF S
<1>4. /\ m = [ tracker |-> m.tracker, nextId |-> m.nextId, sessions |-> m.sessions,
               opened |-> m.opened, events |-> m.events, files |-> m.files ]
      /\ m.tracker = w.tracker /\ m.nextId = w.nextId /\ m.sessions = S
      /\ m.opened = w.opened /\ m.events = w.events /\ m.files = w.files
  <2>1. w = [ tracker |-> w.tracker, nextId |-> w.nextId, sessions |-> w.sessions,
              opened |-> w.opened, events |-> w.events, files |-> w.files ]
    BY DEF WorkerInv, Worker
  <2>2. m = [ tracker |-> w.tracker, nextId |-> w.nextId, sessions |-> S,
              opened |-> w.opened, events |-> w.events, files |-> w.files ]
    BY <2>1
  <2> QED
    BY <2>2
<1> HIDE DEF m
<1>5. Worker(m)
  BY <1>3, <1>4 DEF WorkerInv, Worker
<1>6. Followed(m)
  <2> SUFFICES ASSUME NEW id \in DOMAIN w.sessions
               PROVE  /\ SessionOk(S[id])
                      /\ \E v \in Vehicles : /\ Shows(S[id], v)
                                             /\ id \in DOMAIN w.tracker => w.tracker[id].vehicle = v
    BY <1>3, <1>4 DEF Followed
  <2>1. PICK v \in Vehicles : /\ Shows(w.sessions[id], v)
                              /\ id \in DOMAIN w.tracker => w.tracker[id].vehicle = v
    BY DEF WorkerInv, Followed
  <2>2. Shows(S[id], v)
    BY <1>2, <2>1 DEF Shows
  <2> QED
    BY <1>2, <2>1, <2>2
<1>7. Numbered(m)
  <2>1. {m.sessions[a].n : a \in DOMAIN m.sessions} = {w.sessions[a].n : a \in DOMAIN w.sessions}
    BY <1>2, <1>3, <1>4
  <2>2. /\ \A a, b \in DOMAIN w.sessions : w.sessions[a].n = w.sessions[b].n => a = b
        /\ \A i, j \in DOMAIN w.events : w.events[i].n = w.events[j].n => i = j
        /\ \A a \in DOMAIN w.sessions : \A i \in DOMAIN w.events : w.sessions[a].n # w.events[i].n
    BY DEF WorkerInv, Numbered
  <2>3. {w.sessions[a].n : a \in DOMAIN w.sessions} \cup {w.events[i].n : i \in DOMAIN w.events}
          = 1..w.opened
    BY DEF WorkerInv, Numbered
  <2>4. \A a, b \in DOMAIN m.sessions : m.sessions[a].n = m.sessions[b].n => a = b
    BY <1>2, <1>3, <1>4, <2>2
  <2>5. \A a \in DOMAIN m.sessions : \A i \in DOMAIN m.events : m.sessions[a].n # m.events[i].n
    BY <1>2, <1>3, <1>4, <2>2
  <2>6. {m.sessions[a].n : a \in DOMAIN m.sessions} \cup {m.events[i].n : i \in DOMAIN m.events}
          = 1..m.opened
    BY <1>4, <2>1, <2>3
  <2> QED
    BY <1>4, <2>2, <2>4, <2>5, <2>6 DEF Numbered
<1>8. WorkerInv(m)
  <2>1. \A i \in DOMAIN m.events : EventOk(m.events[i])
    BY <1>4 DEF WorkerInv
  <2> QED
    BY <1>5, <1>6, <1>7, <2>1 DEF WorkerInv
<1>9. Ripe \subseteq DOMAIN m.sessions
  BY <1>4
<1>10. ASSUME NEW id \in DOMAIN S, id \notin Ripe PROVE S[id].missing < Grace
  <2>1. S[id].missing \in Nat
    BY <1>2, <1>3 DEF SessionOk, Sound, Session
  <2> QED
    BY <1>10, <2>1, SessionAssumption DEF IsFinalizable
<1> HIDE DEF Ripe
<1>11. /\ WorkerInv(f)
       /\ DOMAIN f.sessions = DOMAIN m.sessions \ Ripe
       /\ \A i \in DOMAIN m.sessions \ Ripe : f.sessions[i] = m.sessions[i]
       /\ f.opened = m.opened
  BY <1>8, <1>9, FinalizedKeepsInv
<1> HIDE DEF f
<1>12. Patient(f)
  BY <1>4, <1>10, <1>11 DEF Patient
<1> QED
  BY <1>1, <1>4, <1>11, <1>12

-----------------------------------------------------------------------------
(* The steps of the worker *)

\* Current is made of the variables.
LEMMA CurrentParts ==
  /\ Current = [ tracker |-> Current.tracker, nextId |-> Current.nextId,
                 sessions |-> Current.sessions, opened |-> Current.opened,
                 events |-> Current.events, files |-> Current.files ]
  /\ Current.tracker = tracker /\ Current.nextId = nextId /\ Current.sessions = sessions
  /\ Current.opened = opened /\ Current.events = events /\ Current.files = files
BY DEF Current

\* What the variables become has the invariant if the worker they are made from has.
LEMMA BecomeKeepsInv ==
  ASSUME NEW w, WorkerInv(w), Patient(w), Become(w)
  PROVE  /\ WorkerInv(Current)' /\ Patient(Current)'
         /\ opened' = w.opened /\ sessions' = w.sessions
<1>1. /\ tracker' = w.tracker /\ nextId' = w.nextId /\ sessions' = w.sessions
      /\ opened' = w.opened /\ events' = w.events /\ files' = w.files
  BY DEF Become
<1>2. w = [ tracker |-> w.tracker, nextId |-> w.nextId, sessions |-> w.sessions,
            opened |-> w.opened, events |-> w.events, files |-> w.files ]
  BY DEF WorkerInv, Worker
<1>3. Current' = w
  BY <1>1, <1>2 DEF Current
<1>4. WorkerInv(Current') /\ Patient(Current')
  BY <1>3
<1> QED
  BY <1>1, <1>4 DEF WorkerInv, Worker, Followed, Numbered, Patient
\* Nothing the invariant is about changes but stop, link, waiting or failures.
Idle == UNCHANGED <<tracker, nextId, sessions, opened, events, files>>

\* An idle step keeps what the invariant says of the worker.
LEMMA IdleKeepsInv ==
  ASSUME Inv, Idle
  PROVE  WorkerInv(Current)' /\ Patient(Current)' /\ opened' <= MaxSessions
<1>1. Current' = Current
  BY DEF Idle, Current
<1>2. WorkerInv(Current') /\ Patient(Current')
  BY <1>1 DEF Inv
<1>3. opened' <= MaxSessions
  BY DEF Inv, LoopInv, Idle
<1> QED
  BY <1>2, <1>3 DEF WorkerInv, Worker, Followed, Numbered, Patient

\* A worker starts with the invariant.
LEMMA InitInv == Init => Inv
<1> SUFFICES ASSUME Init PROVE Inv
  OBVIOUS
<1>1. LoopInv
  <2>1. failures \in 0..MaxFailures /\ opened <= MaxSessions
    BY WorkerAssumption DEF Init
  <2> QED
    BY <2>1 DEF Init, LoopInv
<1>2. /\ Current.tracker = None /\ Current.nextId = 1 /\ Current.sessions = None
      /\ Current.opened = 0 /\ Current.events = <<>> /\ Current.files = None
  BY CurrentParts DEF Init
<1>3. DOMAIN None = {}
  BY DEF None
<1>4. ASSUME NEW R PROVE None \in [DOMAIN None -> R]
  BY DEF None
<1>5. Worker(Current)
  <2>1. None = [id \in DOMAIN None |-> None[id]]
    BY DEF None
  <2>2. <<>> \in Seq(VehicleEvent)
    OBVIOUS
  <2>3. None \in [DOMAIN None -> [vehicle : Vehicles, lost : 0..Memory]] /\ None \in [DOMAIN None -> Vehicles]
    BY <1>4
  <2> HIDE DEF None
  <2> QED
    BY <1>2, <1>3, <2>1, <2>2, <2>3, CurrentParts DEF Worker
<1>6. DOMAIN Current.sessions = {} /\ DOMAIN Current.events = {} /\ Current.opened = 0
  BY <1>2, <1>3
<1>7. Followed(Current) /\ Patient(Current) /\ \A i \in DOMAIN Current.events : EventOk(Current.events[i])
  BY <1>6 DEF Followed, Patient
<1>8. Numbered(Current)
  <2>1. 1..Current.opened = {}
    BY <1>6
  <2>2. {Current.sessions[a].n : a \in DOMAIN Current.sessions} = {}
    BY <1>6
  <2>3. {Current.events[i].n : i \in DOMAIN Current.events} = {}
    BY <1>6
  <2> QED
    BY <1>6, <2>1, <2>2, <2>3 DEF Numbered
<1> QED
  BY <1>1, <1>5, <1>7, <1>8 DEF Inv, WorkerInv

\* What a frame is worked on with: the worker as it is or after a reset, the
\* tracker having answered or raised.
Tracked(w, ids) == WorkerInv(w) /\ Patient(w) /\ ids \subseteq DOMAIN w.tracker

\* Every frame is worked on with a worker that has the invariant.
LEMMA FrameIsTracked ==
  ASSUME Inv, NEW w \in {Current, ResetTrackState(Current)}
  PROVE  /\ Tracked(w, {})
         /\ \A seen \in SUBSET Vehicles : \A fresh \in FreshIds(w, seen) :
              LET t == TrackerUpdate(w, seen, fresh)
              IN Tracked(t, {id \in DOMAIN t.tracker : t.tracker[id].vehicle \in seen})
<1>1. WorkerInv(w) /\ Patient(w)
  <2>1. CASE w = Current
    BY <2>1 DEF Inv
  <2>2. CASE w = ResetTrackState(Current)
    <3>1. WorkerInv(Current)
      BY DEF Inv
    <3>2. WorkerInv(w) /\ DOMAIN w.sessions = {}
      BY <2>2, <3>1, ResetKeepsInv
    <3> QED
      BY <3>2 DEF Patient
  <2> QED
    BY <2>1, <2>2
<1>2. ASSUME NEW seen \in SUBSET Vehicles, NEW fresh \in FreshIds(w, seen)
      PROVE  LET t == TrackerUpdate(w, seen, fresh)
             IN Tracked(t, {id \in DOMAIN t.tracker : t.tracker[id].vehicle \in seen})
  <2> DEFINE t == TrackerUpdate(w, seen, fresh)
  <2>1. WorkerInv(t) /\ t.sessions = w.sessions
    BY <1>1, TrackerKeepsInv
  <2> HIDE DEF t
  <2>2. Patient(t)
    BY <1>1, <2>1 DEF Patient
  <2>3. Tracked(t, {id \in DOMAIN t.tracker : t.tracker[id].vehicle \in seen})
    BY <2>1, <2>2 DEF Tracked
  <2> QED
    BY <2>3 DEF t
<1> QED
  BY <1>1, <1>2 DEF Tracked

\* The finally clause keeps the invariant and leaves no session.
LEMMA WindUpKeepsInv ==
  ASSUME NEW w, WorkerInv(w), w.opened <= MaxSessions, WindUp(w)
  PROVE  /\ WorkerInv(Current)' /\ Patient(Current)'
         /\ opened' <= MaxSessions /\ DOMAIN sessions' = {}
         /\ thread' = "stopped" /\ link' = "down"
<1> DEFINE r == ResetTrackState(w)
<1>1. WorkerInv(r) /\ DOMAIN r.sessions = {} /\ r.opened = w.opened
  BY ResetKeepsInv
<1>2. Become(r) /\ thread' = "stopped" /\ link' = "down"
  BY DEF WindUp
<1> HIDE DEF r
<1>3. Patient(r)
  BY <1>1 DEF Patient
<1>4. WorkerInv(Current)' /\ Patient(Current)' /\ opened' = r.opened /\ sessions' = r.sessions
  BY <1>1, <1>2, <1>3, BecomeKeepsInv
<1> QED
  BY <1>1, <1>2, <1>4

\* Each step of the thread keeps the invariant: a connection attempt,
LEMMA ConnectKeepsInv == Inv /\ TryConnect => Inv'
<1> SUFFICES ASSUME Inv, TryConnect PROVE Inv'
  OBVIOUS
<1>1. WorkerInv(Current)' /\ Patient(Current)' /\ opened' <= MaxSessions
  BY IdleKeepsInv DEF TryConnect, Idle
<1>2. CASE link' = "open" /\ failures' = 0 /\ UNCHANGED waiting
  <2>1. failures' \in 0..MaxFailures /\ failures' < MaxFailures
    BY <1>2, WorkerAssumption
  <2>2. LoopInv'
    BY <1>1, <1>2, <2>1 DEF TryConnect, Inv, LoopInv
  <2> QED
    BY <1>1, <2>2 DEF Inv
<1>3. CASE waiting' = TRUE /\ UNCHANGED <<link, failures>>
  <2>1. LoopInv'
    BY <1>1, <1>3 DEF TryConnect, Inv, LoopInv
  <2> QED
    BY <1>1, <2>1 DEF Inv
<1> QED
  BY <1>2, <1>3 DEF TryConnect

\* the end of a back-off,
LEMMA BackoffKeepsInv == Inv /\ BackoffElapses => Inv'
<1> SUFFICES ASSUME Inv, BackoffElapses PROVE Inv'
  OBVIOUS
<1>1. WorkerInv(Current)' /\ Patient(Current)' /\ opened' <= MaxSessions
  BY IdleKeepsInv DEF BackoffElapses, Idle
<1>2. LoopInv'
  BY <1>1 DEF BackoffElapses, Inv, LoopInv
<1> QED
  BY <1>1, <1>2 DEF Inv

\* a request to stop,
LEMMA StopKeepsInv == Inv /\ StopRequested => Inv'
<1> SUFFICES ASSUME Inv, StopRequested PROVE Inv'
  OBVIOUS
<1>1. WorkerInv(Current)' /\ Patient(Current)' /\ opened' <= MaxSessions
  BY IdleKeepsInv DEF StopRequested, Idle
<1>2. LoopInv'
  BY <1>1 DEF StopRequested, Inv, LoopInv
<1> QED
  BY <1>1, <1>2 DEF Inv

\* a failed read, with or without the reset after the last one tolerated,
LEMMA ReadFailsKeepsInv == Inv /\ ReadFails => Inv'
<1> SUFFICES ASSUME Inv, ReadFails PROVE Inv'
  OBVIOUS
<1>1. failures \in 0..MaxFailures /\ failures < MaxFailures /\ failures' = failures + 1
  BY DEF Inv, LoopInv, ReadFails
<1>2. CASE failures' >= MaxFailures
  <2> DEFINE r == ResetTrackState(Current)
  <2>1. WorkerInv(Current)
    BY DEF Inv
  <2>2. WorkerInv(r) /\ DOMAIN r.sessions = {} /\ r.opened = Current.opened
    BY <2>1, ResetKeepsInv
  <2>3. Become(r) /\ link' = "down" /\ waiting' = TRUE /\ UNCHANGED <<stop, thread>>
    BY <1>2 DEF ReadFails
  <2> HIDE DEF r
  <2>4. Patient(r)
    BY <2>2 DEF Patient
  <2>5. WorkerInv(Current)' /\ Patient(Current)' /\ opened' = r.opened /\ sessions' = r.sessions
    BY <2>2, <2>3, <2>4, BecomeKeepsInv
  <2>6. opened' <= MaxSessions
    BY <2>2, <2>5, CurrentParts DEF Inv, LoopInv
  <2>7. failures' \in 0..MaxFailures
    BY <1>1, WorkerAssumption
  <2>8. LoopInv'
    BY <2>2, <2>3, <2>5, <2>6, <2>7 DEF Inv, LoopInv
  <2> QED
    BY <2>5, <2>8 DEF Inv
<1>3. CASE ~(failures' >= MaxFailures)
  <2>1. Idle /\ UNCHANGED <<stop, thread, link, waiting>>
    BY <1>3 DEF ReadFails, Idle
  <2>2. WorkerInv(Current)' /\ Patient(Current)' /\ opened' <= MaxSessions
    BY <2>1, IdleKeepsInv
  <2>3. failures' \in 0..MaxFailures /\ failures' < MaxFailures
    BY <1>1, <1>3, WorkerAssumption
  <2>4. LoopInv'
    BY <2>1, <2>2, <2>3 DEF Inv, LoopInv, Idle
  <2> QED
    BY <2>2, <2>4 DEF Inv
<1> QED
  BY <1>2, <1>3

\* a frame worked on to its end,
LEMMA FrameKeepsInv == Inv /\ ProcessFrame => Inv'
<1> SUFFICES ASSUME Inv, ProcessFrame PROVE Inv'
  OBVIOUS
<1>1. \E w, ids : /\ Tracked(w, ids)
                  /\ \E outs \in [ids -> Outcomes] :
                       /\ ProcessObjects(w, outs).opened <= MaxSessions
                       /\ Become(MarkAndFinalize(ProcessObjects(w, outs), ids))
  <2>1. PICK w \in {Current, ResetTrackState(Current)}, seen \in SUBSET Vehicles :
          \/ \E outs \in [{} -> Outcomes] :
               /\ ProcessObjects(w, outs).opened <= MaxSessions
               /\ Become(MarkAndFinalize(ProcessObjects(w, outs), {}))
          \/ \E fresh \in FreshIds(w, seen) : \E t \in {TrackerUpdate(w, seen, fresh)} :
               LET ids == {id \in DOMAIN t.tracker : t.tracker[id].vehicle \in seen}
               IN \E outs \in [ids -> Outcomes] :
                    /\ ProcessObjects(t, outs).opened <= MaxSessions
                    /\ Become(MarkAndFinalize(ProcessObjects(t, outs), ids))
    <3>1. PICK w \in {Current, ResetTrackState(Current)}, seen \in SUBSET Vehicles :
            \/ \E outs \in [{} -> Outcomes] : \E p \in {ProcessObjects(w, outs)} :
                 p.opened <= MaxSessions /\ Become(MarkAndFinalize(p, {}))
            \/ \E fresh \in FreshIds(w, seen) : \E t \in {TrackerUpdate(w, seen, fresh)} :
                 \E outs \in [{id \in DOMAIN t.tracker : t.tracker[id].vehicle \in seen} -> Outcomes] :
                   \E p \in {ProcessObjects(t, outs)} :
                     /\ p.opened <= MaxSessions
                     /\ Become(MarkAndFinalize(p, {id \in DOMAIN t.tracker :
                                                    t.tracker[id].vehicle \in seen}))
      BY Zenon DEF ProcessFrame, ReadFrame
    <3> QED
      BY <3>1, Zenon
  <2>2. Tracked(w, {}) /\ \A fresh \in FreshIds(w, seen) :
          LET t == TrackerUpdate(w, seen, fresh)
          IN Tracked(t, {id \in DOMAIN t.tracker : t.tracker[id].vehicle \in seen})
    BY FrameIsTracked
  <2>3. CASE \E outs \in [{} -> Outcomes] :
               /\ ProcessObjects(w, outs).opened <= MaxSessions
               /\ Become(MarkAndFinalize(ProcessObjects(w, outs), {}))
    BY <2>2, <2>3
  <2>4. CASE \E fresh \in FreshIds(w, seen) : \E t \in {TrackerUpdate(w, seen, fresh)} :
               LET ids == {id \in DOMAIN t.tracker : t.tracker[id].vehicle \in seen}
               IN \E outs \in [ids -> Outcomes] :
                    /\ ProcessObjects(t, outs).opened <= MaxSessions
                    /\ Become(MarkAndFinalize(ProcessObjects(t, outs), ids))
    BY <2>2, <2>4
  <2> QED
    BY <2>1, <2>3, <2>4
<1>2. PICK w, ids : /\ Tracked(w, ids)
                    /\ \E outs \in [ids -> Outcomes] :
                         /\ ProcessObjects(w, outs).opened <= MaxSessions
                         /\ Become(MarkAndFinalize(ProcessObjects(w, outs), ids))
  BY <1>1
<1>3. PICK outs \in [ids -> Outcomes] :
        /\ ProcessObjects(w, outs).opened <= MaxSessions
        /\ Become(MarkAndFinalize(ProcessObjects(w, outs), ids))
  BY <1>2
<1> DEFINE p == ProcessObjects(w, outs)
           m == MarkAndFinalize(p, ids)
<1>4. WorkerInv(p)
  BY <1>2, ObjectsKeepInv DEF Tracked
<1>5. p.opened <= MaxSessions /\ Become(m)
  BY <1>3
<1> HIDE DEF p
<1>6. WorkerInv(m) /\ Patient(m) /\ m.opened = p.opened
  BY <1>4, MarkingKeepsInv
<1> HIDE DEF m
<1>7. WorkerInv(Current)' /\ Patient(Current)' /\ opened' = m.opened
  BY <1>5, <1>6, BecomeKeepsInv
<1>8. /\ failures' = 0 /\ link = "open" /\ thread = "running"
      /\ UNCHANGED <<stop, thread, link, waiting>>
  BY DEF ProcessFrame, ReadFrame, AtLoopTop
<1>9. LoopInv'
  BY <1>5, <1>6, <1>7, <1>8, WorkerAssumption DEF Inv, LoopInv
<1> QED
  BY <1>7, <1>9 DEF Inv

\* a frame that raises,
LEMMA RaiseKeepsInv == Inv /\ FrameRaises => Inv'
<1> SUFFICES ASSUME Inv, FrameRaises PROVE Inv'
  OBVIOUS
<1>1. \E w, ids : /\ Tracked(w, ids)
                  /\ \E before \in SUBSET ids : \E outs \in [before -> Outcomes] :
                       /\ ProcessObjects(w, outs).opened <= MaxSessions
                       /\ WindUp(ProcessObjects(w, outs))
  <2>1. PICK w \in {Current, ResetTrackState(Current)}, seen \in SUBSET Vehicles :
          \/ \E before \in SUBSET {} : \E outs \in [before -> Outcomes] :
               /\ ProcessObjects(w, outs).opened <= MaxSessions
               /\ WindUp(ProcessObjects(w, outs))
          \/ \E fresh \in FreshIds(w, seen) : \E t \in {TrackerUpdate(w, seen, fresh)} :
               LET ids == {id \in DOMAIN t.tracker : t.tracker[id].vehicle \in seen}
               IN \E before \in SUBSET ids : \E outs \in [before -> Outcomes] :
                    /\ ProcessObjects(t, outs).opened <= MaxSessions
                    /\ WindUp(ProcessObjects(t, outs))
    BY DEF FrameRaises, ReadFrame
  <2>2. Tracked(w, {}) /\ \A fresh \in FreshIds(w, seen) :
          LET t == TrackerUpdate(w, seen, fresh)
          IN Tracked(t, {id \in DOMAIN t.tracker : t.tracker[id].vehicle \in seen})
    BY FrameIsTracked
  <2>3. CASE \E before \in SUBSET {} : \E outs \in [before -> Outcomes] :
               /\ ProcessObjects(w, outs).opened <= MaxSessions
               /\ WindUp(ProcessObjects(w, outs))
    BY <2>2, <2>3
  <2>4. CASE \E fresh \in FreshIds(w, seen) : \E t \in {TrackerUpdate(w, seen, fresh)} :
               LET ids == {id \in DOMAIN t.tracker : t.tracker[id].vehicle \in seen}
               IN \E before \in SUBSET ids : \E outs \in [before -> Outcomes] :
                    /\ ProcessObjects(t, outs).opened <= MaxSessions
                    /\ WindUp(ProcessObjects(t, outs))
    BY <2>2, <2>4
  <2> QED
    BY <2>1, <2>3, <2>4
<1>2. PICK w, ids : /\ Tracked(w, ids)
                    /\ \E before \in SUBSET ids : \E outs \in [before -> Outcomes] :
                         /\ ProcessObjects(w, outs).opened <= MaxSessions
                         /\ WindUp(ProcessObjects(w, outs))
  BY <1>1
<1>3. PICK before \in SUBSET ids : \E outs \in [before -> Outcomes] :
        /\ ProcessObjects(w, outs).opened <= MaxSessions
        /\ WindUp(ProcessObjects(w, outs))
  BY <1>2
<1>4. PICK outs \in [before -> Outcomes] :
        /\ ProcessObjects(w, outs).opened <= MaxSessions
        /\ WindUp(ProcessObjects(w, outs))
  BY <1>3
<1> DEFINE p == ProcessObjects(w, outs)
<1>5. WorkerInv(p)
  <2>1. before \subseteq DOMAIN w.tracker
    BY <1>2 DEF Tracked
  <2> QED
    BY <1>2, <2>1, ObjectsKeepInv DEF Tracked
<1>6. p.opened <= MaxSessions /\ WindUp(p)
  BY <1>4
<1> HIDE DEF p
<1>7. /\ WorkerInv(Current)' /\ Patient(Current)'
      /\ opened' <= MaxSessions /\ DOMAIN sessions' = {}
      /\ thread' = "stopped" /\ link' = "down"
  BY <1>5, <1>6, WindUpKeepsInv
<1>8. failures' = 0 /\ UNCHANGED <<stop, waiting>>
  BY DEF FrameRaises, ReadFrame
<1>9. LoopInv'
  BY <1>7, <1>8, WorkerAssumption DEF Inv, LoopInv
<1> QED
  BY <1>7, <1>9 DEF Inv

\* and the exit.
LEMMA ExitKeepsInv == Inv /\ Exit => Inv'
<1> SUFFICES ASSUME Inv, Exit PROVE Inv'
  OBVIOUS
<1>1. WorkerInv(Current) /\ Current.opened <= MaxSessions /\ WindUp(Current)
  BY CurrentParts DEF Inv, LoopInv, Exit
<1>2. /\ WorkerInv(Current)' /\ Patient(Current)'
      /\ opened' <= MaxSessions /\ DOMAIN sessions' = {}
      /\ thread' = "stopped" /\ link' = "down"
  BY <1>1, WindUpKeepsInv
<1>3. UNCHANGED <<stop, waiting, failures>>
  BY DEF Exit
<1>4. LoopInv'
  BY <1>2, <1>3 DEF Inv, LoopInv
<1> QED
  BY <1>2, <1>4 DEF Inv

\* The inductive invariant.
LEMMA Invariant == Spec => []Inv
<1>1. Init => Inv
  BY InitInv
<1>2. Inv /\ [Next]_vars => Inv'
  <2> SUFFICES ASSUME Inv, [Next]_vars PROVE Inv'
    OBVIOUS
  <2>1. CASE UNCHANGED vars
    <3>1. WorkerInv(Current)' /\ Patient(Current)' /\ opened' <= MaxSessions
      BY <2>1, IdleKeepsInv DEF vars, Idle
    <3>2. LoopInv'
      BY <2>1 DEF vars, Inv, LoopInv
    <3> QED
      BY <3>1, <3>2 DEF Inv
  <2> QED
    BY <2>1, ConnectKeepsInv, ReadFailsKeepsInv, FrameKeepsInv, RaiseKeepsInv, ExitKeepsInv,
       BackoffKeepsInv, StopKeepsInv DEF Next, Loop
<1> QED
  BY <1>1, <1>2, PTL DEF Spec
\* Every variable of a worker keeps its type, and no plate buffer outgrows its bound.
THEOREM WorkerTyped == Spec => []TypeOK
<1>1. Inv => TypeOK
  <2> SUFFICES ASSUME Inv PROVE TypeOK
    OBVIOUS
  <2>1. Worker(Current) /\ Followed(Current)
    BY DEF Inv, WorkerInv
  <2>2. /\ nextId \in Nat \ {0}
        /\ tracker \in [DOMAIN tracker -> [vehicle : Vehicles, lost : 0..Memory]]
        /\ DOMAIN tracker \cup DOMAIN sessions \subseteq 1..(nextId - 1)
        /\ sessions = [id \in DOMAIN sessions |-> sessions[id]]
        /\ opened \in Nat
        /\ events \in Seq(VehicleEvent)
        /\ files \in [DOMAIN files -> Vehicles]
    BY <2>1, CurrentParts DEF Worker
  <2>3. \A id \in DOMAIN sessions : sessions[id] \in Session /\ Len(sessions[id].obs) <= MaxObservations
    BY <2>1, CurrentParts DEF Followed, SessionOk, Sound
  <2>4. sessions \in [DOMAIN sessions -> Session]
    BY <2>2, <2>3
  <2>5. opened \in 0..MaxSessions
    BY <2>2, WorkerAssumption DEF Inv, LoopInv
  <2> QED
    BY <2>2, <2>3, <2>4, <2>5 DEF Inv, LoopInv, TypeOK
<1> QED
  BY <1>1, Invariant, PTL

\* What the invariant says of the sessions and the events themselves.
LEMMA OpenAndEnded ==
  ASSUME Inv
  PROVE  /\ \A s \in Open \cup Ended : \E v \in Vehicles : Shows(s, v)
         /\ \A s \in Open : s.missing < Grace
         /\ \A e \in Ended : EventOk(e)
<1>1. \A id \in DOMAIN sessions :
        /\ \E v \in Vehicles : Shows(sessions[id], v)
        /\ sessions[id].missing < Grace
  BY CurrentParts DEF Inv, WorkerInv, Followed, Patient
<1>2. \A i \in DOMAIN events : EventOk(events[i])
  BY CurrentParts DEF Inv, WorkerInv
<1> QED
  BY <1>1, <1>2 DEF Open, Ended, EventOk

\* Whatever the camera shows and whenever it fails, a session and the event it
\* becomes are about one vehicle, and so is its image.
THEOREM SessionsAreOfOneVehicle == Spec => []OneVehiclePerSession
<1>1. Inv => OneVehiclePerSession
  <2> SUFFICES ASSUME Inv, NEW s \in Open \cup Ended
               PROVE  Cardinality(s.who) <= 1 /\ (s.image # NoImage => s.who = {s.image})
    BY DEF OneVehiclePerSession
  <2>1. PICK v \in Vehicles : Shows(s, v)
    BY OpenAndEnded
  <2>2. Cardinality({v}) = 1
    BY FS_Singleton
  <2> QED
    BY <2>1, <2>2 DEF Shows
<1> QED
  BY <1>1, Invariant, PTL

\* A track of which a plate was announced becomes an event with a plate, and a
\* plate that was not announced last is in an event only if it is too doubtful to be.
THEOREM AnnouncementsAreKept == Spec => []EventsFollowAnnouncements
<1>1. Inv => EventsFollowAnnouncements
  BY OpenAndEnded DEF EventsFollowAnnouncements, EventOk
<1> QED
  BY <1>1, Invariant, PTL

\* No iteration leaves a session open that should have been finalized, and no
\* thread ends with one.
THEOREM SessionsAreSettled == Spec => []NothingLingers
<1>1. Inv => NothingLingers
  <2> SUFFICES ASSUME Inv PROVE NothingLingers
    OBVIOUS
  <2>1. thread = "stopped" => Open = {}
    BY DEF Inv, LoopInv, Open
  <2> QED
    BY <2>1, OpenAndEnded DEF NothingLingers
<1> QED
  BY <1>1, Invariant, PTL

\* A table without repetitions holds as many sessions, and as many numbers, as
\* it has places.
Counted(table, I) ==
  /\ IsFiniteSet({table[i].n : i \in I})
  /\ Cardinality({table[i] : i \in I}) = Cardinality(I)
  /\ Cardinality({table[i].n : i \in I}) = Cardinality(I)

\* Distinct numbers make a table as long as its set of places.
LEMMA NumbersOfTable ==
  ASSUME NEW I, IsFiniteSet(I), NEW table, \A i, j \in I : table[i].n = table[j].n => i = j
  PROVE  Counted(table, I)
<1> DEFINE A == {table[i] : i \in I}
           B == {table[i].n : i \in I}
           f == [i \in I |-> table[i]]
           g == [i \in I |-> table[i].n]
<1>1. f \in Bijection(I, A)
  <2>1. f \in [I -> A] /\ \A a \in A : \E i \in I : f[i] = a
    OBVIOUS
  <2>2. \A i, j \in I : f[i] = f[j] => i = j
    OBVIOUS
  <2> HIDE DEF f, A
  <2> QED
    BY <2>1, <2>2, Fun_IsBij
<1>2. g \in Bijection(I, B)
  <2>1. g \in [I -> B] /\ \A b \in B : \E i \in I : g[i] = b
    OBVIOUS
  <2>2. \A i, j \in I : g[i] = g[j] => i = j
    OBVIOUS
  <2> HIDE DEF g, B
  <2> QED
    BY <2>1, <2>2, Fun_IsBij
<1> HIDE DEF A, B, f, g
<1>3. ExistsBijection(I, A) /\ ExistsBijection(I, B)
  BY <1>1, <1>2, Fun_ExistsBij
<1>4. /\ IsFiniteSet(A) /\ Cardinality(A) = Cardinality(I)
      /\ IsFiniteSet(B) /\ Cardinality(B) = Cardinality(I)
  BY <1>3, FS_Bijection
<1> QED
  BY <1>4 DEF A, B, Counted

\* No session is lost and none is reported twice: each is open, or it is one
\* event, through every reset, exception and stop.
THEOREM SessionsEndInOneEvent == Spec => []ExactlyOneEvent
<1>1. Inv => ExactlyOneEvent
  <2> SUFFICES ASSUME Inv PROVE ExactlyOneEvent
    OBVIOUS
  <2> DEFINE A == {sessions[i].n : i \in DOMAIN sessions}
             B == {events[i].n : i \in DOMAIN events}
  <2>1. Numbered(Current) /\ Worker(Current)
    BY DEF Inv, WorkerInv
  <2>2. /\ \A a, b \in DOMAIN sessions : sessions[a].n = sessions[b].n => a = b
        /\ \A i, j \in DOMAIN events : events[i].n = events[j].n => i = j
        /\ \A a \in DOMAIN sessions : \A i \in DOMAIN events : sessions[a].n # events[i].n
    BY <2>1, CurrentParts DEF Numbered
  <2>3. A \cup B = 1..opened
    BY <2>1, CurrentParts DEF Numbered
  <2>4. opened \in Nat /\ events \in Seq(VehicleEvent)
        /\ DOMAIN sessions \subseteq 1..(nextId - 1) /\ nextId - 1 \in Int
    BY <2>1, CurrentParts DEF Worker
  <2>5. IsFiniteSet(DOMAIN sessions)
    BY <2>4, FS_Interval, FS_Subset
  <2>6. IsFiniteSet(DOMAIN events) /\ Cardinality(DOMAIN events) = Len(events)
    <3>1. DOMAIN events = 1..Len(events) /\ Len(events) \in Nat
      BY <2>4
    <3>2. ASSUME NEW n \in Nat PROVE IsFiniteSet(1..n) /\ Cardinality(1..n) = n
      BY FS_Interval
    <3> QED
      BY <3>1, <3>2
  <2>7. IsFiniteSet(A) /\ Cardinality(Open) = Cardinality(A)
    <3>1. Counted(sessions, DOMAIN sessions)
      BY <2>2, <2>5, NumbersOfTable
    <3> QED
      BY <3>1 DEF Counted, Open
  <2>8. IsFiniteSet(B) /\ Cardinality(B) = Len(events)
    <3>1. Counted(events, DOMAIN events)
      BY <2>2, <2>6, NumbersOfTable
    <3> QED
      BY <2>6, <3>1 DEF Counted
  <2>9. A \cap B = {}
    BY <2>2
  <2>10. {s.n : s \in Open \cup Ended} = A \cup B
    BY DEF Open, Ended
  <2> HIDE DEF A, B
  <2>11. Cardinality(A \cup B) = Cardinality(A) + Cardinality(B)
    <3>1. Cardinality(A \cup B) = Cardinality(A) + Cardinality(B) - Cardinality(A \cap B)
      BY <2>7, <2>8, FS_Union
    <3>2. Cardinality(A \cap B) = 0
      BY <2>9, FS_EmptySet
    <3>3. Cardinality(A) \in Nat /\ Cardinality(B) \in Nat
      BY <2>7, <2>8, FS_CardinalityType
    <3> QED
      BY <3>1, <3>2, <3>3
  <2>12. Cardinality(1..opened) = opened
    BY <2>4, FS_Interval
  <2> QED
    BY <2>3, <2>7, <2>8, <2>10, <2>11, <2>12 DEF ExactlyOneEvent
<1> QED
  BY <1>1, Invariant, PTL
(***************************************************************************)
(* EvidenceLifecycle: where files can be unlinked none outlives its row    *)
(* but by a failure, the clean-up takes none of an event that has not      *)
(* expired, and an export that is recorded is whole.                       *)
(***************************************************************************)

\* A name is cleared of an event whose row goes: it has no file, or one that
\* could not be unlinked, or one that it shares.
Cleared(n) == n \in DOMAIN disk => n \in stuck \/ Reused(n)

\* What an event's row names are names of the event, and none before it is
\* saved; what is on disk is named by the event it shows.
NamesInv ==
  /\ \A e \in Events : paths[e] \subseteq NamesOf[e]
  /\ \A e \in Events : stage[e] = "new" => paths[e] = {}
  /\ \A n \in DOMAIN disk : n \in paths[disk[n]]

\* A clean-up unlinks files of expired events only, and those of the rows it
\* has selected are cleared or still to do.
CleanInv ==
  \A k \in Cleaners :
    /\ \A n \in cleaner[k].left : \E e \in expired : n \in paths[e]
    /\ \A e \in cleaner[k].rows :
         /\ stage[e] \in {"stored", "deleted"}
         /\ \A n \in paths[e] : n \in cleaner[k].left \/ Cleared(n)

\* What the rows named that are gone is cleared.
RowsInv == \A e \in Events : stage[e] = "deleted" => \A n \in paths[e] : Cleared(n)

\* Where files can be unlinked, it takes a failure for each that was not.
StuckInv == IsFiniteSet(stuck) /\ (~ReadOnly => Cardinality(stuck) <= faults)

\* What is in a bundle shows its event, if nothing else has its name, and so
\* does its digest, once there is one.
MemberInv(m) ==
  /\ Name(m.event) \in paths[m.event]
  /\ \/ Reused(Name(m.event))
     \/ m.image = m.event /\ m.digest \in {m.event, "pending"}

\* A digest is missing only of the file that was just added.
BundleInv ==
  \A x \in Exports :
    /\ \A m \in bundle[x].members : MemberInv(m)
    /\ export[x].pc = "asked" => bundle[x].members = {}
    /\ export[x].pc \in {"adding", "packed"} => \A m \in bundle[x].members : m.digest # "pending"
    /\ export[x].pc = "added" =>
         \A l, m \in bundle[x].members : l.digest = "pending" /\ m.digest = "pending" => l = m
    /\ export[x].pc = "packed" => bundle[x].closed

\* A record is made of a bundle that nothing touches any more.
RecordInv ==
  \A x \in DOMAIN record :
    /\ export[x].pc = "over" /\ record[x] = bundle[x] /\ bundle[x].closed
    /\ \A m \in bundle[x].members : m.digest # "pending"

EvidenceInv ==
  EvidenceTypeOK /\ NamesInv /\ CleanInv /\ RowsInv /\ StuckInv /\ BundleInv /\ RecordInv
-----------------------------------------------------------------------------
\* An event is saved, whole or in part.
Saves(e, written, recorded) ==
  /\ stage[e] = "new" /\ stage' = [stage EXCEPT ![e] = "saved"]
  /\ written \subseteq recorded /\ recorded \subseteq NamesOf[e]
  /\ disk' = [n \in DOMAIN disk \cup written |-> IF n \in written THEN e ELSE disk[n]]
  /\ paths' = [paths EXCEPT ![e] = recorded]
  /\ UNCHANGED <<expired, stuck, cleaner, exporting>>
  /\ faults' \in 0..MaxFaults

\* The steps of an event, of a clean-up and of an export.
EventStep == \E e \in Events : Save(e) \/ SaveFails(e) \/ Store(e) \/ Age(e)
CleanStep ==
  \E k \in Cleaners :
    \/ Select(k, PlateEvents) \/ Select(k, VehicleEvents)
    \/ \E n \in Names : Unlink(k, n) \/ UnlinkFails(k, n)
    \/ Delete(k) \/ CleanUpDies(k)
ExportStep ==
  \E x \in Exports :
    \/ Find(x) \/ Pack(x) \/ Commit(x) \/ ExportDies(x)
    \/ \E e \in PlateEvents : AddFile(x, e) \/ AddDigest(x, e) \/ FileHasGone(x, e)

\* One more failure is still within the bound.
LEMMA FaultyFacts ==
  ASSUME EvidenceTypeOK, Faulty
  PROVE  faults' \in 0..MaxFaults
<1>1. faults \in 0..MaxFaults /\ MaxFaults \in Nat /\ faults < MaxFaults /\ faults' = faults + 1
  BY EvidenceAssumptions DEF EvidenceTypeOK, Faulty
<1> QED
  BY <1>1

\* Both ways to save are one with fewer or all of the names.
LEMMA SavesFacts ==
  ASSUME EvidenceTypeOK, NEW e \in Events, Save(e) \/ SaveFails(e)
  PROVE  \E written, recorded \in SUBSET NamesOf[e] : Saves(e, written, recorded)
<1>1. CASE Save(e)
  <2>1. Saves(e, NamesOf[e], NamesOf[e])
    BY <1>1 DEF Save, Saves, EvidenceTypeOK
  <2> QED
    BY <2>1
<1>2. CASE SaveFails(e)
  BY <1>2, FaultyFacts DEF SaveFails, Saves
<1> QED
  BY <1>1, <1>2

\* What an event names it names for good, so a name that is shared stays so.
LEMMA SharedStays ==
  ASSUME \A e \in Events : paths[e] \subseteq paths'[e]
  PROVE  \A n : Reused(n) => Reused(n)'
BY DEF Reused

\* The types, through a step of an event.
LEMMA EventTypes ==
  ASSUME EvidenceTypeOK, EventStep
  PROVE  EvidenceTypeOK'
<1>1. ASSUME NEW e \in Events, Save(e) \/ SaveFails(e)
      PROVE  EvidenceTypeOK'
  <2>1. PICK written \in SUBSET NamesOf[e], recorded \in SUBSET NamesOf[e] : Saves(e, written, recorded)
    BY <1>1, SavesFacts
  <2>2. NamesOf[e] \subseteq Names
    BY EvidenceAssumptions
  <2>3. DOMAIN disk' \subseteq Names /\ \A n \in DOMAIN disk' : disk'[n] \in Events
    BY <2>1, <2>2 DEF Saves, EvidenceTypeOK
  <2>4. /\ stage' \in [Events -> {"new", "saved", "stored", "deleted"}]
        /\ paths' \in [Events -> SUBSET Names]
    BY <2>1, <2>2 DEF Saves, EvidenceTypeOK
  <2>5. UNCHANGED <<expired, stuck, cleaner, exporting>> /\ faults' \in 0..MaxFaults
    BY <2>1 DEF Saves
  <2> QED
    BY <2>3, <2>4, <2>5 DEF EvidenceTypeOK, exporting
<1>2. ASSUME NEW e \in Events, Store(e) \/ Age(e)
      PROVE  EvidenceTypeOK'
  <2>1. /\ UNCHANGED <<disk, paths, stuck, cleaner, exporting, faults>>
        /\ stage' \in [Events -> {"new", "saved", "stored", "deleted"}] /\ expired' \subseteq Events
    BY <1>2 DEF Store, Age, EvidenceTypeOK
  <2> QED
    BY <2>1 DEF EvidenceTypeOK, exporting
<1> QED
  BY <1>1, <1>2 DEF EventStep

\* The types, through a step of a clean-up.
LEMMA CleanTypes ==
  ASSUME EvidenceTypeOK, CleanStep
  PROVE  EvidenceTypeOK'
<1> DEFINE CleanerType == [busy : BOOLEAN, rows : SUBSET Events, left : SUBSET Names]
<1>0. cleaner \in [Cleaners -> CleanerType] /\ Rested \in CleanerType
  BY DEF EvidenceTypeOK, Rested
<1>1. ASSUME NEW k \in Cleaners, NEW table \in {PlateEvents, VehicleEvents}, Select(k, table)
      PROVE  EvidenceTypeOK'
  <2>1. Selected(table) \in SUBSET Events /\ UNION {paths[e] : e \in Selected(table)} \in SUBSET Names
    BY DEF Selected, Events, EvidenceTypeOK
  <2>2. [busy |-> TRUE, rows |-> Selected(table), left |-> UNION {paths[e] : e \in Selected(table)}] \in CleanerType
    BY <2>1
  <2>3. cleaner' \in [Cleaners -> CleanerType] /\ UNCHANGED <<evidence, stuck, exporting, faults>>
    BY <1>0, <1>1, <2>2 DEF Select
  <2> QED
    BY <2>3 DEF EvidenceTypeOK, evidence, exporting
<1>2. ASSUME NEW k \in Cleaners, NEW n \in Names, Unlink(k, n) \/ UnlinkFails(k, n)
      PROVE  EvidenceTypeOK'
  <2>1. cleaner[k] \in CleanerType /\ cleaner[k].left \ {n} \in SUBSET Names
    BY <1>0
  <2>2. [cleaner[k] EXCEPT !.left = @ \ {n}] \in CleanerType
    BY <2>1
  <2>3. cleaner' = [cleaner EXCEPT ![k] = [cleaner[k] EXCEPT !.left = @ \ {n}]]
    BY <1>2 DEF Unlink, UnlinkFails
  <2>4. cleaner' \in [Cleaners -> CleanerType]
    BY <1>0, <2>2, <2>3
  <2>5. CASE Unlink(k, n)
    <3>1. disk' = [m \in DOMAIN disk \ {n} |-> disk[m]] /\ UNCHANGED <<stage, paths, expired, stuck, exporting, faults>>
      BY <2>5 DEF Unlink
    <3> QED
      BY <2>4, <3>1 DEF EvidenceTypeOK, exporting
  <2>6. CASE UnlinkFails(k, n)
    <3>1. /\ UNCHANGED <<evidence, exporting>> /\ stuck' = stuck \cup {n}
          /\ IF ReadOnly THEN UNCHANGED faults ELSE Faulty
      BY <2>6 DEF UnlinkFails
    <3>2. faults' \in 0..MaxFaults
      BY <3>1, FaultyFacts DEF EvidenceTypeOK
    <3> QED
      BY <2>4, <3>1, <3>2 DEF EvidenceTypeOK, evidence, exporting
  <2> QED
    BY <1>2, <2>5, <2>6
<1>3. ASSUME NEW k \in Cleaners, Delete(k) \/ CleanUpDies(k)
      PROVE  EvidenceTypeOK'
  <2>1. cleaner' \in [Cleaners -> CleanerType]
    BY <1>0, <1>3 DEF Delete, CleanUpDies
  <2>2. UNCHANGED <<disk, paths, expired, stuck, exporting>>
    BY <1>3 DEF Delete, CleanUpDies, evidence
  <2>3. stage' \in [Events -> {"new", "saved", "stored", "deleted"}]
    BY <1>3 DEF Delete, CleanUpDies, evidence, EvidenceTypeOK
  <2>4. faults' \in 0..MaxFaults
    BY <1>3, FaultyFacts DEF Delete, CleanUpDies, EvidenceTypeOK
  <2> QED
    BY <2>1, <2>2, <2>3, <2>4 DEF EvidenceTypeOK, exporting
<1> QED
  BY <1>1, <1>2, <1>3 DEF CleanStep
\* The one name of a read.
LEMMA NameFacts ==
  ASSUME NEW e \in PlateEvents
  PROVE  e \in Events /\ Name(e) \in Names /\ NamesOf[e] = {Name(e)}
<1>1. PICK n \in Names : NamesOf[e] = {n}
  BY EvidenceAssumptions
<1>2. Name(e) = n
  BY <1>1 DEF Name
<1> QED
  BY <1>1, <1>2 DEF Events

ExportType == [pc : {"asked", "adding", "added", "packed", "over"}, todo : SUBSET PlateEvents]

\* What a step of export x leaves: the other exports, and all but exports.
OtherExports(x) ==
  /\ export' \in [Exports -> ExportType]
  /\ bundle' \in [Exports -> Bundles]
  /\ \A y \in Exports \ {x} : export'[y] = export[y] /\ bundle'[y] = bundle[y]
  /\ UNCHANGED <<evidence, stuck, cleaner>>
  /\ faults' \in 0..MaxFaults

\* Moving an export on, with or without an event done.
LEMMA GotoFacts ==
  ASSUME EvidenceTypeOK, NEW x \in Exports
  PROVE  /\ \A k \in {"asked", "adding", "added", "packed", "over"} :
              Goto(x, k) => /\ export' \in [Exports -> ExportType] /\ export'[x].pc = k
                            /\ \A y \in Exports \ {x} : export'[y] = export[y]
         /\ \A e : Done(x, e) => /\ export' \in [Exports -> ExportType] /\ export'[x].pc = "adding"
                                 /\ \A y \in Exports \ {x} : export'[y] = export[y]
<1>1. export \in [Exports -> ExportType] /\ export[x] \in ExportType
  BY DEF EvidenceTypeOK, ExportType
<1>2. ASSUME NEW k \in {"asked", "adding", "added", "packed", "over"}, Goto(x, k)
      PROVE  /\ export' \in [Exports -> ExportType] /\ export'[x].pc = k
             /\ \A y \in Exports \ {x} : export'[y] = export[y]
  <2>1. [export[x] EXCEPT !.pc = k] \in ExportType /\ [export[x] EXCEPT !.pc = k].pc = k
    BY <1>1 DEF ExportType
  <2>2. export' = [export EXCEPT ![x] = [export[x] EXCEPT !.pc = k]]
    BY <1>2 DEF Goto
  <2> QED
    BY <1>1, <2>1, <2>2
<1>3. ASSUME NEW e, Done(x, e)
      PROVE  /\ export' \in [Exports -> ExportType] /\ export'[x].pc = "adding"
             /\ \A y \in Exports \ {x} : export'[y] = export[y]
  <2> DEFINE r == [export[x] EXCEPT !.pc = "adding", !.todo = @ \ {e}]
  <2>1. r \in ExportType /\ r.pc = "adding"
    BY <1>1 DEF ExportType
  <2>2. export' = [export EXCEPT ![x] = r]
    BY <1>3 DEF Done
  <2> HIDE DEF r
  <2> QED
    BY <1>1, <2>1, <2>2
<1> QED
  BY <1>2, <1>3

\* Bundles with other members, or closed, are bundles.
LEMMA BundleFacts ==
  ASSUME EvidenceTypeOK, NEW x \in Exports, NEW S \in SUBSET Members
  PROVE  /\ [bundle EXCEPT ![x].members = S] \in [Exports -> Bundles]
         /\ [bundle EXCEPT ![x].members = S][x].members = S
         /\ [bundle EXCEPT ![x].closed = TRUE] \in [Exports -> Bundles]
         /\ [bundle EXCEPT ![x].closed = TRUE][x].members = bundle[x].members
         /\ [bundle EXCEPT ![x].closed = TRUE][x].closed = TRUE
         /\ \A y \in Exports \ {x} : /\ [bundle EXCEPT ![x].members = S][y] = bundle[y]
                                     /\ [bundle EXCEPT ![x].closed = TRUE][y] = bundle[y]
<1>1. bundle \in [Exports -> Bundles] /\ bundle[x] \in Bundles
  BY DEF EvidenceTypeOK
<1>2. /\ [bundle[x] EXCEPT !.members = S] \in Bundles /\ [bundle[x] EXCEPT !.members = S].members = S
      /\ [bundle[x] EXCEPT !.closed = TRUE] \in Bundles
  BY <1>1 DEF Bundles
<1>3. /\ [bundle[x] EXCEPT !.closed = TRUE].members = bundle[x].members
      /\ [bundle[x] EXCEPT !.closed = TRUE].closed = TRUE
  BY <1>1 DEF Bundles
<1> QED
  BY <1>1, <1>2, <1>3

\* A file that is added is a new member, yet without a digest.
LEMMA AddFileFacts ==
  ASSUME EvidenceTypeOK, NEW x \in Exports, NEW e \in PlateEvents, AddFile(x, e)
  PROVE  /\ OtherExports(x) /\ record' = record /\ bundle'[x].closed = bundle[x].closed
         /\ export[x].pc = "adding"
         /\ \/ /\ export'[x].pc = "added" /\ Name(e) \in DOMAIN disk /\ paths[e] # {}
               /\ bundle'[x].members = bundle[x].members \cup
                    {[path |-> ArcOf[Name(e)], event |-> e, image |-> disk[Name(e)], digest |-> "pending"]}
            \/ export'[x].pc = "adding" /\ bundle'[x].members = bundle[x].members
<1> DEFINE m == [path |-> ArcOf[Name(e)], event |-> e, image |-> disk[Name(e)], digest |-> "pending"]
           S == bundle[x].members \cup {m}
<1>1. bundle \in [Exports -> Bundles] /\ bundle[x].members \subseteq Members
  BY DEF EvidenceTypeOK, Bundles
<1>2. CASE paths[e] # {} /\ Name(e) \in DOMAIN disk
  <2>1. m \in Members
    <3>1. Name(e) \in Names /\ disk[Name(e)] \in Events
      BY <1>2, NameFacts DEF EvidenceTypeOK
    <3> QED
      BY <3>1 DEF Members
  <2>2. S \in SUBSET Members
    BY <1>1, <2>1
  <2>3. bundle' = [bundle EXCEPT ![x].members = S] /\ Goto(x, "added")
    BY <1>2 DEF AddFile
  <2>4. /\ UNCHANGED <<evidence, stuck, cleaner, record, faults>>
        /\ export[x].pc = "adding" /\ faults' \in 0..MaxFaults
    BY DEF AddFile, EvidenceTypeOK
  <2>5. bundle'[x].closed = bundle[x].closed
    BY <1>1, <2>3
  <2> HIDE DEF S
  <2>6. /\ bundle' \in [Exports -> Bundles] /\ bundle'[x].members = S
        /\ \A y \in Exports \ {x} : bundle'[y] = bundle[y]
    BY <2>2, <2>3, BundleFacts
  <2>7. OtherExports(x) /\ export'[x].pc = "added"
    BY <2>3, <2>4, <2>6, GotoFacts DEF OtherExports, ExportType
  <2> QED
    BY <1>2, <2>4, <2>5, <2>6, <2>7 DEF S
<1>3. CASE ~(paths[e] # {} /\ Name(e) \in DOMAIN disk)
  <2>1. /\ Done(x, e) /\ UNCHANGED <<bundle, evidence, stuck, cleaner, record, faults>>
        /\ export[x].pc = "adding" /\ faults' \in 0..MaxFaults
    BY <1>3 DEF AddFile, EvidenceTypeOK
  <2> QED
    BY <1>1, <2>1, GotoFacts DEF OtherExports, ExportType
<1> QED
  BY <1>2, <1>3

\* The member that has no digest is replaced by one that has.
LEMMA AddDigestFacts ==
  ASSUME EvidenceTypeOK, NEW x \in Exports, NEW e \in PlateEvents, AddDigest(x, e)
  PROVE  /\ OtherExports(x) /\ record' = record /\ bundle'[x].closed = bundle[x].closed
         /\ export[x].pc = "added" /\ export'[x].pc = "adding" /\ Name(e) \in DOMAIN disk
         /\ \E m \in bundle[x].members :
              /\ m.event = e /\ m.digest = "pending"
              /\ bundle'[x].members = (bundle[x].members \ {m}) \cup
                   {[path |-> m.path, event |-> e, image |-> m.image, digest |-> disk[Name(e)]]}
<1>1. bundle \in [Exports -> Bundles] /\ bundle[x].members \subseteq Members
  BY DEF EvidenceTypeOK, Bundles
<1>2. PICK m \in bundle[x].members :
        /\ m.event = e /\ m.digest = "pending" /\ Name(e) \in DOMAIN disk
        /\ bundle' = [bundle EXCEPT ![x].members = (@ \ {m}) \cup {[m EXCEPT !.digest = disk[Name(e)]]}]
  BY DEF AddDigest
<1> DEFINE r == [path |-> m.path, event |-> e, image |-> m.image, digest |-> disk[Name(e)]]
           S == (bundle[x].members \ {m}) \cup {r}
<1>3. m \in Members /\ disk[Name(e)] \in Events
  BY <1>1, <1>2 DEF EvidenceTypeOK
<1>4. [m EXCEPT !.digest = disk[Name(e)]] = r /\ r \in Members
  BY <1>2, <1>3 DEF Members
<1>5. S \in SUBSET Members /\ bundle' = [bundle EXCEPT ![x].members = S]
  BY <1>1, <1>2, <1>4
<1>6. bundle'[x].closed = bundle[x].closed
  BY <1>1, <1>5
<1>7. /\ Done(x, e) /\ UNCHANGED <<evidence, stuck, cleaner, record, faults>>
      /\ export[x].pc = "added" /\ faults' \in 0..MaxFaults
  BY DEF AddDigest, EvidenceTypeOK
<1> HIDE DEF S
<1>8. /\ bundle' \in [Exports -> Bundles] /\ bundle'[x].members = S
      /\ \A y \in Exports \ {x} : bundle'[y] = bundle[y]
  BY <1>5, BundleFacts
<1>9. OtherExports(x) /\ export'[x].pc = "adding"
  BY <1>7, <1>8, GotoFacts DEF OtherExports, ExportType
<1> QED
  BY <1>2, <1>6, <1>7, <1>8, <1>9 DEF S

\* The other steps of an export change no member.
LEMMA MoveFacts ==
  ASSUME EvidenceTypeOK, NEW x \in Exports,
         \/ Find(x) \/ Pack(x) \/ Commit(x) \/ ExportDies(x)
         \/ \E e \in PlateEvents : FileHasGone(x, e)
  PROVE  /\ OtherExports(x) /\ bundle'[x].members = bundle[x].members
         /\ export[x].pc # "over" /\ export'[x].pc # "added"
         /\ export'[x].pc \in {"asked", "adding", "packed"} =>
              export[x].pc \in {"asked", "adding"} /\ export'[x].pc # "asked"
         /\ export'[x].pc = "packed" => bundle'[x].closed
         /\ \/ record' = record
            \/ Commit(x) /\ export[x].pc = "packed" /\ export'[x].pc = "over" /\ bundle' = bundle
<1>1. bundle \in [Exports -> Bundles] /\ export \in [Exports -> ExportType] /\ faults \in 0..MaxFaults
  BY DEF EvidenceTypeOK, ExportType
<1>2. CASE Find(x)
  <2>1. PICK found \in SUBSET {e \in PlateEvents : stage[e] = "stored"} :
          export' = [export EXCEPT ![x] = [pc |-> "adding", todo |-> found]]
    BY <1>2 DEF Find
  <2>2. [pc |-> "adding", todo |-> found] \in ExportType
    BY DEF ExportType
  <2>3. /\ export' \in [Exports -> ExportType] /\ export'[x].pc = "adding"
        /\ \A y \in Exports \ {x} : export'[y] = export[y]
    BY <1>1, <2>1, <2>2
  <2>4. export[x].pc = "asked" /\ UNCHANGED <<evidence, stuck, cleaner, bundle, record, faults>>
    BY <1>2 DEF Find
  <2> QED
    BY <1>1, <2>3, <2>4 DEF OtherExports, ExportType
<1>3. CASE Pack(x)
  <2>1. /\ export[x].pc = "adding" /\ Goto(x, "packed") /\ bundle' = [bundle EXCEPT ![x].closed = TRUE]
        /\ UNCHANGED <<evidence, stuck, cleaner, record, faults>>
    BY <1>3 DEF Pack
  <2>2. /\ bundle' \in [Exports -> Bundles]
        /\ bundle'[x].members = bundle[x].members /\ bundle'[x].closed = TRUE
        /\ \A y \in Exports \ {x} : bundle'[y] = bundle[y]
    BY <2>1, BundleFacts
  <2>3. bundle'[x].members = bundle[x].members /\ bundle'[x].closed
    BY <2>2
  <2>4. OtherExports(x) /\ export'[x].pc = "packed"
    BY <1>1, <2>1, <2>2, GotoFacts DEF OtherExports, ExportType
  <2> QED
    BY <2>1, <2>3, <2>4
<1>4. CASE Commit(x)
  <2>1. /\ export[x].pc = "packed" /\ Goto(x, "over")
        /\ UNCHANGED <<evidence, stuck, cleaner, bundle, faults>>
    BY <1>4 DEF Commit
  <2>2. OtherExports(x) /\ export'[x].pc = "over"
    BY <1>1, <2>1, GotoFacts DEF OtherExports, ExportType
  <2> QED
    BY <1>4, <2>1, <2>2
<1>5. CASE ExportDies(x) \/ \E e \in PlateEvents : FileHasGone(x, e)
  <2>1. /\ export[x].pc \in {"adding", "added", "packed"} /\ Goto(x, "over")
        /\ UNCHANGED <<evidence, stuck, cleaner, bundle, record>>
    BY <1>5 DEF ExportDies, FileHasGone
  <2>2. faults' \in 0..MaxFaults
    BY <1>1, <1>5, FaultyFacts DEF ExportDies, FileHasGone
  <2>3. OtherExports(x) /\ export'[x].pc = "over"
    BY <1>1, <2>1, <2>2, GotoFacts DEF OtherExports, ExportType
  <2> QED
    BY <2>1, <2>3
<1> QED
  BY <1>2, <1>3, <1>4, <1>5
-----------------------------------------------------------------------------
\* What every step does to names and rows: names are only added, and with them
\* what is shared.
LEMMA PathsGrow ==
  ASSUME EvidenceTypeOK, NamesInv, EvidenceNext \/ UNCHANGED evidenceVars
  PROVE  /\ \A e \in Events : paths[e] \subseteq paths'[e]
         /\ \A n : Reused(n) => Reused(n)'
<1>1. \A e \in Events : paths[e] \subseteq paths'[e]
  <2>1. ASSUME NEW e \in Events, Save(e) \/ SaveFails(e)
        PROVE  \A d \in Events : paths[d] \subseteq paths'[d]
    <3>1. PICK written \in SUBSET NamesOf[e], recorded \in SUBSET NamesOf[e] : Saves(e, written, recorded)
      BY <2>1, SavesFacts
    <3>2. paths[e] = {} /\ \A d \in Events \ {e} : paths'[d] = paths[d]
      BY <3>1 DEF NamesInv, Saves, EvidenceTypeOK
    <3> QED
      BY <3>2
  <2>2. CASE \/ \E e \in Events : Store(e) \/ Age(e)
             \/ CleanStep \/ UNCHANGED evidenceVars
    BY <2>2 DEF CleanStep, Store, Age, Select, Unlink, UnlinkFails, Delete, CleanUpDies, evidence, evidenceVars
  <2>3. CASE ExportStep
    BY <2>3 DEF ExportStep, Find, Pack, Commit, ExportDies, AddFile, AddDigest, FileHasGone, evidence
  <2> QED
    BY <2>1, <2>2, <2>3 DEF EvidenceNext, CleanStep, ExportStep
<1> QED
  BY <1>1, SharedStays

\* The names of an event stay its names, and a file shows the event it was
\* saved for.
LEMMA NamesKept ==
  ASSUME EvidenceTypeOK, NamesInv, EvidenceNext \/ UNCHANGED evidenceVars
  PROVE  NamesInv'
<1>1. ASSUME NEW e \in Events, Save(e) \/ SaveFails(e)
      PROVE  NamesInv'
  <2>1. PICK written \in SUBSET NamesOf[e], recorded \in SUBSET NamesOf[e] : Saves(e, written, recorded)
    BY <1>1, SavesFacts
  <2>2. /\ paths[e] = {} /\ paths'[e] = recorded /\ \A d \in Events \ {e} : paths'[d] = paths[d]
        /\ stage'[e] = "saved" /\ \A d \in Events \ {e} : stage'[d] = stage[d]
    BY <2>1 DEF NamesInv, Saves, EvidenceTypeOK
  <2>3. ASSUME NEW n \in DOMAIN disk'
        PROVE  n \in paths'[disk'[n]]
    <3>1. CASE n \in written
      BY <2>1, <2>2, <3>1 DEF Saves
    <3>2. CASE n \notin written
      <4>1. n \in DOMAIN disk /\ disk'[n] = disk[n] /\ disk[n] \in Events /\ n \in paths[disk[n]]
        BY <2>1, <2>3, <3>2 DEF Saves, EvidenceTypeOK, NamesInv
      <4> QED
        BY <2>2, <4>1
    <3> QED
      BY <3>1, <3>2
  <2> QED
    BY <2>2, <2>3 DEF NamesInv
<1>2. ASSUME UNCHANGED paths, DOMAIN disk' \subseteq DOMAIN disk, \A n \in DOMAIN disk' : disk'[n] = disk[n],
             \A e \in Events : stage'[e] = "new" => stage[e] = "new"
      PROVE  NamesInv'
  BY <1>2 DEF NamesInv
<1>3. ASSUME NEW e \in Events, Store(e) \/ Age(e)
      PROVE  NamesInv'
  <2>1. UNCHANGED <<paths, disk>> /\ \A d \in Events : stage'[d] = "new" => stage[d] = "new"
    BY <1>3 DEF Store, Age, EvidenceTypeOK
  <2> QED
    BY <1>2, <2>1
<1>4. CASE CleanStep
  <2>1. UNCHANGED paths /\ DOMAIN disk' \subseteq DOMAIN disk /\ \A n \in DOMAIN disk' : disk'[n] = disk[n]
    BY <1>4 DEF CleanStep, Select, Unlink, UnlinkFails, Delete, CleanUpDies, evidence
  <2>2. \A e \in Events : stage'[e] = "new" => stage[e] = "new"
    BY <1>4 DEF CleanStep, Select, Unlink, UnlinkFails, Delete, CleanUpDies, evidence
  <2> QED
    BY <1>2, <2>1, <2>2
<1>5. CASE ExportStep \/ UNCHANGED evidenceVars
  <2>1. UNCHANGED <<disk, stage, paths>>
    BY <1>5 DEF ExportStep, Find, Pack, Commit, ExportDies, AddFile, AddDigest, FileHasGone, evidence, evidenceVars
  <2> QED
    BY <1>2, <2>1
<1> QED
  BY <1>1, <1>3, <1>4, <1>5 DEF EvidenceNext, CleanStep, ExportStep

\* What was cleared stays so: a name gets a file again only with an event that
\* shares it.
LEMMA ClearedStays ==
  ASSUME EvidenceTypeOK, NamesInv, EvidenceNext \/ UNCHANGED evidenceVars,
         NEW e \in Events, stage[e] # "new", NEW n \in paths[e], Cleared(n)
  PROVE  Cleared(n)'
<1>0. stuck \subseteq stuck' /\ (Reused(n) => Reused(n)')
  <2>1. stuck \subseteq stuck'
    <3>1. CASE \E d \in Events : Save(d) \/ SaveFails(d) \/ Store(d) \/ Age(d)
      BY <3>1 DEF Save, SaveFails, Store, Age
    <3>2. CASE CleanStep
      BY <3>2 DEF CleanStep, Select, Unlink, UnlinkFails, Delete, CleanUpDies
    <3>3. CASE ExportStep \/ UNCHANGED evidenceVars
      BY <3>3 DEF ExportStep, Find, Pack, Commit, ExportDies, AddFile, AddDigest, FileHasGone, evidenceVars
    <3> QED
      BY <3>1, <3>2, <3>3 DEF EvidenceNext, CleanStep, ExportStep
  <2> QED
    BY <2>1, PathsGrow
<1>1. ASSUME NEW d \in Events, Save(d) \/ SaveFails(d)
      PROVE  Cleared(n)'
  <2>1. PICK written \in SUBSET NamesOf[d], recorded \in SUBSET NamesOf[d] : Saves(d, written, recorded)
    BY <1>1, SavesFacts
  <2>2. d # e /\ stage[d] = "new"
    BY <2>1 DEF Saves
  <2>3. paths'[e] = paths[e] /\ paths'[d] = recorded
    BY <2>1, <2>2 DEF Saves, EvidenceTypeOK
  <2>4. CASE n \in written
    <3>1. n \in paths'[d] \cap paths'[e]
      BY <2>1, <2>3, <2>4 DEF Saves
    <3> QED
      BY <2>2, <3>1 DEF Cleared, Reused
  <2>5. CASE n \notin written
    <3>1. n \in DOMAIN disk' => n \in DOMAIN disk
      BY <2>1, <2>5 DEF Saves
    <3> QED
      BY <1>0, <3>1 DEF Cleared
  <2> QED
    BY <2>4, <2>5
<1>2. CASE \/ \E d \in Events : Store(d) \/ Age(d)
           \/ CleanStep \/ ExportStep \/ UNCHANGED evidenceVars
  <2>1. DOMAIN disk' \subseteq DOMAIN disk
    <3>1. CASE CleanStep
      BY <3>1 DEF CleanStep, Select, Unlink, UnlinkFails, Delete, CleanUpDies, evidence
    <3>2. CASE ExportStep
      BY <3>2 DEF ExportStep, Find, Pack, Commit, ExportDies, AddFile, AddDigest, FileHasGone, evidence
    <3>3. CASE (\E d \in Events : Store(d) \/ Age(d)) \/ UNCHANGED evidenceVars
      BY <3>3 DEF Store, Age, evidenceVars
    <3> QED
      BY <1>2, <3>1, <3>2, <3>3
  <2> QED
    BY <1>0, <2>1 DEF Cleared
<1> QED
  BY <1>1, <1>2 DEF EvidenceNext, CleanStep, ExportStep
\* A clean-up clears what it has to do, one name after the other, of rows that
\* no consumer writes again.
LEMMA CleanKept ==
  ASSUME EvidenceTypeOK, NamesInv, CleanInv, EvidenceNext \/ UNCHANGED evidenceVars
  PROVE  CleanInv'
<1>0. /\ \A e \in Events : paths[e] \subseteq paths'[e]
      /\ \A e \in Events, n \in Names : n \in paths[e] /\ stage[e] # "new" /\ Cleared(n) => Cleared(n)'
  BY PathsGrow, ClearedStays
<1>1. ASSUME NEW e \in Events, stage[e] # "new"
      PROVE  paths'[e] = paths[e]
  <2>1. CASE \E d \in Events : Save(d) \/ SaveFails(d)
    <3>1. PICK d \in Events : Save(d) \/ SaveFails(d)
      BY <2>1
    <3>2. PICK written \in SUBSET NamesOf[d], recorded \in SUBSET NamesOf[d] : Saves(d, written, recorded)
      BY <3>1, SavesFacts
    <3> QED
      BY <1>1, <3>2 DEF Saves, EvidenceTypeOK
  <2>2. CASE \/ \E d \in Events : Store(d) \/ Age(d)
             \/ CleanStep \/ UNCHANGED evidenceVars
    BY <2>2 DEF CleanStep, Store, Age, Select, Unlink, UnlinkFails, Delete, CleanUpDies, evidence, evidenceVars
  <2>3. CASE ExportStep
    BY <2>3 DEF ExportStep, Find, Pack, Commit, ExportDies, AddFile, AddDigest, FileHasGone, evidence
  <2> QED
    BY <2>1, <2>2, <2>3 DEF EvidenceNext, CleanStep, ExportStep
<1>2. /\ \A e \in Events : stage[e] \in {"stored", "deleted"} => stage'[e] \in {"stored", "deleted"}
      /\ expired \subseteq expired'
  <2>1. CASE \E d \in Events : Save(d) \/ SaveFails(d) \/ Store(d) \/ Age(d)
    BY <2>1 DEF Save, SaveFails, Store, Age, EvidenceTypeOK
  <2>2. CASE CleanStep
    BY <2>2 DEF CleanStep, Select, Unlink, UnlinkFails, Delete, CleanUpDies, evidence
  <2>3. CASE ExportStep \/ UNCHANGED evidenceVars
    BY <2>3 DEF ExportStep, Find, Pack, Commit, ExportDies, AddFile, AddDigest, FileHasGone, evidence, evidenceVars
  <2> QED
    BY <2>1, <2>2, <2>3 DEF EvidenceNext, CleanStep, ExportStep
\* a clean-up that goes on as it was
<1>3. ASSUME NEW k \in Cleaners, cleaner'[k] = cleaner[k]
      PROVE  /\ \A n \in cleaner'[k].left : \E e \in expired' : n \in paths'[e]
             /\ \A e \in cleaner'[k].rows :
                  /\ stage'[e] \in {"stored", "deleted"}
                  /\ \A n \in paths'[e] : n \in cleaner'[k].left \/ Cleared(n)'
  <2>1. ASSUME NEW n \in cleaner[k].left
        PROVE  \E e \in expired' : n \in paths'[e]
    <3>1. PICK e \in expired : n \in paths[e]
      BY DEF CleanInv
    <3>2. e \in Events
      BY DEF EvidenceTypeOK
    <3> QED
      BY <1>0, <1>2, <3>1, <3>2
  <2>2. ASSUME NEW e \in cleaner[k].rows
        PROVE  /\ stage'[e] \in {"stored", "deleted"}
               /\ \A n \in paths'[e] : n \in cleaner[k].left \/ Cleared(n)'
    <3>1. e \in Events /\ paths[e] \subseteq Names
      BY DEF EvidenceTypeOK
    <3>2. stage[e] \in {"stored", "deleted"} /\ \A n \in paths[e] : n \in cleaner[k].left \/ Cleared(n)
      BY DEF CleanInv
    <3>3. stage[e] # "new"
      BY <3>2
    <3> QED
      BY <1>0, <1>1, <1>2, <3>1, <3>2, <3>3
  <2> QED
    BY <1>3, <2>1, <2>2
<1>4. ASSUME UNCHANGED cleaner
      PROVE  CleanInv'
  BY <1>3, <1>4 DEF CleanInv
\* one that moves, the others do not
<1>5. ASSUME NEW k \in Cleaners, \A j \in Cleaners \ {k} : cleaner'[j] = cleaner[j],
             \A n \in cleaner'[k].left : \E e \in expired' : n \in paths'[e],
             \A e \in cleaner'[k].rows :
               /\ stage'[e] \in {"stored", "deleted"}
               /\ \A n \in paths'[e] : n \in cleaner'[k].left \/ Cleared(n)'
      PROVE  CleanInv'
  <2>1. ASSUME NEW j \in Cleaners
        PROVE  /\ \A n \in cleaner'[j].left : \E e \in expired' : n \in paths'[e]
               /\ \A e \in cleaner'[j].rows :
                    /\ stage'[e] \in {"stored", "deleted"}
                    /\ \A n \in paths'[e] : n \in cleaner'[j].left \/ Cleared(n)'
    <3>1. CASE j = k
      BY <1>5, <3>1
    <3>2. CASE j # k
      BY <1>3, <1>5, <3>2
    <3> QED
      BY <3>1, <3>2
  <2> QED
    BY <2>1 DEF CleanInv
<1>6. ASSUME NEW k \in Cleaners, NEW table \in {PlateEvents, VehicleEvents}, Select(k, table)
      PROVE  CleanInv'
  <2>1. /\ UNCHANGED <<disk, stage, paths, expired, stuck>>
        /\ cleaner'[k].rows = Selected(table)
        /\ cleaner'[k].left = UNION {paths[e] : e \in Selected(table)}
        /\ \A j \in Cleaners \ {k} : cleaner'[j] = cleaner[j]
    BY <1>6 DEF Select, evidence, EvidenceTypeOK
  <2>2. \A e \in Selected(table) : stage[e] = "stored" /\ e \in expired
    BY DEF Selected
  <2>3. \A n \in cleaner'[k].left : \E e \in expired' : n \in paths'[e]
    BY <2>1, <2>2
  <2>4. \A e \in cleaner'[k].rows : \A n \in paths'[e] : n \in cleaner'[k].left
    BY <2>1
  <2>5. \A e \in cleaner'[k].rows : stage'[e] = "stored"
    BY <2>1, <2>2
  <2> QED
    BY <1>5, <2>1, <2>3, <2>4, <2>5
<1>7. ASSUME NEW k \in Cleaners, NEW n \in Names, Unlink(k, n) \/ UnlinkFails(k, n)
      PROVE  CleanInv'
  <2>1. /\ UNCHANGED <<stage, paths, expired>>
        /\ cleaner'[k].rows = cleaner[k].rows /\ cleaner'[k].left = cleaner[k].left \ {n}
        /\ \A j \in Cleaners \ {k} : cleaner'[j] = cleaner[j]
    BY <1>7 DEF Unlink, UnlinkFails, evidence, EvidenceTypeOK
  <2>2. Cleared(n)'
    BY <1>7 DEF Unlink, UnlinkFails, Cleared
  <2>3. \A m \in cleaner[k].left : \E e \in expired : m \in paths[e]
    BY DEF CleanInv
  <2>4. \A m \in cleaner'[k].left : \E e \in expired' : m \in paths'[e]
    BY <2>1, <2>3
  <2>5. ASSUME NEW e \in cleaner[k].rows
        PROVE  /\ stage'[e] \in {"stored", "deleted"}
               /\ \A m \in paths'[e] : m \in cleaner'[k].left \/ Cleared(m)'
    <3>1. e \in Events /\ paths[e] \subseteq Names
      BY DEF EvidenceTypeOK
    <3>2. stage[e] \in {"stored", "deleted"} /\ \A m \in paths[e] : m \in cleaner[k].left \/ Cleared(m)
      BY DEF CleanInv
    <3>3. stage[e] # "new"
      BY <3>2
    <3>4. \A m \in paths[e] : m \in cleaner'[k].left \/ m = n \/ Cleared(m)
      BY <2>1, <3>2
    <3>5. \A m \in paths[e] : m \in cleaner'[k].left \/ Cleared(m)'
      BY <1>0, <2>2, <3>1, <3>3, <3>4
    <3> QED
      BY <2>1, <3>2, <3>5
  <2> QED
    BY <1>5, <2>1, <2>4, <2>5
<1>8. ASSUME NEW k \in Cleaners, Delete(k) \/ CleanUpDies(k)
      PROVE  CleanInv'
  <2>1. /\ cleaner'[k].rows = {} /\ cleaner'[k].left = {}
        /\ \A j \in Cleaners \ {k} : cleaner'[j] = cleaner[j]
    BY <1>8 DEF Delete, CleanUpDies, Rested, EvidenceTypeOK
  <2> QED
    BY <1>5, <2>1
<1>9. CASE EventStep \/ ExportStep \/ UNCHANGED evidenceVars
  <2>1. UNCHANGED cleaner
    <3>1. CASE EventStep
      BY <3>1 DEF EventStep, Save, SaveFails, Store, Age
    <3>2. CASE ExportStep \/ UNCHANGED evidenceVars
      BY <3>2 DEF ExportStep, Find, Pack, Commit, ExportDies, AddFile, AddDigest, FileHasGone, evidenceVars
    <3> QED
      BY <1>9, <3>1, <3>2
  <2> QED
    BY <1>4, <2>1
<1> QED
  BY <1>6, <1>7, <1>8, <1>9 DEF EvidenceNext, EventStep, ExportStep

\* The rows that go are those of a clean-up that has nothing left to do.
LEMMA RowsKept ==
  ASSUME EvidenceTypeOK, NamesInv, CleanInv, RowsInv, EvidenceNext \/ UNCHANGED evidenceVars
  PROVE  RowsInv'
<1> SUFFICES ASSUME NEW e \in Events, stage'[e] = "deleted", NEW n \in paths'[e]
             PROVE  Cleared(n)'
  BY DEF RowsInv
<1>0. ASSUME paths'[e] = paths[e], stage[e] # "new", Cleared(n)
      PROVE  Cleared(n)'
  BY <1>0, ClearedStays
<1>1. CASE \E d \in Events : Save(d) \/ SaveFails(d)
  <2>1. PICK d \in Events : Save(d) \/ SaveFails(d)
    BY <1>1
  <2>2. PICK written \in SUBSET NamesOf[d], recorded \in SUBSET NamesOf[d] : Saves(d, written, recorded)
    BY <2>1, SavesFacts
  <2>3. d # e /\ paths'[e] = paths[e] /\ stage[e] = "deleted"
    BY <2>2 DEF Saves, EvidenceTypeOK
  <2> QED
    BY <1>0, <2>3 DEF RowsInv
<1>2. CASE \E k \in Cleaners : Delete(k)
  <2>1. PICK k \in Cleaners : Delete(k)
    BY <1>2
  <2>2. paths' = paths /\ cleaner[k].left = {} /\ (e \in cleaner[k].rows \/ stage[e] = "deleted")
    BY <2>1 DEF Delete
  <2>3. stage[e] # "new" /\ Cleared(n)
    <3>1. CASE e \in cleaner[k].rows
      BY <2>2, <3>1 DEF CleanInv
    <3>2. CASE stage[e] = "deleted"
      BY <2>2, <3>2 DEF RowsInv
    <3> QED
      BY <2>2, <3>1, <3>2
  <2> QED
    BY <1>0, <2>2, <2>3
<1>3. ASSUME paths' = paths, stage[e] = "deleted"
      PROVE  Cleared(n)'
  BY <1>0, <1>3 DEF RowsInv
<1>4. CASE \E d \in Events : Store(d) \/ Age(d)
  <2>1. paths' = paths /\ stage[e] = "deleted"
    BY <1>4 DEF Store, Age, EvidenceTypeOK
  <2> QED
    BY <1>3, <2>1
<1>5. CASE \E k \in Cleaners : \/ Select(k, PlateEvents) \/ Select(k, VehicleEvents)
                               \/ \E m \in Names : Unlink(k, m) \/ UnlinkFails(k, m)
                               \/ CleanUpDies(k)
  <2>1. paths' = paths /\ stage' = stage
    BY <1>5 DEF Select, Unlink, UnlinkFails, CleanUpDies, evidence
  <2> QED
    BY <1>3, <2>1
<1>6. CASE ExportStep \/ UNCHANGED evidenceVars
  <2>1. paths' = paths /\ stage' = stage
    BY <1>6 DEF ExportStep, Find, Pack, Commit, ExportDies, AddFile, AddDigest, FileHasGone, evidence, evidenceVars
  <2> QED
    BY <1>3, <2>1
<1> QED
  BY <1>1, <1>2, <1>4, <1>5, <1>6 DEF EvidenceNext, ExportStep

\* A name is stuck by an unlink that fails and by nothing else, and that is a
\* failure where files can be unlinked at all.
LEMMA StuckKept ==
  ASSUME EvidenceTypeOK, StuckInv, EvidenceNext \/ UNCHANGED evidenceVars
  PROVE  StuckInv'
<1>0. faults \in Nat /\ IsFiniteSet(stuck) /\ Cardinality(stuck) \in Nat
  BY EvidenceAssumptions, FS_CardinalityType DEF EvidenceTypeOK, StuckInv
<1>1. ASSUME UNCHANGED stuck, faults' \in Int, faults' >= faults
      PROVE  StuckInv'
  <2>1. ASSUME ~ReadOnly PROVE Cardinality(stuck) <= faults'
    <3>1. Cardinality(stuck) <= faults
      BY <2>1 DEF StuckInv
    <3>2. faults' >= faults /\ faults' \in Int
      BY <1>0, <1>1
    <3> QED
      BY <1>0, <3>1, <3>2
  <2>2. stuck' = stuck
    BY <1>1
  <2> QED
    BY <1>0, <2>1, <2>2 DEF StuckInv
<1>2. ASSUME Faulty PROVE faults' \in Int /\ faults' >= faults
  BY <1>0, <1>2 DEF Faulty
<1>3. CASE EventStep
  <2>1. UNCHANGED stuck /\ (UNCHANGED faults \/ Faulty)
    BY <1>3 DEF EventStep, Save, SaveFails, Store, Age
  <2> QED
    BY <1>0, <1>1, <1>2, <2>1
<1>4. CASE ExportStep \/ UNCHANGED evidenceVars
  <2>1. UNCHANGED stuck /\ (UNCHANGED faults \/ Faulty)
    BY <1>4 DEF ExportStep, Find, Pack, Commit, ExportDies, AddFile, AddDigest, FileHasGone, evidenceVars
  <2> QED
    BY <1>0, <1>1, <1>2, <2>1
<1>5. CASE \E k \in Cleaners : \/ Select(k, PlateEvents) \/ Select(k, VehicleEvents)
                               \/ \E n \in Names : Unlink(k, n)
                               \/ Delete(k) \/ CleanUpDies(k)
  <2>1. UNCHANGED stuck /\ (UNCHANGED faults \/ Faulty)
    BY <1>5 DEF Select, Unlink, Delete, CleanUpDies
  <2> QED
    BY <1>0, <1>1, <1>2, <2>1
<1>6. ASSUME NEW k \in Cleaners, NEW n \in Names, UnlinkFails(k, n)
      PROVE  StuckInv'
  <2>1. stuck' = stuck \cup {n} /\ IF ReadOnly THEN UNCHANGED faults ELSE Faulty
    BY <1>6 DEF UnlinkFails
  <2>2. IsFiniteSet(stuck') /\ Cardinality(stuck') <= Cardinality(stuck) + 1
    BY <1>0, <2>1, FS_AddElement
  <2>3. ASSUME ~ReadOnly PROVE Cardinality(stuck') <= faults'
    <3>1. faults' = faults + 1 /\ Cardinality(stuck) <= faults
      BY <2>1, <2>3 DEF Faulty, StuckInv
    <3>2. Cardinality(stuck') \in Nat
      BY <2>2, FS_CardinalityType
    <3> QED
      BY <1>0, <2>2, <3>1, <3>2
  <2> QED
    BY <2>2, <2>3 DEF StuckInv
<1> QED
  BY <1>3, <1>4, <1>5, <1>6 DEF EvidenceNext, EventStep, ExportStep

-----------------------------------------------------------------------------
\* A member shows what it shows, whatever else is saved.
LEMMA MemberStays ==
  ASSUME EvidenceTypeOK, NamesInv, EvidenceNext \/ UNCHANGED evidenceVars,
         NEW x \in Exports, NEW m \in bundle[x].members, MemberInv(m)
  PROVE  MemberInv(m)'
<1>1. m.event \in Events
  BY DEF EvidenceTypeOK, Bundles, Members, Events
<1> QED
  BY <1>1, PathsGrow DEF MemberInv

\* What holds of one bundle.
BundleOk(x) ==
  /\ \A m \in bundle[x].members : MemberInv(m)
  /\ export[x].pc = "asked" => bundle[x].members = {}
  /\ export[x].pc \in {"adding", "packed"} => \A m \in bundle[x].members : m.digest # "pending"
  /\ export[x].pc = "added" =>
       \A l, m \in bundle[x].members : l.digest = "pending" /\ m.digest = "pending" => l = m
  /\ export[x].pc = "packed" => bundle[x].closed

\* A bundle that a step leaves alone is as good as it was.
LEMMA BundleAlone ==
  ASSUME EvidenceTypeOK, NamesInv, EvidenceNext \/ UNCHANGED evidenceVars,
         NEW x \in Exports, BundleOk(x), bundle'[x] = bundle[x], export'[x].pc = export[x].pc
  PROVE  BundleOk(x)'
<1>1. \A m \in bundle[x].members : MemberInv(m)'
  BY MemberStays DEF BundleOk
<1> QED
  BY <1>1 DEF BundleOk

\* A file that is added shows the event it was saved for, and that is the one
\* it is added for unless they share the name.
LEMMA AddFileKept ==
  ASSUME EvidenceTypeOK, NamesInv, EvidenceNext, NEW x \in Exports, BundleOk(x),
         NEW e \in PlateEvents, AddFile(x, e)
  PROVE  BundleOk(x)'
<1>1. /\ bundle'[x].closed = bundle[x].closed /\ export[x].pc = "adding"
      /\ \/ /\ export'[x].pc = "added" /\ Name(e) \in DOMAIN disk /\ paths[e] # {}
            /\ bundle'[x].members = bundle[x].members \cup
                 {[path |-> ArcOf[Name(e)], event |-> e, image |-> disk[Name(e)], digest |-> "pending"]}
         \/ export'[x].pc = "adding" /\ bundle'[x].members = bundle[x].members
  BY AddFileFacts
<1>2. \A m \in bundle[x].members : MemberInv(m)' /\ m.digest # "pending"
  BY <1>1, MemberStays DEF BundleOk
<1>0. PICK r : r = [path |-> ArcOf[Name(e)], event |-> e, image |-> disk[Name(e)], digest |-> "pending"]
  OBVIOUS
<1>3. CASE export'[x].pc = "adding" /\ bundle'[x].members = bundle[x].members
  BY <1>2, <1>3 DEF BundleOk
<1>4. CASE /\ export'[x].pc = "added" /\ Name(e) \in DOMAIN disk /\ paths[e] # {}
           /\ bundle'[x].members = bundle[x].members \cup {r}
  <2>1. e \in Events /\ NamesOf[e] = {Name(e)} /\ Name(e) \in paths[e]
    BY <1>4, NameFacts DEF NamesInv
  <2>2. disk[Name(e)] \in Events /\ Name(e) \in paths[disk[Name(e)]]
    BY <1>4 DEF EvidenceTypeOK, NamesInv
  <2>3. r.event = e /\ r.image = disk[Name(e)] /\ r.digest = "pending"
    BY <1>0
  <2>4. Reused(Name(e)) \/ r.image = e
    BY <2>1, <2>2, <2>3 DEF Reused
  <2>5. MemberInv(r)'
    BY <2>1, <2>3, <2>4, PathsGrow DEF MemberInv
  <2>6. \A m \in bundle'[x].members : MemberInv(m)'
    BY <1>2, <1>4, <2>5
  <2>7. \A m \in bundle'[x].members : m.digest = "pending" => m = r
    BY <1>2, <1>4
  <2> QED
    BY <1>4, <2>6, <2>7 DEF BundleOk
<1> QED
  BY <1>1, <1>3, <1>4, <1>0

\* The digest is that of the file under the name by now, which shows the event
\* unless another shares the name.
LEMMA AddDigestKept ==
  ASSUME EvidenceTypeOK, NamesInv, EvidenceNext, NEW x \in Exports, BundleOk(x),
         NEW e \in PlateEvents, AddDigest(x, e)
  PROVE  BundleOk(x)'
<1>1. /\ bundle'[x].closed = bundle[x].closed
      /\ export[x].pc = "added" /\ export'[x].pc = "adding" /\ Name(e) \in DOMAIN disk
  BY AddDigestFacts
<1>2. PICK m \in bundle[x].members :
        /\ m.event = e /\ m.digest = "pending"
        /\ bundle'[x].members = (bundle[x].members \ {m}) \cup
             {[path |-> m.path, event |-> e, image |-> m.image, digest |-> disk[Name(e)]]}
  BY AddDigestFacts
<1>0. PICK r : r = [path |-> m.path, event |-> e, image |-> m.image, digest |-> disk[Name(e)]]
  OBVIOUS
<1>3. MemberInv(m) /\ \A l \in bundle[x].members \ {m} : l.digest # "pending" /\ MemberInv(l)'
  BY <1>1, <1>2, MemberStays DEF BundleOk
<1>4. disk[Name(e)] \in Events /\ Name(e) \in paths[disk[Name(e)]] /\ e \in Events
  BY <1>1, NameFacts DEF EvidenceTypeOK, NamesInv
<1>5. r.event = e /\ r.image = m.image /\ r.digest = disk[Name(e)] /\ r.digest # "pending"
  BY <1>4, <1>0, EvidenceAssumptions
<1>6. bundle'[x].members = (bundle[x].members \ {m}) \cup {r}
  BY <1>2, <1>0
<1>7. /\ Name(e) \in paths[e]
      /\ \/ Reused(Name(e))
         \/ r.image = e /\ r.digest = e
  BY <1>2, <1>3, <1>4, <1>5 DEF MemberInv, Reused
<1>8. MemberInv(r)'
  BY <1>4, <1>5, <1>7, PathsGrow DEF MemberInv
<1>9. \A l \in bundle'[x].members : l.digest # "pending" /\ MemberInv(l)'
  BY <1>3, <1>5, <1>6, <1>8
<1> QED
  BY <1>1, <1>9 DEF BundleOk

\* The other steps of an export.
LEMMA MoveKept ==
  ASSUME EvidenceTypeOK, NamesInv, EvidenceNext, NEW x \in Exports, BundleOk(x),
         \/ Find(x) \/ Pack(x) \/ Commit(x) \/ ExportDies(x)
         \/ \E e \in PlateEvents : FileHasGone(x, e)
  PROVE  BundleOk(x)'
<1>1. /\ bundle'[x].members = bundle[x].members /\ export'[x].pc # "added"
      /\ export'[x].pc \in {"asked", "adding", "packed"} =>
           export[x].pc \in {"asked", "adding"} /\ export'[x].pc # "asked"
      /\ export'[x].pc = "packed" => bundle'[x].closed
  BY MoveFacts
<1>2. \A m \in bundle[x].members : MemberInv(m)'
  BY MemberStays DEF BundleOk
<1>3. export[x].pc \in {"asked", "adding"} => \A m \in bundle[x].members : m.digest # "pending"
  BY DEF BundleOk
<1> QED
  BY <1>1, <1>2, <1>3 DEF BundleOk

\* One step of one export, and the others wait.
LEMMA ExportMoves ==
  ASSUME EvidenceTypeOK, ExportStep
  PROVE  \E x \in Exports :
           /\ OtherExports(x) /\ export[x].pc # "over"
           /\ \/ record' = record
              \/ Commit(x) /\ export[x].pc = "packed" /\ export'[x].pc = "over" /\ bundle' = bundle
           /\ \/ \E e \in PlateEvents : AddFile(x, e) \/ AddDigest(x, e)
              \/ Find(x) \/ Pack(x) \/ Commit(x) \/ ExportDies(x)
              \/ \E e \in PlateEvents : FileHasGone(x, e)
<1>1. PICK x \in Exports :
        \/ \E e \in PlateEvents : AddFile(x, e) \/ AddDigest(x, e)
        \/ Find(x) \/ Pack(x) \/ Commit(x) \/ ExportDies(x)
        \/ \E e \in PlateEvents : FileHasGone(x, e)
  BY DEF ExportStep
<1>2. CASE \E e \in PlateEvents : AddFile(x, e) \/ AddDigest(x, e)
  <2>1. OtherExports(x) /\ export[x].pc # "over" /\ record' = record
    BY <1>2, AddFileFacts, AddDigestFacts
  <2> QED
    BY <1>2, <2>1
<1>3. CASE Find(x) \/ Pack(x) \/ Commit(x) \/ ExportDies(x) \/ \E e \in PlateEvents : FileHasGone(x, e)
  <2>1. /\ OtherExports(x) /\ export[x].pc # "over"
        /\ \/ record' = record
           \/ Commit(x) /\ export[x].pc = "packed" /\ export'[x].pc = "over" /\ bundle' = bundle
    BY <1>3, MoveFacts
  <2> QED
    BY <1>3, <2>1
<1> QED
  BY <1>1, <1>2, <1>3

\* The types, through any step.
LEMMA EvidenceTypesKept ==
  ASSUME EvidenceTypeOK, RecordInv, EvidenceNext \/ UNCHANGED evidenceVars
  PROVE  EvidenceTypeOK'
<1>1. CASE UNCHANGED evidenceVars
  BY <1>1 DEF evidenceVars, EvidenceTypeOK
<1>2. CASE ExportStep
  <2>1. PICK x \in Exports :
          /\ OtherExports(x)
          /\ record' = record \/ (Commit(x) /\ bundle' = bundle)
    BY <1>2, ExportMoves
  <2>2. DOMAIN record' \subseteq Exports /\ \A y \in DOMAIN record' : record'[y] \in Bundles
    <3>1. CASE record' = record
      BY <3>1 DEF EvidenceTypeOK
    <3>2. CASE Commit(x)
      BY <3>2 DEF Commit, EvidenceTypeOK
    <3> QED
      BY <2>1, <3>1, <3>2
  <2> QED
    BY <2>1, <2>2 DEF OtherExports, ExportType, evidence, EvidenceTypeOK
<1> QED
  BY <1>1, <1>2, EventTypes, CleanTypes DEF EvidenceNext, EventStep, CleanStep, ExportStep

\* Every bundle is as good as it was, and so is every record.
LEMMA BundlesKept ==
  ASSUME EvidenceTypeOK, NamesInv, BundleInv, RecordInv, EvidenceNext \/ UNCHANGED evidenceVars
  PROVE  BundleInv' /\ RecordInv'
<1>0. \A y \in Exports : BundleOk(y)
  BY DEF BundleInv, BundleOk
<1>1. CASE EventStep \/ CleanStep \/ UNCHANGED evidenceVars
  <2>1. UNCHANGED exporting
    <3>1. CASE EventStep
      BY <3>1 DEF EventStep, Save, SaveFails, Store, Age
    <3>2. CASE CleanStep
      BY <3>2 DEF CleanStep, Select, Unlink, UnlinkFails, Delete, CleanUpDies
    <3>3. CASE UNCHANGED evidenceVars
      BY <3>3 DEF evidenceVars, exporting
    <3> QED
      BY <1>1, <3>1, <3>2, <3>3
  <2>2. \A y \in Exports : BundleOk(y)'
    BY <1>0, <2>1, BundleAlone DEF exporting
  <2>3. BundleInv'
    BY <2>2 DEF BundleInv, BundleOk
  <2> QED
    BY <2>1, <2>3 DEF RecordInv, exporting
<1>2. CASE ExportStep
  <2>0. EvidenceNext
    BY <1>2 DEF ExportStep, EvidenceNext
  <2>1. PICK x \in Exports :
          /\ OtherExports(x) /\ export[x].pc # "over"
          /\ \/ record' = record
             \/ Commit(x) /\ export[x].pc = "packed" /\ export'[x].pc = "over" /\ bundle' = bundle
          /\ \/ \E e \in PlateEvents : AddFile(x, e) \/ AddDigest(x, e)
             \/ Find(x) \/ Pack(x) \/ Commit(x) \/ ExportDies(x)
             \/ \E e \in PlateEvents : FileHasGone(x, e)
    BY <1>2, ExportMoves
  <2>2. \A y \in Exports \ {x} : export'[y] = export[y] /\ bundle'[y] = bundle[y]
    BY <2>1 DEF OtherExports
  <2>3. BundleOk(x)'
    BY <1>0, <2>0, <2>1, AddFileKept, AddDigestKept, MoveKept
  <2>4. ASSUME NEW y \in Exports
        PROVE  BundleOk(y)'
    <3>1. CASE y = x
      BY <2>3, <3>1
    <3>2. CASE y # x
      BY <1>0, <2>0, <2>2, <3>2, BundleAlone
    <3> QED
      BY <3>1, <3>2
  <2>5. BundleInv'
    BY <2>4 DEF BundleInv, BundleOk
  <2>6. ASSUME NEW y \in DOMAIN record'
        PROVE  /\ export'[y].pc = "over" /\ record'[y] = bundle'[y] /\ bundle'[y].closed
               /\ \A m \in bundle'[y].members : m.digest # "pending"
    <3>1. CASE y \in DOMAIN record /\ record' = record
      <4>1. y # x /\ y \in Exports
        BY <2>1, <3>1 DEF RecordInv, EvidenceTypeOK
      <4> QED
        BY <2>2, <3>1, <4>1 DEF RecordInv
    <3>2. CASE Commit(x) /\ export[x].pc = "packed" /\ export'[x].pc = "over" /\ bundle' = bundle
      <4>1. y \in DOMAIN record \cup {x} /\ record'[y] = IF y = x THEN bundle[x] ELSE record[y]
        BY <3>2 DEF Commit
      <4>2. CASE y = x
        BY <1>0, <3>2, <4>1, <4>2 DEF BundleOk
      <4>3. CASE y # x
        <5>1. y \in DOMAIN record /\ y \in Exports
          BY <4>1, <4>3 DEF EvidenceTypeOK
        <5> QED
          BY <2>2, <3>2, <4>1, <4>3, <5>1 DEF RecordInv
      <4> QED
        BY <4>2, <4>3
    <3> QED
      BY <2>1, <2>6, <3>1, <3>2
  <2> QED
    BY <2>5, <2>6 DEF RecordInv
<1> QED
  BY <1>1, <1>2 DEF EvidenceNext, EventStep, CleanStep, ExportStep

-----------------------------------------------------------------------------
\* EvidenceInv is inductive.
LEMMA EvidenceInvariance == EvidenceSpec => []EvidenceInv
<1>1. EvidenceInit => EvidenceInv
  <2> SUFFICES ASSUME EvidenceInit
               PROVE  EvidenceInv
    OBVIOUS
  <2> USE DEF EvidenceInit
  <2>1. EvidenceTypeOK
    <3>1. bundle \in [Exports -> Bundles]
      BY DEF Bundles
    <3>2. cleaner \in [Cleaners -> [busy : BOOLEAN, rows : SUBSET Events, left : SUBSET Names]]
      BY DEF Rested
    <3>3. faults \in 0..MaxFaults
      BY EvidenceAssumptions
    <3> QED
      BY <3>1, <3>2, <3>3 DEF EvidenceTypeOK
  <2>2. NamesInv /\ RowsInv /\ StuckInv
    BY FS_EmptySet DEF NamesInv, RowsInv, StuckInv
  <2>3. CleanInv
    BY DEF CleanInv, Rested
  <2>4. BundleInv /\ RecordInv
    BY DEF BundleInv, RecordInv
  <2> QED
    BY <2>1, <2>2, <2>3, <2>4 DEF EvidenceInv
<1>2. EvidenceInv /\ [EvidenceNext]_evidenceVars => EvidenceInv'
  BY EvidenceTypesKept, NamesKept, CleanKept, RowsKept, StuckKept, BundlesKept DEF EvidenceInv
<1> QED
  BY <1>1, <1>2, PTL DEF EvidenceSpec

\* What is on disk, in the tables and in the bundles keeps its type.
THEOREM EvidenceTyped == EvidenceSpec => []EvidenceTypeOK
<1>1. EvidenceInv => EvidenceTypeOK
  BY DEF EvidenceInv
<1> QED
  BY <1>1, EvidenceInvariance, PTL

\* Where files can be unlinked, however many clean-ups run at once and wherever
\* they are cut short: no more files outlive their rows than unlinks have failed,
\* of those whose names no other event has taken (cleanup_expired_evidence). In
\* the api container, which mounts the directory read-only, this is false.
THEOREM NothingIsLeftBehind ==
  ASSUME ~ReadOnly
  PROVE  EvidenceSpec => []NothingLeftBehind
<1>1. EvidenceInv => NothingLeftBehind
  <2> SUFFICES ASSUME EvidenceInv
               PROVE  Cardinality(Orphans) <= faults
    BY DEF NothingLeftBehind
  <2>1. IsFiniteSet(stuck) /\ Cardinality(stuck) <= faults /\ faults \in Nat
    BY EvidenceAssumptions DEF EvidenceInv, EvidenceTypeOK, StuckInv
  <2>2. Orphans \subseteq stuck
    BY DEF EvidenceInv, RowsInv, Cleared, Orphans
  <2>3. IsFiniteSet(Orphans) /\ Cardinality(Orphans) <= Cardinality(stuck)
    BY <2>1, <2>2, FS_Subset
  <2>4. Cardinality(Orphans) \in Nat /\ Cardinality(stuck) \in Nat
    BY <2>1, <2>3, FS_CardinalityType
  <2> QED
    BY <2>1, <2>3, <2>4
<1> QED
  BY <1>1, EvidenceInvariance, PTL

\* However many exports and clean-ups overlap: a recorded export is closed, has
\* the digest of what is on disk, and shows the events it says it shows, but for
\* names that are shared; and where no other member has its path, what is
\* unpacked there has the digest of the manifest (build_export).
THEOREM ExportsStayWhole == EvidenceSpec => []ExportsAreWhole
<1>1. EvidenceInv => ExportsAreWhole
  <2> SUFFICES ASSUME EvidenceInv, NEW x \in DOMAIN record
               PROVE  /\ record[x] = bundle[x]
                      /\ bundle[x].closed
                      /\ \A m \in bundle[x].members :
                           ~Reused(Name(m.event)) =>
                             /\ m.image = m.event /\ m.digest = m.event
                             /\ ~Shared(bundle[x], m) => Unpacked(bundle[x], m.path) = {m.digest}
    BY DEF ExportsAreWhole
  <2>1. x \in Exports
    BY DEF EvidenceInv, EvidenceTypeOK
  <2>2. record[x] = bundle[x] /\ bundle[x].closed /\ \A m \in bundle[x].members : m.digest # "pending"
    BY DEF EvidenceInv, RecordInv
  <2>3. ASSUME NEW m \in bundle[x].members, ~Reused(Name(m.event))
        PROVE  /\ m.image = m.event /\ m.digest = m.event
               /\ ~Shared(bundle[x], m) => Unpacked(bundle[x], m.path) = {m.digest}
    <3>1. m.image = m.event /\ m.digest = m.event
      BY <2>1, <2>2, <2>3 DEF EvidenceInv, BundleInv, MemberInv
    <3>2. ASSUME ~Shared(bundle[x], m)
          PROVE  Unpacked(bundle[x], m.path) = {m.digest}
      <4>1. {k \in bundle[x].members : k.path = m.path} = {m}
        BY <3>2 DEF Shared
      <4> QED
        BY <3>1, <4>1 DEF Unpacked
    <3> QED
      BY <3>1, <3>2
  <2> QED
    BY <2>2, <2>3
<1> QED
  BY <1>1, EvidenceInvariance, PTL

\* However many clean-ups run at once: a file goes only if an event that has
\* expired names it, and is replaced only when an event is saved under its name.
THEOREM UnexpiredAlwaysKeepTheirFiles == EvidenceSpec => UnexpiredKeepTheirFiles
<1> DEFINE Kept(n) ==
             \/ n \in DOMAIN disk' /\ disk'[n] = disk[n]
             \/ n \notin DOMAIN disk' /\ \E e \in expired : n \in paths[e]
             \/ n \in DOMAIN disk' /\ \E e \in Events :
                  stage[e] = "new" /\ disk'[n] = e /\ n \in paths'[e]
<1>1. EvidenceInv /\ [EvidenceNext]_evidenceVars => [\A n \in DOMAIN disk : Kept(n)]_evidenceVars
  <2> SUFFICES ASSUME EvidenceInv, EvidenceNext \/ UNCHANGED evidenceVars, NEW n \in DOMAIN disk
               PROVE  Kept(n)
    OBVIOUS
  <2>0. EvidenceTypeOK /\ CleanInv
    BY DEF EvidenceInv
  <2>1. CASE \E d \in Events : Save(d) \/ SaveFails(d)
    <3>1. PICK d \in Events : Save(d) \/ SaveFails(d)
      BY <2>1
    <3>2. PICK written \in SUBSET NamesOf[d], recorded \in SUBSET NamesOf[d] : Saves(d, written, recorded)
      BY <2>0, <3>1, SavesFacts
    <3>3. paths'[d] = recorded /\ stage[d] = "new"
      BY <2>0, <3>2 DEF Saves, EvidenceTypeOK
    <3>4. n \in DOMAIN disk' /\ (disk'[n] = disk[n] \/ (n \in written /\ disk'[n] = d))
      BY <3>2 DEF Saves
    <3>5. n \in written => n \in paths'[d]
      BY <3>2, <3>3 DEF Saves
    <3> QED
      BY <3>3, <3>4, <3>5
  <2>2. CASE \E k \in Cleaners, m \in Names : Unlink(k, m)
    <3>1. PICK k \in Cleaners, m \in Names : Unlink(k, m)
      BY <2>2
    <3>2. m \in cleaner[k].left /\ disk' = [l \in DOMAIN disk \ {m} |-> disk[l]]
      BY <3>1 DEF Unlink
    <3>3. \E d \in expired : m \in paths[d]
      BY <2>0, <3>2 DEF CleanInv
    <3> QED
      BY <3>2, <3>3
  <2>3. CASE \/ \E d \in Events : Store(d) \/ Age(d)
             \/ \E k \in Cleaners : \/ Select(k, PlateEvents) \/ Select(k, VehicleEvents)
                                    \/ \E m \in Names : UnlinkFails(k, m)
                                    \/ Delete(k) \/ CleanUpDies(k)
    <3>1. UNCHANGED disk
      BY <2>3 DEF Store, Age, Select, UnlinkFails, Delete, CleanUpDies, evidence
    <3> QED
      BY <3>1
  <2>4. CASE ExportStep \/ UNCHANGED evidenceVars
    <3>1. UNCHANGED disk
      BY <2>4 DEF ExportStep, Find, Pack, Commit, ExportDies, AddFile, AddDigest, FileHasGone, evidence, evidenceVars
    <3> QED
      BY <3>1
  <2> QED
    BY <2>1, <2>2, <2>3, <2>4 DEF EvidenceNext, ExportStep
<1> QED
  BY <1>1, EvidenceInvariance, PTL DEF EvidenceSpec, UnexpiredKeepTheirFiles
=============================================================================
