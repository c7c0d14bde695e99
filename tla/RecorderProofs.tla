--------------------------- MODULE RecorderProofs ---------------------------
(***************************************************************************)
(* What the recorder tells a monitor to measure, for any record types and  *)
(* any LLPROF_RECORDS (RecordTypes); and the conservation of the stream of *)
(* measurements it promises, for any threads, nodes and times              *)
(* (ProfileStream).                                                        *)
(***************************************************************************)
EXTENDS RecordTypes, FiniteSetTheorems, SequenceTheorems, WellFoundedInduction, TLAPS

(***************************************************************************)
(* Numbers.                                                                *)
(***************************************************************************)

\* The order of the numbers, as a relation.
LEMMA Descent ==
  \E R : IsWellFoundedOn(R, Nat) /\ \A k, m \in Nat : k < m => <<k, m>> \in R
<1>1. IsWellFoundedOn(OpToRel(<, Nat), Nat)
  BY NatLessThanWellFounded
<1>2. \A k, m \in Nat : k < m => <<k, m>> \in OpToRel(<, Nat)
  BY DEF OpToRel
<1> QED  BY <1>1, <1>2

\* A set of numbers has a least element.
LEMMA Least == ASSUME NEW S, S \subseteq Nat, S # {} PROVE \E m \in S : \A k \in S : m <= k
<1>1. PICK R : IsWellFoundedOn(R, Nat) /\ \A k, m \in Nat : k < m => <<k, m>> \in R
  BY Descent
<1>2. PICK m \in S : \A k \in S : ~ (<<k, m>> \in R)
  <2>1. \A RR, SS, TT : IsWellFoundedOn(RR, SS) /\ TT \subseteq SS /\ TT # {}
                          => \E x \in TT : \A y \in TT : ~ (<<y, x>> \in RR)
    BY WFMin
  <2>2. S \subseteq Nat /\ S # {} /\ IsWellFoundedOn(R, Nat)
    BY <1>1
  <2> QED  BY <2>1, <2>2
<1>3. ASSUME NEW k \in S PROVE m <= k
  <2>1. m \in Nat /\ k \in Nat
    OBVIOUS
  <2>2. ~(k < m)
    BY <1>1, <1>2, <2>1
  <2> QED  BY <2>1, <2>2
<1> QED  BY <1>3

\* What holds of 0 and passes on from a number to the next, up to a bound,
\* holds up to the bound.
LEMMA Induction ==
  ASSUME NEW last \in Nat, NEW T, 0 \in T, \A k \in 1 .. last : k - 1 \in T => k \in T
  PROVE  0 .. last \subseteq T
<1>1. PICK S : S = {k \in 0 .. last : k \notin T}
  OBVIOUS
<1>2. SUFFICES ASSUME S # {} PROVE FALSE
  BY <1>1
<1>3. PICK m \in S : \A k \in S : m <= k
  <2>1. S \subseteq Nat
    BY <1>1
  <2> QED  BY <1>2, <2>1, Least
<1>4. m \in 1 .. last /\ m \notin T
  BY <1>1, <1>3
<1>5. m - 1 \in 0 .. last /\ ~(m <= m - 1)
  BY <1>4
<1>6. m - 1 \in T
  BY <1>1, <1>3, <1>5
<1> QED  BY <1>4, <1>6

\* What passes on to a number from all the smaller ones holds of each.
LEMMA Course ==
  ASSUME NEW last \in Nat, NEW T, \A k \in 0 .. last : (0 .. k - 1 \subseteq T) => k \in T
  PROVE  0 .. last \subseteq T
<1>1. PICK S : S = {k \in 0 .. last : k \notin T}
  OBVIOUS
<1>2. SUFFICES ASSUME S # {} PROVE FALSE
  BY <1>1
<1>3. PICK m \in S : \A k \in S : m <= k
  <2>1. S \subseteq Nat
    BY <1>1
  <2> QED  BY <1>2, <2>1, Least
<1>4. m \in 0 .. last /\ m \notin T
  BY <1>1
<1>5. ASSUME NEW k \in 0 .. m - 1 PROVE k \in T
  <2>1. k \in 0 .. last /\ ~(m <= k)
    BY <1>4
  <2> QED  BY <1>1, <1>3, <2>1
<1> QED  BY <1>4, <1>5

(***************************************************************************)
(* Sums.                                                                   *)
(***************************************************************************)

\* A turn of a sum over a set.
Element(s) == CHOOSE x \in s : TRUE
Adding(fun, it, s) == IF s = {} THEN 0 ELSE fun[Element(s)] + it[s \ {Element(s)}]

AtMost(K, k) == {s \in SUBSET K : Cardinality(s) <= k}

Summing(fun, ss, it) == it = [s \in ss |-> Adding(fun, it, s)]
Summed(fun, ss, it) == Summing(fun, ss, it) /\ \A s \in ss : it[s] \in Int

\* Any sum has a run: a value for every set of terms left.
LEMMA SumRuns ==
  ASSUME NEW K, IsFiniteSet(K), NEW fun, \A x \in K : fun[x] \in Int
  PROVE  \E it : Summed(fun, SUBSET K, it)
<1> DEFINE T == {k \in 0 .. Cardinality(K) : \E it : Summed(fun, AtMost(K, k), it)}
<1>F. \A s \in SUBSET K : IsFiniteSet(s) /\ Cardinality(s) \in Nat /\ Cardinality(s) <= Cardinality(K)
  BY FS_Subset, FS_CardinalityType
<1>N. Cardinality(K) \in Nat
  BY <1>F
<1>1. 0 \in T
  <2>1. AtMost(K, 0) = {{}}
    <3>1. \A s \in SUBSET K : Cardinality(s) <= 0 <=> s = {}
      BY <1>F, FS_EmptySet
    <3> QED  BY <3>1 DEF AtMost
  <2>2. PICK it : it = [s \in {{}} |-> 0]
    OBVIOUS
  <2>3. \A s \in {{}} : Adding(fun, it, s) = 0
    BY DEF Adding
  <2>4. Summed(fun, AtMost(K, 0), it)
    BY <2>1, <2>2, <2>3 DEF Summed, Summing
  <2> QED  BY <1>N, <2>4
<1>2. ASSUME NEW k \in 1 .. Cardinality(K), k - 1 \in T PROVE k \in T
  <2>1. PICK less, all : less = AtMost(K, k - 1) /\ all = AtMost(K, k)
    OBVIOUS
  <2>2. PICK it : Summed(fun, less, it)
    BY <1>2, <2>1
  <2>3. PICK more : more = [s \in all |-> IF s \in less THEN it[s] ELSE Adding(fun, it, s)]
    OBVIOUS
  <2>4. ASSUME NEW s \in all, s # {}
        PROVE  s \ {Element(s)} \in less /\ s \ {Element(s)} \in all /\ Element(s) \in K
    <3>1. PICK x, r : x = Element(s) /\ r = s \ {x}
      OBVIOUS
    <3>2. x \in s /\ s \in SUBSET K /\ Cardinality(s) <= k
      BY <2>1, <2>4, <3>1 DEF Element, AtMost
    <3>3. Cardinality(r) = Cardinality(s) - 1
      BY <1>F, <3>1, <3>2, FS_RemoveElement
    <3>4. Cardinality(r) <= k - 1 /\ Cardinality(r) <= k
      BY <1>F, <3>2, <3>3
    <3> QED  BY <2>1, <3>1, <3>2, <3>4 DEF AtMost
  <2>5. less \subseteq all
    BY <1>F, <1>N, <2>1 DEF AtMost
  <2>6. ASSUME NEW s \in all PROVE more[s] = Adding(fun, more, s) /\ more[s] \in Int
    <3>1. Adding(fun, more, s) = Adding(fun, it, s)
      <4>1. CASE s = {}
        BY <4>1 DEF Adding
      <4>2. CASE s # {}
        <5>1. more[s \ {Element(s)}] = it[s \ {Element(s)}]
          BY <2>3, <2>4, <4>2
        <5> QED  BY <4>2, <5>1 DEF Adding
      <4> QED  BY <4>1, <4>2
    <3>2. Adding(fun, it, s) \in Int
      <4>1. CASE s = {}
        BY <4>1 DEF Adding
      <4>2. CASE s # {}
        <5>1. it[s \ {Element(s)}] \in Int /\ fun[Element(s)] \in Int
          BY <2>2, <2>4, <4>2 DEF Summed, Summing
        <5> QED  BY <4>2, <5>1 DEF Adding
      <4> QED  BY <4>1, <4>2
    <3>3. CASE s \in less
      <4>1. more[s] = it[s] /\ it[s] = Adding(fun, it, s)
        BY <2>2, <2>3, <3>3 DEF Summed, Summing
      <4> QED  BY <3>1, <3>2, <4>1
    <3>4. CASE s \notin less
      BY <2>3, <3>1, <3>2, <3>4
    <3> QED  BY <3>3, <3>4
  <2>7. more = [s \in all |-> more[s]]
    BY <2>3
  <2>8. Summed(fun, all, more)
    BY <2>6, <2>7 DEF Summed, Summing
  <2> QED  BY <2>1, <2>8
<1>3. AtMost(K, Cardinality(K)) = SUBSET K
  BY <1>F DEF AtMost
<1> HIDE DEF T
<1>4. 0 .. Cardinality(K) \subseteq T
  BY <1>N, <1>1, <1>2, Induction
<1>5. Cardinality(K) \in T
  BY <1>N, <1>4
<1>6. \E it : Summed(fun, AtMost(K, Cardinality(K)), it)
  BY <1>5 DEF T
<1> QED  BY <1>3, <1>6

Same(a, b, ss) == \A s \in ss : a[s] = b[s]

\* Two runs of a sum agree wherever both are defined.
LEMMA SumsAgree ==
  ASSUME NEW K, IsFiniteSet(K), NEW fun, NEW J, J \subseteq K,
         NEW a, Summing(fun, SUBSET K, a),
         NEW b, Summing(fun, SUBSET J, b)
  PROVE  Same(a, b, SUBSET J)
<1> DEFINE T == {k \in 0 .. Cardinality(J) : Same(a, b, AtMost(J, k))}
<1>F. \A s \in SUBSET J : IsFiniteSet(s) /\ Cardinality(s) \in Nat /\ Cardinality(s) <= Cardinality(J)
  BY FS_Subset, FS_CardinalityType
<1>N. Cardinality(J) \in Nat
  BY <1>F
<1>1. 0 \in T
  <2>1. ASSUME NEW s \in AtMost(J, 0) PROVE a[s] = b[s]
    <3>1. s \in SUBSET J /\ s \in SUBSET K /\ s = {}
      BY <1>F, FS_EmptySet DEF AtMost
    <3>2. Adding(fun, a, s) = 0 /\ Adding(fun, b, s) = 0
      BY <3>1 DEF Adding
    <3>3. a[s] = Adding(fun, a, s) /\ b[s] = Adding(fun, b, s)
      BY <3>1 DEF Summing
    <3> QED  BY <3>2, <3>3
  <2>2. Same(a, b, AtMost(J, 0))
    BY <2>1 DEF Same
  <2> QED  BY <1>N, <2>2
<1>2. ASSUME NEW k \in 1 .. Cardinality(J), k - 1 \in T PROVE k \in T
  <2>1. ASSUME NEW s \in AtMost(J, k) PROVE a[s] = b[s]
    <3>1. s \in SUBSET J /\ s \in SUBSET K
      BY DEF AtMost
    <3>2. a[s] = Adding(fun, a, s) /\ b[s] = Adding(fun, b, s)
      BY <3>1 DEF Summing
    <3>3. CASE s = {}
      BY <3>2, <3>3 DEF Adding
    <3>4. CASE s # {}
      <4>1. PICK x, r : x = Element(s) /\ r = s \ {x}
        OBVIOUS
      <4>2. x \in s /\ Cardinality(s) <= k
        BY <3>4, <4>1 DEF Element, AtMost
      <4>3. Cardinality(r) = Cardinality(s) - 1
        BY <1>F, <3>1, <4>1, <4>2, FS_RemoveElement
      <4>4. Cardinality(r) <= k - 1
        BY <1>F, <3>1, <4>2, <4>3
      <4>5. r \in AtMost(J, k - 1)
        BY <3>1, <4>1, <4>4 DEF AtMost
      <4>6. a[r] = b[r]
        BY <1>2, <4>5 DEF Same
      <4> QED  BY <3>2, <3>4, <4>1, <4>6 DEF Adding
    <3> QED  BY <3>3, <3>4
  <2>2. Same(a, b, AtMost(J, k))
    BY <2>1 DEF Same
  <2> QED  BY <2>2
<1> HIDE DEF T
<1>3. 0 .. Cardinality(J) \subseteq T
  BY <1>N, <1>1, <1>2, Induction
<1>4. Cardinality(J) \in T
  BY <1>N, <1>3
<1>5. ASSUME NEW s \in SUBSET J PROVE a[s] = b[s]
  <2>1. s \in AtMost(J, Cardinality(J))
    BY <1>F DEF AtMost
  <2> QED  BY <1>4, <2>1 DEF T, Same
<1> QED  BY <1>5 DEF Same

\* The sum of the model is such a run.
LEMMA SumRun ==
  ASSUME NEW K, IsFiniteSet(K), NEW fun, \A x \in K : fun[x] \in Int
  PROVE  \E it : Summed(fun, SUBSET K, it) /\ SumFunctionOnSet(fun, K) = it[K]
<1> DEFINE it == CHOOSE it : it = [s \in SUBSET K |->
                   IF s = {} THEN 0
                   ELSE fun[CHOOSE x \in s : TRUE] + it[s \ {CHOOSE x \in s : TRUE}]]
<1>1. SumFunctionOnSet(fun, K) = it[K]
  BY DEF SumFunctionOnSet, FoldFunctionOnSet, MapThenFoldSet
<1>2. PICK some : Summed(fun, SUBSET K, some)
  BY SumRuns
<1>3. it = [s \in SUBSET K |->
              IF s = {} THEN 0
              ELSE fun[CHOOSE x \in s : TRUE] + it[s \ {CHOOSE x \in s : TRUE}]]
  <2>1. some = [s \in SUBSET K |->
              IF s = {} THEN 0
              ELSE fun[CHOOSE x \in s : TRUE] + some[s \ {CHOOSE x \in s : TRUE}]]
    BY <1>2 DEF Summed, Summing, Adding, Element
  <2> QED  BY <2>1
<1> HIDE DEF it
<1>4. Summing(fun, SUBSET K, it)
  BY <1>3 DEF Adding, Element, Summing
<1>5. Same(it, some, SUBSET K)
  BY <1>2, <1>4, SumsAgree DEF Summed
<1>6. Summed(fun, SUBSET K, it)
  BY <1>2, <1>4, <1>5 DEF Summed, Same
<1> QED  BY <1>1, <1>6

\* A sum of whole numbers is one; a sum of none is 0.
LEMMA SumFacts ==
  ASSUME NEW K, IsFiniteSet(K), NEW fun, \A x \in K : fun[x] \in Int
  PROVE  /\ SumFunctionOnSet(fun, K) \in Int
         /\ K = {} => SumFunctionOnSet(fun, K) = 0
         /\ K # {} => /\ Element(K) \in K
                      /\ SumFunctionOnSet(fun, K) =
                           fun[Element(K)] + SumFunctionOnSet(fun, K \ {Element(K)})
<1>1. PICK it : Summed(fun, SUBSET K, it) /\ SumFunctionOnSet(fun, K) = it[K]
  BY SumRun
<1>2. it[K] = Adding(fun, it, K) /\ it[K] \in Int
  BY <1>1 DEF Summed, Summing
<1>3. K = {} => it[K] = 0
  BY <1>2 DEF Adding
<1>4. ASSUME K # {}
      PROVE  /\ Element(K) \in K
             /\ it[K] = fun[Element(K)] + SumFunctionOnSet(fun, K \ {Element(K)})
  <2>1. PICK x, J : x = Element(K) /\ J = K \ {x}
    OBVIOUS
  <2>2. x \in K
    BY <1>4, <2>1 DEF Element
  <2>3. J \subseteq K /\ IsFiniteSet(J) /\ \A y \in J : fun[y] \in Int
    BY <2>1, FS_Subset
  <2>4. PICK less : Summed(fun, SUBSET J, less) /\ SumFunctionOnSet(fun, J) = less[J]
    BY <2>3, SumRun
  <2>5. Same(it, less, SUBSET J)
    BY <1>1, <2>3, <2>4, SumsAgree DEF Summed
  <2>6. it[J] = SumFunctionOnSet(fun, J)
    BY <2>4, <2>5 DEF Same
  <2> QED  BY <1>2, <1>4, <2>1, <2>2, <2>6 DEF Adding
<1> QED  BY <1>1, <1>2, <1>3, <1>4

(***************************************************************************)
(* Adding up.                                                              *)
(***************************************************************************)

Summable(fun, K) == IsFiniteSet(K) /\ \A x \in K : fun[x] \in Int

\* One term less.
LEMMA SumLess ==
  ASSUME NEW fun, NEW K, Summable(fun, K), NEW x \in K
  PROVE  /\ Summable(fun, K \ {x})
         /\ Cardinality(K \ {x}) = Cardinality(K) - 1
         /\ Cardinality(K) \in Nat /\ Cardinality(K) # 0
BY FS_RemoveElement, FS_CardinalityType, FS_EmptySet DEF Summable

\* A sum is any of its terms and the sum of the others.
LEMMA SumRemove ==
  ASSUME NEW fun, NEW J, Summable(fun, J), NEW y \in J
  PROVE  SumFunctionOnSet(fun, J) = fun[y] + SumFunctionOnSet(fun, J \ {y})
<1> DEFINE Fine(K) == \A x \in K : SumFunctionOnSet(fun, K) = fun[x] + SumFunctionOnSet(fun, K \ {x})
           T == {k \in 0 .. Cardinality(J) :
                   \A K \in SUBSET J : Cardinality(K) = k => Fine(K)}
<1>S. \A K \in SUBSET J : Summable(fun, K) /\ Cardinality(K) \in Nat
  BY FS_Subset, FS_CardinalityType DEF Summable
<1>1. ASSUME NEW k \in 0 .. Cardinality(J), 0 .. k - 1 \subseteq T PROVE k \in T
  <2>1. ASSUME NEW K \in SUBSET J, Cardinality(K) = k, NEW x \in K
        PROVE  SumFunctionOnSet(fun, K) = fun[x] + SumFunctionOnSet(fun, K \ {x})
    <3>1. PICK e, L : e = Element(K) /\ L = K \ {e}
      OBVIOUS
    <3>2. e \in K /\ SumFunctionOnSet(fun, K) = fun[e] + SumFunctionOnSet(fun, L)
      BY <1>S, <2>1, <3>1, SumFacts DEF Summable
    <3>3. CASE x = e
      BY <3>1, <3>2, <3>3
    <3>4. CASE x # e
      <4>1. x \in L /\ L \in SUBSET J /\ Cardinality(L) = k - 1 /\ k # 0 /\ k \in Nat
        BY <1>S, <2>1, <3>1, <3>2, <3>4, SumLess
      <4>2. k - 1 \in T
        BY <1>1, <4>1
      <4>3. SumFunctionOnSet(fun, L) = fun[x] + SumFunctionOnSet(fun, L \ {x})
        BY <4>1, <4>2
      <4>4. PICK M : M = K \ {x}
        OBVIOUS
      <4>5. e \in M /\ M \in SUBSET J /\ Cardinality(M) = k - 1
        BY <1>S, <2>1, <3>2, <3>4, <4>4, SumLess
      <4>6. SumFunctionOnSet(fun, M) = fun[e] + SumFunctionOnSet(fun, M \ {e})
        BY <4>2, <4>5
      <4>7. PICK N : N = L \ {x}
        OBVIOUS
      <4>8. N = M \ {e} /\ N \in SUBSET J
        BY <2>1, <3>1, <4>4, <4>7
      <4>9. SumFunctionOnSet(fun, N) \in Int /\ fun[x] \in Int /\ fun[e] \in Int
        BY <1>S, <2>1, <3>2, <4>8, SumFacts DEF Summable
      <4>10. PICK k1, l1, m1, n1 :
               /\ k1 = SumFunctionOnSet(fun, K) /\ l1 = SumFunctionOnSet(fun, L)
               /\ m1 = SumFunctionOnSet(fun, M) /\ n1 = SumFunctionOnSet(fun, N)
        OBVIOUS
      <4>11. l1 = fun[x] + n1 /\ m1 = fun[e] + n1 /\ k1 = fun[e] + l1
        BY <3>2, <4>3, <4>6, <4>7, <4>8, <4>10, Zenon
      <4>12. n1 \in Int
        BY <4>9, <4>10
      <4>13. k1 = fun[x] + m1
        BY <4>9, <4>11, <4>12
      <4> QED  BY <4>4, <4>10, <4>13, Zenon
    <3> QED  BY <3>3, <3>4
  <2> QED  BY <2>1
<1> HIDE DEF T
<1>2. 0 .. Cardinality(J) \subseteq T
  BY <1>1, <1>S, Course
<1>3. Cardinality(J) \in T
  BY <1>2, <1>S
<1> QED  BY <1>3 DEF T

\* Functions that agree on a set have the same sum over it.
LEMMA SumEqual ==
  ASSUME NEW K, NEW f, Summable(f, K), NEW g, \A x \in K : f[x] = g[x]
  PROVE  SumFunctionOnSet(f, K) = SumFunctionOnSet(g, K)
<1>0. IsFiniteSet(K) /\ (\A x \in K : f[x] \in Int) /\ \A x \in K : g[x] \in Int
  BY DEF Summable
<1>1. PICK a : Summed(f, SUBSET K, a) /\ SumFunctionOnSet(f, K) = a[K]
  BY <1>0, SumRun
<1>2. PICK b : Summed(g, SUBSET K, b) /\ SumFunctionOnSet(g, K) = b[K]
  BY <1>0, SumRun
<1>3. ASSUME NEW s \in SUBSET K PROVE Adding(f, a, s) = Adding(g, a, s)
  <2>1. CASE s = {}
    BY <2>1 DEF Adding
  <2>2. CASE s # {}
    <3>1. Element(s) \in K
      BY <2>2 DEF Element
    <3> QED  BY <2>2, <3>1 DEF Adding
  <2> QED  BY <2>1, <2>2
<1>4. Summing(f, SUBSET K, a) /\ Summing(g, SUBSET K, b)
  BY <1>1, <1>2 DEF Summed
<1>5. Summing(g, SUBSET K, a)
  BY <1>3, <1>4 DEF Summing
<1>6. Same(a, b, SUBSET K)
  BY <1>0, <1>4, <1>5, SumsAgree
<1> QED  BY <1>1, <1>2, <1>6 DEF Same

\* A sum over the first numbers.
First(f, m) == SumFunction([j \in 1 .. m |-> f[j]])

\* It is the sum over one number less and the last term.
LEMMA FirstSums ==
  ASSUME NEW f, NEW m \in Nat, \A j \in 1 .. m + 1 : f[j] \in Nat
  PROVE  /\ First(f, 0) = 0
         /\ First(f, m + 1) = First(f, m) + f[m + 1]
         /\ First(f, m) \in Int
<1>1. PICK less, more : less = [j \in 1 .. m |-> f[j]] /\ more = [j \in 1 .. m + 1 |-> f[j]]
  OBVIOUS
<1>2. First(f, m) = SumFunctionOnSet(less, 1 .. m) /\ First(f, m + 1) = SumFunctionOnSet(more, 1 .. m + 1)
  BY <1>1 DEF First, SumFunction
<1>3. Summable(less, 1 .. m) /\ Summable(more, 1 .. m + 1) /\ Summable(more, 1 .. m)
  <2>1. IsFiniteSet(1 .. m) /\ IsFiniteSet(1 .. m + 1)
    BY FS_Interval
  <2> QED  BY <1>1, <2>1 DEF Summable
<1>4. SumFunctionOnSet(more, 1 .. m + 1) = more[m + 1] + SumFunctionOnSet(more, (1 .. m + 1) \ {m + 1})
  BY <1>3, SumRemove
<1>5. (1 .. m + 1) \ {m + 1} = 1 .. m
  OBVIOUS
<1>6. SumFunctionOnSet(less, 1 .. m) = SumFunctionOnSet(more, 1 .. m)
  <2>1. \A x \in 1 .. m : less[x] = more[x]
    BY <1>1
  <2> QED  BY <1>3, <2>1, SumEqual
<1>7. First(f, m) \in Int
  BY <1>2, <1>3, SumFacts DEF Summable
<1>8. First(f, m + 1) = First(f, m) + f[m + 1]
  <2>1. more[m + 1] = f[m + 1] /\ f[m + 1] \in Int
    BY <1>1
  <2>2. PICK s, r : s = SumFunctionOnSet(more, 1 .. m) /\ r = SumFunctionOnSet(more, 1 .. m + 1)
    OBVIOUS
  <2>3. r = f[m + 1] + s /\ s = First(f, m) /\ r = First(f, m + 1)
    BY <1>2, <1>4, <1>5, <1>6, <2>1, <2>2, Zenon
  <2> QED  BY <1>7, <2>1, <2>3
<1>9. First(f, 0) = 0
  <2>1. PICK none : none = [j \in 1 .. 0 |-> f[j]]
    OBVIOUS
  <2>2. DOMAIN none = {} /\ IsFiniteSet({})
    BY <2>1, FS_EmptySet
  <2>3. SumFunctionOnSet(none, {}) = 0
    BY <2>2, SumFacts
  <2> QED  BY <2>1, <2>2, <2>3 DEF First, SumFunction
<1> QED  BY <1>7, <1>8, <1>9

(***************************************************************************)
(* The walk over the active records.                                       *)
(***************************************************************************)

Turn(f, i) ==
  IF i \notin Ordinal THEN {} ELSE IF TypeAt(i).counter THEN {i} \cup f[i + 3] ELSE f[i + 2]
Walk(f, low, last) == f = [i \in low .. last |-> Turn(f, i)]

\* The walk stops at counters only; where a counter is first and the only one,
\* it stops there alone.
LEMMA WalkStops ==
  ASSUME MaxWords \in Nat, Len(active) \in 0 .. 2 * MaxWords
  PROVE  /\ Stops \subseteq {i \in Ordinal : TypeAt(i).counter}
         /\ (/\ 0 \in Ordinal /\ TypeAt(0).counter
             /\ \A i \in Ordinal : TypeAt(i).counter => i < 2) => Stops = {0}
<1> DEFINE last == 2 * MaxWords + 2
           from == CHOOSE from : from = [i \in 0 .. last |->
                     IF i \notin Ordinal THEN {}
                     ELSE IF TypeAt(i).counter THEN {i} \cup from[i + 3]
                     ELSE from[i + 2]]
<1>1. Stops = from[0]
  BY DEF Stops
<1>N. last \in Nat /\ \A i \in Ordinal : i \in Nat /\ i + 3 <= last
  BY DEF Ordinal
<1>2. \E f : Walk(f, 0, last)
  <2> DEFINE T == {k \in 0 .. last : \E f : Walk(f, last - k, last)}
  <2>1. 0 \in T
    <3>1. PICK f : f = [i \in last .. last |-> {}]
      OBVIOUS
    <3>2. last \notin Ordinal /\ last .. last = {last}
      BY <1>N
    <3>3. \A i \in last .. last : Turn(f, i) = {}
      BY <3>2 DEF Turn
    <3>4. Walk(f, last, last)
      BY <3>1, <3>3 DEF Walk
    <3> QED  BY <1>N, <3>4
  <2>2. ASSUME NEW k \in 1 .. last, k - 1 \in T PROVE k \in T
    <3>1. PICK low : low = last - k
      OBVIOUS
    <3>2. last - (k - 1) = low + 1 /\ low \in Nat /\ low < last
      BY <1>N, <3>1
    <3>3. PICK f : Walk(f, low + 1, last)
      BY <2>2, <3>2
    <3>4. PICK g : g = [i \in low .. last |-> IF i = low THEN Turn(f, low) ELSE f[i]]
      OBVIOUS
    <3>5. ASSUME NEW i \in low .. last PROVE Turn(g, i) = Turn(f, i)
      <4>1. i \in Ordinal => g[i + 3] = f[i + 3] /\ g[i + 2] = f[i + 2]
        BY <1>N, <3>2, <3>4
      <4> QED  BY <4>1 DEF Turn
    <3>6. ASSUME NEW i \in low .. last PROVE g[i] = Turn(g, i)
      <4>1. CASE i = low
        BY <3>4, <3>5, <4>1
      <4>2. CASE i # low
        <5>1. i \in low + 1 .. last
          BY <3>2, <4>2
        <5>2. f[i] = Turn(f, i)
          BY <3>3, <5>1 DEF Walk
        <5> QED  BY <3>4, <3>5, <4>2, <5>2
      <4> QED  BY <4>1, <4>2
    <3>7. g = [i \in low .. last |-> g[i]]
      BY <3>4
    <3>8. Walk(g, low, last)
      BY <3>6, <3>7 DEF Walk
    <3> QED  BY <3>1, <3>8
  <2> HIDE DEF T
  <2>3. 0 .. last \subseteq T
    BY <1>N, <2>1, <2>2, Induction
  <2>4. last \in T
    BY <1>N, <2>3
  <2>5. last - last = 0
    BY <1>N
  <2> QED  BY <2>4, <2>5 DEF T
<1>3. Walk(from, 0, last)
  <2>1. \E f : f = [i \in 0 .. last |->
                      IF i \notin Ordinal THEN {}
                      ELSE IF TypeAt(i).counter THEN {i} \cup f[i + 3]
                      ELSE f[i + 2]]
    BY <1>2 DEF Walk, Turn
  <2>2. from = [i \in 0 .. last |->
                      IF i \notin Ordinal THEN {}
                      ELSE IF TypeAt(i).counter THEN {i} \cup from[i + 3]
                      ELSE from[i + 2]]
    BY <2>1
  <2> QED  BY <2>2 DEF Walk, Turn
<1> HIDE DEF from, last
<1>4. ASSUME NEW i \in 0 .. last PROVE from[i] = Turn(from, i)
  BY <1>3 DEF Walk
<1>5. \A i \in 0 .. last : from[i] \subseteq {j \in Ordinal : i <= j /\ TypeAt(j).counter}
  <2> DEFINE Met(i) == {j \in Ordinal : i <= j /\ TypeAt(j).counter}
             T == {k \in 0 .. last : from[last - k] \subseteq Met(last - k)}
  <2>1. ASSUME NEW k \in 0 .. last, 0 .. k - 1 \subseteq T PROVE k \in T
    <3>1. PICK i : i = last - k
      OBVIOUS
    <3>2. i \in 0 .. last /\ i \in Nat
      BY <1>N, <3>1
    <3>3. from[i] = Turn(from, i)
      BY <1>4, <3>2
    <3>4. CASE i \notin Ordinal
      BY <3>1, <3>3, <3>4 DEF Turn
    <3>5. CASE i \in Ordinal
      <4>1. ASSUME NEW d \in {2, 3} PROVE from[i + d] \subseteq Met(i)
        <5>1. k - d \in 0 .. k - 1 /\ last - (k - d) = i + d
          BY <1>N, <3>1, <3>2, <3>5
        <5>2. from[i + d] \subseteq Met(i + d)
          BY <2>1, <5>1
        <5>3. Met(i + d) \subseteq Met(i)
          BY <1>N, <3>2
        <5> QED  BY <5>2, <5>3
      <4>2. from[i] \subseteq Met(i)
        BY <3>2, <3>3, <3>5, <4>1 DEF Turn
      <4> QED  BY <3>1, <4>2
    <3> QED  BY <3>4, <3>5
  <2> HIDE DEF T
  <2>2. 0 .. last \subseteq T
    BY <1>N, <2>1, Course
  <2>3. ASSUME NEW i \in 0 .. last PROVE from[i] \subseteq Met(i)
    <3>1. last - i \in T /\ last - (last - i) = i
      BY <1>N, <2>2
    <3> QED  BY <3>1 DEF T
  <2> QED  BY <2>3
<1>6. 0 \in 0 .. last
  BY <1>N
<1>7. Stops \subseteq {i \in Ordinal : TypeAt(i).counter}
  BY <1>1, <1>5, <1>6
<1>8. ASSUME 0 \in Ordinal, TypeAt(0).counter, \A i \in Ordinal : TypeAt(i).counter => i < 2
      PROVE  Stops = {0}
  <2>1. from[0] = {0} \cup from[3]
    <3>1. 0 + 3 = 3
      OBVIOUS
    <3> QED  BY <1>4, <1>6, <1>8, <3>1 DEF Turn
  <2>2. from[3] = {}
    <3>1. 3 \in 0 .. last
      BY <1>N, <1>8
    <3>2. from[3] \subseteq {j \in Ordinal : 3 <= j /\ TypeAt(j).counter}
      BY <1>5, <3>1
    <3>3. ~(\E j \in Ordinal : 3 <= j /\ TypeAt(j).counter)
      BY <1>8, <1>N
    <3> QED  BY <3>2, <3>3
  <2> QED  BY <1>1, <2>1, <2>2
<1> QED  BY <1>7, <1>8

(***************************************************************************)
(* The layout of the records.                                              *)
(***************************************************************************)

\* The records a of n words: word k has w[k] of them from p[k] on, each of a type
\* in d[k], and there are no others.
Laid(n, p, w, d, a) ==
  /\ a \in Seq(Nat) /\ Len(a) = p[n + 1] /\ Len(a) <= 2 * n
  /\ \A k \in 1 .. n + 1 : p[k] \in Nat
  /\ \A k \in 1 .. n : \A i \in p[k] + 1 .. p[k] + w[k] : i \in 1 .. Len(a) /\ a[i] \in d[k]
  /\ \A i \in 1 .. Len(a) : \E k \in 1 .. n : i \in p[k] + 1 .. p[k] + w[k]

\* With one word more it is the layout of the n words before it and then its own
\* records.
Extends(n, p, w, d, a, q, v, e, b) ==
  /\ \A k \in 1 .. n + 1 : q[k] = p[k]
  /\ \A k \in 1 .. n : v[k] = w[k] /\ e[k] = d[k]
  /\ v[n + 1] \in 0 .. 2 /\ q[n + 2] = q[n + 1] + v[n + 1]
  /\ \E c \in Seq(Nat) :
       b = a \o c /\ Len(c) = v[n + 1] /\ \A i \in 1 .. Len(c) : c[i] \in e[n + 1]

LEMMA LaidNext ==
  ASSUME NEW n \in Nat, NEW p, NEW w, NEW d, NEW a, Laid(n, p, w, d, a),
         NEW q, NEW v, NEW e, NEW b, Extends(n, p, w, d, a, q, v, e, b)
  PROVE  Laid(n + 1, q, v, e, b)
<1>1. PICK c \in Seq(Nat) :
        b = a \o c /\ Len(c) = v[n + 1] /\ \A i \in 1 .. Len(c) : c[i] \in e[n + 1]
  BY DEF Extends
<1>2. /\ a \in Seq(Nat) /\ Len(a) \in Nat /\ Len(a) = p[n + 1] /\ Len(a) <= 2 * n
      /\ Len(c) \in Nat /\ \A k \in 1 .. n + 1 : p[k] \in Nat
  BY LenProperties DEF Laid
<1>3. /\ \A k \in 1 .. n + 1 : q[k] = p[k]
      /\ \A k \in 1 .. n : v[k] = w[k] /\ e[k] = d[k]
      /\ v[n + 1] \in 0 .. 2 /\ q[n + 2] = q[n + 1] + v[n + 1]
  BY DEF Extends
<1>L. PICK la, lc : la = Len(a) /\ lc = Len(c)
  OBVIOUS
<1>N. la \in Nat /\ lc \in 0 .. 2 /\ la <= 2 * n
  BY <1>1, <1>2, <1>3, <1>L
<1>4. /\ b \in Seq(Nat) /\ Len(b) = la + lc
      /\ \A i \in 1 .. la : b[i] = a[i]
      /\ \A i \in la + 1 .. la + lc : b[i] = c[i - la]
  <2>1. /\ a \o c \in Seq(Nat) /\ Len(a \o c) = la + lc
        /\ \A i \in 1 .. la + lc : (a \o c)[i] = IF i <= la THEN a[i] ELSE c[i - la]
    BY <1>2, <1>L, ConcatProperties
  <2>2. /\ b \in Seq(Nat) /\ Len(b) = la + lc
        /\ \A i \in 1 .. la + lc : b[i] = IF i <= la THEN a[i] ELSE c[i - la]
    BY <1>1, <2>1
  <2> QED  BY <1>N, <2>2
<1>5. q[n + 1] = la /\ v[n + 1] = lc /\ q[n + 2] = la + lc
  <2>1. n + 1 \in 1 .. n + 1
    OBVIOUS
  <2> QED  BY <1>1, <1>2, <1>3, <1>L, <2>1
<1>6. \A k \in 1 .. n + 2 : q[k] \in Nat
  <2>1. ASSUME NEW k \in 1 .. n + 2, k # n + 2 PROVE q[k] \in Nat
    <3>1. k \in 1 .. n + 1
      BY <2>1
    <3> QED  BY <1>2, <1>3, <3>1
  <2> QED  BY <1>5, <1>N, <2>1
<1>7. ASSUME NEW k \in 1 .. n + 1, NEW i \in q[k] + 1 .. q[k] + v[k]
      PROVE  i \in 1 .. la + lc /\ b[i] \in e[k]
  <2>1. CASE k = n + 1
    <3>1. i \in la + 1 .. la + lc
      BY <1>5, <1>7, <2>1
    <3>2. i - la \in 1 .. lc
      BY <1>N, <3>1
    <3>3. c[i - la] \in e[n + 1]
      BY <1>1, <1>L, <3>2
    <3> QED  BY <1>N, <1>4, <2>1, <3>1, <3>3
  <2>2. CASE k # n + 1
    <3>1. k \in 1 .. n
      BY <2>2
    <3>2. i \in p[k] + 1 .. p[k] + w[k]
      BY <1>3, <1>7, <3>1
    <3>3. i \in 1 .. la /\ a[i] \in d[k]
      BY <1>L, <3>1, <3>2 DEF Laid
    <3>4. b[i] = a[i] /\ e[k] = d[k]
      BY <1>3, <1>4, <3>1, <3>3
    <3> QED  BY <1>N, <3>3, <3>4
  <2> QED  BY <2>1, <2>2
<1>8. ASSUME NEW i \in 1 .. la + lc
      PROVE  \E k \in 1 .. n + 1 : i \in q[k] + 1 .. q[k] + v[k]
  <2>1. CASE i \in 1 .. la
    <3>1. PICK k \in 1 .. n : i \in p[k] + 1 .. p[k] + w[k]
      BY <1>L, <2>1 DEF Laid
    <3>2. k \in 1 .. n + 1
      OBVIOUS
    <3>3. q[k] = p[k] /\ v[k] = w[k]
      BY <1>3, <3>2
    <3> QED  BY <3>1, <3>2, <3>3
  <2>2. CASE i \notin 1 .. la
    <3>1. i \in la + 1 .. la + lc
      BY <1>N, <2>2
    <3>2. n + 1 \in 1 .. n + 1 /\ i \in q[n + 1] + 1 .. q[n + 1] + v[n + 1]
      BY <1>5, <3>1
    <3> QED  BY <3>2
  <2> QED  BY <2>1, <2>2
<1>9. b \in Seq(Nat) /\ Len(b) = q[(n + 1) + 1] /\ Len(b) <= 2 * (n + 1)
  <2>1. (n + 1) + 1 = n + 2
    OBVIOUS
  <2> QED  BY <1>N, <1>4, <1>5, <2>1
<1>10. \A k \in 1 .. (n + 1) + 1 : q[k] \in Nat
  <2>1. (n + 1) + 1 = n + 2
    OBVIOUS
  <2> QED  BY <1>6, <2>1
<1> QED  BY <1>4, <1>7, <1>8, <1>9, <1>10 DEF Laid

(***************************************************************************)
(* The inductive invariant.                                                *)
(***************************************************************************)

\* An id is registered once and never has an index; the words are looked at
\* after that, each once unless the string repeats it.
TypesInv ==
  /\ phase \in {"register", "select", "run"}
  /\ records \in Seq(PvType)
  /\ \A i \in 1 .. Len(records) :
       records[i].index = -1 /\ records[i].counter = (records[i].id \in Counters)
  /\ \A i, j \in 1 .. Len(records) : records[i].id = records[j].id => i = j
  /\ words \in Seq(Ids \cup Strangers) /\ Len(words) <= MaxWords
  /\ ~Repeats => \A i, j \in 1 .. Len(words) : words[i] = words[j] => i = j
  /\ phase = "register" => words = << >>

\* The active records are laid out as the words ask for.
Places == [k \in 1 .. Len(words) + 1 |-> Place(k)]
Widths == [k \in 1 .. Len(words) |-> Width(words[k])]
Types  == [k \in 1 .. Len(words) |-> IndexOf(words[k])]
LayoutInv == Laid(Len(words), Places, Widths, Types, active)

\* The node's values; before the run nothing was measured.
NodeInv ==
  /\ value \in [Cells -> Int] /\ startv \in [Cells -> Int] /\ inside \in BOOLEAN
  /\ entered \in Nat /\ calls \in Nat /\ spent \in Nat /\ clock \in Nat
  /\ told \in [Events -> Nat] /\ touched \subseteq Cells
  /\ entered <= clock
  /\ phase # "run" => ~inside /\ spent = 0 /\ value[0] = 0 /\ touched = {}

\* While a lone counter's node runs, its start value is when it was entered.
Lone ==
  /\ active # << >>
  /\ TypeAt(0).counter
  /\ \A i \in Ordinal : TypeAt(i).counter => i < 2
LoneInv ==
  Lone => /\ value[0] = spent /\ touched \subseteq Ordinal
          /\ inside => startv[1] = entered

RecInv == TypesInv /\ LayoutInv /\ NodeInv /\ LoneInv

\* The assumptions on the constants, one by one.
LEMMA Bounds ==
  /\ MaxWords \in Nat /\ MaxTime \in Nat /\ MaxCalls \in Nat /\ MaxTold \in Nat
  /\ Counters \cap Events = {} /\ Junk \subseteq Int /\ Strangers \cap Ids = {}
<1>1. MaxWords \in Nat
  BY RecordTypeConstants
<1>2. MaxTime \in Nat
  BY RecordTypeConstants
<1>3. MaxCalls \in Nat
  BY RecordTypeConstants
<1>4. MaxTold \in Nat
  BY RecordTypeConstants
<1>5. Counters \cap Events = {} /\ Junk \subseteq Int /\ Strangers \cap Ids = {}
  BY RecordTypeConstants DEF Ids
<1> QED  BY <1>1, <1>2, <1>3, <1>4, <1>5

(***************************************************************************)
(* What the layout implies.                                                *)
(***************************************************************************)

\* A word asks for two records, one or none.
LEMMA WidthFacts ==
  /\ \A word : Width(word) \in 0 .. 2
  /\ \A word : Width(word) = 0 <=> IndexOf(word) = {}
  /\ \A word : Width(word) = 2 => word \in Counters
BY DEF Width

\* A place is the sum of the widths before it.
LEMMA PlaceFacts ==
  Len(words) \in Nat => \A k \in 1 .. Len(words) + 1 : Place(k) = First(Widths, k - 1)
<1> SUFFICES ASSUME Len(words) \in Nat, NEW k \in 1 .. Len(words) + 1
             PROVE  Place(k) = First(Widths, k - 1)
  OBVIOUS
<1>1. \A j \in 1 .. k - 1 : j \in 1 .. Len(words)
  OBVIOUS
<1>2. [j \in 1 .. k - 1 |-> Width(words[j])] = [j \in 1 .. k - 1 |-> Widths[j]]
  BY <1>1 DEF Widths
<1> QED  BY <1>2 DEF Place, First

\* Without words there are no active records.
LEMMA NoWords == words = << >> => (LayoutInv <=> active = << >>)
<1> SUFFICES ASSUME words = << >> PROVE LayoutInv <=> active = << >>
  OBVIOUS
<1>1. Len(words) = 0
  OBVIOUS
<1>2. Place(1) = 0
  <2>1. Place(1) = First(Widths, 1 - 1)
    BY <1>1, PlaceFacts
  <2>2. PICK f : f = [j \in 1 .. 1 |-> 0]
    OBVIOUS
  <2>3. First(f, 0) = 0
    BY <2>2, FirstSums
  <2>4. [j \in 1 .. 0 |-> f[j]] = [j \in 1 .. 0 |-> Widths[j]]
    <3>1. \A j \in 1 .. 0 : f[j] = Widths[j]
      OBVIOUS
    <3> QED  BY <3>1
  <2>5. First(Widths, 0) = 0
    BY <2>3, <2>4 DEF First
  <2> QED  BY <2>1, <2>5
<1>3. Places[0 + 1] = 0 /\ \A k \in 1 .. 0 + 1 : Places[k] \in Nat
  BY <1>1, <1>2 DEF Places
<1>4. ASSUME LayoutInv PROVE active = << >>
  <2>1. active \in Seq(Nat) /\ Len(active) = 0
    BY <1>1, <1>3, <1>4 DEF LayoutInv, Laid
  <2> QED  BY <2>1, EmptySeq
<1>5. ASSUME active = << >> PROVE LayoutInv
  <2>1. active \in Seq(Nat) /\ Len(active) = 0
    BY <1>5
  <2> QED  BY <1>1, <1>3, <2>1 DEF LayoutInv, Laid
<1> QED  BY <1>4, <1>5

\* What the layout says of the active records.
LEMMA LayoutFacts ==
  ASSUME TypesInv, LayoutInv
  PROVE  /\ Len(words) \in Nat /\ Len(records) \in Nat /\ Len(active) \in 0 .. 2 * Len(words)
         /\ Len(active) \in 0 .. 2 * MaxWords
         /\ active \in Seq(1 .. Len(records))
         /\ Len(active) = Place(Len(words) + 1)
         /\ \A k \in 1 .. Len(words) + 1 : Place(k) \in Nat
         /\ \A k \in 1 .. Len(words) : \A i \in Place(k) + 1 .. Place(k) + Width(words[k]) :
              i \in 1 .. Len(active) /\ active[i] \in IndexOf(words[k])
         /\ \A i \in 1 .. Len(active) : \E k \in 1 .. Len(words) :
              i \in Place(k) + 1 .. Place(k) + Width(words[k])
<1>1. Len(words) \in Nat /\ Len(records) \in Nat /\ Len(words) <= MaxWords
  BY LenProperties DEF TypesInv
<1>2. PICK n, p, w, d : n = Len(words) /\ p = Places /\ w = Widths /\ d = Types
  OBVIOUS
<1>3. Laid(n, p, w, d, active)
  BY <1>2 DEF LayoutInv
<1>4. /\ \A k \in 1 .. n + 1 : p[k] = Place(k)
      /\ \A k \in 1 .. n : w[k] = Width(words[k]) /\ d[k] = IndexOf(words[k])
  BY <1>2 DEF Places, Widths, Types
<1>5. active \in Seq(Nat) /\ Len(active) \in Nat /\ Len(active) = p[n + 1] /\ Len(active) <= 2 * n
  BY <1>3, LenProperties DEF Laid
<1>6. ASSUME NEW k \in 1 .. n, NEW i \in Place(k) + 1 .. Place(k) + Width(words[k])
      PROVE  i \in 1 .. Len(active) /\ active[i] \in IndexOf(words[k])
  <2>1. k \in 1 .. n + 1
    BY <1>1, <1>2
  <2>2. p[k] = Place(k) /\ w[k] = Width(words[k]) /\ d[k] = IndexOf(words[k])
    BY <1>4, <2>1
  <2>3. i \in p[k] + 1 .. p[k] + w[k]
    BY <2>2
  <2>4. i \in 1 .. Len(active) /\ active[i] \in d[k]
    BY <1>3, <2>3 DEF Laid
  <2> QED  BY <2>2, <2>4
<1>7. ASSUME NEW i \in 1 .. Len(active)
      PROVE  \E k \in 1 .. n : i \in Place(k) + 1 .. Place(k) + Width(words[k])
  <2>1. PICK k \in 1 .. n : i \in p[k] + 1 .. p[k] + w[k]
    BY <1>3 DEF Laid
  <2>2. k \in 1 .. n + 1
    BY <1>1, <1>2
  <2>3. p[k] = Place(k) /\ w[k] = Width(words[k])
    BY <1>4, <2>2
  <2> QED  BY <2>1, <2>3
<1>8. \A k \in 1 .. n + 1 : Place(k) \in Nat
  BY <1>3, <1>4 DEF Laid
<1>9. Len(active) = Place(n + 1)
  BY <1>1, <1>2, <1>4, <1>5
<1>10. active \in Seq(1 .. Len(records))
  <2>1. ASSUME NEW i \in 1 .. Len(active) PROVE active[i] \in 1 .. Len(records)
    <3>1. PICK k \in 1 .. n : i \in Place(k) + 1 .. Place(k) + Width(words[k])
      BY <1>7
    <3>2. active[i] \in IndexOf(words[k])
      BY <1>6, <3>1
    <3> QED  BY <3>2 DEF IndexOf
  <2>2. active = [i \in 1 .. Len(active) |-> active[i]]
    BY <1>5, LenProperties
  <2>3. active \in [1 .. Len(active) -> 1 .. Len(records)]
    BY <2>1, <2>2
  <2> QED  BY <1>5, <2>3
<1>11. Len(active) \in 0 .. 2 * n /\ Len(active) \in 0 .. 2 * MaxWords
  BY <1>1, <1>2, <1>5, Bounds
<1> QED  BY <1>1, <1>2, <1>6, <1>7, <1>8, <1>9, <1>10, <1>11

\* What a walk over the records reaches.
LEMMA Reaches ==
  ASSUME TypesInv, LayoutInv
  PROVE  Reached \subseteq Cells /\ IsFiniteSet(Reached)
<1>1. Len(active) \in 0 .. 2 * MaxWords /\ MaxWords \in Nat
  BY LayoutFacts, Bounds
<1>2. Stops \subseteq Ordinal
  BY <1>1, WalkStops
<1>3. Reached \subseteq Cells
  BY <1>1, <1>2 DEF Reached, StartCell, Ordinal, Cells
<1>4. IsFiniteSet(Cells)
  <2>1. 0 \in Int /\ 2 * MaxWords \in Int
    BY <1>1
  <2> QED  BY <2>1, FS_Interval DEF Cells
<1> QED  BY <1>3, <1>4, FS_Subset

\* A counter that is first and alone has a start value behind it, and that is
\* where the walk writes.
LEMMA LoneReaches ==
  ASSUME TypesInv, LayoutInv, Lone
  PROVE  Reached = {1} /\ 0 \in Ordinal /\ 1 \in Ordinal
<1>1. /\ Len(active) \in 0 .. 2 * MaxWords /\ MaxWords \in Nat /\ active \in Seq(1 .. Len(records))
      /\ Len(records) \in Nat /\ Len(words) \in Nat
  BY LayoutFacts, Bounds
<1>2. Len(active) \in Nat /\ Len(active) # 0
  <2>1. active # << >>
    BY DEF Lone
  <2> QED  BY <1>1, <2>1, EmptySeq
<1>3. 0 \in Ordinal
  BY <1>2 DEF Ordinal
<1>4. PICK k \in 1 .. Len(words) : 1 \in Place(k) + 1 .. Place(k) + Width(words[k])
  <2>1. 1 \in 1 .. Len(active)
    BY <1>2
  <2>2. \A i \in 1 .. Len(active) :
          \E k \in 1 .. Len(words) : i \in Place(k) + 1 .. Place(k) + Width(words[k])
    BY LayoutFacts
  <2> QED  BY <2>1, <2>2
<1>5. k \in 1 .. Len(words) + 1
  BY <1>1
<1>6. Place(k) \in Nat /\ Width(words[k]) \in 0 .. 2
  BY <1>5, LayoutFacts, WidthFacts
<1>7. Place(k) = 0 /\ Width(words[k]) \in 1 .. 2
  BY <1>4, <1>6
<1>8. active[1] \in IndexOf(words[k])
  BY <1>4, LayoutFacts
<1>9. words[k] \in Counters
  <2>1. TypeAt(0) = records[active[1]]
    BY DEF TypeAt
  <2>2. records[active[1]].counter
    BY <2>1 DEF Lone
  <2>3. active[1] \in 1 .. Len(records) /\ records[active[1]].id = words[k]
    BY <1>8 DEF IndexOf
  <2> QED  BY <2>2, <2>3 DEF TypesInv
<1>10. Width(words[k]) = 2
  BY <1>8, <1>9 DEF Width
<1>11. 2 \in Place(k) + 1 .. Place(k) + Width(words[k])
  BY <1>7, <1>10
<1>12. 2 \in 1 .. Len(active)
  BY <1>11, LayoutFacts
<1>13. 1 \in Ordinal
  BY <1>2, <1>12 DEF Ordinal
<1>14. Stops = {0}
  BY <1>1, <1>3, WalkStops DEF Lone
<1>15. Reached = {1}
  BY <1>14 DEF Reached, StartCell
<1> QED  BY <1>3, <1>13, <1>15

\* Two active records of one type are of one word.
LEMMA SameWord ==
  ASSUME TypesInv, LayoutInv, ~Repeats,
         NEW j \in 1 .. Len(words), NEW i \in Place(j) + 1 .. Place(j) + Width(words[j]),
         NEW k \in 1 .. Len(words), active[i] \in IndexOf(words[k])
  PROVE  j = k
<1>1. active[i] \in IndexOf(words[j])
  BY LayoutFacts
<1>2. words[j] = words[k]
  BY <1>1 DEF IndexOf
<1> QED  BY <1>2 DEF TypesInv

\* The flags describe the layout.
LEMMA FlagsFollow == ASSUME TypesInv, LayoutInv, ~Repeats PROVE FlagsMatchLayout
<1>1. SUFFICES ASSUME NEW k \in 1 .. Len(words), IndexOf(words[k]) # {},
                      NEW p, p = Place(k)
               PROVE  /\ TypeAt(p).id = words[k]
                      /\ words[k] \in Counters => Flag(p) = "A" /\ Flag(p + 1) = "S"
                      /\ words[k] \in Events   => Flag(p) = ""
  BY LayoutFacts DEF FlagsMatchLayout
<1>2. k \in 1 .. Len(words) + 1 /\ Len(words) \in Nat
  BY LayoutFacts
<1>3. p \in Nat /\ Width(words[k]) \in 1 .. 2
  BY <1>1, <1>2, LayoutFacts, WidthFacts
<1>4. p + 1 \in Place(k) + 1 .. Place(k) + Width(words[k])
  BY <1>1, <1>3
<1>5. p + 1 \in 1 .. Len(active) /\ active[p + 1] \in IndexOf(words[k])
  BY <1>4, LayoutFacts
<1>6. /\ active[p + 1] \in 1 .. Len(records) /\ TypeAt(p) = records[active[p + 1]]
      /\ TypeAt(p).id = words[k]
  BY <1>5 DEF IndexOf, TypeAt
<1>7. TypeAt(p).counter = (words[k] \in Counters)
  BY <1>6 DEF TypesInv
<1>8. p > 0 => active[p] # active[p + 1]
  <2>1. SUFFICES ASSUME p > 0, active[p] = active[p + 1] PROVE FALSE
    OBVIOUS
  <2>2. p \in 1 .. Len(active)
    BY <1>3, <1>5, <2>1
  <2>3. PICK j \in 1 .. Len(words) : p \in Place(j) + 1 .. Place(j) + Width(words[j])
    BY <2>2, LayoutFacts
  <2>4. j = k
    <3>1. active[p] \in IndexOf(words[k])
      BY <1>5, <2>1
    <3> QED  BY <2>3, <3>1, SameWord
  <2> QED  BY <1>1, <1>3, <2>3, <2>4
<1>9. Flag(p) = IF TypeAt(p).counter THEN "A" ELSE ""
  BY <1>3, <1>8 DEF Flag
<1>10. ASSUME words[k] \in Counters PROVE Flag(p + 1) = "S"
  <2>1. Width(words[k]) = 2
    BY <1>1, <1>10 DEF Width
  <2>2. (p + 1) + 1 \in Place(k) + 1 .. Place(k) + Width(words[k])
    BY <1>1, <1>3, <2>1
  <2>3. active[(p + 1) + 1] \in IndexOf(words[k])
    BY <2>2, LayoutFacts
  <2>4. active[p + 1] = active[(p + 1) + 1]
    BY <1>5, <2>3 DEF IndexOf, TypesInv
  <2> QED  BY <1>3, <2>4 DEF Flag
<1>11. words[k] \in Events => words[k] \notin Counters
  BY Bounds
<1> QED  BY <1>6, <1>7, <1>9, <1>10, <1>11

(***************************************************************************)
(* The steps.                                                              *)
(***************************************************************************)

\* What the layout of the state depends on.
LEMMA SetupKept ==
  ASSUME UNCHANGED <<records, active, words>>
  PROVE  /\ LayoutInv' <=> LayoutInv
         /\ Lone' <=> Lone
         /\ Ordinal' = Ordinal
BY DEF LayoutInv, Places, Place, Widths, Width, Types, IndexOf, Lone, TypeAt, Ordinal

\* Registering a type.
LEMMA AddStep ==
  ASSUME RecInv, NEW id \in Ids, AddPv(id)
  PROVE  TypesInv' /\ LayoutInv'
<1>0. TypesInv /\ LayoutInv
  BY DEF RecInv
<1>1. PICK rec : rec = [id |-> id, counter |-> id \in Counters, index |-> -1]
  OBVIOUS
<1>2. /\ phase = "register" /\ phase' = phase /\ active' = active /\ words' = words
      /\ \A i \in 1 .. Len(records) : records[i].id # id
      /\ records' = Append(records, rec)
  BY <1>1 DEF AddPv
<1>3. rec \in PvType /\ rec.id = id /\ rec.index = -1 /\ rec.counter = (id \in Counters)
  BY <1>1 DEF PvType
<1>4. /\ records \in Seq(PvType) /\ Len(records) \in Nat
      /\ records' \in Seq(PvType) /\ Len(records') = Len(records) + 1
      /\ \A i \in 1 .. Len(records) : records'[i] = records[i]
      /\ records'[Len(records) + 1] = rec
  <2>1. records \in Seq(PvType) /\ Len(records) \in Nat
    BY <1>0, LenProperties DEF TypesInv
  <2> QED  BY <1>2, <1>3, <2>1
<1>5. ASSUME NEW i \in 1 .. Len(records')
      PROVE  /\ records'[i].index = -1 /\ records'[i].counter = (records'[i].id \in Counters)
             /\ \A j \in 1 .. Len(records') : records'[i].id = records'[j].id => i = j
  <2>1. \A j \in 1 .. Len(records') : j \in 1 .. Len(records) \/ j = Len(records) + 1
    BY <1>4
  <2>2. CASE i \in 1 .. Len(records)
    <3>1. records'[i] = records[i] /\ records[i].id # id
      BY <1>2, <1>4, <2>2
    <3>2. ASSUME NEW j \in 1 .. Len(records'), records'[i].id = records'[j].id PROVE i = j
      <4>1. j # Len(records) + 1
        BY <1>3, <1>4, <3>1, <3>2
      <4>2. j \in 1 .. Len(records) /\ records'[j] = records[j]
        BY <1>4, <2>1, <4>1
      <4> QED  BY <1>0, <2>2, <3>1, <3>2, <4>2 DEF TypesInv
    <3> QED  BY <1>0, <2>2, <3>1, <3>2 DEF TypesInv
  <2>3. CASE i = Len(records) + 1
    <3>1. records'[i] = rec
      BY <1>4, <2>3
    <3>2. ASSUME NEW j \in 1 .. Len(records'), records'[i].id = records'[j].id PROVE i = j
      <4>1. j \notin 1 .. Len(records)
        BY <1>2, <1>3, <1>4, <3>1, <3>2
      <4> QED  BY <2>1, <2>3, <4>1
    <3> QED  BY <1>3, <3>1, <3>2
  <2> QED  BY <2>1, <2>2, <2>3
<1>6. words = << >> /\ words' = << >>
  BY <1>0, <1>2 DEF TypesInv
<1>7. TypesInv'
  <2>1. \A i, j \in 1 .. Len(records') : records'[i].id = records'[j].id => i = j
    BY <1>5
  <2> QED  BY <1>0, <1>2, <1>4, <1>5, <1>6, <2>1 DEF TypesInv
<1>8. active' = << >>
  BY <1>0, <1>2, <1>6, NoWords
<1>9. (words = << >> => (LayoutInv <=> active = << >>))'
  BY NoWords, PTL
<1> QED  BY <1>6, <1>7, <1>8, <1>9

\* Sequences of one number.
LEMMA Repeated ==
  ASSUME NEW i \in Nat
  PROVE  /\ <<i>> \in Seq(Nat) /\ Len(<<i>>) = 1 /\ \A m \in 1 .. 1 : <<i>>[m] = i
         /\ <<i, i>> \in Seq(Nat) /\ Len(<<i, i>>) = 2 /\ \A m \in 1 .. 2 : <<i, i>>[m] = i
<1>1. <<i>> \in Seq(Nat) /\ <<i, i>> \in Seq(Nat)
  OBVIOUS
<1>2. Len(<<i>>) = 1 /\ Len(<<i, i>>) = 2
  OBVIOUS
<1>3. (\A m \in 1 .. 1 : <<i>>[m] = i) /\ \A m \in 1 .. 2 : <<i, i>>[m] = i
  OBVIOUS
<1> QED  BY <1>1, <1>2, <1>3

\* What a word adds is what it asks for.
LEMMA WordAdds ==
  ASSUME TypesInv, NEW word, NEW c,
         c = IF \E i \in IndexOf(word) : records[i].index = -1
             THEN Elements(CHOOSE i \in IndexOf(word) : TRUE)
             ELSE << >>
  PROVE  c \in Seq(Nat) /\ Len(c) = Width(word) /\ \A i \in 1 .. Len(c) : c[i] \in IndexOf(word)
<1>1. CASE IndexOf(word) = {}
  <2>1. c = << >>
    BY <1>1
  <2> QED  BY <1>1, <2>1 DEF Width
<1>2. CASE IndexOf(word) # {}
  <2>1. PICK i : i = CHOOSE j \in IndexOf(word) : TRUE
    OBVIOUS
  <2>2. i \in IndexOf(word)
    BY <1>2, <2>1
  <2>3. i \in 1 .. Len(records) /\ records[i].id = word
    BY <2>2 DEF IndexOf
  <2>4. records[i].index = -1 /\ records[i].counter = (word \in Counters)
    BY <2>3 DEF TypesInv
  <2>5. c = Elements(i)
    BY <2>1, <2>2, <2>4
  <2>6. i \in Nat
    BY <2>3
  <2>7. CASE word \in Counters
    <3>1. c = <<i, i>> /\ Width(word) = 2
      BY <1>2, <2>4, <2>5, <2>7 DEF Elements, Width
    <3>2. <<i, i>> \in Seq(Nat) /\ Len(<<i, i>>) = 2 /\ \A m \in 1 .. 2 : <<i, i>>[m] = i
      BY <2>6, Repeated
    <3>3. c \in Seq(Nat) /\ Len(c) = 2 /\ \A m \in 1 .. 2 : c[m] = i
      BY <3>1, <3>2, Zenon
    <3> QED  BY <2>2, <3>1, <3>3
  <2>8. CASE word \notin Counters
    <3>1. c = <<i>> /\ Width(word) = 1
      BY <1>2, <2>4, <2>5, <2>8 DEF Elements, Width
    <3>2. <<i>> \in Seq(Nat) /\ Len(<<i>>) = 1 /\ \A m \in 1 .. 1 : <<i>>[m] = i
      BY <2>6, Repeated
    <3>3. c \in Seq(Nat) /\ Len(c) = 1 /\ \A m \in 1 .. 1 : c[m] = i
      BY <3>1, <3>2, Zenon
    <3> QED  BY <2>2, <3>1, <3>3
  <2> QED  BY <2>7, <2>8
<1> QED  BY <1>1, <1>2

\* Looking at a word.
LEMMA WordStep ==
  ASSUME RecInv, NEW word \in Ids \cup Strangers, AddActiveRecord(word)
  PROVE  TypesInv' /\ LayoutInv'
<1>0. TypesInv /\ LayoutInv /\ MaxWords \in Nat
  BY Bounds DEF RecInv
<1>1. PICK c : c = IF \E i \in IndexOf(word) : records[i].index = -1
                   THEN Elements(CHOOSE i \in IndexOf(word) : TRUE)
                   ELSE << >>
  OBVIOUS
<1>2. /\ phase = "select" /\ phase' = phase /\ records' = records
      /\ Len(words) < MaxWords /\ (Repeats \/ ~Contains(words, word))
      /\ words' = Append(words, word) /\ active' = active \o c
  BY <1>1 DEF AddActiveRecord
<1>3. PICK n \in Nat : n = Len(words)
  BY <1>0, LenProperties DEF TypesInv
<1>4. /\ words' \in Seq(Ids \cup Strangers) /\ Len(words') = n + 1
      /\ \A k \in 1 .. n : words'[k] = words[k]
      /\ words'[n + 1] = word
  BY <1>0, <1>2, <1>3 DEF TypesInv
<1>5. TypesInv'
  <2>1. ASSUME ~Repeats, NEW i \in 1 .. n + 1, NEW j \in 1 .. n + 1, words'[i] = words'[j]
        PROVE  i = j
    <3>1. \A k \in 1 .. n : words[k] # word
      BY <1>2, <1>3, <2>1 DEF Contains
    <3>2. \A k \in 1 .. n + 1 : k \in 1 .. n \/ k = n + 1
      OBVIOUS
    <3>3. CASE i \in 1 .. n /\ j \in 1 .. n
      BY <1>0, <1>3, <1>4, <2>1, <3>3 DEF TypesInv
    <3>4. CASE i = n + 1 \/ j = n + 1
      BY <1>4, <2>1, <3>1, <3>2, <3>4
    <3> QED  BY <3>2, <3>3, <3>4
  <2>2. Len(words') <= MaxWords
    BY <1>0, <1>2, <1>3, <1>4
  <2> QED  BY <1>0, <1>2, <1>4, <2>1, <2>2 DEF TypesInv
<1>6. PICK q, v, e : q = Places' /\ v = Widths' /\ e = Types'
  OBVIOUS
<1>7. /\ v = [k \in 1 .. n + 1 |-> Width(words'[k])]
      /\ e = [k \in 1 .. n + 1 |-> IndexOf(words'[k])]
  BY <1>2, <1>4, <1>6 DEF Widths, Types, Width, IndexOf
<1>8. /\ \A k \in 1 .. n : v[k] = Widths[k] /\ e[k] = Types[k]
      /\ v[n + 1] = Width(word) /\ e[n + 1] = IndexOf(word)
  <2>1. ASSUME NEW k \in 1 .. n PROVE v[k] = Widths[k] /\ e[k] = Types[k]
    <3>1. k \in 1 .. n + 1 /\ words'[k] = words[k]
      BY <1>4
    <3> QED  BY <1>3, <1>7, <3>1 DEF Widths, Types
  <2>2. n + 1 \in 1 .. n + 1
    OBVIOUS
  <2> QED  BY <1>4, <1>7, <2>1, <2>2
<1>9. \A k \in 1 .. n + 2 : q[k] = First(v, k - 1)
  <2>1. (Len(words) \in Nat =>
           \A k \in 1 .. Len(words) + 1 : Place(k) = First(Widths, k - 1))'
    BY PlaceFacts, PTL
  <2>2. q = [k \in 1 .. Len(words') + 1 |-> Place(k)']
    BY <1>6 DEF Places
  <2>3. Len(words') + 1 = n + 2 /\ Len(words') \in Nat
    BY <1>4
  <2>4. \A k \in 1 .. n + 2 : Place(k)' = First(v, k - 1)
    BY <1>6, <2>1, <2>3
  <2> QED  BY <2>2, <2>3, <2>4
<1>10. \A k \in 1 .. n + 1 : q[k] = Places[k]
  <2>1. ASSUME NEW k \in 1 .. n + 1 PROVE q[k] = Places[k]
    <3>1. k \in 1 .. n + 2
      OBVIOUS
    <3>2. Places[k] = First(Widths, k - 1)
      BY <1>3, PlaceFacts DEF Places
    <3>3. [j \in 1 .. k - 1 |-> v[j]] = [j \in 1 .. k - 1 |-> Widths[j]]
      <4>1. \A j \in 1 .. k - 1 : j \in 1 .. n
        OBVIOUS
      <4> QED  BY <1>8, <4>1
    <3> QED  BY <1>9, <3>1, <3>2, <3>3 DEF First
  <2> QED  BY <2>1
<1>11. q[n + 2] = q[n + 1] + v[n + 1] /\ v[n + 1] \in 0 .. 2
  <2>1. ASSUME NEW j \in 1 .. n + 1 PROVE v[j] \in Nat
    <3>1. v[j] = Width(words'[j])
      BY <1>7
    <3>2. Width(words'[j]) \in 0 .. 2
      BY WidthFacts
    <3> QED  BY <3>1, <3>2
  <2>2. First(v, n + 1) = First(v, n) + v[n + 1]
    BY <2>1, FirstSums
  <2>3. q[n + 2] = First(v, n + 1) /\ q[n + 1] = First(v, n)
    <3>1. n + 2 \in 1 .. n + 2 /\ n + 1 \in 1 .. n + 2 /\ (n + 2) - 1 = n + 1 /\ (n + 1) - 1 = n
      OBVIOUS
    <3> QED  BY <1>9, <3>1
  <2> QED  BY <1>8, <2>2, <2>3, WidthFacts
<1>12. Extends(n, Places, Widths, Types, active, q, v, e, active')
  <2>1. c \in Seq(Nat) /\ Len(c) = v[n + 1] /\ \A i \in 1 .. Len(c) : c[i] \in e[n + 1]
    <3>1. c \in Seq(Nat) /\ Len(c) = Width(word) /\ \A i \in 1 .. Len(c) : c[i] \in IndexOf(word)
      BY <1>0, <1>1, WordAdds
    <3> QED  BY <1>8, <3>1
  <2> QED  BY <1>2, <1>8, <1>10, <1>11, <2>1 DEF Extends
<1>13. Laid(n + 1, q, v, e, active')
  BY <1>0, <1>3, <1>12, LaidNext DEF LayoutInv
<1>14. LayoutInv'
  BY <1>4, <1>6, <1>13 DEF LayoutInv
<1> QED  BY <1>5, <1>14

\* Before the run the node has nothing.
LEMMA SetupStep ==
  ASSUME RecInv, phase # "run", phase' \in {"register", "select", "run"},
         UNCHANGED <<nodeVars, clock>>
  PROVE  NodeInv' /\ LoneInv'
<1>1. /\ value' = value /\ startv' = startv /\ inside' = inside /\ entered' = entered
      /\ calls' = calls /\ spent' = spent /\ told' = told /\ touched' = touched /\ clock' = clock
  BY DEF nodeVars
<1>2. ~inside /\ spent = 0 /\ value[0] = 0 /\ touched = {}
  BY DEF RecInv, NodeInv
<1>3. NodeInv'
  BY <1>1, <1>2 DEF RecInv, NodeInv
<1>4. LoneInv'
  BY <1>1, <1>2 DEF LoneInv
<1> QED  BY <1>3, <1>4

\* A call of the node.
LEMMA StartStep ==
  ASSUME RecInv, StartNode
  PROVE  NodeInv' /\ LoneInv'
<1>0. TypesInv /\ LayoutInv /\ NodeInv /\ LoneInv
  BY DEF RecInv
<1>1. PICK new : new = [c \in Cells |-> IF c \in Reached \cap Ordinal THEN clock ELSE value[c]]
  OBVIOUS
<1>2. /\ phase = "run" /\ phase' = "run" /\ inside' = TRUE /\ calls' = calls + 1
      /\ value' = new /\ startv' = [c \in Cells |-> IF c \in Ordinal THEN new[c] ELSE startv[c]]
      /\ touched' = touched \cup Reached /\ entered' = clock
      /\ spent' = spent /\ told' = told /\ clock' = clock
      /\ UNCHANGED <<records, active, words>>
  BY <1>1 DEF StartNode, setupVars
<1>3. Reached \subseteq Cells
  BY <1>0, Reaches
<1>4. new \in [Cells -> Int]
  BY <1>0, <1>1 DEF NodeInv
<1>5. value' \in [Cells -> Int] /\ startv' \in [Cells -> Int]
  BY <1>0, <1>2, <1>4 DEF NodeInv
<1>6. NodeInv'
  BY <1>0, <1>2, <1>3, <1>5 DEF NodeInv
<1>7. ASSUME Lone PROVE value'[0] = spent' /\ touched' \subseteq Ordinal /\ startv'[1] = entered'
  <2>1. Reached = {1} /\ 0 \in Ordinal /\ 1 \in Ordinal
    BY <1>0, <1>7, LoneReaches
  <2>2. 0 \in Cells /\ 1 \in Cells
    <3>1. 1 \in Cells
      BY <1>3, <2>1
    <3> QED  BY <3>1, Bounds DEF Cells
  <2>3. value[0] = spent /\ touched \subseteq Ordinal
    BY <1>0, <1>7 DEF LoneInv
  <2>4. new[0] = value[0]
    BY <1>1, <2>1, <2>2
  <2>5. new[1] = clock
    BY <1>1, <2>1, <2>2
  <2>6. startv'[1] = new[1]
    BY <1>2, <2>1, <2>2
  <2> QED  BY <1>2, <2>1, <2>3, <2>4, <2>5, <2>6
<1>8. LoneInv'
  <2>1. (Lone' <=> Lone) /\ Ordinal' = Ordinal
    BY <1>2, SetupKept
  <2> QED  BY <1>7, <2>1 DEF LoneInv
<1> QED  BY <1>6, <1>8

\* A return from the node.
LEMMA EndStep ==
  ASSUME RecInv, EndNode
  PROVE  NodeInv' /\ LoneInv'
<1>0. TypesInv /\ LayoutInv /\ NodeInv /\ LoneInv
  BY DEF RecInv
<1>1. PICK junk \in Junk :
        value' = [value EXCEPT ![0] = @ + SumFunction([c \in Reached |->
                    clock - (IF c \in Ordinal THEN startv[c] ELSE junk)])]
  BY DEF EndNode
<1>2. PICK terms : terms = [c \in Reached |-> clock - (IF c \in Ordinal THEN startv[c] ELSE junk)]
  OBVIOUS
<1>3. PICK gain : gain = SumFunctionOnSet(terms, Reached)
  OBVIOUS
<1>4. value' = [value EXCEPT ![0] = value[0] + gain]
  BY <1>1, <1>2, <1>3 DEF SumFunction
<1>5. /\ phase = "run" /\ phase' = "run" /\ inside /\ inside' = FALSE
      /\ touched' = touched \cup Reached /\ spent' = (spent + clock) - entered
      /\ startv' = startv /\ entered' = entered /\ calls' = calls /\ told' = told /\ clock' = clock
      /\ UNCHANGED <<records, active, words>>
  BY DEF EndNode, setupVars
<1>6. Reached \subseteq Cells /\ IsFiniteSet(Reached)
  BY <1>0, Reaches
<1>7. \A c \in Reached : terms[c] \in Int
  <2>1. junk \in Int /\ clock \in Int /\ startv \in [Cells -> Int]
    BY <1>0, Bounds DEF NodeInv
  <2> QED  BY <1>2, <1>6, <2>1
<1>8. gain \in Int
  BY <1>3, <1>6, <1>7, SumFacts
<1>9. 0 \in Cells /\ value \in [Cells -> Int] /\ value[0] \in Int
  <2>1. 0 \in Cells
    BY Bounds DEF Cells
  <2> QED  BY <1>0, <2>1 DEF NodeInv
<1>10. value' \in [Cells -> Int] /\ value'[0] = value[0] + gain
  BY <1>4, <1>8, <1>9
<1>11. spent' \in Nat
  BY <1>0, <1>5 DEF NodeInv
<1>12. NodeInv'
  BY <1>0, <1>5, <1>6, <1>10, <1>11 DEF NodeInv
<1>13. ASSUME Lone PROVE value'[0] = spent' /\ touched' \subseteq Ordinal
  <2>1. Reached = {1} /\ 1 \in Ordinal
    BY <1>0, <1>13, LoneReaches
  <2>2. value[0] = spent /\ touched \subseteq Ordinal /\ startv[1] = entered
    BY <1>0, <1>5, <1>13 DEF LoneInv
  <2>3. terms[1] = clock - entered
    BY <1>2, <2>1, <2>2
  <2>4. gain = terms[1]
    <3>1. Summable(terms, {1})
      BY <1>6, <1>7, <2>1 DEF Summable
    <3>2. SumFunctionOnSet(terms, {1}) = terms[1] + SumFunctionOnSet(terms, {1} \ {1})
      BY <3>1, SumRemove
    <3>3. {1} \ {1} = {} /\ IsFiniteSet({})
      BY FS_EmptySet
    <3>4. SumFunctionOnSet(terms, {}) = 0
      BY <3>3, SumFacts
    <3>5. terms[1] \in Int
      BY <1>7, <2>1
    <3>6. PICK s : s = SumFunctionOnSet(terms, {1})
      OBVIOUS
    <3>7. s = terms[1] + 0
      BY <3>2, <3>3, <3>4, <3>6, Zenon
    <3> QED  BY <1>3, <2>1, <3>5, <3>6, <3>7
  <2>5. value'[0] = spent'
    BY <1>0, <1>5, <1>10, <2>2, <2>3, <2>4 DEF NodeInv
  <2> QED  BY <1>5, <2>1, <2>2, <2>5
<1>14. LoneInv'
  <2>1. (Lone' <=> Lone) /\ Ordinal' = Ordinal
    BY <1>5, SetupKept
  <2> QED  BY <1>5, <1>13, <2>1 DEF LoneInv
<1> QED  BY <1>12, <1>14

\* A report of an event is not added to any value.
LEMMA IclStep ==
  ASSUME RecInv, NEW i \in 1 .. Len(records), Icl(i, 1)
  PROVE  NodeInv' /\ LoneInv'
<1>0. TypesInv /\ LayoutInv /\ NodeInv /\ LoneInv
  BY DEF RecInv
<1>1. records[i].index = -1 /\ records[i].id \in Events
  BY <1>0 DEF TypesInv, Icl
<1>2. /\ phase = "run" /\ phase' = "run" /\ inside' = inside
      /\ told' = [told EXCEPT ![records[i].id] = @ + 1]
      /\ value' = value /\ touched' = touched /\ spent' = spent
      /\ startv' = startv /\ entered' = entered /\ calls' = calls /\ clock' = clock
      /\ UNCHANGED <<records, active, words>>
  BY <1>1 DEF Icl, setupVars
<1>3. told' \in [Events -> Nat]
  BY <1>0, <1>1, <1>2 DEF NodeInv
<1>4. NodeInv'
  BY <1>0, <1>2, <1>3 DEF NodeInv
<1>5. LoneInv'
  <2>1. (Lone' <=> Lone) /\ Ordinal' = Ordinal
    BY <1>2, SetupKept
  <2> QED  BY <1>0, <1>2, <2>1 DEF LoneInv
<1> QED  BY <1>4, <1>5

\* Time passes.
LEMMA TickStep ==
  ASSUME RecInv, Tick
  PROVE  NodeInv' /\ LoneInv'
<1>0. NodeInv /\ LoneInv
  BY DEF RecInv
<1>1. /\ phase = "run" /\ phase' = "run" /\ inside' = inside /\ told' = told
      /\ value' = value /\ touched' = touched /\ spent' = spent
      /\ startv' = startv /\ entered' = entered /\ calls' = calls /\ clock' = clock + 1
      /\ UNCHANGED <<records, active, words>>
  BY DEF Tick, setupVars, nodeVars
<1>2. NodeInv'
  BY <1>0, <1>1 DEF NodeInv
<1>3. LoneInv'
  <2>1. (Lone' <=> Lone) /\ Ordinal' = Ordinal
    BY <1>1, SetupKept
  <2> QED  BY <1>0, <1>1, <2>1 DEF LoneInv
<1> QED  BY <1>2, <1>3

\* Every step keeps the invariant.
LEMMA RecStep ==
  ASSUME RecInv, [Next]_vars
  PROVE  RecInv'
<1>0. TypesInv /\ LayoutInv /\ NodeInv /\ LoneInv
  BY DEF RecInv
<1>S. ASSUME UNCHANGED <<records, active, words>>, phase' \in {"register", "select", "run"},
             phase' = "register" => phase = "register"
      PROVE  TypesInv' /\ LayoutInv'
  <2>1. TypesInv'
    BY <1>0, <1>S DEF TypesInv
  <2>2. LayoutInv'
    BY <1>0, <1>S, SetupKept
  <2> QED  BY <2>1, <2>2
<1>1. ASSUME NEW id \in Ids, AddPv(id) PROVE RecInv'
  <2>1. phase # "run" /\ phase' \in {"register", "select", "run"} /\ UNCHANGED <<nodeVars, clock>>
    BY <1>1 DEF AddPv
  <2> QED  BY <1>1, <2>1, AddStep, SetupStep DEF RecInv
<1>2. ASSUME ReadRecordString \/ StartProfile PROVE RecInv'
  <2>1. /\ phase # "run" /\ phase' \in {"select", "run"} /\ UNCHANGED <<nodeVars, clock>>
        /\ UNCHANGED <<records, active, words>>
    BY <1>2 DEF ReadRecordString, StartProfile
  <2>2. TypesInv' /\ LayoutInv'
    BY <1>S, <2>1
  <2>3. NodeInv' /\ LoneInv'
    BY <2>1, SetupStep
  <2> QED  BY <2>2, <2>3 DEF RecInv
<1>3. ASSUME NEW word \in Ids \cup Strangers, AddActiveRecord(word) PROVE RecInv'
  <2>1. phase # "run" /\ phase' \in {"register", "select", "run"} /\ UNCHANGED <<nodeVars, clock>>
    BY <1>3 DEF AddActiveRecord
  <2> QED  BY <1>3, <2>1, WordStep, SetupStep DEF RecInv
<1>4. ASSUME \/ StartNode \/ EndNode \/ Tick
             \/ \E i \in 1 .. Len(records) : Icl(i, 1)
      PROVE  RecInv'
  <2>1. UNCHANGED <<records, active, words>> /\ phase = "run" /\ phase' = "run"
    BY <1>4 DEF StartNode, EndNode, Tick, Icl, setupVars
  <2>2. TypesInv' /\ LayoutInv'
    BY <1>S, <2>1
  <2>3. NodeInv' /\ LoneInv'
    BY <1>4, StartStep, EndStep, TickStep, IclStep
  <2> QED  BY <2>2, <2>3 DEF RecInv
<1>5. ASSUME UNCHANGED vars PROVE RecInv'
  <2>1. /\ UNCHANGED <<records, active, words>> /\ phase' = phase
        /\ UNCHANGED <<value, startv, inside, entered, calls, spent, told, touched, clock>>
    BY <1>5 DEF vars, setupVars, nodeVars
  <2>2. TypesInv' /\ LayoutInv'
    BY <1>0, <1>S, <2>1 DEF TypesInv
  <2>3. NodeInv'
    BY <1>0, <2>1 DEF NodeInv
  <2>4. LoneInv'
    <3>1. (Lone' <=> Lone) /\ Ordinal' = Ordinal
      BY <2>1, SetupKept
    <3> QED  BY <1>0, <2>1, <3>1 DEF LoneInv
  <2> QED  BY <2>2, <2>3, <2>4 DEF RecInv
<1> QED  BY <1>1, <1>2, <1>3, <1>4, <1>5 DEF Next

(***************************************************************************)
(* Theorems on the record types.                                           *)
(***************************************************************************)

\* The invariant.
THEOREM RecInvariance == Spec => []RecInv
<1>1. Init => RecInv
  <2> SUFFICES ASSUME Init PROVE RecInv
    OBVIOUS
  <2>1. words = << >> /\ active = << >> /\ records = << >> /\ Len(words) = 0 /\ Len(records) = 0
    BY DEF Init
  <2>2. TypesInv
    <3>1. phase = "register" /\ MaxWords \in Nat
      BY Bounds DEF Init
    <3>2. records \in Seq(PvType) /\ words \in Seq(Ids \cup Strangers)
      BY <2>1
    <3>3. Len(words) <= MaxWords
      BY <2>1, <3>1
    <3> QED  BY <2>1, <3>1, <3>2, <3>3 DEF TypesInv
  <2>3. LayoutInv
    BY <2>1, NoWords
  <2>4. NodeInv
    <3>1. 0 \in Cells
      BY Bounds DEF Cells
    <3> QED  BY <3>1 DEF Init, NodeInv
  <2>5. LoneInv
    BY <2>1 DEF LoneInv, Lone
  <2> QED  BY <2>2, <2>3, <2>4, <2>5 DEF RecInv
<1>2. RecInv /\ [Next]_vars => RecInv'
  BY RecStep
<1> QED  BY <1>1, <1>2, PTL DEF Spec

\* The types of the variables; the walks stay within the arrays and one element
\* behind them.
THEOREM RecordTypesType == Spec => []TypeOK
<1>1. RecInv => TypeOK
  <2> SUFFICES ASSUME RecInv PROVE TypeOK
    OBVIOUS
  <2>1. TypesInv /\ LayoutInv /\ NodeInv
    BY DEF RecInv
  <2>2. active \in Seq(1 .. Len(records))
    BY <2>1, LayoutFacts
  <2> QED  BY <2>1, <2>2 DEF TypeOK, TypesInv, NodeInv
<1> QED  BY <1>1, RecInvariance, PTL

\* If LLPROF_RECORDS names no type twice, the flags the monitor is told describe
\* the layout of the values, whichever types were registered and in whatever
\* order.
THEOREM FlagsDescribeLayout == ASSUME ~Repeats PROVE Spec => []FlagsMatchLayout
<1>1. RecInv => FlagsMatchLayout
  BY FlagsFollow DEF RecInv
<1> QED  BY <1>1, RecInvariance, PTL

\* A counter that is the first active record and the only counter measures the
\* time spent in the node, and the walks stay within the array.
THEOREM LoneCounterIsRight == Spec => []LoneCounterMeasures
<1>1. RecInv => LoneCounterMeasures
  BY DEF RecInv, LoneInv, Lone, LoneCounterMeasures
<1> QED  BY <1>1, RecInvariance, PTL

(***************************************************************************)
(* The stream of measurements.                                             *)
(***************************************************************************)

CONSTANTS Threads, Nodes, MaxStep
VARIABLES made, held, sent, cuts

\* The abstract specification of the recorder, whatever its parameters.
Stream == INSTANCE ProfileStream

\* Every initial state and every step of the stream keeps the four totals
\* well typed.
THEOREM StreamType == Stream!Spec => []Stream!TypeOK
<1>1. Stream!Init => Stream!TypeOK
  BY DEF Stream!Init, Stream!TypeOK, Stream!Totals, Stream!Amount, Stream!Zero
<1>2. Stream!TypeOK /\ [Stream!Next]_(Stream!vars) => Stream!TypeOK'
  <2> SUFFICES ASSUME Stream!TypeOK, [Stream!Next]_(Stream!vars) PROVE Stream!TypeOK'
    OBVIOUS
  <2> USE DEF Stream!TypeOK
  <2>0. \A f \in Stream!Totals, t \in Threads, n \in Nodes, m \in Stream!Measures :
          [f EXCEPT ![t][n] = Stream!Plus(f[t][n], m)] \in Stream!Totals
    <3> SUFFICES ASSUME NEW f \in Stream!Totals, NEW t \in Threads, NEW n \in Nodes,
                        NEW m \in Stream!Measures
                 PROVE  [f EXCEPT ![t][n] = Stream!Plus(f[t][n], m)] \in Stream!Totals
      OBVIOUS
    <3>1. m.count \in Nat /\ m.time \in Nat
      BY DEF Stream!Measures, Stream!Call, Stream!Time
    <3>2. Stream!Plus(f[t][n], m) \in Stream!Amount
      BY <3>1 DEF Stream!Plus, Stream!Totals, Stream!Amount
    <3> QED  BY <3>2 DEF Stream!Totals
  <2>1. ASSUME NEW t \in Threads, NEW n \in Nodes, NEW m \in Stream!Measures,
               Stream!Record(t, n, m) \/ Stream!Miss(t, n, m)
        PROVE  Stream!TypeOK'
    BY <2>0, <2>1 DEF Stream!Record, Stream!Miss
  <2>2. ASSUME NEW t \in Threads, NEW n \in Nodes, Stream!Cut(t, n)  PROVE Stream!TypeOK'
    BY <2>2 DEF Stream!Cut
  <2>3. ASSUME NEW t \in Threads, Stream!Deliver(t)  PROVE Stream!TypeOK'
    BY <2>3 DEF Stream!Deliver
  <2>4. CASE UNCHANGED Stream!vars
    BY <2>4 DEF Stream!vars
  <2> QED  BY <2>1, <2>2, <2>3, <2>4 DEF Stream!Next
<1> QED  BY <1>1, <1>2, PTL DEF Stream!Spec

\* Conserved at one node, field by field.
Kept(md, hd, st, ct) ==
  /\ st.count + hd.count <= md.count
  /\ st.time + hd.time <= md.time
  /\ md.count <= (st.count + hd.count) + ct
  /\ ct = 0 => st.count + hd.count = md.count /\ st.time + hd.time = md.time

KeptAll == \A t \in Threads, n \in Nodes :
             Kept(made[t][n], held[t][n], sent[t][n], cuts[t][n])

\* Nothing the hooks measured is reported twice, and nothing is missing of a
\* node that no drain has cut (what every step of the recorder preserves).
THEOREM StreamConserved == Stream!Spec => []Stream!Conserved
<1>0. ASSUME Stream!TypeOK
      PROVE  Stream!Conserved <=> KeptAll
  <2>1. \A t \in Threads, n \in Nodes : made[t][n] \in Stream!Amount
    BY <1>0 DEF Stream!TypeOK, Stream!Totals
  <2>2. \A x, y \in Stream!Amount : x = y <=> (x.count = y.count /\ x.time = y.time)
    BY DEF Stream!Amount
  <2>3. \A t \in Threads, n \in Nodes : Stream!Plus(sent[t][n], held[t][n]) \in Stream!Amount
    BY <1>0 DEF Stream!TypeOK, Stream!Totals, Stream!Amount, Stream!Plus
  <2>4. \A x, y : Stream!Plus(x, y).count = x.count + y.count /\ Stream!Plus(x, y).time = x.time + y.time
    BY DEF Stream!Plus
  <2> QED  BY <2>1, <2>2, <2>3, <2>4 DEF Stream!Conserved, Stream!AtMost, KeptAll, Kept
<1>1. Stream!Init => KeptAll
  BY DEF Stream!Init, Stream!Zero, KeptAll, Kept
<1>2. Stream!TypeOK /\ Stream!TypeOK' /\ KeptAll /\ [Stream!Next]_(Stream!vars) => KeptAll'
  <2> SUFFICES ASSUME Stream!TypeOK, Stream!TypeOK', KeptAll, [Stream!Next]_(Stream!vars),
                      NEW u \in Threads, NEW k \in Nodes
               PROVE  Kept(made'[u][k], held'[u][k], sent'[u][k], cuts'[u][k])
    BY DEF KeptAll
  <2> USE DEF Kept
  <2>0. /\ Kept(made[u][k], held[u][k], sent[u][k], cuts[u][k])
        /\ made[u][k] \in Stream!Amount /\ held[u][k] \in Stream!Amount
        /\ sent[u][k] \in Stream!Amount /\ cuts[u][k] \in Nat
        /\ made'[u][k] \in Stream!Amount /\ held'[u][k] \in Stream!Amount
        /\ sent'[u][k] \in Stream!Amount /\ cuts'[u][k] \in Nat
    BY DEF Stream!TypeOK, Stream!Totals, KeptAll
  <2>P. \A x, y : Stream!Plus(x, y).count = x.count + y.count /\ Stream!Plus(x, y).time = x.time + y.time
    BY DEF Stream!Plus
  <2>1. ASSUME NEW t \in Threads, NEW n \in Nodes, NEW m \in Stream!Measures,
               Stream!Record(t, n, m) \/ Stream!Miss(t, n, m)
        PROVE  Kept(made'[u][k], held'[u][k], sent'[u][k], cuts'[u][k])
    <3>1. m.count \in Nat /\ m.time \in Nat
      BY DEF Stream!Measures, Stream!Call, Stream!Time
    <3>2. CASE t = u /\ n = k
      <4>1. made'[u][k] = Stream!Plus(made[u][k], m) /\ sent' = sent /\ cuts' = cuts
        BY <2>1, <3>2 DEF Stream!Record, Stream!Miss, Stream!TypeOK, Stream!Totals
      <4>2. CASE Stream!Record(t, n, m)
        <5>1. held'[u][k] = Stream!Plus(held[u][k], m)
          BY <4>2, <3>2 DEF Stream!Record, Stream!TypeOK, Stream!Totals
        <5> QED  BY <2>0, <2>P, <3>1, <4>1, <5>1 DEF Stream!Amount
      <4>3. CASE Stream!Miss(t, n, m)
        <5>1. /\ held' = held
              /\ cuts[u][k] > 0
              /\ made[u][k].count + m.count <=
                   (sent[u][k].count + held[u][k].count) + cuts[u][k]
          BY <4>3, <3>2 DEF Stream!Miss
        <5> QED  BY <2>0, <2>P, <3>1, <4>1, <5>1 DEF Stream!Amount
      <4> QED  BY <2>1, <4>2, <4>3
    <3>3. CASE ~(t = u /\ n = k)
      <4>1. made'[u][k] = made[u][k] /\ held'[u][k] = held[u][k]
            /\ sent' = sent /\ cuts' = cuts
        BY <2>1, <3>3 DEF Stream!Record, Stream!Miss, Stream!TypeOK, Stream!Totals
      <4> QED  BY <2>0, <4>1
    <3> QED  BY <3>2, <3>3
  <2>2. ASSUME NEW t \in Threads, NEW n \in Nodes, Stream!Cut(t, n)
        PROVE  Kept(made'[u][k], held'[u][k], sent'[u][k], cuts'[u][k])
    <3>1. cuts'[u][k] >= cuts[u][k]
      BY <2>2 DEF Stream!Cut, Stream!TypeOK
    <3> QED  BY <2>0, <2>2, <3>1 DEF Stream!Cut, Stream!Amount
  <2>3. ASSUME NEW t \in Threads, Stream!Deliver(t)
        PROVE  Kept(made'[u][k], held'[u][k], sent'[u][k], cuts'[u][k])
    <3>1. /\ made' = made /\ cuts' = cuts
          /\ Stream!Plus(sent'[u][k], held'[u][k]) = Stream!Plus(sent[u][k], held[u][k])
      BY <2>3 DEF Stream!Deliver
    <3> QED  BY <2>0, <3>1, <2>P
  <2>4. CASE UNCHANGED Stream!vars
    BY <2>0, <2>4 DEF Stream!vars
  <2> QED  BY <2>1, <2>2, <2>3, <2>4 DEF Stream!Next
<1>3. Stream!TypeOK /\ KeptAll => Stream!Conserved
  BY <1>0
<1> QED  BY <1>1, <1>2, <1>3, StreamType, PTL DEF Stream!Spec
=============================================================================
