---------------------------- MODULE AdaptersProofs ----------------------------
(***************************************************************************)
(* The recorder's cursor is where the program is, for each of the four     *)
(* adapters, any functions and any bounds: below the root are exactly the  *)
(* functions running whose calls were seen and the open sections, unless   *)
(* something was left without a return.  And a return that is ignored at   *)
(* the root is the return of a function whose call was not seen.           *)
(***************************************************************************)
EXTENDS Adapters, SequenceTheorems, WellFoundedInduction, TLAPS

(***************************************************************************)
(* The invariant.                                                          *)
(***************************************************************************)

Nodes == Functions \cup {Section}
Frames == [seen : Seq(Nodes), more : Seq(Nodes), where : {"outer", "loader", "inner", "endless"}]

TypeInv ==
  /\ adapter \in {"python", "ruby", "php", "lua"}
  /\ original \in {"zend", "hp"} /\ (original = "hp" => adapter = "php")
  /\ stack \in Seq(Frames) /\ Len(stack) >= 1
  /\ counter \in Int /\ counter >= -1
  /\ path \in Seq(Nodes \cup {Top}) /\ Len(path) >= 1 /\ path[1] = Top
  /\ astray \in BOOLEAN

\* A function that ran when the adapter was loaded was not seen, and below it
\* are only others of the kind, of which nothing is recorded.
Old(frame) == frame.where \in {"outer", "loader"}

Bare(frame) == frame.seen = << >> /\ frame.more = << >>

OldInv ==
  \A i \in 1 .. Len(stack) : Old(stack[i]) =>
    /\ stack[i].seen = << >>
    /\ adapter # "python" => stack[i].more = << >>
    /\ \A j \in 1 .. i - 1 : stack[j].where = "outer" /\ Bare(stack[j])

\* What the adapters see of the others.
NewInv ==
  \A i \in 1 .. Len(stack) :
    /\ Len(stack[i].seen) <= 1
    /\ adapter # "python" /\ ~Old(stack[i]) => Len(stack[i].seen) = 1
    /\ stack[i].where = "endless" => adapter = "php"
    /\ adapter \in {"ruby", "php"} => stack[i].more = << >>
    /\ adapter = "python" => stack[i].more \in Seq({Section})

\* The open sections.
Opens == FlattenSeq([i \in 1 .. Len(stack) |-> stack[i].more])

\* In Python the counter is the number of open sections, and a function is seen
\* while a function below it has one open.  But if the function that loads the
\* adapter ended with its section open, the counter is one too high, and every
\* function is seen from then on.
Even ==
  /\ IF counter = -1 THEN Opens = << >> ELSE counter = Len(Opens)
  /\ \A i \in 1 .. Len(stack) :
       stack[i].seen # << >> <=> \E j \in 1 .. i - 1 : stack[j].more # << >>

Ahead ==
  /\ counter = Len(Opens) + 1
  /\ \A i \in 1 .. Len(stack) : stack[i].seen = << >> <=> stack[i].where = "outer"

CounterInv == adapter = "python" => Even \/ Ahead

PathInv == path = <<Top>> \o Recorded

IInv == /\ TypeInv /\ OldInv /\ NewInv
        /\ ~astray => CounterInv /\ PathInv

(***************************************************************************)
(* Numbers.                                                                *)
(***************************************************************************)

\* The order of the numbers, as a relation.
LEMMA Descent ==
  \E R : IsWellFoundedOn(R, Nat) /\ \A k, m \in Nat : k < m => <<k, m>> \in R
<1>1. IsWellFoundedOn(OpToRel(<, Nat), Nat)
  BY NatLessThanWellFounded
<1>2. \A k, m \in Nat : k < m => <<k, m>> \in OpToRel(<, Nat)
  BY DEF OpToRel
<1> QED  BY <1>1, <1>2

\* Of the numbers without a property there is a least one; it is all that the
\* inductions below need.
LEMMA Least == ASSUME NEW S, S \subseteq Nat, S # {} PROVE \E m \in S : \A k \in S : m <= k
<1>1. PICK R : IsWellFoundedOn(R, Nat) /\ \A k, m \in Nat : k < m => <<k, m>> \in R
  BY Descent
<1>2. PICK m \in S : \A k \in S : ~ (<<k, m>> \in R)
  <2>1. \A RR, SS, TT : IsWellFoundedOn(RR, SS) /\ TT \subseteq SS /\ TT # {}
                          => \E x \in TT : \A y \in TT : ~ (<<y, x>> \in RR)
    BY WFMin
  <2>2. S \subseteq Nat /\ S # {} /\ IsWellFoundedOn(R, Nat)
    BY <1>1
  <2> QED  BY <2>1, <2>2
<1>3. ASSUME NEW k \in S PROVE m <= k
  <2>1. m \in Nat /\ k \in Nat
    OBVIOUS
  <2>2. ~(k < m)
    BY <1>1, <1>2, <2>1
  <2> QED  BY <2>1, <2>2
<1> QED  BY <1>3

\* An induction: what holds of 0 and passes on from a number to the next, up to
\* a bound, holds up to the bound.
LEMMA Induction ==
  ASSUME NEW last \in Nat, NEW T, 0 \in T, \A k \in 1 .. last : k - 1 \in T => k \in T
  PROVE  0 .. last \subseteq T
<1>1. PICK S : S = {k \in 0 .. last : k \notin T}
  OBVIOUS
<1>2. SUFFICES ASSUME S # {} PROVE FALSE
  BY <1>1
<1>3. PICK m \in S : \A k \in S : m <= k
  <2>1. S \subseteq Nat
    BY <1>1
  <2> QED  BY <1>2, <2>1, Least
<1>6. m \in 1 .. last /\ m \notin T
  BY <1>1, <1>3
<1>4. m - 1 \in 0 .. last /\ ~(m <= m - 1)
  BY <1>6
<1>5. m - 1 \in T
  BY <1>1, <1>3, <1>4
<1> QED  BY <1>5, <1>6

(***************************************************************************)
(* Sequences of sequences, one behind the other.                           *)
(***************************************************************************)

Chain(ss, k, all) == all = [i \in 1 .. k |-> IF i = 1 THEN ss[i] ELSE all[i - 1] \o ss[i]]

LEMMA ChainRuns == ASSUME NEW ss, NEW last \in Nat PROVE \E all : Chain(ss, last, all)
<1> DEFINE Runs == {k \in 0 .. last : \E all : Chain(ss, k, all)}
<1>1. 0 \in Runs
  <2>1. PICK all : all = [i \in 1 .. 0 |-> << >>]
    OBVIOUS
  <2>2. all = [i \in 1 .. 0 |-> IF i = 1 THEN ss[i] ELSE all[i - 1] \o ss[i]]
    BY <2>1
  <2>3. Chain(ss, 0, all)
    BY <2>2 DEF Chain
  <2> QED  BY <2>3
<1>2. ASSUME NEW k \in 1 .. last, k - 1 \in Runs PROVE k \in Runs
  <2>1. PICK all : Chain(ss, k - 1, all)
    BY <1>2
  <2>2. PICK more : more = [i \in 1 .. k |-> IF i < k THEN all[i]
                                             ELSE IF k = 1 THEN ss[k] ELSE all[k - 1] \o ss[k]]
    OBVIOUS
  <2>3. ASSUME NEW i \in 1 .. k
        PROVE  more[i] = IF i = 1 THEN ss[i] ELSE more[i - 1] \o ss[i]
    <3>1. CASE i < k
      <4>1. i \in 1 .. k - 1 /\ more[i] = all[i] /\ (i # 1 => more[i - 1] = all[i - 1])
        BY <2>2, <3>1
      <4>2. all[i] = IF i = 1 THEN ss[i] ELSE all[i - 1] \o ss[i]
        BY <2>1, <4>1 DEF Chain
      <4> QED  BY <4>1, <4>2
    <3>2. CASE i = k
      <4>1. k # 1 => k - 1 \in 1 .. k /\ k - 1 < k
        OBVIOUS
      <4>2. k # 1 => more[k - 1] = all[k - 1]
        BY <2>2, <4>1
      <4>3. more[k] = IF k = 1 THEN ss[k] ELSE all[k - 1] \o ss[k]
        BY <2>2
      <4> QED  BY <3>2, <4>2, <4>3
    <3> QED  BY <3>1, <3>2
  <2>4. more = [i \in 1 .. k |-> more[i]]
    BY <2>2
  <2>5. Chain(ss, k, more)
    BY <2>3, <2>4 DEF Chain
  <2> QED  BY <2>5
<1> HIDE DEF Runs
<1>3. 0 .. last \subseteq Runs
  BY <1>1, <1>2, Induction
<1> QED  BY <1>3 DEF Runs

LEMMA ChainFacts ==
  ASSUME NEW V, NEW n \in Nat, NEW ss \in [1 .. n -> Seq(V)], NEW all, Chain(ss, n, all)
  PROVE  \A k \in 1 .. n : /\ all[k] \in Seq(V)
                           /\ all[k] = << >> <=> \A i \in 1 .. k : ss[i] = << >>
<1> DEFINE Good(k) == k > 0 => /\ all[k] \in Seq(V)
                               /\ all[k] = << >> <=> \A i \in 1 .. k : ss[i] = << >>
<1> DEFINE Ks == {k \in 0 .. n : Good(k)}
<1>1. 0 \in Ks
  OBVIOUS
<1>2. ASSUME NEW k \in 1 .. n, k - 1 \in Ks PROVE k \in Ks
  <2>1. all[k] = IF k = 1 THEN ss[k] ELSE all[k - 1] \o ss[k]
    BY DEF Chain
  <2>2. CASE k = 1
    <3>1. all[1] = ss[1]
      BY <2>1, <2>2
    <3>2. 1 .. 1 = {1}
      OBVIOUS
    <3> QED  BY <2>2, <3>1, <3>2
  <2>3. CASE k # 1
    <3>1. PICK a, b : a = all[k - 1] /\ b = ss[k]
      OBVIOUS
    <3>2. /\ a \in Seq(V) /\ b \in Seq(V) /\ all[k] = a \o b
          /\ a = << >> <=> \A i \in 1 .. k - 1 : ss[i] = << >>
      <4>1. Good(k - 1) /\ k - 1 > 0
        BY <1>2, <2>3
      <4>2. a \in Seq(V) /\ (a = << >> <=> \A i \in 1 .. k - 1 : ss[i] = << >>)
        BY <3>1, <4>1
      <4>3. b \in Seq(V) /\ all[k] = a \o b
        BY <2>1, <2>3, <3>1
      <4> QED  BY <4>2, <4>3
    <3>3. all[k] \in Seq(V)
      BY <3>2
    <3>4. all[k] = << >> <=> a = << >> /\ b = << >>
      BY <3>2, ConcatEqualIffEmpty
    <3>5. (\A i \in 1 .. k : ss[i] = << >>) <=> (\A i \in 1 .. k - 1 : ss[i] = << >>) /\ b = << >>
      BY <3>1
    <3>6. all[k] = << >> <=> \A i \in 1 .. k : ss[i] = << >>
      BY <3>2, <3>4, <3>5
    <3>7. Good(k)
      BY <3>3, <3>6
    <3> QED  BY <3>7
  <2> QED  BY <2>2, <2>3
<1> HIDE DEF Ks, Good
<1>3. 0 .. n \subseteq Ks
  BY <1>1, <1>2, Induction
<1>4. \A k \in 1 .. n : Good(k) /\ k > 0
  BY <1>3 DEF Ks
<1> QED  BY <1>4 DEF Good

Agree(k, f, g) == \A i \in 1 .. k : f[i] = g[i]

LEMMA ChainAgrees ==
  ASSUME NEW n \in Nat, NEW k \in Nat, k <= n, NEW ss, NEW tt, Agree(k, tt, ss),
         NEW all, NEW some, Chain(ss, n, all), Chain(tt, k, some)
  PROVE  Agree(k, some, all)
<1> DEFINE Ks == {i \in 0 .. k : i > 0 => some[i] = all[i]}
<1>1. 0 \in Ks
  OBVIOUS
<1>2. ASSUME NEW i \in 1 .. k, i - 1 \in Ks PROVE i \in Ks
  <2>1. i \in 1 .. n /\ (i # 1 => some[i - 1] = all[i - 1])
    BY <1>2
  <2>2. all[i] = IF i = 1 THEN ss[i] ELSE all[i - 1] \o ss[i]
    BY <2>1 DEF Chain
  <2>3. some[i] = IF i = 1 THEN tt[i] ELSE some[i - 1] \o tt[i]
    BY DEF Chain
  <2> QED  BY <2>1, <2>2, <2>3 DEF Agree
<1> HIDE DEF Ks
<1>3. 0 .. k \subseteq Ks
  BY <1>1, <1>2, Induction
<1>4. \A i \in 1 .. k : i \in Ks /\ i > 0
  BY <1>3
<1> QED  BY <1>4 DEF Ks, Agree

LEMMA FlattenFacts ==
  ASSUME NEW V, NEW n \in Nat, NEW ss \in [1 .. n -> Seq(V)]
  PROVE  /\ FlattenSeq(ss) \in Seq(V)
         /\ FlattenSeq(ss) = << >> <=> \A i \in 1 .. n : ss[i] = << >>
         /\ n > 0 => FlattenSeq(ss) = FlattenSeq([i \in 1 .. n - 1 |-> ss[i]]) \o ss[n]
<1>1. ASSUME NEW k \in Nat \ {0}, NEW tt \in [1 .. k -> Seq(V)]
      PROVE  \E all : Chain(tt, k, all) /\ FlattenSeq(tt) = all[k]
  <2>1. Len(tt) = k
    OBVIOUS
  <2>2. PICK some : Chain(tt, k, some)
    BY ChainRuns
  <2>3. some = [i \in 1 .. k |-> IF i = 1 THEN tt[i] ELSE some[i - 1] \o tt[i]]
    BY <2>2 DEF Chain
  <2>4. PICK all : /\ all = [i \in 1 .. k |-> IF i = 1 THEN tt[i] ELSE all[i - 1] \o tt[i]]
                   /\ FlattenSeq(tt) = all[k]
    BY <2>1, <2>3 DEF FlattenSeq
  <2> QED  BY <2>4 DEF Chain
<1>2. ASSUME NEW tt \in [1 .. 0 -> Seq(V)] PROVE FlattenSeq(tt) = << >>
  <2>1. Len(tt) = 0 /\ tt = << >>
    OBVIOUS
  <2> QED  BY <2>1 DEF FlattenSeq
<1>3. CASE n = 0
  <2>1. FlattenSeq(ss) = << >> /\ << >> \in Seq(V)
    <3>1. ss \in [1 .. 0 -> Seq(V)]
      BY <1>3
    <3>2. FlattenSeq(ss) = << >>
      BY <1>2, <3>1, Zenon
    <3> QED  BY <3>2
  <2>2. \A i \in 1 .. n : FALSE
    BY <1>3
  <2> QED  BY <1>3, <2>1, <2>2
<1>4. CASE n > 0
  <2>1. PICK all : Chain(ss, n, all) /\ FlattenSeq(ss) = all[n]
    BY <1>1, <1>4
  <2>2. n \in 1 .. n
    BY <1>4
  <2>3. all[n] \in Seq(V) /\ (all[n] = << >> <=> \A i \in 1 .. n : ss[i] = << >>)
    BY <2>1, <2>2, ChainFacts
  <2>4. PICK tt : tt = [i \in 1 .. n - 1 |-> ss[i]]
    OBVIOUS
  <2>5. tt \in [1 .. n - 1 -> Seq(V)] /\ \A i \in 1 .. n - 1 : tt[i] = ss[i]
    BY <2>4
  <2>6. all[n] = IF n = 1 THEN ss[n] ELSE all[n - 1] \o ss[n]
    BY <2>1, <2>2 DEF Chain
  <2>7. CASE n = 1
    <3>1. FlattenSeq(tt) = << >>
      <4>1. n - 1 = 0 /\ tt \in [1 .. 0 -> Seq(V)]
        BY <2>5, <2>7
      <4> QED  BY <1>2, <4>1
    <3>2. << >> \o ss[n] = ss[n]
      BY <2>2, ConcatEmptySeq
    <3> QED  BY <2>1, <2>3, <2>4, <2>6, <2>7, <3>1, <3>2
  <2>8. CASE n # 1
    <3>1. n - 1 \in Nat \ {0}
      BY <1>4, <2>8
    <3>2. PICK some : Chain(tt, n - 1, some) /\ FlattenSeq(tt) = some[n - 1]
      BY <1>1, <2>5, <3>1
    <3>3. some[n - 1] = all[n - 1]
      <4>1. PICK k \in Nat \ {0} : k = n - 1
        BY <3>1
      <4>2. k <= n /\ Chain(tt, k, some) /\ Agree(k, tt, ss)
        BY <2>5, <3>2, <4>1 DEF Agree
      <4>3. Agree(k, some, all)
        BY <2>1, <4>2, ChainAgrees
      <4>4. k \in 1 .. k
        OBVIOUS
      <4>5. some[k] = all[k]
        BY <4>3, <4>4 DEF Agree
      <4> QED  BY <4>1, <4>5
    <3> QED  BY <2>1, <2>3, <2>4, <2>6, <2>8, <3>2, <3>3
  <2> QED  BY <2>7, <2>8
<1> QED  BY <1>3, <1>4

(***************************************************************************)
(* What is recorded of the functions running.                              *)
(***************************************************************************)

Rec(frame) == frame.seen \o frame.more

Recs(s)  == FlattenSeq([i \in 1 .. Len(s) |-> Rec(s[i])])
Sects(s) == FlattenSeq([i \in 1 .. Len(s) |-> s[i].more])

LEMMA Records ==
  ASSUME stack \in Seq(Frames)
  PROVE  Recorded = Recs(stack) /\ Opens = Sects(stack)
<1>1. DOMAIN stack = 1 .. Len(stack)
  OBVIOUS
<1> QED  BY <1>1 DEF Recorded, Opens, Recs, Sects, Rec

\* The innermost function comes last.
LEMMA StackFacts ==
  ASSUME NEW s \in Seq(Frames), Len(s) >= 1
  PROVE  /\ Front(s) \in Seq(Frames) /\ Len(Front(s)) = Len(s) - 1
         /\ \A i \in 1 .. Len(s) - 1 : Front(s)[i] = s[i]
         /\ Last(s) = s[Len(s)] /\ Last(s) \in Frames
         /\ Recs(s) \in Seq(Nodes) /\ Sects(s) \in Seq(Nodes)
         /\ Recs(Front(s)) \in Seq(Nodes) /\ Sects(Front(s)) \in Seq(Nodes)
         /\ Recs(s) = Recs(Front(s)) \o Rec(Last(s))
         /\ Sects(s) = Sects(Front(s)) \o Last(s).more
         /\ Sects(s) = << >> <=> \A i \in 1 .. Len(s) : s[i].more = << >>
         /\ (\A i \in 1 .. Len(s) - 1 : Bare(s[i])) => Recs(Front(s)) = << >>
<1>1. PICK n \in Nat \ {0} : n = Len(s)
  OBVIOUS
<1>2. PICK f : f = Front(s)
  OBVIOUS
<1>3. /\ f \in Seq(Frames) /\ Len(f) = n - 1 /\ \A i \in 1 .. n - 1 : f[i] = s[i]
      /\ Last(s) = s[n] /\ \A i \in 1 .. n : s[i] \in Frames
  BY <1>1, <1>2 DEF Front, Last
<1>4. \A i \in 1 .. n : Rec(s[i]) \in Seq(Nodes) /\ s[i].more \in Seq(Nodes)
  <2>1. \A i \in 1 .. n : s[i].seen \in Seq(Nodes) /\ s[i].more \in Seq(Nodes)
    BY <1>3 DEF Frames
  <2> QED  BY <2>1 DEF Rec
<1>5. PICK rr, mm : /\ rr = [i \in 1 .. n |-> Rec(s[i])]
                    /\ mm = [i \in 1 .. n |-> s[i].more]
  OBVIOUS
<1>6. rr \in [1 .. n -> Seq(Nodes)] /\ mm \in [1 .. n -> Seq(Nodes)]
  BY <1>4, <1>5
<1>7. PICK rf, mf : /\ rf = [i \in 1 .. n - 1 |-> rr[i]]
                    /\ mf = [i \in 1 .. n - 1 |-> mm[i]]
  OBVIOUS
<1>8. n - 1 \in Nat /\ rf \in [1 .. n - 1 -> Seq(Nodes)] /\ mf \in [1 .. n - 1 -> Seq(Nodes)]
  BY <1>6, <1>7
<1>9. Recs(s) = FlattenSeq(rr) /\ Sects(s) = FlattenSeq(mm)
  BY <1>1, <1>5 DEF Recs, Sects
<1>10. Recs(f) = FlattenSeq(rf) /\ Sects(f) = FlattenSeq(mf)
  <2>1. rf = [i \in 1 .. Len(f) |-> Rec(f[i])]
    BY <1>3, <1>5, <1>7
  <2>2. mf = [i \in 1 .. Len(f) |-> f[i].more]
    BY <1>3, <1>5, <1>7
  <2> QED  BY <2>1, <2>2 DEF Recs, Sects
<1>11. /\ FlattenSeq(rr) \in Seq(Nodes) /\ FlattenSeq(rr) = FlattenSeq(rf) \o rr[n]
       /\ FlattenSeq(mm) \in Seq(Nodes) /\ FlattenSeq(mm) = FlattenSeq(mf) \o mm[n]
       /\ FlattenSeq(mm) = << >> <=> \A i \in 1 .. n : mm[i] = << >>
  <2>1. n \in Nat /\ n > 0
    OBVIOUS
  <2> QED  BY <1>6, <1>7, <2>1, FlattenFacts
<1>12. /\ FlattenSeq(rf) \in Seq(Nodes) /\ FlattenSeq(mf) \in Seq(Nodes)
       /\ FlattenSeq(rf) = << >> <=> \A i \in 1 .. n - 1 : rf[i] = << >>
  BY <1>8, FlattenFacts
<1>13. /\ rr[n] = Rec(Last(s)) /\ mm[n] = Last(s).more
       /\ \A i \in 1 .. n : mm[i] = s[i].more
  BY <1>3, <1>5
<1>14. ASSUME \A i \in 1 .. n - 1 : Bare(s[i]) PROVE FlattenSeq(rf) = << >>
  <2>1. \A i \in 1 .. n - 1 : rf[i] = Rec(s[i])
    BY <1>5, <1>7
  <2>2. << >> \o << >> = << >>
    OBVIOUS
  <2>3. \A i \in 1 .. n - 1 : rf[i] = << >>
    BY <1>14, <2>1, <2>2 DEF Bare, Rec
  <2> QED  BY <1>12, <2>3
<1>15. /\ Recs(s) \in Seq(Nodes) /\ Sects(s) \in Seq(Nodes)
       /\ Recs(f) \in Seq(Nodes) /\ Sects(f) \in Seq(Nodes)
       /\ Recs(s) = Recs(f) \o Rec(Last(s)) /\ Sects(s) = Sects(f) \o Last(s).more
  BY <1>9, <1>10, <1>11, <1>12, <1>13
<1>16. Sects(s) = << >> <=> \A i \in 1 .. n : s[i].more = << >>
  BY <1>9, <1>11, <1>13
<1>17. (\A i \in 1 .. n - 1 : Bare(s[i])) => Recs(f) = << >>
  BY <1>10, <1>14
<1>18. Front(s) \in Seq(Frames) /\ Len(Front(s)) = Len(s) - 1
       /\ (\A i \in 1 .. Len(s) - 1 : Front(s)[i] = s[i]) /\ Last(s) = s[Len(s)] /\ Last(s) \in Frames
  BY <1>1, <1>2, <1>3
<1> QED  BY <1>1, <1>2, <1>15, <1>16, <1>17, <1>18

(***************************************************************************)
(* The cursor.                                                             *)
(***************************************************************************)

Values == Nodes \cup {Top}

Back(p, k, q) == q = [i \in 0 .. k |-> IF i = 0 THEN p ELSE ReturnHook(q[i - 1])]

LEMMA BackRuns == ASSUME NEW p, NEW last \in Nat PROVE \E q : Back(p, last, q)
<1> DEFINE Runs == {k \in 0 .. last : \E q : Back(p, k, q)}
<1>1. 0 \in Runs
  <2>1. PICK q : q = [i \in 0 .. 0 |-> p]
    OBVIOUS
  <2>2. q = [i \in 0 .. 0 |-> IF i = 0 THEN p ELSE ReturnHook(q[i - 1])]
    BY <2>1
  <2>3. Back(p, 0, q)
    BY <2>2 DEF Back
  <2> QED  BY <2>3
<1>2. ASSUME NEW k \in 1 .. last, k - 1 \in Runs PROVE k \in Runs
  <2>1. PICK q : Back(p, k - 1, q)
    BY <1>2
  <2>2. PICK r : r = [i \in 0 .. k |-> IF i < k THEN q[i] ELSE ReturnHook(q[k - 1])]
    OBVIOUS
  <2>3. ASSUME NEW i \in 0 .. k PROVE r[i] = IF i = 0 THEN p ELSE ReturnHook(r[i - 1])
    <3>1. CASE i < k
      <4>1. i \in 0 .. k - 1 /\ r[i] = q[i] /\ (i # 0 => r[i - 1] = q[i - 1])
        BY <2>2, <3>1
      <4>2. q[i] = IF i = 0 THEN p ELSE ReturnHook(q[i - 1])
        BY <2>1, <4>1 DEF Back
      <4> QED  BY <4>1, <4>2
    <3>2. CASE i = k
      <4>1. r[k - 1] = q[k - 1] /\ r[k] = ReturnHook(q[k - 1]) /\ k # 0
        BY <2>2
      <4> QED  BY <3>2, <4>1
    <3> QED  BY <3>1, <3>2
  <2>4. r = [i \in 0 .. k |-> r[i]]
    BY <2>2
  <2>5. Back(p, k, r)
    BY <2>3, <2>4 DEF Back
  <2> QED  BY <2>5
<1> HIDE DEF Runs
<1>3. 0 .. last \subseteq Runs
  BY <1>1, <1>2, Induction
<1> QED  BY <1>3 DEF Runs

\* A return goes up by one, and not beyond the root.
Up(p, r, k) ==
  /\ r \in Seq(Values) /\ Len(r) = (IF k < Len(p) THEN Len(p) - k ELSE 1)
  /\ \A i \in 1 .. Len(r) : r[i] = p[i]

LEMMA UpOnce ==
  ASSUME NEW p \in Seq(Values), Len(p) >= 1, NEW r, NEW k \in Nat, Up(p, r, k)
  PROVE  Up(p, ReturnHook(r), k + 1)
<1>1. PICK a, b \in Nat : a = Len(p) /\ b = Len(r) /\ r \in Seq(Values)
  <2>1. r \in Seq(Values)
    BY DEF Up
  <2>2. Len(p) \in Nat /\ Len(r) \in Nat
    BY <2>1
  <2> QED  BY <2>1, <2>2
<1>2. b = (IF k < a THEN a - k ELSE 1) /\ \A i \in 1 .. b : r[i] = p[i]
  BY <1>1 DEF Up
<1>3. CASE b = 1
  <2>1. ReturnHook(r) = r
    BY <1>1, <1>3 DEF ReturnHook
  <2>2. 1 = (IF k + 1 < a THEN a - (k + 1) ELSE 1)
    BY <1>1, <1>2, <1>3
  <2> QED  BY <1>1, <1>2, <1>3, <2>1, <2>2 DEF Up
<1>4. CASE b # 1
  <2>1. b = a - k /\ k + 1 < a /\ b - 1 = a - (k + 1) /\ b - 1 \in Nat
    BY <1>1, <1>2, <1>4
  <2>2. PICK s : s = SubSeq(r, 1, b - 1)
    OBVIOUS
  <2>3. s \in Seq(Values) /\ Len(s) = b - 1 /\ \A i \in 1 .. b - 1 : s[i] = r[i]
    <3>1. r \in Seq(Values) /\ b = Len(r) /\ b - 1 \in Nat /\ b - 1 <= Len(r)
      BY <1>1, <2>1
    <3> QED  BY <2>2, <3>1
  <2>4. ReturnHook(r) = s
    BY <1>1, <1>4, <2>2 DEF ReturnHook, Front
  <2>5. \A i \in 1 .. b - 1 : s[i] = p[i]
    BY <1>2, <2>1, <2>3
  <2> QED  BY <1>1, <2>1, <2>3, <2>4, <2>5 DEF Up
<1> QED  BY <1>3, <1>4

LEMMA ReturnedFacts ==
  ASSUME NEW p \in Seq(Values), Len(p) >= 1, NEW times \in Nat
  PROVE  Up(p, Returned(p, times), times)
<1>1. PICK some : Back(p, times, some)
  BY BackRuns
<1>2. some = [i \in 0 .. times |-> IF i = 0 THEN p ELSE ReturnHook(some[i - 1])]
  BY <1>1 DEF Back
<1>3. PICK q : /\ q = [i \in 0 .. times |-> IF i = 0 THEN p ELSE ReturnHook(q[i - 1])]
               /\ Returned(p, times) = q[times]
  BY <1>2 DEF Returned
<1> DEFINE Ks == {k \in 0 .. times : Up(p, q[k], k)}
<1>4. 0 \in Ks
  <2>1. q[0] = p
    BY <1>3
  <2>2. Up(p, p, 0)
    <3>1. Len(p) \in Nat /\ Len(p) = (IF 0 < Len(p) THEN Len(p) - 0 ELSE 1)
      OBVIOUS
    <3> QED  BY <3>1 DEF Up
  <2> QED  BY <2>1, <2>2
<1>5. ASSUME NEW k \in 1 .. times, k - 1 \in Ks PROVE k \in Ks
  <2>1. q[k] = ReturnHook(q[k - 1])
    BY <1>3
  <2>2. Up(p, ReturnHook(q[k - 1]), (k - 1) + 1)
    <3>1. Up(p, q[k - 1], k - 1) /\ k - 1 \in Nat
      BY <1>5
    <3> QED  BY <3>1, UpOnce
  <2>3. (k - 1) + 1 = k
    OBVIOUS
  <2> QED  BY <2>1, <2>2, <2>3
<1> HIDE DEF Ks
<1>6. 0 .. times \subseteq Ks
  BY <1>4, <1>5, Induction
<1>7. times \in Ks
  BY <1>6
<1> QED  BY <1>3, <1>7 DEF Ks

\* As many returns as nodes lead back to where the nodes began.
LEMMA ReturnedBack ==
  ASSUME NEW a \in Seq(Nodes), NEW b \in Seq(Nodes)
  PROVE  Returned(<<Top>> \o (a \o b), Len(b)) = <<Top>> \o a
<1>1. PICK p, r, s : /\ p = <<Top>> \o (a \o b) /\ r = Returned(p, Len(b)) /\ s = <<Top>> \o a
  OBVIOUS
<1>2. /\ <<Top>> \in Seq(Values) /\ a \in Seq(Values) /\ b \in Seq(Values)
      /\ Len(<<Top>>) = 1 /\ <<Top>>[1] = Top /\ Len(a) \in Nat /\ Len(b) \in Nat
  BY DEF Values
<1>3. /\ s \in Seq(Values) /\ Len(s) = 1 + Len(a) /\ s[1] = Top
      /\ \A i \in 2 .. Len(a) + 1 : s[i] = a[i - 1]
  BY <1>1, <1>2
<1>4. PICK c : c = a \o b /\ c \in Seq(Values) /\ Len(c) = Len(a) + Len(b)
               /\ \A i \in 1 .. Len(a) : c[i] = a[i]
  <2>1. PICK c : c = a \o b
    OBVIOUS
  <2>2. c \in Seq(Values) /\ Len(c) = Len(a) + Len(b)
    BY <1>2, <2>1
  <2>3. \A i \in 1 .. Len(a) : c[i] = a[i]
    BY <1>2, <2>1
  <2> QED  BY <2>1, <2>2, <2>3
<1>5. /\ p \in Seq(Values) /\ Len(p) = 1 + (Len(a) + Len(b)) /\ p[1] = Top
      /\ \A i \in 2 .. Len(a) + 1 : p[i] = a[i - 1]
  <2>1. p = <<Top>> \o c
    BY <1>1, <1>4
  <2>2. p \in Seq(Values) /\ Len(p) = 1 + Len(c) /\ p[1] = Top
        /\ \A i \in 2 .. Len(c) + 1 : p[i] = c[i - 1]
    BY <1>2, <1>4, <2>1
  <2>3. \A i \in 2 .. Len(a) + 1 : i \in 2 .. Len(c) + 1 /\ i - 1 \in 1 .. Len(a)
    BY <1>2, <1>4
  <2> QED  BY <1>4, <2>2, <2>3
<1>6. Up(p, r, Len(b))
  <2>1. p \in Seq(Values) /\ Len(p) >= 1 /\ Len(b) \in Nat
    BY <1>2, <1>5
  <2>2. Up(p, Returned(p, Len(b)), Len(b))
    BY <2>1, ReturnedFacts
  <2>3. r = Returned(p, Len(b))
    BY <1>1
  <2> QED  BY <2>2, <2>3
<1>7. r \in Seq(Values) /\ Len(r) = 1 + Len(a) /\ \A i \in 1 .. 1 + Len(a) : r[i] = p[i]
  <2>1. Len(b) < Len(p) /\ Len(p) - Len(b) = 1 + Len(a)
    BY <1>2, <1>5
  <2> QED  BY <1>6, <2>1 DEF Up
<1>8. \A i \in 1 .. 1 + Len(a) : r[i] = s[i]
  <2>1. \A i \in 1 .. 1 + Len(a) : i = 1 \/ i \in 2 .. Len(a) + 1
    BY <1>2
  <2> QED  BY <1>3, <1>5, <1>7, <2>1
<1>9. r = s
  BY <1>3, <1>7, <1>8, SeqEqual
<1> QED  BY <1>1, <1>9

\* At the root a return is ignored.
LEMMA ReturnedAtTop == ASSUME NEW times \in Nat PROVE Returned(<<Top>>, times) = <<Top>>
<1>1. PICK p, r : p = <<Top>> /\ r = Returned(p, times)
  OBVIOUS
<1>2. p \in Seq(Values) /\ Len(p) = 1
  BY <1>1 DEF Values
<1>3. Up(p, r, times)
  <2>1. p \in Seq(Values) /\ Len(p) >= 1
    BY <1>2
  <2>2. Up(p, Returned(p, times), times)
    BY <2>1, ReturnedFacts
  <2>3. r = Returned(p, times)
    BY <1>1
  <2> QED  BY <2>2, <2>3
<1>4. r \in Seq(Values) /\ Len(r) = 1 /\ r[1] = p[1]
  <2>1. (IF times < Len(p) THEN Len(p) - times ELSE 1) = 1
    BY <1>2
  <2> QED  BY <1>3, <2>1 DEF Up
<1>5. r = p
  <2>1. \A i \in 1 .. Len(r) : r[i] = p[i]
    BY <1>4
  <2> QED  BY <1>2, <1>4, <2>1, SeqEqual
<1> QED  BY <1>1, <1>5

\* One return takes back one node.
LEMMA ReturnOne ==
  ASSUME NEW p \in Seq(Values), Len(p) >= 1, NEW n \in Values
  PROVE  ReturnHook(Append(p, n)) = p
<1>1. PICK q : q = Append(p, n)
  OBVIOUS
<1>2. /\ q \in Seq(Values) /\ Len(q) = Len(p) + 1 /\ Len(p) \in Nat
      /\ \A i \in 1 .. Len(p) : q[i] = p[i]
  BY <1>1
<1>3. PICK r : r = SubSeq(q, 1, Len(q) - 1)
  OBVIOUS
<1>4. r \in Seq(Values) /\ Len(r) = Len(p) /\ \A i \in 1 .. Len(p) : r[i] = p[i]
  BY <1>2, <1>3
<1>5. r = p
  BY <1>4, SeqEqual
<1>6. Len(q) # 1
  BY <1>2
<1> QED  BY <1>1, <1>3, <1>5, <1>6 DEF ReturnHook, Front

\* One more node.
LEMMA OneMore ==
  ASSUME NEW a \in Seq(Nodes), NEW n \in Nodes
  PROVE  /\ Append(<<Top>> \o a, n) = <<Top>> \o (a \o <<n>>)
         /\ <<Top>> \o a \in Seq(Values) /\ Len(<<Top>> \o a) >= 1
<1>1. <<Top>> \in Seq(Values) /\ a \in Seq(Values) /\ <<n>> \in Seq(Values) /\ n \in Values
  BY DEF Values
<1>2. <<Top>> \o a \in Seq(Values) /\ Len(<<Top>> \o a) = Len(<<Top>>) + Len(a)
  BY <1>1, ConcatProperties
<1>3. Append(<<Top>> \o a, n) = (<<Top>> \o a) \o <<n>>
  BY <1>1, <1>2, AppendIsConcat
<1>4. (<<Top>> \o a) \o <<n>> = <<Top>> \o (a \o <<n>>)
  BY <1>1, ConcatAssociative
<1>5. Len(<<Top>>) = 1 /\ Len(a) \in Nat
  BY <1>1
<1> QED  BY <1>2, <1>3, <1>4, <1>5

(***************************************************************************)
(* The innermost function.                                                 *)
(***************************************************************************)

LEMMA Pushed ==
  ASSUME NEW s \in Seq(Frames), NEW x \in Frames
  PROVE  /\ Append(s, x) \in Seq(Frames) /\ Len(Append(s, x)) = Len(s) + 1
         /\ \A i \in 1 .. Len(s) : Append(s, x)[i] = s[i]
         /\ Append(s, x)[Len(s) + 1] = x
         /\ Recs(s) \in Seq(Nodes) /\ Sects(s) \in Seq(Nodes)
         /\ Recs(Append(s, x)) = Recs(s) \o Rec(x)
         /\ Sects(Append(s, x)) = Sects(s) \o x.more
<1>1. PICK t : t = Append(s, x)
  OBVIOUS
<1>2. /\ t \in Seq(Frames) /\ Len(t) = Len(s) + 1 /\ Len(s) \in Nat
      /\ \A i \in 1 .. Len(s) : t[i] = s[i]
      /\ t[Len(s) + 1] = x
  BY <1>1
<1>3. Front(t) \in Seq(Frames) /\ Len(Front(t)) = Len(t) - 1
      /\ \A i \in 1 .. Len(t) - 1 : Front(t)[i] = t[i]
  <2>1. t \in Seq(Frames) /\ Len(t) >= 1
    BY <1>2
  <2> QED  BY <2>1, StackFacts
<1>4. Front(t) = s
  <2>1. PICK f : f = Front(t)
    OBVIOUS
  <2>2. f \in Seq(Frames) /\ Len(f) = Len(s) /\ \A i \in 1 .. Len(s) : f[i] = s[i]
    BY <1>2, <1>3, <2>1
  <2>3. f = s
    BY <2>2, SeqEqual
  <2> QED  BY <2>1, <2>3
<1>5. Last(t) = x
  BY <1>2 DEF Last
<1>6. /\ Recs(Front(t)) \in Seq(Nodes) /\ Sects(Front(t)) \in Seq(Nodes)
      /\ Recs(t) = Recs(Front(t)) \o Rec(Last(t))
      /\ Sects(t) = Sects(Front(t)) \o Last(t).more
  <2>1. t \in Seq(Frames) /\ Len(t) >= 1
    BY <1>2
  <2> QED  BY <2>1, StackFacts
<1> QED  BY <1>1, <1>2, <1>4, <1>5, <1>6

\* Another list of sections, or of tail calls.
WithMore(s, m) == [s EXCEPT ![Len(s)].more = m]

IsChanged(s, m, t) ==
  /\ t \in Seq(Frames) /\ Len(t) = Len(s)
  /\ \A i \in 1 .. Len(s) - 1 : t[i] = s[i]
  /\ t[Len(s)].more = m /\ t[Len(s)].seen = s[Len(s)].seen
  /\ t[Len(s)].where = s[Len(s)].where
  /\ Recs(t) = Recs(Front(s)) \o (Last(s).seen \o m)
  /\ Sects(t) = Sects(Front(s)) \o m

LEMMA Changed ==
  ASSUME NEW s \in Seq(Frames), Len(s) >= 1, NEW m \in Seq(Nodes),
         NEW t, t = WithMore(s, m)
  PROVE  IsChanged(s, m, t)
<1>1. PICK n \in Nat \ {0} : n = Len(s)
  OBVIOUS
<1>2. PICK x : x = [s[n] EXCEPT !.more = m]
  OBVIOUS
<1>3. s[n] \in Frames /\ x \in Frames
      /\ x.more = m /\ x.seen = s[n].seen /\ x.where = s[n].where
  <2>1. s[n] \in Frames
    BY <1>1
  <2> QED  BY <1>2, <2>1 DEF Frames
<1>4. t = [s EXCEPT ![n] = x]
  BY <1>1, <1>2 DEF WithMore
<1>5. t \in Seq(Frames) /\ Len(t) = n /\ t[n] = x /\ \A i \in 1 .. n - 1 : t[i] = s[i]
  BY <1>1, <1>3, <1>4
<1>6. Front(t) = Front(s)
  <2>1. PICK f, g : f = Front(s) /\ g = Front(t)
    OBVIOUS
  <2>2. f \in Seq(Frames) /\ Len(f) = n - 1 /\ \A i \in 1 .. n - 1 : f[i] = s[i]
    BY <1>1, <2>1, StackFacts
  <2>3. g \in Seq(Frames) /\ Len(g) = n - 1 /\ \A i \in 1 .. n - 1 : g[i] = t[i]
    <3>1. t \in Seq(Frames) /\ Len(t) >= 1
      BY <1>5
    <3>2. Front(t) \in Seq(Frames) /\ Len(Front(t)) = Len(t) - 1
          /\ \A i \in 1 .. Len(t) - 1 : Front(t)[i] = t[i]
      BY <3>1, StackFacts
    <3> QED  BY <1>5, <2>1, <3>2
  <2>4. \A i \in 1 .. Len(f) : g[i] = f[i]
    BY <1>5, <2>2, <2>3
  <2>5. g = f
    BY <2>2, <2>3, <2>4, SeqEqual
  <2> QED  BY <2>1, <2>5
<1>7. Last(t) = x /\ Last(s) = s[n]
  BY <1>1, <1>5 DEF Last
<1>8. Recs(t) = Recs(Front(t)) \o Rec(Last(t)) /\ Sects(t) = Sects(Front(t)) \o Last(t).more
  <2>1. t \in Seq(Frames) /\ Len(t) >= 1
    BY <1>5
  <2> QED  BY <2>1, StackFacts
<1>9. Rec(x) = Last(s).seen \o m
  BY <1>3, <1>7 DEF Rec
<1> QED  BY <1>1, <1>3, <1>5, <1>6, <1>7, <1>8, <1>9 DEF IsChanged

LEMMA RecordsAfter ==
  ASSUME stack' \in Seq(Frames)
  PROVE  Recorded' = Recs(stack') /\ Opens' = Sects(stack')
<1>1. DOMAIN stack' = 1 .. Len(stack')
  OBVIOUS
<1> QED  BY <1>1 DEF Recorded, Opens, Recs, Sects, Rec

\* The cursor stays in the tree.
LEMMA PathStays ==
  ASSUME NEW p \in Seq(Values), Len(p) >= 1, p[1] = Top
  PROVE  /\ \A n \in Values : /\ Append(p, n) \in Seq(Values) /\ Len(Append(p, n)) >= 1
                              /\ Append(p, n)[1] = Top
         /\ \A k \in Nat : /\ Returned(p, k) \in Seq(Values) /\ Len(Returned(p, k)) >= 1
                           /\ Returned(p, k)[1] = Top
         /\ ReturnHook(p) \in Seq(Values) /\ Len(ReturnHook(p)) >= 1 /\ ReturnHook(p)[1] = Top
<1>1. ASSUME NEW k \in Nat, NEW r, Up(p, r, k)
      PROVE  r \in Seq(Values) /\ Len(r) >= 1 /\ r[1] = Top
  <2>1. r \in Seq(Values) /\ Len(r) = (IF k < Len(p) THEN Len(p) - k ELSE 1)
        /\ \A i \in 1 .. Len(r) : r[i] = p[i]
    BY <1>1 DEF Up
  <2>2. Len(p) \in Nat /\ Len(r) \in Nat
    BY <2>1
  <2>3. Len(r) >= 1
    BY <2>1, <2>2
  <2> QED  BY <2>1, <2>2, <2>3
<1>2. \A k \in Nat : Up(p, Returned(p, k), k)
  BY ReturnedFacts
<1>3. Up(p, ReturnHook(p), 1)
  <2>1. Up(p, p, 0)
    <3>1. Len(p) \in Nat /\ Len(p) = (IF 0 < Len(p) THEN Len(p) - 0 ELSE 1)
      OBVIOUS
    <3> QED  BY <3>1 DEF Up
  <2>2. Up(p, ReturnHook(p), 0 + 1)
    BY <2>1, UpOnce
  <2> QED  BY <2>2
<1>4. ASSUME NEW n \in Values
      PROVE  Append(p, n) \in Seq(Values) /\ Len(Append(p, n)) >= 1 /\ Append(p, n)[1] = Top
  OBVIOUS
<1> QED  BY <1>1, <1>2, <1>3, <1>4

(***************************************************************************)
(* The steps.                                                              *)
(***************************************************************************)

LEMMA InitInvariant == Init => IInv
<1> SUFFICES ASSUME Init PROVE IInv
  OBVIOUS
<1>1. PICK n \in 1 .. MaxDepth :
        stack = [i \in 1 .. n |-> Frame(<< >>, << >>, IF i = n THEN "loader" ELSE "outer")]
  BY DEF Init
<1>2. n \in Nat /\ n >= 1
  BY AdaptersConstants
<1>3. \A i \in 1 .. n : /\ stack[i].seen = << >> /\ stack[i].more = << >>
                        /\ stack[i].where = IF i = n THEN "loader" ELSE "outer"
                        /\ stack[i] \in Frames
  <2>1. << >> \in Seq(Nodes)
    OBVIOUS
  <2> QED  BY <1>1, <2>1 DEF Frame, Frames
<1>4. stack \in Seq(Frames) /\ Len(stack) = n
  BY <1>1, <1>2, <1>3
<1>5. Recs(stack) = << >> /\ Sects(stack) = << >>
  <2>1. /\ Recs(stack) = Recs(Front(stack)) \o Rec(Last(stack))
        /\ Sects(stack) = << >> <=> \A i \in 1 .. Len(stack) : stack[i].more = << >>
        /\ (\A i \in 1 .. Len(stack) - 1 : Bare(stack[i])) => Recs(Front(stack)) = << >>
        /\ Last(stack) = stack[Len(stack)]
    BY <1>2, <1>4, StackFacts
  <2>2. \A i \in 1 .. n : Bare(stack[i])
    BY <1>3 DEF Bare
  <2>3. Rec(Last(stack)) = << >>
    <3>1. Last(stack).seen = << >> /\ Last(stack).more = << >>
      BY <1>2, <1>3, <1>4, <2>1
    <3>2. << >> \o << >> = << >>
      OBVIOUS
    <3> QED  BY <3>1, <3>2 DEF Rec
  <2>4. Recs(Front(stack)) = << >>
    BY <1>2, <1>4, <2>1, <2>2
  <2>5. Sects(stack) = << >>
    BY <1>3, <1>4, <2>1
  <2> QED  BY <2>1, <2>3, <2>4, <2>5
<1>6. TypeInv
  <2>1. /\ adapter \in {"python", "ruby", "php", "lua"} /\ original = "zend"
        /\ counter = -1 /\ path = <<Top>> /\ astray = FALSE
    BY DEF Init
  <2>2. path \in Seq(Nodes \cup {Top}) /\ Len(path) >= 1 /\ path[1] = Top
    BY <2>1
  <2>4. astray \in BOOLEAN
    BY <2>1
  <2>6. counter \in Int /\ counter >= -1
    <3>1. counter = -1
      BY <2>1
    <3> QED  BY <3>1
  <2>3. stack \in Seq(Frames) /\ Len(stack) >= 1
    BY <1>2, <1>4
  <2>5. original \in {"zend", "hp"} /\ (original = "hp" => adapter = "php")
    BY <2>1
  <2> QED  BY <2>1, <2>2, <2>3, <2>4, <2>5, <2>6 DEF TypeInv
<1>7. OldInv
  BY <1>2, <1>3, <1>4 DEF OldInv, Bare
<1>8. NewInv
  <2>1. << >> \in Seq({Section}) /\ Len(<< >>) = 0
    OBVIOUS
  <2>2. \A i \in 1 .. n : Old(stack[i]) /\ stack[i].where # "endless"
    BY <1>3 DEF Old
  <2>3. ASSUME NEW i \in 1 .. n
        PROVE  /\ Len(stack[i].seen) <= 1
               /\ adapter # "python" /\ ~Old(stack[i]) => Len(stack[i].seen) = 1
               /\ stack[i].where = "endless" => adapter = "php"
               /\ adapter \in {"ruby", "php"} => stack[i].more = << >>
               /\ adapter = "python" => stack[i].more \in Seq({Section})
    <3>1. stack[i].seen = << >> /\ stack[i].more = << >>
      BY <1>3
    <3>2. Old(stack[i]) /\ stack[i].where # "endless"
      BY <2>2
    <3>3. Len(stack[i].seen) <= 1
      BY <2>1, <3>1
    <3>4. stack[i].more \in Seq({Section})
      BY <2>1, <3>1
    <3> QED  BY <3>1, <3>2, <3>3, <3>4
  <2> QED  BY <1>4, <2>3 DEF NewInv
<1>9. CounterInv
  <2>1. counter = -1 /\ Opens = << >>
    BY <1>4, <1>5, Records DEF Init
  <2>2. Even
    BY <1>2, <1>3, <1>4, <2>1 DEF Even
  <2> QED  BY <2>2 DEF CounterInv
<1>10. PathInv
  <2>1. Recorded = << >> /\ path = <<Top>>
    BY <1>4, <1>5, Records DEF Init
  <2>2. <<Top>> \o << >> = <<Top>>
    OBVIOUS
  <2> QED  BY <2>1, <2>2 DEF PathInv
<1> QED  BY <1>6, <1>7, <1>8, <1>9, <1>10 DEF IInv

\* The module of PHP initialised, once more or not, changes nothing else.
LEMMA OriginalStep ==
  ASSUME IInv, UNCHANGED <<adapter, stack, counter, path, astray>>,
         original' \in {"zend", "hp"}, original' = "hp" => adapter = "php"
  PROVE  IInv'
<1>1. TypeInv'
  BY DEF IInv, TypeInv
<1>2. OldInv' /\ NewInv'
  BY DEF IInv, OldInv, NewInv, Old, Bare
<1>3. ASSUME ~astray' PROVE CounterInv' /\ PathInv'
  <2>1. Opens' = Opens /\ Recorded' = Recorded
    BY DEF Opens, Recorded
  <2>2. CounterInv'
    BY <1>3, <2>1 DEF IInv, CounterInv, Even, Ahead
  <2>3. PathInv'
    BY <1>3, <2>1 DEF IInv, PathInv
  <2> QED  BY <2>2, <2>3
<1> QED  BY <1>1, <1>2, <1>3 DEF IInv

LEMMA UnchangedStep ==
  ASSUME IInv, UNCHANGED <<adapter, original, stack, counter, path, astray>>
  PROVE  IInv'
<1>1. original' \in {"zend", "hp"} /\ (original' = "hp" => adapter = "php")
  BY DEF IInv, TypeInv
<1> QED  BY <1>1, OriginalStep

LEMMA Longer ==
  ASSUME NEW a \in Seq(Nodes), NEW b \in Seq(Nodes), NEW c \in Seq(Nodes), NEW n \in Nodes
  PROVE  a \o (b \o Append(c, n)) = (a \o (b \o c)) \o <<n>>
<1>1. <<n>> \in Seq(Nodes) /\ b \o c \in Seq(Nodes)
  OBVIOUS
<1>2. Append(c, n) = c \o <<n>>
  BY AppendIsConcat
<1>3. b \o (c \o <<n>>) = (b \o c) \o <<n>>
  BY <1>1, ConcatAssociative
<1>4. a \o ((b \o c) \o <<n>>) = (a \o (b \o c)) \o <<n>>
  BY <1>1, ConcatAssociative
<1> QED  BY <1>2, <1>3, <1>4

\* The invariant when ~astray, of the functions running.
LEMMA Facts ==
  ASSUME IInv
  PROVE  /\ stack \in Seq(Frames) /\ Len(stack) >= 1
         /\ Recorded = Recs(stack) /\ Opens = Sects(stack)
         /\ Recorded \in Seq(Nodes) /\ Opens \in Seq(Nodes)
         /\ path \in Seq(Values) /\ Len(path) >= 1 /\ path[1] = Top
         /\ ~astray => path = <<Top>> \o Recorded
<1>1. stack \in Seq(Frames) /\ Len(stack) >= 1
  BY DEF IInv, TypeInv
<1>2. Recorded = Recs(stack) /\ Opens = Sects(stack)
  BY <1>1, Records
<1>3. Recs(stack) \in Seq(Nodes) /\ Sects(stack) \in Seq(Nodes)
  BY <1>1, StackFacts
<1>4. path \in Seq(Values) /\ Len(path) >= 1 /\ path[1] = Top
  BY DEF IInv, TypeInv, Values
<1>5. ~astray => path = <<Top>> \o Recorded
  BY DEF IInv, PathInv
<1> QED  BY <1>1, <1>2, <1>3, <1>4, <1>5

\* Where the program goes one function deeper.
LEMMA PushStep ==
  ASSUME IInv, NEW x \in Frames, stack' = Append(stack, x),
         UNCHANGED <<adapter, counter, original, astray>>,
         ~Old(x), x.more = << >>, Len(x.seen) <= 1,
         adapter # "python" => Len(x.seen) = 1, x.where = "endless" => adapter = "php",
         adapter = "python" => (x.seen # << >> <=> Traced),
         path' \in Seq(Values), Len(path') >= 1, path'[1] = Top,
         ~astray => path' = <<Top>> \o (Recorded \o x.seen)
  PROVE  IInv'
<1>1. PICK n \in Nat \ {0} : n = Len(stack)
  BY Facts, SMTT(40)
<1>2. /\ stack' \in Seq(Frames) /\ Len(stack') = n + 1
      /\ \A i \in 1 .. n : stack'[i] = stack[i]
      /\ stack'[n + 1] = x
      /\ Recs(stack') = Recs(stack) \o Rec(x)
      /\ Sects(stack') = Sects(stack) \o x.more
  <2>1. stack \in Seq(Frames)
    BY Facts
  <2>2. /\ Append(stack, x) \in Seq(Frames) /\ Len(Append(stack, x)) = Len(stack) + 1
        /\ \A i \in 1 .. Len(stack) : Append(stack, x)[i] = stack[i]
        /\ Append(stack, x)[Len(stack) + 1] = x
    BY <2>1, Pushed
  <2>3. /\ Recs(Append(stack, x)) = Recs(stack) \o Rec(x)
        /\ Sects(Append(stack, x)) = Sects(stack) \o x.more
    BY <2>1, Pushed
  <2> QED  BY <1>1, <2>2, <2>3
<1>3. Recorded' = Recorded \o x.seen /\ Opens' = Opens
  <2>1. Recorded' = Recs(stack') /\ Opens' = Sects(stack')
    BY <1>2, RecordsAfter
  <2>2. Recorded = Recs(stack) /\ Opens = Sects(stack) /\ Sects(stack) \in Seq(Nodes)
    BY Facts
  <2>3. Rec(x) = x.seen
    <3>1. x.seen \in Seq(Nodes)
      BY DEF Frames
    <3>2. x.seen \o << >> = x.seen
      BY <3>1, ConcatEmptySeq
    <3> QED  BY <3>2 DEF Rec
  <2>4. Sects(stack) \o << >> = Sects(stack)
    BY <2>2, ConcatEmptySeq
  <2> QED  BY <1>2, <2>1, <2>2, <2>3, <2>4
<1>4. \A i \in 1 .. n + 1 : i \in 1 .. n \/ i = n + 1
  OBVIOUS
<1>5. TypeInv'
  <2>1. stack' \in Seq(Frames) /\ Len(stack') >= 1
    BY <1>2
  <2> QED  BY <2>1 DEF IInv, TypeInv, Values
<1>6. OldInv'
  <2>1. ASSUME NEW i \in 1 .. n + 1, Old(stack'[i])
        PROVE  /\ stack'[i].seen = << >>
               /\ adapter # "python" => stack'[i].more = << >>
               /\ \A j \in 1 .. i - 1 : stack'[j].where = "outer" /\ Bare(stack'[j])
    <3>1. i \in 1 .. n /\ stack'[i] = stack[i]
      BY <1>2, <1>4, <2>1
    <3>2. \A j \in 1 .. i - 1 : stack'[j] = stack[j]
      BY <1>2, <3>1
    <3> QED  BY <1>1, <2>1, <3>1, <3>2 DEF IInv, OldInv
  <2> QED  BY <1>2, <2>1 DEF OldInv, Old, Bare
<1>7. NewInv'
  <2>1. ASSUME NEW i \in 1 .. n + 1
        PROVE  /\ Len(stack'[i].seen) <= 1
               /\ adapter # "python" /\ ~Old(stack'[i]) => Len(stack'[i].seen) = 1
               /\ stack'[i].where = "endless" => adapter = "php"
               /\ adapter \in {"ruby", "php"} => stack'[i].more = << >>
               /\ adapter = "python" => stack'[i].more \in Seq({Section})
    <3>1. CASE i \in 1 .. n
      BY <1>1, <1>2, <3>1 DEF IInv, NewInv
    <3>2. CASE i = n + 1
      <4>1. << >> \in Seq({Section})
        OBVIOUS
      <4> QED  BY <1>2, <3>2, <4>1
    <3> QED  BY <1>4, <3>1, <3>2
  <2> QED  BY <1>2, <2>1 DEF NewInv, Old
<1>8. ASSUME ~astray PROVE CounterInv' /\ PathInv'
  <2>1. PathInv'
    BY <1>3, <1>8 DEF PathInv
  <2>2. ASSUME adapter = "python", Even PROVE Even'
    <3>1. IF counter = -1 THEN Opens = << >> ELSE counter = Len(Opens)
      BY <2>2 DEF Even
    <3>2. Traced <=> Opens # << >>
      BY <3>1, Facts DEF Traced
    <3>3. Opens # << >> <=> \E j \in 1 .. n : stack[j].more # << >>
      BY <1>1, Facts, StackFacts
    <3>4. ASSUME NEW i \in 1 .. n + 1
          PROVE  stack'[i].seen # << >> <=> \E j \in 1 .. i - 1 : stack'[j].more # << >>
      <4>1. \A j \in 1 .. i - 1 : stack'[j] = stack[j]
        BY <1>2
      <4>2. CASE i = n + 1
        <5>1. x.seen # << >> <=> \E j \in 1 .. n : stack[j].more # << >>
          BY <2>2, <3>2, <3>3
        <5>2. i - 1 = n /\ stack'[i] = x
          BY <1>2, <4>2
        <5> QED  BY <4>1, <5>1, <5>2
      <4>3. CASE i \in 1 .. n
        <5>1. stack[i].seen # << >> <=> \E j \in 1 .. i - 1 : stack[j].more # << >>
          BY <1>1, <2>2, <4>3 DEF Even
        <5>2. stack'[i] = stack[i]
          BY <1>2, <4>3
        <5> QED  BY <4>1, <5>1, <5>2
      <4> QED  BY <1>4, <4>2, <4>3
    <3>5. IF counter' = -1 THEN Opens' = << >> ELSE counter' = Len(Opens')
      BY <1>3, <3>1
    <3> QED  BY <1>2, <3>4, <3>5 DEF Even
  <2>3. ASSUME adapter = "python", Ahead PROVE Ahead'
    <3>1. counter = Len(Opens) + 1
      BY <2>3 DEF Ahead
    <3>2. Traced
      BY <3>1, Facts DEF Traced
    <3>3. ASSUME NEW i \in 1 .. n + 1 PROVE stack'[i].seen = << >> <=> stack'[i].where = "outer"
      <4>1. CASE i = n + 1
        BY <1>2, <2>3, <3>2, <4>1 DEF Old
      <4>2. CASE i \in 1 .. n
        BY <1>1, <1>2, <2>3, <4>2 DEF Ahead
      <4> QED  BY <1>4, <4>1, <4>2
    <3>4. counter' = Len(Opens') + 1
      BY <1>3, <3>1
    <3> QED  BY <1>2, <3>3, <3>4 DEF Ahead
  <2>4. CounterInv'
    <3>1. adapter = "python" => Even \/ Ahead
      BY <1>8 DEF IInv, CounterInv
    <3> QED  BY <2>2, <2>3, <3>1 DEF CounterInv
  <2> QED  BY <2>1, <2>4
<1> QED  BY <1>5, <1>6, <1>7, <1>8 DEF IInv

\* Where the innermost function gets another list of sections or tail calls.
LEMMA ChangeStep ==
  ASSUME IInv, NEW m \in Seq(Nodes), stack' = [stack EXCEPT ![Len(stack)].more = m],
         UNCHANGED <<adapter, original>>, adapter \in {"python", "lua"},
         adapter = "python" => m \in Seq({Section}),
         adapter = "lua" => ~Old(stack[Len(stack)])
  PROVE  /\ OldInv' /\ NewInv' /\ stack' \in Seq(Frames) /\ Len(stack') >= 1
         /\ Recorded' = Recs(Front(stack)) \o (Last(stack).seen \o m)
         /\ Opens' = Sects(Front(stack)) \o m
         /\ Even => \A i \in 1 .. Len(stack') :
              stack'[i].seen # << >> <=> \E j \in 1 .. i - 1 : stack'[j].more # << >>
         /\ Ahead => \A i \in 1 .. Len(stack') :
              stack'[i].seen = << >> <=> stack'[i].where = "outer"
<1>1. PICK n \in Nat \ {0} : n = Len(stack)
  BY Facts, SMTT(40)
<1>2. PICK t : t = stack'
  OBVIOUS
<1>3. /\ t \in Seq(Frames) /\ Len(t) = n
      /\ \A i \in 1 .. n - 1 : t[i] = stack[i]
      /\ t[n].more = m /\ t[n].seen = stack[n].seen
      /\ t[n].where = stack[n].where
      /\ Recs(t) = Recs(Front(stack)) \o (Last(stack).seen \o m)
      /\ Sects(t) = Sects(Front(stack)) \o m
  <2>1. stack \in Seq(Frames) /\ Len(stack) >= 1 /\ t = [stack EXCEPT ![Len(stack)].more = m]
    BY <1>2, Facts
  <2>2. PICK s \in Seq(Frames) : s = stack
    BY <2>1
  <2>3. Len(s) >= 1 /\ t = WithMore(s, m)
    BY <2>1, <2>2 DEF WithMore
  <2>4. IsChanged(s, m, t)
    BY <2>3, Changed
  <2> QED  BY <1>1, <2>2, <2>4 DEF IsChanged
<1>4. Recorded' = Recs(t) /\ Opens' = Sects(t)
  BY <1>2, <1>3, RecordsAfter
<1>5. \A i \in 1 .. n : t[i].seen = stack[i].seen /\ t[i].where = stack[i].where
  <2>1. \A i \in 1 .. n : i \in 1 .. n - 1 \/ i = n
    OBVIOUS
  <2> QED  BY <1>3, <2>1
<1>6. \A i \in 1 .. n : \A j \in 1 .. i - 1 : t[j] = stack[j]
  BY <1>3
<1>7. OldInv'
  <2>1. ASSUME NEW i \in 1 .. n, Old(t[i])
        PROVE  /\ t[i].seen = << >>
               /\ adapter # "python" => t[i].more = << >>
               /\ \A j \in 1 .. i - 1 : t[j].where = "outer" /\ Bare(t[j])
    <3>1. Old(stack[i])
      BY <1>5, <2>1 DEF Old
    <3>2. /\ stack[i].seen = << >>
          /\ adapter # "python" => stack[i].more = << >>
          /\ \A j \in 1 .. i - 1 : stack[j].where = "outer" /\ Bare(stack[j])
      BY <1>1, <3>1 DEF IInv, OldInv
    <3>3. adapter # "python" => t[i].more = << >>
      <4>1. CASE i = n
        BY <1>1, <3>1, <4>1
      <4>2. CASE i # n
        <5>1. i \in 1 .. n - 1
          BY <4>2
        <5> QED  BY <1>3, <3>2, <5>1
      <4> QED  BY <4>1, <4>2
    <3> QED  BY <1>5, <1>6, <3>2, <3>3
  <2> QED  BY <1>2, <1>3, <2>1 DEF OldInv, Old, Bare
<1>8. NewInv'
  <2>1. ASSUME NEW i \in 1 .. n
        PROVE  /\ Len(t[i].seen) <= 1
               /\ adapter # "python" /\ ~Old(t[i]) => Len(t[i].seen) = 1
               /\ t[i].where = "endless" => adapter = "php"
               /\ adapter \in {"ruby", "php"} => t[i].more = << >>
               /\ adapter = "python" => t[i].more \in Seq({Section})
    <3>1. /\ Len(stack[i].seen) <= 1
          /\ adapter # "python" /\ ~Old(stack[i]) => Len(stack[i].seen) = 1
          /\ stack[i].where = "endless" => adapter = "php"
          /\ adapter = "python" => stack[i].more \in Seq({Section})
      BY <1>1 DEF IInv, NewInv
    <3>2. Old(t[i]) <=> Old(stack[i])
      BY <1>5 DEF Old
    <3>3. adapter = "python" => t[i].more \in Seq({Section})
      <4>1. CASE i = n
        BY <1>3, <4>1
      <4>2. CASE i # n
        <5>1. i \in 1 .. n - 1
          BY <4>2
        <5> QED  BY <1>3, <3>1, <5>1
      <4> QED  BY <4>1, <4>2
    <3> QED  BY <1>5, <3>1, <3>2, <3>3
  <2> QED  BY <1>2, <1>3, <2>1 DEF NewInv, Old
<1>9. ASSUME Even, NEW i \in 1 .. n
      PROVE  t[i].seen # << >> <=> \E j \in 1 .. i - 1 : t[j].more # << >>
  <2>1. stack[i].seen # << >> <=> \E j \in 1 .. i - 1 : stack[j].more # << >>
    BY <1>1, <1>9 DEF Even
  <2> QED  BY <1>5, <1>6, <2>1
<1>10. ASSUME Ahead, NEW i \in 1 .. n PROVE t[i].seen = << >> <=> t[i].where = "outer"
  BY <1>1, <1>5, <1>10 DEF Ahead
<1> QED  BY <1>2, <1>3, <1>4, <1>7, <1>8, <1>9, <1>10

LEMMA CallStep == ASSUME IInv, NEW f \in Functions, Call(f) PROVE IInv'
<1>1. UNCHANGED <<adapter, counter, original, astray>>
  BY DEF Call
<1>2. PICK x : /\ x = Frame(IF Sees THEN <<f>> ELSE << >>, << >>, Place)
               /\ stack' = Append(stack, x)
               /\ path' = IF Sees THEN Append(path, f) ELSE path
  BY DEF Call, CallHook
<1>3. /\ x.seen = (IF Sees THEN <<f>> ELSE << >>) /\ x.more = << >> /\ x.where = Place
      /\ Place \in {"inner", "endless"}
  BY <1>2 DEF Frame, Place
<1>4. x \in Frames
  <2>1. << >> \in Seq(Nodes) /\ <<f>> \in Seq(Nodes)
    BY DEF Nodes
  <2> QED  BY <1>2, <1>3, <2>1 DEF Frames, Frame
<1>5. ~Old(x) /\ Len(x.seen) <= 1 /\ (adapter # "python" => Len(x.seen) = 1)
      /\ (adapter = "python" => (x.seen # << >> <=> Traced))
  <2>1. Len(<< >>) = 0 /\ Len(<<f>>) = 1 /\ <<f>> # << >>
    OBVIOUS
  <2> QED  BY <1>3, <2>1 DEF Old, Sees
<1>6. x.where = "endless" => adapter = "php"
  BY <1>3 DEF Place, IInv, TypeInv
<1>7. path' \in Seq(Values) /\ Len(path') >= 1 /\ path'[1] = Top
  <2>1. f \in Values
    BY DEF Values, Nodes
  <2>2. Append(path, f) \in Seq(Values) /\ Len(Append(path, f)) >= 1 /\ Append(path, f)[1] = Top
    BY <2>1, Facts, PathStays
  <2> QED  BY <1>2, <2>2, Facts
<1>8. ASSUME ~astray PROVE path' = <<Top>> \o (Recorded \o x.seen)
  <2>1. path = <<Top>> \o Recorded /\ Recorded \in Seq(Nodes) /\ f \in Nodes
    BY <1>8, Facts DEF Nodes
  <2>2. Append(<<Top>> \o Recorded, f) = <<Top>> \o (Recorded \o <<f>>)
    BY <2>1, OneMore
  <2>3. Recorded \o << >> = Recorded
    BY <2>1, ConcatEmptySeq
  <2> QED  BY <1>2, <1>3, <2>1, <2>2, <2>3
<1> QED  BY <1>1, <1>2, <1>3, <1>4, <1>5, <1>6, <1>7, <1>8, PushStep

LEMMA CallForEverStep == ASSUME IInv, CallForEver PROVE IInv'
<1>1. UNCHANGED <<adapter, counter, original, astray>>
  BY DEF CallForEver
<1>2. PICK x, n : /\ x = Last(stack) /\ n = Last(path)
                  /\ stack' = Append(stack, x) /\ path' = Append(path, n)
                  /\ x.where = "endless"
  BY DEF CallForEver, CallHook, Endless
<1>3. /\ x \in Frames /\ x = stack[Len(stack)] /\ Len(stack) \in 1 .. Len(stack)
  BY <1>2, Facts, StackFacts
<1>4. /\ adapter = "php" /\ x.more = << >> /\ Len(x.seen) = 1 /\ ~Old(x)
  <2>1. x.where \notin {"outer", "loader"}
    BY <1>2
  <2> QED  BY <1>2, <1>3, <2>1 DEF IInv, NewInv, Old
<1>5. n \in Values
  BY <1>2, Facts DEF Last
<1>6. path' \in Seq(Values) /\ Len(path') >= 1 /\ path'[1] = Top
  BY <1>2, <1>5, Facts, PathStays
<1>7. ASSUME ~astray PROVE path' = <<Top>> \o (Recorded \o x.seen)
  <2>1. path = <<Top>> \o Recorded /\ Recorded \in Seq(Nodes)
    BY <1>7, Facts
  <2>2. PICK r : r = Recs(Front(stack)) /\ r \in Seq(Nodes) /\ Recorded = r \o Rec(x)
    <3>1. stack \in Seq(Frames) /\ Len(stack) >= 1 /\ Recorded = Recs(stack)
      BY Facts
    <3>2. /\ Recs(Front(stack)) \in Seq(Nodes)
          /\ Recs(stack) = Recs(Front(stack)) \o Rec(Last(stack))
      BY <3>1, StackFacts
    <3> QED  BY <1>2, <3>1, <3>2
  <2>3. x.seen \in Seq(Nodes)
    BY <1>3 DEF Frames
  <2>4. PICK k \in Nodes : x.seen = <<k>>
    BY <1>4, <2>3, SMTT(40)
  <2>5. Recorded = r \o <<k>>
    <3>1. <<k>> \o << >> = <<k>>
      OBVIOUS
    <3> QED  BY <1>4, <2>2, <2>4, <3>1 DEF Rec
  <2>6. path = Append(<<Top>> \o r, k) /\ <<Top>> \o r \in Seq(Values)
    BY <2>1, <2>2, <2>5, OneMore
  <2>7. n = k
    <3>1. PICK q : q = <<Top>> \o r
      OBVIOUS
    <3>2. Append(q, k)[Len(Append(q, k))] = k
      BY <2>6, <3>1
    <3> QED  BY <1>2, <2>6, <3>1, <3>2 DEF Last
  <2>8. Append(<<Top>> \o Recorded, k) = <<Top>> \o (Recorded \o <<k>>)
    BY <2>1, OneMore
  <2> QED  BY <1>2, <2>1, <2>4, <2>7, <2>8
<1>8. adapter # "python" /\ Len(x.seen) <= 1
  BY <1>4
<1> QED  BY <1>1, <1>2, <1>3, <1>4, <1>6, <1>7, <1>8, PushStep

LEMMA TailCallStep == ASSUME IInv, NEW f \in Functions, TailCall(f) PROVE IInv'
<1>1. /\ UNCHANGED <<adapter, counter, original, astray>> /\ adapter = "lua"
      /\ path' = Append(path, f) /\ Last(stack).where = "inner"
  BY DEF TailCall, CallHook
<1>2. PICK b : b = Last(stack).more
  OBVIOUS
<1>3. /\ Last(stack) = stack[Len(stack)] /\ Last(stack) \in Frames
      /\ Recs(Front(stack)) \in Seq(Nodes)
      /\ Recs(stack) = Recs(Front(stack)) \o Rec(Last(stack))
  BY Facts, StackFacts
<1>4. b \in Seq(Nodes) /\ Last(stack).seen \in Seq(Nodes) /\ f \in Nodes
  BY <1>2, <1>3 DEF Frames, Nodes
<1>5. Append(b, f) \in Seq(Nodes)
  BY <1>4
<1>6. stack' = [stack EXCEPT ![Len(stack)].more = Append(b, f)]
  BY <1>2, <1>3 DEF TailCall
<1>7. /\ OldInv' /\ NewInv' /\ stack' \in Seq(Frames) /\ Len(stack') >= 1
      /\ Recorded' = Recs(Front(stack)) \o (Last(stack).seen \o Append(b, f))
  <2>1. ~Old(stack[Len(stack)])
    BY <1>1, <1>3 DEF Old
  <2>2. adapter = "lua" /\ adapter # "python"
    BY <1>1
  <2> QED  BY <1>1, <1>5, <1>6, <2>1, <2>2, ChangeStep
<1>8. path' \in Seq(Values) /\ Len(path') >= 1 /\ path'[1] = Top
  <2>1. f \in Values
    BY DEF Values, Nodes
  <2> QED  BY <1>1, <2>1, Facts, PathStays
<1>9. TypeInv'
  BY <1>1, <1>7, <1>8 DEF IInv, TypeInv, Values
<1>10. ASSUME ~astray PROVE PathInv'
  <2>1. path = <<Top>> \o Recorded /\ Recorded \in Seq(Nodes)
    BY <1>10, Facts
  <2>2. Recorded = Recs(Front(stack)) \o (Last(stack).seen \o b)
    BY <1>2, <1>3, Facts DEF Rec
  <2>3. Recorded' = Recorded \o <<f>>
    BY <1>3, <1>4, <1>7, <2>2, Longer
  <2>4. Append(<<Top>> \o Recorded, f) = <<Top>> \o (Recorded \o <<f>>)
    BY <1>4, <2>1, OneMore
  <2> QED  BY <1>1, <2>1, <2>3, <2>4 DEF PathInv
<1>11. CounterInv'
  BY <1>1 DEF CounterInv
<1> QED  BY <1>1, <1>7, <1>9, <1>10, <1>11 DEF IInv

\* begin_profile, by the program or for LLPROF_STARTUP.
LEMMA BeginStep ==
  ASSUME IInv, Startup, UNCHANGED <<adapter, original, astray>>, adapter = "python"
  PROVE  IInv'
<1>1. path' = Append(path, Section) /\ counter' = Section0 /\ Section \in Nodes
  BY DEF Startup, CallHook, Nodes
<1>2. PICK b : b = Last(stack).more
  OBVIOUS
<1>3. /\ Last(stack) = stack[Len(stack)] /\ Last(stack) \in Frames
      /\ Recs(Front(stack)) \in Seq(Nodes) /\ Sects(Front(stack)) \in Seq(Nodes)
      /\ Recs(stack) = Recs(Front(stack)) \o Rec(Last(stack))
      /\ Sects(stack) = Sects(Front(stack)) \o Last(stack).more
  BY Facts, StackFacts
<1>4. b \in Seq(Nodes) /\ Last(stack).seen \in Seq(Nodes)
  BY <1>2, <1>3 DEF Frames
<1>5. Append(b, Section) \in Seq(Nodes)
  BY <1>1, <1>4
<1>6. Append(b, Section) \in Seq({Section})
  <2>1. Len(stack) \in 1 .. Len(stack)
    BY Facts
  <2>2. b \in Seq({Section})
    BY <1>2, <1>3, <2>1 DEF IInv, NewInv
  <2> QED  BY <2>2
<1>7. stack' = [stack EXCEPT ![Len(stack)].more = Append(b, Section)]
  BY <1>2, <1>3 DEF Startup, Opened
<1>8. /\ OldInv' /\ NewInv' /\ stack' \in Seq(Frames) /\ Len(stack') >= 1
      /\ Recorded' = Recs(Front(stack)) \o (Last(stack).seen \o Append(b, Section))
      /\ Opens' = Sects(Front(stack)) \o Append(b, Section)
      /\ Even => \A i \in 1 .. Len(stack') :
           stack'[i].seen # << >> <=> \E j \in 1 .. i - 1 : stack'[j].more # << >>
      /\ Ahead => \A i \in 1 .. Len(stack') :
           stack'[i].seen = << >> <=> stack'[i].where = "outer"
  <2>1. UNCHANGED <<adapter, original>> /\ adapter \in {"python", "lua"} /\ adapter # "lua"
    OBVIOUS
  <2> QED  BY <1>5, <1>6, <1>7, <2>1, ChangeStep
<1>9. path' \in Seq(Values) /\ Len(path') >= 1 /\ path'[1] = Top
  <2>1. Section \in Values
    BY <1>1 DEF Values
  <2> QED  BY <1>1, <2>1, Facts, PathStays
<1>10. counter \in Int /\ counter >= -1
  BY DEF IInv, TypeInv
<1>11. counter' \in Nat /\ counter' = (IF counter = -1 THEN 1 ELSE counter + 1)
  BY <1>1, <1>10 DEF Section0
<1>12. TypeInv'
  <2>1. counter' \in Int /\ counter' >= -1
    BY <1>11
  <2> QED  BY <1>8, <1>9, <2>1 DEF IInv, TypeInv, Values
<1>13. ASSUME ~astray PROVE PathInv' /\ CounterInv'
  <2>1. path = <<Top>> \o Recorded /\ Recorded \in Seq(Nodes) /\ Opens \in Seq(Nodes)
    BY <1>13, Facts
  <2>2. Recorded = Recs(Front(stack)) \o (Last(stack).seen \o b)
        /\ Opens = Sects(Front(stack)) \o b
    BY <1>2, <1>3, Facts DEF Rec
  <2>3. Recorded' = Recorded \o <<Section>>
    <3>1. PICK u, v \in Seq(Nodes) : u = Recs(Front(stack)) /\ v = Last(stack).seen
      BY <1>3, <1>4
    <3>2. u \o (v \o Append(b, Section)) = (u \o (v \o b)) \o <<Section>>
      BY <1>1, <1>4, Longer, SMTT(60)
    <3>3. Recorded' = u \o (v \o Append(b, Section))
      BY <1>8, <3>1, ZenonT(40)
    <3>4. Recorded = u \o (v \o b)
      BY <2>2, <3>1
    <3> QED  BY <3>2, <3>3, <3>4, Zenon
  <2>4. Append(<<Top>> \o Recorded, Section) = <<Top>> \o (Recorded \o <<Section>>)
    BY <1>1, <2>1, OneMore
  <2>5. PathInv'
    BY <1>1, <2>1, <2>3, <2>4 DEF PathInv
  <2>6. Len(Opens') = Len(Opens) + 1 /\ Len(Opens) \in Nat
    <3>1. PICK w : w = Sects(Front(stack)) /\ w \in Seq(Nodes)
      BY <1>3
    <3>2. Len(w \o b) = Len(w) + Len(b) /\ Len(w) \in Nat /\ Len(b) \in Nat
      BY <1>4, <3>1
    <3>3. Len(w \o Append(b, Section)) = Len(w) + Len(Append(b, Section))
      BY <1>5, <3>1, ConcatProperties
    <3>4. Len(Append(b, Section)) = Len(b) + 1
      BY <1>1, <1>4
    <3> QED  BY <1>8, <2>1, <2>2, <3>1, <3>2, <3>3, <3>4
  <2>7. ASSUME Even PROVE Even'
    <3>1. counter' = Len(Opens')
      <4>1. counter = -1 => Len(Opens) = 0
        BY <2>7 DEF Even
      <4>2. counter # -1 => counter = Len(Opens)
        BY <2>7 DEF Even
      <4> QED  BY <1>11, <2>6, <4>1, <4>2
    <3>2. counter' # -1
      BY <1>11
    <3> QED  BY <1>8, <2>7, <3>1, <3>2 DEF Even
  <2>8. ASSUME Ahead PROVE Ahead'
    <3>1. counter' = Len(Opens') + 1
      <4>1. counter = Len(Opens) + 1
        BY <2>8 DEF Ahead
      <4> QED  BY <1>11, <2>6, <4>1
    <3> QED  BY <1>8, <2>8, <3>1 DEF Ahead
  <2>9. Even \/ Ahead
    BY <1>13 DEF IInv, CounterInv
  <2> QED  BY <2>5, <2>7, <2>8, <2>9 DEF CounterInv
<1> QED  BY <1>8, <1>12, <1>13 DEF IInv

LEMMA EndProfileStep == ASSUME IInv, EndProfile PROVE IInv'
<1>1. /\ UNCHANGED <<adapter, original>> /\ adapter = "python" /\ counter > 0
      /\ counter' = counter - 1 /\ path' = ReturnHook(path)
  BY DEF EndProfile
<1>2. counter' \in Nat
  BY <1>1 DEF IInv, TypeInv
<1>3. path' \in Seq(Values) /\ Len(path') >= 1 /\ path'[1] = Top
  BY <1>1, Facts, PathStays
<1>4. PICK b : b = Last(stack).more
  OBVIOUS
<1>5. CASE b = << >>
  <2>1. stack' = stack /\ astray' = TRUE
    BY <1>4, <1>5 DEF EndProfile
  <2>2. TypeInv'
    <3>1. counter' \in Int /\ counter' >= -1
      BY <1>2
    <3> QED  BY <1>1, <1>3, <2>1, <3>1 DEF IInv, TypeInv, Values
  <2>3. OldInv' /\ NewInv'
    BY <1>1, <2>1 DEF IInv, OldInv, NewInv, Old, Bare
  <2> QED  BY <2>1, <2>2, <2>3 DEF IInv
<1>6. CASE b # << >>
  <2>1. /\ Last(stack) = stack[Len(stack)] /\ Last(stack) \in Frames
        /\ Recs(Front(stack)) \in Seq(Nodes) /\ Sects(Front(stack)) \in Seq(Nodes)
        /\ Recs(stack) = Recs(Front(stack)) \o Rec(Last(stack))
        /\ Sects(stack) = Sects(Front(stack)) \o Last(stack).more
    BY Facts, StackFacts
  <2>2. b \in Seq(Nodes) /\ Last(stack).seen \in Seq(Nodes)
    BY <1>4, <2>1 DEF Frames
  <2>3. b \in Seq({Section})
    <3>1. Len(stack) \in 1 .. Len(stack)
      BY Facts
    <3> QED  BY <1>1, <1>4, <2>1, <3>1 DEF IInv, NewInv
  <2>4. PICK m : m = Front(b)
    OBVIOUS
  <2>5. m \in Seq({Section}) /\ m \in Seq(Nodes) /\ b = Append(m, Section)
    <3>1. Len(b) \in Nat \ {0} /\ Len(b) - 1 \in Nat /\ Len(b) - 1 <= Len(b)
      BY <1>6, <2>3
    <3>2. m = SubSeq(b, 1, Len(b) - 1)
      BY <2>4 DEF Front
    <3>3. m \in Seq({Section}) /\ Len(m) = Len(b) - 1
          /\ \A i \in 1 .. Len(b) - 1 : m[i] = b[i]
      <4>1. PICK k \in Nat : k = Len(b) - 1 /\ m = SubSeq(b, 1, k) /\ k <= Len(b)
        BY <3>1, <3>2
      <4>2. m \in Seq({Section}) /\ Len(m) = k /\ \A i \in 1 .. k : m[i] = b[i]
        BY <2>3, <4>1
      <4> QED  BY <4>1, <4>2
    <3>4. Section \in Nodes
      BY DEF Nodes
    <3>5. m \in Seq(Nodes)
      BY <3>3, <3>4
    <3>6. PICK c : c = Append(m, Section)
      OBVIOUS
    <3>7. c \in Seq({Section}) /\ Len(c) = Len(b)
      BY <3>1, <3>3, <3>6
    <3>8. \A i \in 1 .. Len(b) : c[i] = b[i]
      BY <2>3, <3>7
    <3>9. c = b
      BY <2>3, <3>7, <3>8, SeqEqual
    <3> QED  BY <3>3, <3>5, <3>6, <3>9
  <2>6. stack' = [stack EXCEPT ![Len(stack)].more = m] /\ astray' = astray
    BY <1>4, <1>6, <2>4 DEF EndProfile
  <2>7. /\ OldInv' /\ NewInv' /\ stack' \in Seq(Frames) /\ Len(stack') >= 1
        /\ Recorded' = Recs(Front(stack)) \o (Last(stack).seen \o m)
        /\ Opens' = Sects(Front(stack)) \o m
        /\ Even => \A i \in 1 .. Len(stack') :
             stack'[i].seen # << >> <=> \E j \in 1 .. i - 1 : stack'[j].more # << >>
        /\ Ahead => \A i \in 1 .. Len(stack') :
             stack'[i].seen = << >> <=> stack'[i].where = "outer"
    <3>1. UNCHANGED <<adapter, original>> /\ adapter \in {"python", "lua"} /\ adapter # "lua"
      BY <1>1
    <3> QED  BY <2>5, <2>6, <3>1, ChangeStep
  <2>8. TypeInv'
    <3>1. counter' \in Int /\ counter' >= -1
      BY <1>2
    <3> QED  BY <1>1, <1>3, <2>6, <2>7, <3>1 DEF IInv, TypeInv, Values
  <2>9. ASSUME ~astray PROVE PathInv' /\ CounterInv'
    <3>1. path = <<Top>> \o Recorded /\ Opens \in Seq(Nodes)
      BY <2>9, Facts
    <3>2. Recorded = Recs(Front(stack)) \o (Last(stack).seen \o b)
          /\ Opens = Sects(Front(stack)) \o b
      BY <1>4, <2>1, Facts DEF Rec
    <3>3. Section \in Nodes /\ Section \in Values
      BY DEF Nodes, Values
    <3>4. PICK u, v \in Seq(Nodes) : u = Recs(Front(stack)) /\ v = Last(stack).seen
      BY <2>1, <2>2
    <3>13. PICK r : r = u \o (v \o m) /\ r \in Seq(Nodes)
      <4>1. u \o (v \o m) \in Seq(Nodes)
        BY <2>5
      <4> QED  BY <4>1
    <3>5. Recorded = r \o <<Section>>
      <4>1. u \o (v \o Append(m, Section)) = (u \o (v \o m)) \o <<Section>>
        BY <2>5, <3>3, Longer
      <4> QED  BY <2>5, <3>2, <3>4, <3>13, <4>1
    <3>6. path = Append(<<Top>> \o r, Section)
          /\ <<Top>> \o r \in Seq(Values) /\ Len(<<Top>> \o r) >= 1
      BY <3>1, <3>3, <3>13, <3>5, OneMore
    <3>7. path' = <<Top>> \o r
      BY <1>1, <3>3, <3>6, ReturnOne
    <3>8. PathInv'
      BY <2>7, <3>4, <3>7, <3>13 DEF PathInv
    <3>9. Len(Opens) = Len(Opens') + 1 /\ Len(Opens') \in Nat
      <4>1. PICK w : w = Sects(Front(stack)) /\ w \in Seq(Nodes)
        BY <2>1
      <4>2. Len(w \o m) = Len(w) + Len(m) /\ Len(w) \in Nat /\ Len(m) \in Nat
        BY <2>5, <4>1
      <4>3. Len(w \o b) = Len(w) + Len(b)
        BY <2>2, <4>1, ConcatProperties
      <4>4. Len(b) = Len(m) + 1
        BY <2>5
      <4>5. Len(w) + Len(m) \in Nat /\ Len(w) + (Len(m) + 1) = (Len(w) + Len(m)) + 1
        BY <4>2
      <4>6. Opens = w \o b /\ Opens' = w \o m
        BY <2>7, <3>2, <4>1
      <4> QED  BY <4>2, <4>3, <4>4, <4>5, <4>6
    <3>10. ASSUME Even PROVE Even'
      <4>1. counter' = Len(Opens')
        <5>1. counter = Len(Opens)
          BY <1>1, <3>10 DEF Even
        <5> QED  BY <1>1, <3>9, <5>1
      <4>2. counter' # -1
        BY <1>2
      <4> QED  BY <2>7, <3>10, <4>1, <4>2 DEF Even
    <3>11. ASSUME Ahead PROVE Ahead'
      <4>1. counter' = Len(Opens') + 1
        <5>1. counter = Len(Opens) + 1
          BY <3>11 DEF Ahead
        <5> QED  BY <1>1, <3>9, <5>1
      <4> QED  BY <2>7, <3>11, <4>1 DEF Ahead
    <3>12. Even \/ Ahead
      BY <1>1, <2>9 DEF IInv, CounterInv
    <3> QED  BY <3>8, <3>10, <3>11, <3>12 DEF CounterInv
  <2> QED  BY <2>6, <2>7, <2>8, <2>9 DEF IInv
<1> QED  BY <1>5, <1>6

LEMMA One == \A k \in Nat : k <= 1 /\ k # 0 => k = 1
OBVIOUS

\* The innermost function ends: there are as many returns as it has nodes, or
\* the cursor is at the root already.
LEMMA EndPath ==
  ASSUME IInv, ~astray, NEW unwinding \in BOOLEAN, Len(stack) > 1, ~Endless,
         ~Strays(Last(stack), unwinding)
  PROVE  LET last == Last(stack) IN
         /\ Returns(last, unwinding) \in Nat
         /\ \/ Returns(last, unwinding) = Len(Rec(last))
            \/ Recs(Front(stack)) = << >> /\ Rec(last) = << >>
         /\ adapter = "python" => \/ Even /\ last.more = << >>
                                  \/ Even /\ last.more = <<Section>> /\ last.where = "loader"
                                  \/ Ahead /\ last.more = << >>
<1>1. PICK n \in Nat \ {0} : n = Len(stack)
  BY Facts, SMTT(40)
<1>2. PICK x, t : x = Last(stack) /\ t = Returns(x, unwinding)
  OBVIOUS
<1>3. /\ x = stack[n] /\ x \in Frames
      /\ Sects(stack) = << >> <=> \A i \in 1 .. n : stack[i].more = << >>
      /\ (\A i \in 1 .. n - 1 : Bare(stack[i])) => Recs(Front(stack)) = << >>
  BY <1>1, <1>2, Facts, StackFacts
<1>4. /\ x.seen \in Seq(Nodes) /\ x.more \in Seq(Nodes)
      /\ Len(x.seen) \in Nat /\ Len(x.more) \in Nat
      /\ Len(Rec(x)) = Len(x.seen) + Len(x.more)
  <2>1. x.seen \in Seq(Nodes) /\ x.more \in Seq(Nodes)
    BY <1>3 DEF Frames
  <2> QED  BY <2>1 DEF Rec
<1>5. /\ Len(x.seen) <= 1
      /\ adapter # "python" /\ ~Old(x) => Len(x.seen) = 1
      /\ adapter \in {"ruby", "php"} => x.more = << >>
  BY <1>1, <1>3 DEF IInv, NewInv
<1>6. ASSUME Old(x)
      PROVE  /\ x.seen = << >> /\ (adapter # "python" => x.more = << >>)
             /\ Recs(Front(stack)) = << >>
             /\ \A i \in 1 .. n - 1 : Bare(stack[i])
  <2>1. n \in 1 .. n
    OBVIOUS
  <2>2. /\ x.seen = << >> /\ (adapter # "python" => x.more = << >>)
        /\ \A i \in 1 .. n - 1 : Bare(stack[i])
    BY <1>1, <1>3, <1>6, <2>1 DEF IInv, OldInv
  <2> QED  BY <1>3, <2>2
<1>7. x.seen = << >> <=> Len(x.seen) = 0
  BY <1>4
<1>8. x.more = << >> <=> Len(x.more) = 0
  BY <1>4
<1>9. Rec(x) = << >> <=> x.seen = << >> /\ x.more = << >>
  BY <1>4, ConcatEqualIffEmpty DEF Rec
<1>10. CASE adapter = "ruby"
  <2>1. t = 1 /\ x.more = << >>
    BY <1>2, <1>5, <1>10 DEF Returns, RubyReturns
  <2>2. CASE Old(x)
    BY <1>2, <1>6, <1>9, <1>10, <2>1, <2>2
  <2>3. CASE ~Old(x)
    BY <1>2, <1>4, <1>5, <1>8, <1>10, <2>1, <2>3
  <2> QED  BY <2>2, <2>3
<1>11. CASE adapter = "php"
  <2>1. x.more = << >> /\ t = (IF unwinding \/ x.seen = << >> THEN 0 ELSE 1)
    BY <1>2, <1>5, <1>11 DEF Returns, PhpReturns, Named
  <2>2. x.seen \o << >> = x.seen
    BY <1>4, ConcatEmptySeq
  <2>3. unwinding => x.seen = << >>
    BY <1>2, <1>11, <2>1, <2>2 DEF Strays
  <2>4. t = Len(Rec(x)) /\ t \in Nat
    BY <1>4, <1>5, <1>7, <1>8, <2>1, <2>3
  <2> QED  BY <1>2, <1>11, <2>4
<1>12. CASE adapter = "lua"
  <2>1. t = IF unwinding THEN 0 ELSE 1 + Len(x.more)
    BY <1>2, <1>12 DEF Returns, LuaReturns
  <2>2. unwinding => Rec(x) = << >>
    BY <1>2, <1>12 DEF Strays, Rec
  <2>3. t \in Nat
    BY <1>4, <2>1
  <2>4. CASE unwinding
    <3>1. t = Len(Rec(x))
      BY <2>1, <2>2, <2>4
    <3> QED  BY <1>2, <1>12, <2>3, <3>1
  <2>5. CASE Old(x)
    BY <1>2, <1>6, <1>9, <1>12, <2>3, <2>5
  <2>6. CASE ~unwinding /\ ~Old(x)
    <3>1. t = Len(Rec(x))
      BY <1>4, <1>5, <1>12, <2>1, <2>6
    <3> QED  BY <1>2, <1>12, <2>3, <3>1
  <2> QED  BY <2>4, <2>5, <2>6
<1>13. CASE adapter = "python"
  <2>1. t = IF Traced THEN 1 ELSE 0
    BY <1>2, <1>13 DEF Returns, PythonReturns
  <2>2. x.more = << >> \/ (x.where = "loader" /\ x.more = <<Section>>)
    BY <1>2, <1>13 DEF Strays
  <2>3. Opens = Sects(stack) /\ Opens \in Seq(Nodes) /\ Len(Opens) \in Nat
        /\ (Opens = << >> <=> Len(Opens) = 0)
    BY Facts
  <2>4. CASE Even /\ x.more = << >>
    <3>1. Traced <=> Opens # << >>
      BY <2>3, <2>4 DEF Even, Traced
    <3>2. x.seen # << >> <=> \E j \in 1 .. n - 1 : stack[j].more # << >>
      <4>1. n \in 1 .. Len(stack)
        BY <1>1
      <4> QED  BY <1>3, <2>4, <4>1 DEF Even
    <3>3. Opens # << >> <=> \E j \in 1 .. n : stack[j].more # << >>
      BY <1>3, <2>3
    <3>4. \A j \in 1 .. n : j \in 1 .. n - 1 \/ j = n
      OBVIOUS
    <3>5. Traced <=> x.seen # << >>
      BY <1>3, <2>4, <3>1, <3>2, <3>3, <3>4
    <3>6. t = Len(Rec(x)) /\ t \in Nat
      BY <1>4, <1>5, <1>7, <1>8, <2>1, <2>4, <3>5
    <3> QED  BY <1>2, <2>4, <3>6
  <2>5. CASE Even /\ x.where = "loader" /\ x.more = <<Section>>
    <3>1. Old(x) /\ x.seen = << >>
      BY <1>6, <2>5 DEF Old
    <3>2. Len(x.more) = 1 /\ x.more # << >>
      BY <2>5
    <3>3. Opens # << >>
      BY <1>3, <2>3, <3>2
    <3>4. Traced
      BY <2>3, <2>5, <3>3 DEF Even, Traced
    <3>5. t = Len(Rec(x)) /\ t \in Nat
      BY <1>4, <1>7, <2>1, <3>1, <3>2, <3>4
    <3> QED  BY <1>2, <2>5, <3>5
  <2>6. CASE Ahead
    <3>1. x.seen = << >> <=> x.where = "outer"
      <4>1. n \in 1 .. Len(stack)
        BY <1>1
      <4> QED  BY <1>3, <2>6, <4>1 DEF Ahead
    <3>2. x.more = << >>
      BY <1>6, <2>2, <3>1 DEF Old
    <3>3. Traced
      BY <2>3, <2>6 DEF Ahead, Traced
    <3>4. t = 1
      BY <2>1, <3>3
    <3>5. CASE x.where = "outer"
      <4>1. Rec(x) = << >> /\ Recs(Front(stack)) = << >>
        BY <1>6, <1>9, <3>2, <3>5 DEF Old
      <4> QED  BY <1>2, <2>6, <3>2, <3>4, <4>1
    <3>6. CASE x.where # "outer"
      <4>1. t = Len(Rec(x))
        <5>1. Len(x.seen) # 0 /\ Len(x.more) = 0
          BY <1>7, <1>8, <3>1, <3>2, <3>6
        <5>2. Len(x.seen) = 1
          BY <1>4, <1>5, <5>1, One, Zenon
        <5> QED  BY <1>4, <3>4, <5>1, <5>2
      <4> QED  BY <1>2, <2>6, <3>2, <3>4, <4>1
    <3> QED  BY <3>5, <3>6
  <2>7. Even \/ Ahead
    BY <1>13 DEF IInv, CounterInv
  <2> QED  BY <2>2, <2>4, <2>5, <2>6, <2>7
<1>14. adapter \in {"python", "ruby", "php", "lua"}
  BY DEF IInv, TypeInv
<1> QED  BY <1>10, <1>11, <1>12, <1>13, <1>14

LEMMA EndStep == ASSUME IInv, NEW unwinding \in BOOLEAN, End(unwinding) PROVE IInv'
<1>1. /\ UNCHANGED <<adapter, counter, original>> /\ stack' = Front(stack)
      /\ Len(stack) > 1 /\ ~Endless
  BY DEF End
<1>2. PICK n \in Nat \ {0} : n = Len(stack) /\ n > 1
  BY <1>1, Facts
<1>3. PICK x, t, s : x = Last(stack) /\ t = Returns(x, unwinding) /\ s = Front(stack)
  OBVIOUS
<1>4. /\ s \in Seq(Frames) /\ Len(s) = n - 1 /\ \A i \in 1 .. n - 1 : s[i] = stack[i]
      /\ x = stack[n] /\ x \in Frames
      /\ Recs(s) \in Seq(Nodes) /\ Sects(s) \in Seq(Nodes)
      /\ Recs(stack) = Recs(s) \o Rec(x) /\ Sects(stack) = Sects(s) \o x.more
      /\ (\A i \in 1 .. n - 1 : Bare(stack[i])) => Recs(s) = << >>
  BY <1>2, <1>3, Facts, StackFacts
<1>5. x.seen \in Seq(Nodes) /\ x.more \in Seq(Nodes) /\ Rec(x) \in Seq(Nodes)
  <2>1. x.seen \in Seq(Nodes) /\ x.more \in Seq(Nodes)
    BY <1>4 DEF Frames
  <2> QED  BY <2>1 DEF Rec
<1>6. t \in Nat
  <2>1. Len(x.more) \in Nat
    BY <1>5
  <2>2. adapter \in {"python", "ruby", "php", "lua"}
    BY DEF IInv, TypeInv
  <2>3. PythonReturns(unwinding) \in Nat /\ RubyReturns \in Nat /\ PhpReturns(x, unwinding) \in Nat
    BY DEF PythonReturns, RubyReturns, PhpReturns
  <2>4. LuaReturns(x, unwinding) \in Nat
    BY <2>1 DEF LuaReturns
  <2> QED  BY <1>3, <2>2, <2>3, <2>4 DEF Returns
<1>7. path' = Returned(path, t) /\ astray' = (astray \/ Strays(x, unwinding)) /\ stack' = s
  BY <1>1, <1>3 DEF End
<1>8. path' \in Seq(Values) /\ Len(path') >= 1 /\ path'[1] = Top
  BY <1>6, <1>7, Facts, PathStays
<1>9. TypeInv'
  <2>1. astray' \in BOOLEAN
    BY <1>7 DEF IInv, TypeInv
  <2>2. stack' \in Seq(Frames) /\ Len(stack') >= 1
    BY <1>2, <1>4, <1>7
  <2> QED  BY <1>1, <1>8, <2>1, <2>2 DEF IInv, TypeInv, Values
<1>10. OldInv'
  <2>1. ASSUME NEW i \in 1 .. n - 1, Old(s[i])
        PROVE  /\ s[i].seen = << >>
               /\ adapter # "python" => s[i].more = << >>
               /\ \A j \in 1 .. i - 1 : s[j].where = "outer" /\ Bare(s[j])
    <3>1. i \in 1 .. n /\ s[i] = stack[i] /\ \A j \in 1 .. i - 1 : s[j] = stack[j]
      BY <1>4
    <3> QED  BY <1>2, <2>1, <3>1 DEF IInv, OldInv
  <2> QED  BY <1>1, <1>4, <1>7, <2>1 DEF OldInv, Old, Bare
<1>11. NewInv'
  <2>1. \A i \in 1 .. n - 1 : i \in 1 .. n /\ s[i] = stack[i]
    BY <1>4
  <2>2. ASSUME NEW i \in 1 .. n - 1
        PROVE  /\ Len(s[i].seen) <= 1
               /\ adapter # "python" /\ ~Old(s[i]) => Len(s[i].seen) = 1
               /\ s[i].where = "endless" => adapter = "php"
               /\ adapter \in {"ruby", "php"} => s[i].more = << >>
               /\ adapter = "python" => s[i].more \in Seq({Section})
    BY <1>2, <2>1 DEF IInv, NewInv
  <2> QED  BY <1>1, <1>4, <1>7, <2>2 DEF NewInv, Old
<1>12. ASSUME ~astray' PROVE PathInv' /\ CounterInv'
  <2>1. ~astray /\ ~Strays(x, unwinding)
    BY <1>7, <1>12
  <2>2. /\ \/ t = Len(Rec(x))
           \/ Recs(s) = << >> /\ Rec(x) = << >>
        /\ adapter = "python" => \/ Even /\ x.more = << >>
                                 \/ Even /\ x.more = <<Section>> /\ x.where = "loader"
                                 \/ Ahead /\ x.more = << >>
    BY <1>1, <1>3, <2>1, EndPath
  <2>3. path = <<Top>> \o (Recs(s) \o Rec(x)) /\ Opens = Sects(s) \o x.more
    BY <1>4, <2>1, Facts
  <2>4. path' = <<Top>> \o Recs(s)
    <3>1. CASE t = Len(Rec(x))
      <4>1. Returned(<<Top>> \o (Recs(s) \o Rec(x)), Len(Rec(x))) = <<Top>> \o Recs(s)
        BY <1>4, <1>5, ReturnedBack
      <4> QED  BY <1>7, <2>3, <3>1, <4>1
    <3>2. CASE Recs(s) = << >> /\ Rec(x) = << >>
      <4>1. << >> \o << >> = << >> /\ <<Top>> \o << >> = <<Top>>
        OBVIOUS
      <4>2. path = <<Top>> /\ <<Top>> \o Recs(s) = <<Top>>
        BY <2>3, <3>2, <4>1
      <4>3. Returned(<<Top>>, t) = <<Top>>
        BY <1>6, ReturnedAtTop
      <4> QED  BY <1>7, <4>2, <4>3
    <3> QED  BY <2>2, <3>1, <3>2
  <2>5. Recorded' = Recs(s) /\ Opens' = Sects(s)
    BY <1>4, <1>7, RecordsAfter
  <2>6. PathInv'
    BY <2>4, <2>5 DEF PathInv
  <2>7. ASSUME Even, x.more = << >> PROVE Even'
    <3>1. Opens' = Opens
      <4>1. Sects(s) \o << >> = Sects(s)
        BY <1>4, ConcatEmptySeq
      <4> QED  BY <2>3, <2>5, <2>7, <4>1
    <3>2. ASSUME NEW i \in 1 .. n - 1
          PROVE  s[i].seen # << >> <=> \E j \in 1 .. i - 1 : s[j].more # << >>
      <4>1. i \in 1 .. n /\ s[i] = stack[i] /\ \A j \in 1 .. i - 1 : s[j] = stack[j]
        BY <1>4
      <4>2. stack[i].seen # << >> <=> \E j \in 1 .. i - 1 : stack[j].more # << >>
        BY <1>2, <2>7, <4>1 DEF Even
      <4> QED  BY <4>1, <4>2
    <3>3. IF counter' = -1 THEN Opens' = << >> ELSE counter' = Len(Opens')
      BY <1>1, <2>7, <3>1 DEF Even
    <3> QED  BY <1>4, <1>7, <3>2, <3>3 DEF Even
  <2>8. ASSUME Ahead, x.more = << >> PROVE Ahead'
    <3>1. Opens' = Opens
      <4>1. Sects(s) \o << >> = Sects(s)
        BY <1>4, ConcatEmptySeq
      <4> QED  BY <2>3, <2>5, <2>8, <4>1
    <3>2. \A i \in 1 .. n - 1 : s[i].seen = << >> <=> s[i].where = "outer"
      <4>1. \A i \in 1 .. n - 1 : i \in 1 .. n /\ s[i] = stack[i]
        BY <1>4
      <4> QED  BY <1>2, <2>8, <4>1 DEF Ahead
    <3>3. counter' = Len(Opens') + 1
      BY <1>1, <2>8, <3>1 DEF Ahead
    <3> QED  BY <1>4, <1>7, <3>2, <3>3 DEF Ahead
  \* The function that loads the adapter ends with its section open.
  <2>9. ASSUME Even, x.more = <<Section>>, x.where = "loader" PROVE Ahead'
    <3>1. \A i \in 1 .. n - 1 : stack[i].where = "outer" /\ Bare(stack[i])
      <4>1. n \in 1 .. Len(stack) /\ Old(stack[n])
        BY <1>2, <1>4, <2>9 DEF Old
      <4> QED  BY <4>1 DEF IInv, OldInv
    <3>2. Sects(s) = << >>
      <4>1. \A i \in 1 .. n - 1 : s[i].more = << >>
        BY <1>4, <3>1 DEF Bare
      <4>2. s \in Seq(Frames) /\ Len(s) >= 1
        BY <1>2, <1>4
      <4>3. Sects(s) = << >> <=> \A i \in 1 .. Len(s) : s[i].more = << >>
        BY <4>2, StackFacts
      <4> QED  BY <1>4, <4>1, <4>3
    <3>3. Opens = <<Section>>
      <4>1. << >> \o <<Section>> = <<Section>>
        OBVIOUS
      <4> QED  BY <2>3, <2>9, <3>2, <4>1
    <3>4. counter = 1
      <4>1. Len(<<Section>>) = 1 /\ <<Section>> # << >>
        OBVIOUS
      <4> QED  BY <2>9, <3>3, <4>1 DEF Even
    <3>5. counter' = Len(Opens') + 1
      <4>1. Len(<< >>) = 0
        OBVIOUS
      <4> QED  BY <1>1, <2>5, <3>2, <3>4, <4>1
    <3>6. \A i \in 1 .. n - 1 : s[i].seen = << >> <=> s[i].where = "outer"
      BY <1>4, <3>1 DEF Bare
    <3> QED  BY <1>4, <1>7, <3>5, <3>6 DEF Ahead
  <2>10. CounterInv'
    BY <1>1, <2>2, <2>7, <2>8, <2>9 DEF CounterInv
  <2> QED  BY <2>6, <2>10
<1> QED  BY <1>9, <1>10, <1>11, <1>12 DEF IInv

LEMMA LoadStep == ASSUME IInv, Load PROVE IInv'
<1>1. CASE InitPyllprof /\ startup
  BY <1>1, BeginStep DEF InitPyllprof, Loaded
<1>2. CASE InitPyllprof /\ ~startup
  BY <1>2, UnchangedStep DEF InitPyllprof, Loaded, Unmoved
<1>3. CASE InitRrprof \/ Luaopen
  BY <1>3, UnchangedStep DEF InitRrprof, Luaopen, Loaded, Unmoved
<1>4. CASE Minit
  <2>1. UNCHANGED <<adapter, stack, counter, path, astray>> /\ original' = "zend"
    BY <1>4 DEF Minit, Loaded, Unmoved, Saved
  <2> QED  BY <2>1, OriginalStep
<1> QED  BY <1>1, <1>2, <1>3, <1>4 DEF Load

LEMMA HelloworldStep == ASSUME IInv, Helloworld PROVE IInv'
<1>1. UNCHANGED <<adapter, stack, counter, path, astray>> /\ original' = "hp" /\ adapter = "php"
  BY DEF Helloworld, Saved
<1> QED  BY <1>1, OriginalStep

LEMMA NextInvariant == IInv /\ [Next]_vars => IInv'
<1> SUFFICES ASSUME IInv, [Next]_vars PROVE IInv'
  OBVIOUS
<1>1. CASE Load
  BY <1>1, LoadStep
<1>2. CASE Helloworld
  BY <1>2, HelloworldStep
<1>3. CASE CallForEver
  BY <1>3, CallForEverStep
<1>4. CASE BeginProfile
  <2>1. Startup /\ UNCHANGED <<adapter, original, astray>> /\ adapter = "python"
    BY <1>4 DEF BeginProfile, Startup
  <2> QED  BY <2>1, BeginStep
<1>5. CASE EndProfile
  BY <1>5, EndProfileStep
<1>6. ASSUME NEW f \in Functions, Call(f) PROVE IInv'
  BY <1>6, CallStep
<1>7. ASSUME NEW f \in Functions, TailCall(f) PROVE IInv'
  BY <1>7, TailCallStep
<1>8. ASSUME NEW unwinding \in BOOLEAN, End(unwinding) PROVE IInv'
  BY <1>8, EndStep
<1>9. CASE UNCHANGED vars
  BY <1>9, UnchangedStep DEF vars
<1> QED  BY <1>1, <1>2, <1>3, <1>4, <1>5, <1>6, <1>7, <1>8, <1>9 DEF Next

(***************************************************************************)
(* The theorems.                                                           *)
(***************************************************************************)

THEOREM Invariance == Spec => []IInv
BY InitInvariant, NextInvariant, PTL DEF Spec

\* Whatever is left without a return, the cursor stays in the tree; and as long
\* as nothing was, below the root are exactly the functions running whose calls
\* were seen and the open sections, in order.
THEOREM CursorIsWhereProgramIs == Spec => []PathIsStack
<1>1. IInv => PathIsStack
  <2> SUFFICES ASSUME IInv PROVE PathIsStack
    OBVIOUS
  <2>1. path \in Seq(Values) /\ Len(path) >= 1 /\ path[1] = Top
    BY Facts
  <2>2. path # << >> /\ Head(path) = Top
    BY <2>1
  <2> QED  BY <2>2 DEF PathIsStack, IInv, PathInv
<1> QED  BY <1>1, Invariance, PTL

\* A return the recorder ignores at the root is the return of a function that
\* ran before the adapter was loaded.
THEOREM OnlyOuterSkipped == Spec => SkippedAreOuter
<1> DEFINE Outer == \A unwinding \in BOOLEAN :
                      End(unwinding) /\ ~astray' /\ path = <<Top>> /\ Returns(Last(stack), unwinding) > 0
                        => Last(stack).where # "inner"
<1>1. IInv /\ [Next]_vars => [Outer]_vars
  <2> SUFFICES ASSUME IInv, NEW unwinding \in BOOLEAN, End(unwinding), ~astray', path = <<Top>>,
                      Returns(Last(stack), unwinding) > 0, Last(stack).where = "inner"
               PROVE  FALSE
    OBVIOUS
  <2>1. PICK x, t, r : /\ x = Last(stack) /\ t = Returns(x, unwinding)
                       /\ r = Recs(Front(stack))
    OBVIOUS
  <2>2. ~astray /\ ~Strays(x, unwinding) /\ Len(stack) > 1 /\ ~Endless
    BY <2>1 DEF End
  <2>3. /\ x \in Frames /\ r \in Seq(Nodes) /\ Recorded = r \o Rec(x)
        /\ x = stack[Len(stack)] /\ Len(stack) \in 1 .. Len(stack)
    <3>1. stack \in Seq(Frames) /\ Len(stack) >= 1 /\ Recorded = Recs(stack)
      BY Facts
    <3>2. /\ Last(stack) \in Frames /\ Last(stack) = stack[Len(stack)]
          /\ Recs(Front(stack)) \in Seq(Nodes)
          /\ Recs(stack) = Recs(Front(stack)) \o Rec(Last(stack))
      BY <3>1, StackFacts
    <3>3. Len(stack) \in 1 .. Len(stack)
      BY <3>1
    <3> QED  BY <2>1, <3>1, <3>2, <3>3
  <2>4. x.seen \in Seq(Nodes) /\ x.more \in Seq(Nodes) /\ Rec(x) \in Seq(Nodes)
    <3>1. x.seen \in Seq(Nodes) /\ x.more \in Seq(Nodes)
      BY <2>3 DEF Frames
    <3> QED  BY <3>1 DEF Rec
  <2>5. Rec(x) = << >> /\ x.seen = << >>
    <3>1. Recorded = << >>
      <4>1. PICK a : a = Recorded /\ a \in Seq(Nodes) /\ <<Top>> = <<Top>> \o a
        BY <2>2, Facts
      <4>2. Len(<<Top>> \o a) = 1 + Len(a) /\ Len(a) \in Nat /\ Len(<<Top>>) = 1
        BY <4>1
      <4>3. Len(a) = 0
        BY <4>1, <4>2
      <4> QED  BY <4>1, <4>3
    <3>2. Rec(x) = << >>
      <4>1. PICK b : b = Rec(x) /\ b \in Seq(Nodes)
        BY <2>4
      <4>2. r \o b = << >> /\ r \in Seq(Nodes)
        BY <2>3, <3>1, <4>1
      <4>3. b = << >>
        BY <4>1, <4>2, ConcatEqualIffEmpty
      <4> QED  BY <4>1, <4>3
    <3> QED  BY <2>4, <3>2, ConcatEqualIffEmpty DEF Rec
  <2>6. x.where = "inner" /\ ~Old(x)
    BY <2>1 DEF Old
  <2>7. adapter = "python"
    <3>1. Len(x.seen) # 1
      BY <2>5
    <3> QED  BY <2>3, <2>6, <3>1 DEF IInv, NewInv
  <2>8. Even
    <3>1. ~Ahead
      BY <2>3, <2>5, <2>6 DEF Ahead
    <3> QED  BY <2>2, <2>7, <3>1 DEF IInv, CounterInv
  <2>9. t > 0
    BY <2>1
  <2>10. Traced
    BY <2>1, <2>7, <2>9 DEF Returns, PythonReturns
  <2>11. Opens = << >>
    <3>1. x.more = << >>
      BY <2>4, <2>5, ConcatEqualIffEmpty DEF Rec
    <3>2. \A j \in 1 .. Len(stack) - 1 : stack[j].more = << >>
      BY <2>3, <2>5, <2>8 DEF Even
    <3>3. \A j \in 1 .. Len(stack) : j \in 1 .. Len(stack) - 1 \/ j = Len(stack)
      BY <2>3
    <3>4. \A j \in 1 .. Len(stack) : stack[j].more = << >>
      BY <2>3, <3>1, <3>2, <3>3
    <3> QED  BY <3>4, Facts, StackFacts
  <2>12. counter = -1 \/ counter = 0
    <3>1. Len(<< >>) = 0
      OBVIOUS
    <3> QED  BY <2>8, <2>11, <3>1 DEF Even
  <2> QED  BY <2>10, <2>12 DEF Traced
<1> HIDE DEF Outer
<1>2. Spec => [][Outer]_vars
  BY <1>1, Invariance, PTL DEF Spec
<1> QED  BY <1>2 DEF SkippedAreOuter, Outer
=============================================================================
