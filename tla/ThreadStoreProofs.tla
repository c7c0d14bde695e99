-------------------------- MODULE ThreadStoreProofs --------------------------
(***************************************************************************)
(* The thread store, for any fields, batches, call trees and bounds:       *)
(*                                                                         *)
(* - after every fetch no node is dirty, every node's total is what was    *)
(*   received for it and below it, only the way of the running node is     *)
(*   marked, and every node but the root is in some slice;                 *)
(* - a slice that was filled never changes, the slice of the last fetch is *)
(*   there, and the slices between two fetches add up to the change of the *)
(*   current tree.                                                         *)
(*                                                                         *)
(* A fetch is one step made of loops: over the batch, up from each node    *)
(* (MarkNodeDirty, MarkRunningNodes), and down from the root               *)
(* (ClearDirtyNode).  The first sections say what each loop computes, by   *)
(* the least index or node at which that could fail; the invariants and    *)
(* their steps follow.                                                     *)
(***************************************************************************)
EXTENDS ThreadStore, FiniteSetTheorems, NaturalsInduction, WellFoundedInduction, TLAPS

(***************************************************************************)
(* The places of the slices.                                               *)
(***************************************************************************)

\* The place of the last fetch in the vector; it may not be there yet.
Now == time - start + 1

\* Times are numbers, and the slices make up a vector.
VectorInv ==
  /\ time \in Nat
  /\ \E S : slices \in Seq(S)

\* The vector starts at a fetch that was made.
StartInv == slices # << >> => start \in 1 .. time

\* No slice of a time to come was filled.
FutureInv == slices # << >> => \A i \in 1 .. Len(slices) : i > Now => slices[i] = EmptySlice

\* While the connection lives, the last fetch has its slice.
LatestInv ==
  recv /\ slices # << >> =>
    Now <= Len(slices) /\ slices[Now].now = time /\ slices[Now].run = running

SliceInv == VectorInv /\ StartInv /\ FutureInv /\ LatestInv

-----------------------------------------------------------------------------

\* resize only ever appends empty slices.
LEMMA PaddedFacts ==
  ASSUME NEW S, NEW v \in Seq(S), NEW len \in Int
  PROVE  /\ Padded(v, len) \in Seq(S \cup {EmptySlice})
         /\ Len(Padded(v, len)) = IF len > Len(v) THEN len ELSE Len(v)
         /\ \A i \in 1 .. Len(Padded(v, len)) :
              Padded(v, len)[i] = IF i <= Len(v) THEN v[i] ELSE EmptySlice
<1>1. PICK k \in Nat : k = IF len > Len(v) THEN len ELSE Len(v)
  OBVIOUS
<1>2. PICK w : w = [i \in 1 .. k |-> IF i <= Len(v) THEN v[i] ELSE EmptySlice]
  OBVIOUS
<1>3. \A i \in 1 .. k : (IF i <= Len(v) THEN v[i] ELSE EmptySlice) \in S \cup {EmptySlice}
  OBVIOUS
<1>4. w \in Seq(S \cup {EmptySlice}) /\ Len(w) = k
  BY <1>2, <1>3
<1>5. Padded(v, len) = w
  BY <1>1, <1>2 DEF Padded
<1> QED  BY <1>1, <1>2, <1>4, <1>5

\* A fetch fills one slice, at its place in the vector.
LEMMA StoreFacts ==
  ASSUME NEW batch, NEW run, NEW ts, Store(batch, run, ts)
  PROVE  /\ running' = run /\ start' = StartTime(ts)
         /\ \E nodes : slices' = [Padded(slices, SliceIndex(ts)) EXCEPT
                         ![SliceIndex(ts)] = [nodes |-> nodes, now |-> ts, run |-> run]]
BY DEF Store

\* Where a fetch puts its slice, and what it leaves of the vector.
LEMMA FilingFacts ==
  ASSUME SliceInv, NEW new,
         slices' = [Padded(slices, SliceIndex(time + 1)) EXCEPT ![SliceIndex(time + 1)] = new]
  PROVE  \E i \in Nat \ {0} : \E S :
           /\ i = (IF slices = << >> THEN 1 ELSE time + 1 - start + 1)
           /\ slices' \in Seq(S) /\ Len(slices) \in Nat
           /\ Len(slices') = IF i > Len(slices) THEN i ELSE Len(slices)
           /\ slices'[i] = new
           /\ \A j \in 1 .. Len(slices') :
                j # i => slices'[j] = IF j <= Len(slices) THEN slices[j] ELSE EmptySlice
<1>1. PICK i : i = SliceIndex(time + 1)
  OBVIOUS
<1>2. i \in Nat \ {0} /\ i = (IF slices = << >> THEN 1 ELSE time + 1 - start + 1)
  <2>1. CASE slices = << >>
    BY <1>1, <2>1 DEF SliceInv, VectorInv, SliceIndex, StartTime
  <2>2. CASE slices # << >>
    <3>1. time \in Nat /\ start \in 1 .. time
      BY <2>2 DEF SliceInv, VectorInv, StartInv
    <3>2. i = (time + 1) - start + 1
      BY <1>1, <2>2 DEF SliceIndex, StartTime
    <3> QED  BY <2>2, <3>1, <3>2
  <2> QED  BY <2>1, <2>2
<1>3. PICK S : slices \in Seq(S)
  BY DEF SliceInv, VectorInv
<1>4. PICK w : w = Padded(slices, i)
  OBVIOUS
<1>5. /\ w \in Seq(S \cup {EmptySlice})
      /\ Len(w) = IF i > Len(slices) THEN i ELSE Len(slices)
      /\ \A j \in 1 .. Len(w) : w[j] = IF j <= Len(slices) THEN slices[j] ELSE EmptySlice
  <2>1. i \in Int
    BY <1>2
  <2> QED  BY <1>3, <1>4, <2>1, PaddedFacts
<1>6. slices' = [w EXCEPT ![i] = new] /\ i \in 1 .. Len(w) /\ Len(slices) \in Nat
  BY <1>1, <1>2, <1>3, <1>4, <1>5
<1>7. slices' \in Seq(S \cup {EmptySlice, new}) /\ Len(slices') = Len(w)
  <2>1. PICK V : V = S \cup {EmptySlice, new}
    OBVIOUS
  <2>2. w \in Seq(V) /\ new \in V
    BY <1>5, <2>1
  <2>3. i \in 1 .. Len(w)
    BY <1>6
  <2>4. [w EXCEPT ![i] = new] \in Seq(V) /\ Len([w EXCEPT ![i] = new]) = Len(w)
    BY <2>2, <2>3
  <2> QED  BY <1>6, <2>1, <2>4
<1>8. slices'[i] = new
  BY <1>5, <1>6
<1>9. \A j \in 1 .. Len(slices') :
        j # i => slices'[j] = IF j <= Len(slices) THEN slices[j] ELSE EmptySlice
  BY <1>5, <1>6, <1>7
<1> QED  BY <1>2, <1>5, <1>6, <1>7, <1>8, <1>9

\* What a fetch does to the vector.
LEMMA FetchFacts ==
  ASSUME SliceInv, NEW order, NEW run, Fetch(order, run)
  PROVE  \E i \in Nat \ {0} : \E S :
           /\ time' = time + 1 /\ recv' = recv /\ recv /\ running' = run
           /\ start' = (IF slices = << >> THEN time + 1 ELSE start)
           /\ i = time' - start' + 1
           /\ slices' \in Seq(S) /\ i <= Len(slices') /\ Len(slices) <= Len(slices')
           /\ slices'[i].now = time' /\ slices'[i].run = run
           /\ \A j \in 1 .. Len(slices') :
                j # i => slices'[j] = IF j <= Len(slices) THEN slices[j] ELSE EmptySlice
<1>1. PICK batch : Store(batch, run, time + 1)
  BY DEF Fetch
<1>2. /\ time' = time + 1 /\ recv' = recv /\ recv /\ running' = run
      /\ start' = (IF slices = << >> THEN time + 1 ELSE start)
  BY <1>1, StoreFacts DEF Fetch, StartTime
<1>3. PICK nodes : slices' = [Padded(slices, SliceIndex(time + 1)) EXCEPT
          ![SliceIndex(time + 1)] = [nodes |-> nodes, now |-> time + 1, run |-> run]]
  BY <1>1, StoreFacts
<1>4. PICK new : new = [nodes |-> nodes, now |-> time + 1, run |-> run]
  OBVIOUS
<1>5. PICK i, S :
        /\ i \in Nat \ {0}
        /\ i = (IF slices = << >> THEN 1 ELSE time + 1 - start + 1)
        /\ slices' \in Seq(S) /\ Len(slices) \in Nat
        /\ Len(slices') = IF i > Len(slices) THEN i ELSE Len(slices)
        /\ slices'[i] = new
        /\ \A j \in 1 .. Len(slices') :
             j # i => slices'[j] = IF j <= Len(slices) THEN slices[j] ELSE EmptySlice
  BY <1>3, <1>4, FilingFacts
<1>6. i = time' - start' + 1
  <2>1. time \in Nat /\ (slices # << >> => start \in Nat)
    BY DEF SliceInv, VectorInv, StartInv
  <2>2. CASE slices = << >>
    BY <1>2, <1>5, <2>1, <2>2
  <2>3. CASE slices # << >>
    BY <1>2, <1>5, <2>1, <2>3
  <2> QED  BY <2>2, <2>3
<1>7. i <= Len(slices') /\ Len(slices) <= Len(slices')
  BY <1>5
<1> QED  BY <1>2, <1>4, <1>5, <1>6, <1>7

\* What a query does to it.
LEMMA QueryFacts ==
  ASSUME SliceInv, NEW to \in 0 .. time + 1, QueryDiff(to)
  PROVE  \E S :
           /\ slices # << >> /\ slices' # << >>
           /\ UNCHANGED <<time, recv, running, start>>
           /\ slices' \in Seq(S) /\ Len(slices) <= Len(slices')
           /\ \A j \in 1 .. Len(slices') :
                slices'[j] = IF j <= Len(slices) THEN slices[j] ELSE EmptySlice
<1>1. slices # << >> /\ UNCHANGED <<time, recv, running, start>>
  BY DEF QueryDiff, storeVars
<1>2. PICK i \in Int : slices' = Padded(slices, i)
  <2>1. (IF to = 0 THEN time ELSE to) \in Int /\ start \in Int
    BY <1>1 DEF SliceInv, VectorInv, StartInv
  <2>2. SliceIndex(IF to = 0 THEN time ELSE to) \in Int
    BY <1>1, <2>1 DEF SliceIndex, StartTime
  <2> QED  BY <2>2 DEF QueryDiff
<1>3. PICK S : slices \in Seq(S)
  BY DEF SliceInv, VectorInv
<1>4. /\ slices' \in Seq(S \cup {EmptySlice})
      /\ Len(slices') = IF i > Len(slices) THEN i ELSE Len(slices)
      /\ \A j \in 1 .. Len(slices') :
           slices'[j] = IF j <= Len(slices) THEN slices[j] ELSE EmptySlice
  BY <1>2, <1>3, PaddedFacts
<1>5. Len(slices) <= Len(slices') /\ slices' # << >>
  BY <1>1, <1>3, <1>4
<1> QED  BY <1>1, <1>4, <1>5

-----------------------------------------------------------------------------

\* The places of the slices, in every step.
LEMMA SliceStep == ASSUME SliceInv, [Next]_vars PROVE SliceInv'
<1>1. ASSUME NEW order, NEW run, Fetch(order, run) PROVE SliceInv'
  <2>1. PICK i, S :
          /\ i \in Nat \ {0}
          /\ time' = time + 1 /\ recv' = recv /\ recv /\ running' = run
          /\ start' = (IF slices = << >> THEN time + 1 ELSE start)
          /\ i = time' - start' + 1
          /\ slices' \in Seq(S) /\ i <= Len(slices') /\ Len(slices) <= Len(slices')
          /\ slices'[i].now = time' /\ slices'[i].run = run
          /\ \A j \in 1 .. Len(slices') :
               j # i => slices'[j] = IF j <= Len(slices) THEN slices[j] ELSE EmptySlice
    BY <1>1, FetchFacts
  <2>2. VectorInv'
    BY <2>1 DEF SliceInv, VectorInv
  <2>3. StartInv' /\ start' \in Nat /\ time' \in Nat
    <3>1. CASE slices = << >>
      BY <2>1, <3>1 DEF SliceInv, VectorInv, StartInv
    <3>2. CASE slices # << >>
      <4>1. time \in Nat /\ start \in 1 .. time
        BY <3>2 DEF SliceInv, VectorInv, StartInv
      <4> QED  BY <2>1, <3>2, <4>1 DEF StartInv
    <3> QED  BY <3>1, <3>2
  <2>4. FutureInv'
    <3>1. SUFFICES ASSUME NEW j \in 1 .. Len(slices'), j > Now'
                   PROVE  slices'[j] = EmptySlice
      BY DEF FutureInv
    <3>2. i = Now' /\ j # i
      BY <2>1, <2>3, <3>1 DEF Now
    <3>3. CASE j <= Len(slices)
      <4>1. slices # << >> /\ j \in 1 .. Len(slices)
        BY <2>1, <3>1, <3>3 DEF SliceInv, VectorInv
      <4>2. time \in Nat /\ start \in 1 .. time /\ Now' = Now + 1
        BY <2>1, <4>1 DEF Now, SliceInv, VectorInv, StartInv
      <4>3. j > Now
        BY <3>1, <4>2 DEF Now
      <4> QED  BY <2>1, <3>2, <3>3, <4>1, <4>3 DEF SliceInv, FutureInv
    <3>4. CASE ~(j <= Len(slices))
      BY <2>1, <3>2, <3>4
    <3> QED  BY <3>3, <3>4
  <2>5. LatestInv'
    BY <2>1 DEF LatestInv, Now
  <2> QED  BY <2>2, <2>3, <2>4, <2>5 DEF SliceInv
<1>F. CASE FetchBefore
  <2>1. slices = << >> /\ time' = time + 1 /\ UNCHANGED <<slices, start, running>>
    BY <1>F DEF FetchBefore, storeVars, sliceVars
  <2> QED  BY <2>1 DEF SliceInv, VectorInv, StartInv, FutureInv, LatestInv
<1>2. CASE FailedFetch
  <2>1. time' = time + 1 /\ ~recv' /\ UNCHANGED <<slices, start, running>>
    BY <1>2 DEF FailedFetch, storeVars, sliceVars
  <2>2. VectorInv' /\ StartInv' /\ LatestInv'
    BY <2>1 DEF SliceInv, VectorInv, StartInv, LatestInv
  <2>3. FutureInv'
    BY <2>1 DEF SliceInv, VectorInv, StartInv, FutureInv, Now
  <2> QED  BY <2>2, <2>3 DEF SliceInv
<1>3. ASSUME NEW to \in 0 .. time + 1, QueryDiff(to) PROVE SliceInv'
  <2>1. PICK S :
          /\ slices # << >> /\ slices' # << >>
          /\ UNCHANGED <<time, recv, running, start>>
          /\ slices' \in Seq(S) /\ Len(slices) <= Len(slices')
          /\ \A j \in 1 .. Len(slices') :
               slices'[j] = IF j <= Len(slices) THEN slices[j] ELSE EmptySlice
    BY <1>3, QueryFacts
  <2>2. VectorInv' /\ StartInv'
    BY <2>1 DEF SliceInv, VectorInv, StartInv
  <2>3. Now' = Now /\ Now \in Nat \ {0}
    BY <2>1 DEF SliceInv, VectorInv, StartInv, Now
  <2>4. FutureInv'
    <3>1. SUFFICES ASSUME NEW j \in 1 .. Len(slices'), j > Now
                   PROVE  slices'[j] = EmptySlice
      BY <2>3 DEF FutureInv
    <3>2. CASE j <= Len(slices)
      BY <2>1, <3>1, <3>2 DEF SliceInv, FutureInv
    <3>3. CASE ~(j <= Len(slices))
      BY <2>1, <3>3
    <3> QED  BY <3>2, <3>3
  <2>5. LatestInv'
    <3>1. SUFFICES ASSUME recv
                   PROVE  Now <= Len(slices') /\ slices'[Now].now = time
                          /\ slices'[Now].run = running
      BY <2>1, <2>3 DEF LatestInv
    <3>2. Now <= Len(slices) /\ slices[Now].now = time /\ slices[Now].run = running
      BY <2>1, <3>1 DEF SliceInv, LatestInv
    <3>3. Now <= Len(slices') /\ slices'[Now] = slices[Now]
      <4>1. Len(slices) \in Nat /\ Len(slices') \in Nat
        BY <2>1 DEF SliceInv, VectorInv
      <4> QED  BY <2>1, <2>3, <3>2, <4>1
    <3> QED  BY <3>2, <3>3
  <2> QED  BY <2>2, <2>4, <2>5 DEF SliceInv
<1>4. CASE UNCHANGED vars
  <2>1. UNCHANGED <<slices, start, time, recv, running>>
    BY <1>4 DEF vars, storeVars, sliceVars
  <2> QED
    BY <2>1 DEF SliceInv, VectorInv, StartInv, FutureInv, LatestInv, Now
<1> QED  BY <1>1, <1>2, <1>3, <1>4, <1>F DEF Next

\* Whatever happens, a slice that was filled stays where and what it is.
LEMMA FilledKept ==
  ASSUME SliceInv, [Next]_vars
  PROVE  \A i \in 1 .. Len(slices) :
           slices[i] # EmptySlice => i <= Len(slices') /\ slices'[i] = slices[i]
<1>1. SUFFICES ASSUME NEW j \in 1 .. Len(slices), slices[j] # EmptySlice
               PROVE  j <= Len(slices') /\ slices'[j] = slices[j]
  OBVIOUS
<1>2. Len(slices) \in Nat /\ slices # << >>
  BY <1>1 DEF SliceInv, VectorInv
<1>3. ASSUME NEW order, NEW run, Fetch(order, run)
      PROVE  j <= Len(slices') /\ slices'[j] = slices[j]
  <2>1. PICK i, S :
          /\ i \in Nat \ {0}
          /\ time' = time + 1
          /\ start' = start
          /\ i = time' - start' + 1
          /\ slices' \in Seq(S) /\ Len(slices) <= Len(slices')
          /\ \A k \in 1 .. Len(slices') :
               k # i => slices'[k] = IF k <= Len(slices) THEN slices[k] ELSE EmptySlice
    BY <1>2, <1>3, FetchFacts
  <2>2. i > Now
    BY <1>2, <2>1 DEF SliceInv, VectorInv, StartInv, Now
  <2>3. j # i
    BY <1>1, <1>2, <2>2 DEF SliceInv, FutureInv
  <2>4. Len(slices') \in Nat /\ j \in 1 .. Len(slices')
    BY <1>1, <1>2, <2>1
  <2> QED  BY <1>1, <2>1, <2>3, <2>4
<1>4. ASSUME NEW to \in 0 .. time + 1, QueryDiff(to)
      PROVE  j <= Len(slices') /\ slices'[j] = slices[j]
  <2>1. PICK S :
          /\ slices' \in Seq(S) /\ Len(slices) <= Len(slices')
          /\ \A k \in 1 .. Len(slices') :
               slices'[k] = IF k <= Len(slices) THEN slices[k] ELSE EmptySlice
    BY <1>4, QueryFacts
  <2>2. Len(slices') \in Nat /\ j \in 1 .. Len(slices')
    BY <1>1, <1>2, <2>1
  <2> QED  BY <1>1, <2>1, <2>2
<1>F. CASE FetchBefore
  <2>1. slices' = slices
    BY <1>F DEF FetchBefore, sliceVars
  <2> QED  BY <1>1, <2>1
<1>5. CASE FailedFetch
  <2>1. slices' = slices
    BY <1>5 DEF FailedFetch, sliceVars
  <2> QED  BY <1>1, <2>1
<1>6. CASE UNCHANGED vars
  <2>1. slices' = slices
    BY <1>6 DEF vars, sliceVars
  <2> QED  BY <1>1, <1>2, <2>1
<1> QED  BY <1>3, <1>4, <1>5, <1>6, <1>F DEF Next

(***************************************************************************)
(* Numbers.                                                                *)
(***************************************************************************)

\* The order of the numbers, as a relation.
LEMMA Descent ==
  \E R : IsWellFoundedOn(R, Nat) /\ \A k, m \in Nat : k < m => <<k, m>> \in R
<1>1. IsWellFoundedOn(OpToRel(<, Nat), Nat)
  BY NatLessThanWellFounded
<1>2. \A k, m \in Nat : k < m => <<k, m>> \in OpToRel(<, Nat)
  BY DEF OpToRel
<1> QED  BY <1>1, <1>2

\* A set of numbers has a least one.
LEMMA Least == ASSUME NEW S, S \subseteq Nat, S # {} PROVE \E m \in S : \A k \in S : m <= k
<1>1. PICK R : IsWellFoundedOn(R, Nat) /\ \A k, m \in Nat : k < m => <<k, m>> \in R
  BY Descent
<1>2. PICK m \in S : \A k \in S : ~ (<<k, m>> \in R)
  <2>1. \A RR, SS, TT : IsWellFoundedOn(RR, SS) /\ TT \subseteq SS /\ TT # {}
                          => \E x \in TT : \A y \in TT : ~ (<<y, x>> \in RR)
    BY WFMin
  <2>2. S \subseteq Nat /\ S # {} /\ IsWellFoundedOn(R, Nat)
    BY <1>1
  <2> QED  BY <2>1, <2>2
<1>3. ASSUME NEW k \in S PROVE m <= k
  <2>1. m \in Nat /\ k \in Nat
    OBVIOUS
  <2>2. ~(k < m)
    BY <1>1, <1>2, <2>1
  <2> QED  BY <2>1, <2>2
<1> QED  BY <1>3

\* What holds of 0 and passes on from a number to the next, up to a bound,
\* holds up to the bound.
LEMMA Induction ==
  ASSUME NEW last \in Nat, NEW T, 0 \in T, \A k \in 1 .. last : k - 1 \in T => k \in T
  PROVE  0 .. last \subseteq T
<1>1. PICK S : S = {k \in 0 .. last : k \notin T}
  OBVIOUS
<1>2. SUFFICES ASSUME S # {} PROVE FALSE
  BY <1>1
<1>3. PICK m \in S : \A k \in S : m <= k
  <2>1. S \subseteq Nat
    BY <1>1
  <2> QED  BY <1>2, <2>1, Least
<1>4. m \in 1 .. last /\ m \notin T
  BY <1>1, <1>3
<1>5. m - 1 \in 0 .. last /\ ~(m <= m - 1)
  BY <1>4
<1>6. m - 1 \in T
  BY <1>1, <1>3, <1>5
<1> QED  BY <1>4, <1>6

\* What passes on to a number from all the smaller ones holds of each.
LEMMA Course ==
  ASSUME NEW last \in Nat, NEW T, \A k \in 0 .. last : (0 .. k - 1 \subseteq T) => k \in T
  PROVE  0 .. last \subseteq T
<1>1. PICK S : S = {k \in 0 .. last : k \notin T}
  OBVIOUS
<1>2. SUFFICES ASSUME S # {} PROVE FALSE
  BY <1>1
<1>3. PICK m \in S : \A k \in S : m <= k
  <2>1. S \subseteq Nat
    BY <1>1
  <2> QED  BY <1>2, <2>1, Least
<1>4. m \in 0 .. last /\ m \notin T
  BY <1>1
<1>5. ASSUME NEW k \in 0 .. m - 1 PROVE k \in T
  <2>1. k \in 0 .. last /\ ~(m <= k)
    BY <1>4
  <2> QED  BY <1>1, <1>3, <2>1
<1> QED  BY <1>4, <1>5

(***************************************************************************)
(* Ways to the root.                                                       *)
(***************************************************************************)

\* Parents have smaller numbers, and 0 is none.
Rising(t) == DOMAIN t \subseteq Nodes /\ \A m \in DOMAIN t : t[m].parent \in 0 .. m - 1

\* One turn of the climb.
Climbed(t, stop, up, m) == IF m \in DOMAIN t \ stop THEN {m} \cup up[t[m].parent] ELSE {}

Climb(t, stop, k, up) == up = [m \in 0 .. k |-> Climbed(t, stop, up, m)]

\* The climb ends.
LEMMA ClimbRuns ==
  ASSUME NEW t, Rising(t), NEW stop
  PROVE  \E up : Climb(t, stop, MaxNode, up)
<1> DEFINE Runs == {k \in 0 .. MaxNode : \E up : Climb(t, stop, k, up)}
<1>N. MaxNode \in Nat
  BY StoreConstants
<1>1. 0 \in Runs
  <2>1. PICK up : up = [m \in 0 .. 0 |-> {}]
    OBVIOUS
  <2>2. 0 \notin DOMAIN t
    BY DEF Rising, Nodes
  <2>3. \A m \in 0 .. 0 : Climbed(t, stop, up, m) = {}
    BY <2>2 DEF Climbed
  <2>4. Climb(t, stop, 0, up)
    BY <2>1, <2>3 DEF Climb
  <2> QED  BY <1>N, <2>4
<1>2. ASSUME NEW k \in 1 .. MaxNode, k - 1 \in Runs PROVE k \in Runs
  <2>1. PICK up : Climb(t, stop, k - 1, up)
    BY <1>2
  <2>2. PICK more : more = [m \in 0 .. k |-> IF m < k THEN up[m] ELSE Climbed(t, stop, up, k)]
    OBVIOUS
  <2>3. ASSUME NEW m \in 0 .. k
        PROVE  more[m] = Climbed(t, stop, more, m)
    <3>1. Climbed(t, stop, more, m) = Climbed(t, stop, up, m)
      <4>1. CASE m \in DOMAIN t \ stop
        <5>1. t[m].parent \in 0 .. k - 1
          BY <4>1 DEF Rising
        <5>2. more[t[m].parent] = up[t[m].parent]
          BY <2>2, <5>1
        <5> QED  BY <5>2 DEF Climbed
      <4>2. CASE m \notin DOMAIN t \ stop
        BY <4>2 DEF Climbed
      <4> QED  BY <4>1, <4>2
    <3>2. CASE m = k
      <4>1. more[m] = Climbed(t, stop, up, k)
        BY <2>2, <3>2
      <4> QED  BY <3>1, <3>2, <4>1
    <3>3. CASE m \in 0 .. k - 1
      <4>1. more[m] = up[m]
        BY <2>2, <3>3
      <4>2. up[m] = Climbed(t, stop, up, m)
        BY <2>1, <3>3 DEF Climb
      <4> QED  BY <3>1, <4>1, <4>2
    <3> QED  BY <3>2, <3>3
  <2>4. more = [m \in 0 .. k |-> more[m]]
    BY <2>2
  <2>5. Climb(t, stop, k, more)
    BY <2>3, <2>4 DEF Climb
  <2> QED  BY <2>5
<1> HIDE DEF Runs
<1>3. 0 .. MaxNode \subseteq Runs
  BY <1>N, <1>1, <1>2, Induction
<1>4. MaxNode \in Runs
  BY <1>N, <1>3
<1> QED  BY <1>4 DEF Runs

\* The way of a node is the node itself and the way of its parent.
LEMMA AscentStep ==
  ASSUME NEW t, Rising(t), NEW stop
  PROVE  \A n \in 0 .. MaxNode :
           Ascent(t, n, stop) =
             IF n \in DOMAIN t \ stop THEN {n} \cup Ascent(t, t[n].parent, stop) ELSE {}
<1> DEFINE U == CHOOSE up : up = [m \in 0 .. MaxNode |->
                  IF m \in DOMAIN t \ stop THEN {m} \cup up[t[m].parent] ELSE {}]
<1>1. ASSUME NEW n PROVE Ascent(t, n, stop) = U[n]
  BY DEF Ascent
<1>2. U = [m \in 0 .. MaxNode |-> IF m \in DOMAIN t \ stop THEN {m} \cup U[t[m].parent] ELSE {}]
  <2>1. \E up : up = [m \in 0 .. MaxNode |->
                  IF m \in DOMAIN t \ stop THEN {m} \cup up[t[m].parent] ELSE {}]
    BY ClimbRuns DEF Climb, Climbed
  <2> QED  BY <2>1
<1> HIDE DEF U
<1> QED  BY <1>1, <1>2

\* Every known node but the root is a child of a known node.
Grown(t) ==
  /\ Rising(t)
  /\ Root \in DOMAIN t
  /\ \A m \in DOMAIN t \ {Root} : t[m].parent \in DOMAIN t /\ m \in t[t[m].parent].children
  /\ \A m \in DOMAIN t : t[m].children \subseteq {c \in DOMAIN t : t[c].parent = m}

\* With a node, a set holds all that are above it.
Upward(t, D) == D \subseteq DOMAIN t /\ \A m \in D \ {Root} : t[m].parent \in D

\* A climb from a node that stops at a set reaches all that is missing in it.
LEMMA AscentCloses ==
  ASSUME NEW t, Grown(t), NEW D, Upward(t, D)
  PROVE  \A n \in 0 .. MaxNode :
           /\ Ascent(t, n, D) \subseteq DOMAIN t \ D
           /\ Upward(t, D \cup Ascent(t, n, D))
           /\ n \in DOMAIN t => n \in D \cup Ascent(t, n, D)
<1> DEFINE Good(n) == /\ Ascent(t, n, D) \subseteq DOMAIN t \ D
                      /\ Upward(t, D \cup Ascent(t, n, D))
                      /\ n \in DOMAIN t => n \in D \cup Ascent(t, n, D)
           T == {n \in 0 .. MaxNode : Good(n)}
<1>N. MaxNode \in Nat /\ Rising(t)
  BY StoreConstants DEF Grown
<1>1. ASSUME NEW n \in 0 .. MaxNode, 0 .. n - 1 \subseteq T PROVE Good(n)
  <2>1. CASE n \in DOMAIN t \ D
    <3>1. PICK p : p = t[n].parent
      OBVIOUS
    <3>2. p \in 0 .. n - 1 /\ (n # Root => p \in DOMAIN t)
      BY <1>N, <2>1, <3>1 DEF Rising, Grown
    <3>3. Good(p)
      BY <1>1, <3>2
    <3>4. Ascent(t, n, D) = {n} \cup Ascent(t, p, D)
      BY <1>N, <2>1, <3>1, AscentStep
    <3>5. Upward(t, D \cup Ascent(t, n, D))
      BY <2>1, <3>1, <3>2, <3>3, <3>4 DEF Upward
    <3> QED  BY <2>1, <3>3, <3>4, <3>5
  <2>2. CASE n \notin DOMAIN t \ D
    <3>1. Ascent(t, n, D) = {}
      BY <1>N, <2>2, AscentStep
    <3> QED  BY <2>2, <3>1
  <2> QED  BY <2>1, <2>2
<1>2. \A n \in 0 .. MaxNode : (0 .. n - 1 \subseteq T) => n \in T
  BY <1>1
<1> HIDE DEF T
<1>3. 0 .. MaxNode \subseteq T
  BY <1>N, <1>2, Course
<1> QED  BY <1>3 DEF T

\* A tree that has grown shows the same ways and longer ones.
LEMMA AscentGrows ==
  ASSUME NEW t, Rising(t), NEW u, Rising(u), DOMAIN t \subseteq DOMAIN u,
         \A m \in DOMAIN t : u[m].parent = t[m].parent
  PROVE  \A n \in 0 .. MaxNode : Ascent(t, n, {}) \subseteq Ascent(u, n, {})
<1> DEFINE T == {n \in 0 .. MaxNode : Ascent(t, n, {}) \subseteq Ascent(u, n, {})}
<1>N. MaxNode \in Nat
  BY StoreConstants
<1>1. ASSUME NEW n \in 0 .. MaxNode, 0 .. n - 1 \subseteq T
      PROVE  Ascent(t, n, {}) \subseteq Ascent(u, n, {})
  <2>1. CASE n \in DOMAIN t
    <3>1. PICK p : p = t[n].parent
      OBVIOUS
    <3>2. p \in 0 .. n - 1 /\ n \in DOMAIN u /\ u[n].parent = p
      BY <2>1, <3>1 DEF Rising
    <3>3. Ascent(t, p, {}) \subseteq Ascent(u, p, {})
      BY <1>1, <3>2
    <3>4. Ascent(t, n, {}) = {n} \cup Ascent(t, p, {})
      BY <2>1, <3>1, AscentStep
    <3>5. Ascent(u, n, {}) = {n} \cup Ascent(u, p, {})
      BY <3>2, AscentStep
    <3> QED  BY <3>3, <3>4, <3>5
  <2>2. CASE n \notin DOMAIN t
    BY <2>2, AscentStep
  <2> QED  BY <2>1, <2>2
<1>2. \A n \in 0 .. MaxNode : (0 .. n - 1 \subseteq T) => n \in T
  BY <1>1
<1> HIDE DEF T
<1>3. 0 .. MaxNode \subseteq T
  BY <1>N, <1>2, Course
<1> QED  BY <1>3 DEF T

(***************************************************************************)
(* The records of a batch.                                                 *)
(***************************************************************************)

Trees  == UNION {[S -> RecordNode] : S \in SUBSET Nodes}
Stores == [tree : Trees, dirty : SUBSET Nodes, temp : [Nodes -> Payload]]

\* The tree's parents are the program's.
Shaped(t) == \A m \in DOMAIN t : t[m].parent = shape[m]

\* In the program's tree, parents have the smaller numbers and only the root has none.
LEMMA ShapesRise ==
  ASSUME shape \in Shapes, NEW n \in Nodes
  PROVE  shape[n] \in 0 .. n - 1 /\ (shape[n] = 0 <=> n = Root)
<1>1. MaxNode \in Nat /\ shape \in [Nodes -> 0 .. MaxNode] /\ shape[n] < n
  BY StoreConstants DEF Shapes
<1>2. shape[n] \in 0 .. MaxNode
  BY <1>1
<1> QED  BY <1>1, <1>2 DEF Shapes, Nodes

\* A node that is new in the tree.
Joined(t, n, p, u) ==
  /\ u \in Trees /\ DOMAIN u = DOMAIN t \cup {n} /\ u[n] = NewNode(p)
  /\ \A m \in DOMAIN t : u[m] = [t[m] EXCEPT !.children = IF m = p THEN @ \cup {n} ELSE @]

\* AddNode joins the node and its parent, and changes no other node.
LEMMA AddNodeFacts ==
  ASSUME NEW t \in Trees, NEW n \in Nodes \ DOMAIN t, NEW p \in 0 .. n - 1
  PROVE  Joined(t, n, p, AddNode(t, n, p))
<1>1. PICK S \in SUBSET Nodes : t \in [S -> RecordNode]
  BY DEF Trees
<1>2. DOMAIN t = S /\ n \notin S /\ n # p
  BY <1>1 DEF Nodes
<1>3. NewNode(p) \in RecordNode
  BY DEF NewNode, RecordNode, Values, Blank
<1>4. PICK u : u = Set(t, n, NewNode(p))
  OBVIOUS
<1>5. u = [y \in S \cup {n} |-> IF y = n THEN NewNode(p) ELSE t[y]]
  BY <1>2, <1>4 DEF Set
<1>6. u \in [S \cup {n} -> RecordNode]
  BY <1>1, <1>3, <1>5
<1>7. AddNode(t, n, p) = [u EXCEPT ![p].children = @ \cup {n}]
  BY <1>4 DEF AddNode
<1>8. \A m \in S \cup {n} : u[m] \in RecordNode /\
        [u[m] EXCEPT !.children = u[m].children \cup {n}] \in RecordNode
  BY <1>6 DEF RecordNode
<1>9. AddNode(t, n, p) \in [S \cup {n} -> RecordNode]
  BY <1>6, <1>7, <1>8
<1>10. \A m \in S : [t[m] EXCEPT !.children = t[m].children] = t[m]
  BY <1>1 DEF RecordNode
<1>11. ASSUME NEW m \in S
       PROVE  AddNode(t, n, p)[m] = [t[m] EXCEPT !.children = IF m = p THEN @ \cup {n} ELSE @]
  <2>1. u[m] = t[m] /\ m # n
    BY <1>2, <1>5
  <2>2. CASE m = p
    BY <1>6, <1>7, <2>1, <2>2
  <2>3. CASE m # p
    BY <1>6, <1>7, <1>10, <2>1, <2>3
  <2> QED  BY <2>2, <2>3
<1>12. AddNode(t, n, p)[n] = NewNode(p)
  BY <1>2, <1>5, <1>6, <1>7
<1>13. S \cup {n} \in SUBSET Nodes
  OBVIOUS
<1>14. AddNode(t, n, p) \in Trees /\ DOMAIN AddNode(t, n, p) = S \cup {n}
  BY <1>9, <1>13 DEF Trees
<1> QED  BY <1>2, <1>11, <1>12, <1>14 DEF Joined

\* A tree shaped like the program's has the parents before their children.
LEMMA ShapedRises ==
  ASSUME shape \in Shapes, NEW t \in Trees, Shaped(t)
  PROVE  Rising(t)
<1>1. DOMAIN t \subseteq Nodes
  BY DEF Trees
<1>2. \A m \in DOMAIN t : t[m].parent \in 0 .. m - 1
  BY <1>1, ShapesRise DEF Shaped
<1> QED  BY <1>1, <1>2 DEF Rising

\* A climb comes by known nodes only, and by none it is to stop at.
LEMMA AscentKnown ==
  ASSUME NEW t, Rising(t), NEW stop
  PROVE  \A n \in 0 .. MaxNode : Ascent(t, n, stop) \subseteq DOMAIN t \ stop
<1> DEFINE T == {n \in 0 .. MaxNode : Ascent(t, n, stop) \subseteq DOMAIN t \ stop}
<1>N. MaxNode \in Nat
  BY StoreConstants
<1>1. ASSUME NEW n \in 0 .. MaxNode, 0 .. n - 1 \subseteq T
      PROVE  Ascent(t, n, stop) \subseteq DOMAIN t \ stop
  <2>1. CASE n \in DOMAIN t \ stop
    <3>1. t[n].parent \in T
      BY <1>1, <2>1 DEF Rising
    <3>2. Ascent(t, t[n].parent, stop) \subseteq DOMAIN t \ stop
      BY <3>1
    <3>3. Ascent(t, n, stop) = {n} \cup Ascent(t, t[n].parent, stop)
      BY <2>1, AscentStep
    <3> QED  BY <2>1, <3>2, <3>3
  <2>2. CASE n \notin DOMAIN t \ stop
    BY <2>2, AscentStep
  <2> QED  BY <2>1, <2>2
<1>2. \A n \in 0 .. MaxNode : (0 .. n - 1 \subseteq T) => n \in T
  BY <1>1
<1> HIDE DEF T
<1>3. 0 .. MaxNode \subseteq T
  BY <1>N, <1>2, Course
<1> QED  BY <1>3 DEF T

\* Marking changes no node of the tree.
LEMMA MarkFacts ==
  ASSUME shape \in Shapes, NEW w \in Stores, Shaped(w.tree), NEW n \in Nodes
  PROVE  /\ MarkNodeDirty(w, n) \in Stores
         /\ MarkNodeDirty(w, n).tree = w.tree
         /\ MarkNodeDirty(w, n).dirty = w.dirty \cup NewlyDirty(w, n)
         /\ \A m \in Nodes \ NewlyDirty(w, n) : MarkNodeDirty(w, n).temp[m] = w.temp[m]
         /\ \A m \in NewlyDirty(w, n) : MarkNodeDirty(w, n).temp[m] =
              [val |-> [f \in Fields |-> DefaultValue(w.tree[m], f)], cc |-> 0]
         /\ NewlyDirty(w, n) \subseteq DOMAIN w.tree \ w.dirty
<1>1. w.tree \in Trees /\ w.dirty \in SUBSET Nodes /\ w.temp \in [Nodes -> Payload]
  BY DEF Stores
<1>2. PICK new : new = NewlyDirty(w, n)
  OBVIOUS
<1>3. new \subseteq DOMAIN w.tree \ w.dirty /\ new \subseteq Nodes
  <2>1. Rising(w.tree)
    BY <1>1, ShapedRises
  <2>2. n \in 0 .. MaxNode
    BY DEF Nodes
  <2>3. Ascent(w.tree, n, w.dirty) \subseteq DOMAIN w.tree \ w.dirty
    BY <2>1, <2>2, AscentKnown
  <2> QED  BY <1>1, <1>2, <2>3 DEF NewlyDirty, Trees
<1>4. PICK fresh :
        fresh = [m \in Nodes |->
           IF m \in new
           THEN [val |-> [f \in Fields |-> DefaultValue(w.tree[m], f)], cc |-> 0]
           ELSE w.temp[m]]
  OBVIOUS
<1>5. ASSUME NEW m \in new
      PROVE  [val |-> [f \in Fields |-> DefaultValue(w.tree[m], f)], cc |-> 0] \in Payload
  <2>1. w.tree[m] \in RecordNode
    BY <1>1, <1>3 DEF Trees
  <2>2. w.tree[m].all \in [Fields -> Int]
    BY <2>1 DEF RecordNode, Values
  <2>3. [f \in Fields |-> DefaultValue(w.tree[m], f)] \in Values
    BY <2>2 DEF Values, DefaultValue
  <2> QED  BY <2>3 DEF Payload
<1>6. fresh \in [Nodes -> Payload]
  BY <1>1, <1>4, <1>5
<1>7. MarkNodeDirty(w, n) = [w EXCEPT !.dirty = w.dirty \cup new, !.temp = fresh]
  BY <1>2, <1>4 DEF MarkNodeDirty
<1>8. MarkNodeDirty(w, n) = [tree |-> w.tree, dirty |-> w.dirty \cup new, temp |-> fresh]
  BY <1>7 DEF Stores
<1>9. MarkNodeDirty(w, n) \in Stores
  BY <1>1, <1>3, <1>6, <1>8 DEF Stores
<1>10. \A m \in Nodes \ new : fresh[m] = w.temp[m]
  BY <1>4
<1>11. \A m \in new : fresh[m] = [val |-> [f \in Fields |-> DefaultValue(w.tree[m], f)], cc |-> 0]
  BY <1>3, <1>4
<1> QED  BY <1>2, <1>3, <1>8, <1>9, <1>10, <1>11

Records == [node : Nodes, val : Values, cc : Nat]

\* AddRecord's three steps.
Entered(w, rec) ==
  IF rec.node \in DOMAIN w.tree THEN w
  ELSE [w EXCEPT !.tree = AddNode(@, rec.node, shape[rec.node])]

\* A record's node is added below the program's parent, if it is new.
LEMMA EnteredFacts ==
  ASSUME shape \in Shapes, NEW w \in Stores, Shaped(w.tree), NEW rec \in Records
  PROVE  /\ Entered(w, rec) \in Stores
         /\ Shaped(Entered(w, rec).tree)
         /\ Entered(w, rec).dirty = w.dirty /\ Entered(w, rec).temp = w.temp
         /\ DOMAIN Entered(w, rec).tree = DOMAIN w.tree \cup {rec.node}
         /\ rec.node \notin DOMAIN w.tree =>
              Entered(w, rec).tree = AddNode(w.tree, rec.node, shape[rec.node])
<1>1. CASE rec.node \in DOMAIN w.tree
  <2>1. Entered(w, rec) = w
    BY <1>1 DEF Entered
  <2> QED  BY <1>1, <2>1
<1>2. CASE rec.node \notin DOMAIN w.tree
  <2>1. PICK n, p, u : n = rec.node /\ p = shape[n] /\ u = AddNode(w.tree, n, p)
    OBVIOUS
  <2>2. w.tree \in Trees /\ n \in Nodes \ DOMAIN w.tree /\ p \in 0 .. n - 1
    BY <1>2, <2>1, ShapesRise DEF Stores, Records
  <2>3. /\ u \in Trees /\ DOMAIN u = DOMAIN w.tree \cup {n} /\ u[n] = NewNode(p)
        /\ \A m \in DOMAIN w.tree :
             u[m] = [w.tree[m] EXCEPT !.children = IF m = p THEN @ \cup {n} ELSE @]
    BY <2>1, <2>2, AddNodeFacts, SMTT(30) DEF Joined
  <2>4. Entered(w, rec) = [tree |-> u, dirty |-> w.dirty, temp |-> w.temp]
    BY <1>2, <2>1 DEF Entered, Stores
  <2>5. Shaped(u)
    <3>1. ASSUME NEW m \in DOMAIN w.tree PROVE u[m].parent = shape[m]
      <4>1. w.tree[m] \in RecordNode
        BY <2>2 DEF Trees
      <4>2. u[m].parent = w.tree[m].parent
        BY <2>3, <4>1 DEF RecordNode
      <4> QED  BY <4>2 DEF Shaped
    <3>2. u[n].parent = shape[n]
      BY <2>1, <2>3 DEF NewNode
    <3> QED  BY <2>3, <3>1, <3>2 DEF Shaped
  <2>6. Entered(w, rec) \in Stores
    BY <2>3, <2>4 DEF Stores
  <2> QED  BY <2>1, <2>3, <2>4, <2>5, <2>6
<1> QED  BY <1>1, <1>2

\* A record adds its node, marks the way to the root, and sets the values.
LEMMA AddRecordFacts ==
  ASSUME shape \in Shapes, NEW w \in Stores, Shaped(w.tree), NEW rec \in Records
  PROVE  /\ AddRecord(w, rec) \in Stores
         /\ AddRecord(w, rec).tree = Entered(w, rec).tree
         /\ AddRecord(w, rec).dirty = w.dirty \cup NewlyDirty(Entered(w, rec), rec.node)
         /\ AddRecord(w, rec).temp[rec.node] = [val |-> rec.val, cc |-> rec.cc]
         /\ \A m \in Nodes \ {rec.node} :
              AddRecord(w, rec).temp[m] = MarkNodeDirty(Entered(w, rec), rec.node).temp[m]
<1>1. PICK known : known = Entered(w, rec)
  OBVIOUS
<1>2. known \in Stores /\ Shaped(known.tree) /\ known.dirty = w.dirty /\ rec.node \in Nodes
  BY <1>1, EnteredFacts DEF Records
<1>3. PICK v : v = MarkNodeDirty(known, rec.node)
  OBVIOUS
<1>4. /\ v \in Stores /\ v.tree = known.tree
      /\ v.dirty = known.dirty \cup NewlyDirty(known, rec.node)
  BY <1>2, <1>3, MarkFacts
<1>5. AddRecord(w, rec) = [v EXCEPT !.temp[rec.node] = [val |-> rec.val, cc |-> rec.cc]]
  BY <1>1, <1>3 DEF AddRecord, Entered
<1>6. PICK new : new = [val |-> rec.val, cc |-> rec.cc]
  OBVIOUS
<1>7. new \in Payload
  BY <1>6 DEF Records, Payload
<1>8. PICK fresh : fresh = [v.temp EXCEPT ![rec.node] = new]
  OBVIOUS
<1>9. /\ fresh \in [Nodes -> Payload] /\ fresh[rec.node] = new
      /\ \A m \in Nodes \ {rec.node} : fresh[m] = v.temp[m]
  <2>1. v.temp \in [Nodes -> Payload]
    BY <1>4 DEF Stores
  <2> QED  BY <1>2, <1>7, <1>8, <2>1
<1>10. AddRecord(w, rec) = [tree |-> v.tree, dirty |-> v.dirty, temp |-> fresh]
  BY <1>4, <1>5, <1>6, <1>8 DEF Stores
<1>11. AddRecord(w, rec) \in Stores
  BY <1>4, <1>9, <1>10 DEF Stores
<1> QED  BY <1>1, <1>2, <1>3, <1>4, <1>6, <1>9, <1>10, <1>11

\* A store in the middle of a batch.
Working(w) ==
  /\ w \in Stores /\ Shaped(w.tree)
  /\ Grown(w.tree) /\ Upward(w.tree, w.dirty)
  /\ DOMAIN tree \subseteq DOMAIN w.tree
  /\ DOMAIN w.tree \ DOMAIN tree \subseteq w.dirty

\* A new node extends the tree and keeps what is closed upwards.
LEMMA EnteredGrows ==
  ASSUME shape \in Shapes, NEW w \in Stores, Shaped(w.tree), Grown(w.tree), NEW rec \in Records,
         rec.node # Root, shape[rec.node] \in DOMAIN w.tree
  PROVE  /\ Grown(Entered(w, rec).tree)
         /\ \A D : Upward(w.tree, D) => Upward(Entered(w, rec).tree, D)
<1>1. CASE rec.node \in DOMAIN w.tree
  <2>1. Entered(w, rec) = w
    BY <1>1 DEF Entered
  <2> QED  BY <2>1
<1>2. CASE rec.node \notin DOMAIN w.tree
  <2>1. PICK n, p, u : n = rec.node /\ p = shape[n] /\ u = AddNode(w.tree, n, p)
    OBVIOUS
  <2>2. PICK t : t = w.tree
    OBVIOUS
  <2>3. t \in Trees /\ n \in Nodes \ DOMAIN t /\ p \in 0 .. n - 1
    BY <1>2, <2>1, <2>2, ShapesRise DEF Stores, Records
  <2>10. p \in DOMAIN t /\ n # Root
    BY <2>1, <2>2
  <2>4. /\ u \in Trees /\ DOMAIN u = DOMAIN t \cup {n} /\ u[n] = NewNode(p)
        /\ \A m \in DOMAIN t :
             u[m] = [t[m] EXCEPT !.children = IF m = p THEN @ \cup {n} ELSE @]
    <3>1. u = AddNode(t, n, p)
      BY <2>1, <2>2
    <3>2. Joined(t, n, p, AddNode(t, n, p))
      BY <2>3, AddNodeFacts
    <3> QED  BY <3>1, <3>2 DEF Joined
  <2>5. Entered(w, rec).tree = u /\ Shaped(u)
    <3>1. rec.node \notin DOMAIN w.tree =>
            Entered(w, rec).tree = AddNode(w.tree, rec.node, shape[rec.node])
      BY EnteredFacts
    <3>2. Shaped(Entered(w, rec).tree)
      BY EnteredFacts
    <3> QED  BY <1>2, <2>1, <3>1, <3>2
  <2>6. /\ u[n].parent = p /\ u[n].children = {}
        /\ \A m \in DOMAIN t : /\ u[m].parent = t[m].parent
                               /\ m # p => u[m].children = t[m].children
                               /\ m = p => u[m].children = t[m].children \cup {n}
    <3>1. \A m \in DOMAIN t : t[m] \in RecordNode
      BY <2>3 DEF Trees
    <3> QED  BY <2>4, <3>1 DEF NewNode, RecordNode
  <2>7. Rising(u)
    BY <2>4, <2>5, ShapedRises
  <2>8. Grown(u)
    <3>1. Root \in DOMAIN u
      BY <2>2, <2>4 DEF Grown
    <3>2. ASSUME NEW m \in DOMAIN u \ {Root}
          PROVE  u[m].parent \in DOMAIN u /\ m \in u[u[m].parent].children
      <4>1. CASE m = n
        BY <2>3, <2>4, <2>6, <2>10, <4>1
      <4>2. CASE m \in DOMAIN t
        <5>1. t[m].parent \in DOMAIN t /\ m \in t[t[m].parent].children
          BY <2>2, <3>2, <4>2 DEF Grown
        <5> QED  BY <2>4, <2>6, <4>2, <5>1
      <4> QED  BY <2>4, <4>1, <4>2
    <3>3. ASSUME NEW m \in DOMAIN u, NEW c \in u[m].children
          PROVE  c \in DOMAIN u /\ u[c].parent = m
      <4>1. CASE m = n
        BY <2>6, <3>3, <4>1
      <4>2. CASE m \in DOMAIN t /\ c \in t[m].children
        <5>1. c \in DOMAIN t /\ t[c].parent = m
          BY <2>2, <4>2 DEF Grown
        <5> QED  BY <2>4, <2>6, <5>1
      <4>3. CASE m = p /\ c = n
        BY <2>4, <2>6, <4>3
      <4> QED  BY <2>4, <2>6, <3>3, <4>1, <4>2, <4>3
    <3> QED  BY <2>7, <3>1, <3>2, <3>3 DEF Grown
  <2>9. ASSUME NEW D, Upward(t, D) PROVE Upward(u, D)
    BY <2>4, <2>6, <2>9 DEF Upward
  <2> QED  BY <2>2, <2>5, <2>8, <2>9
<1> QED  BY <1>1, <1>2

\* A record keeps the store in order.
LEMMA AddRecordWorks ==
  ASSUME shape \in Shapes, NEW w, Working(w), NEW rec \in Records,
         rec.node # Root, shape[rec.node] \in DOMAIN w.tree
  PROVE  /\ Working(AddRecord(w, rec))
         /\ DOMAIN AddRecord(w, rec).tree = DOMAIN w.tree \cup {rec.node}
<1>1. PICK known : known = Entered(w, rec)
  OBVIOUS
<1>2. /\ known \in Stores /\ Shaped(known.tree) /\ known.dirty = w.dirty
      /\ DOMAIN known.tree = DOMAIN w.tree \cup {rec.node} /\ rec.node \in Nodes
  BY <1>1, EnteredFacts DEF Working, Records
<1>3. Grown(known.tree) /\ Upward(known.tree, known.dirty)
  BY <1>1, <1>2, EnteredGrows DEF Working
<1>4. PICK v : v = AddRecord(w, rec)
  OBVIOUS
<1>5. v \in Stores /\ v.tree = known.tree /\ v.dirty = w.dirty \cup NewlyDirty(known, rec.node)
  <2>1. w \in Stores /\ Shaped(w.tree)
    BY DEF Working
  <2>2. /\ AddRecord(w, rec) \in Stores
        /\ AddRecord(w, rec).tree = Entered(w, rec).tree
        /\ AddRecord(w, rec).dirty = w.dirty \cup NewlyDirty(Entered(w, rec), rec.node)
    BY <2>1, AddRecordFacts, ZenonT(40)
  <2> QED  BY <1>1, <1>4, <2>2
<1>6. Upward(v.tree, v.dirty) /\ rec.node \in v.dirty
  <2>1. rec.node \in 0 .. MaxNode
    BY <1>2 DEF Nodes
  <2>2. /\ Upward(known.tree, known.dirty \cup Ascent(known.tree, rec.node, known.dirty))
        /\ rec.node \in known.dirty \cup Ascent(known.tree, rec.node, known.dirty)
    BY <1>2, <1>3, <2>1, AscentCloses
  <2> QED  BY <1>2, <1>5, <2>2 DEF NewlyDirty
<1>7. Working(v)
  BY <1>2, <1>3, <1>5, <1>6 DEF Working
<1> QED  BY <1>2, <1>4, <1>5, <1>7

\* So does the running node, which is marked dirty after the batch.
LEMMA MarkWorks ==
  ASSUME shape \in Shapes, NEW w, Working(w), NEW n \in Nodes
  PROVE  Working(MarkNodeDirty(w, n)) /\ MarkNodeDirty(w, n).tree = w.tree
<1>1. PICK v : v = MarkNodeDirty(w, n)
  OBVIOUS
<1>2. v \in Stores /\ v.tree = w.tree /\ v.dirty = w.dirty \cup NewlyDirty(w, n)
  BY <1>1, MarkFacts DEF Working
<1>3. n \in 0 .. MaxNode
  BY DEF Nodes
<1>4. Upward(w.tree, w.dirty \cup Ascent(w.tree, n, w.dirty))
  BY <1>3, AscentCloses DEF Working
<1>5. Working(v)
  BY <1>2, <1>4 DEF Working, NewlyDirty
<1> QED  BY <1>1, <1>2, <1>5

(***************************************************************************)
(* A fold over a batch.                                                    *)
(***************************************************************************)

\* The fold's next index is the largest one left.
LEMMA MaxIsLast ==
  ASSUME NEW k \in Nat, NEW s, s \subseteq 1 .. k, k \in s
  PROVE  Max(s) = k
<1>1. \A y \in s : k >= y
  OBVIOUS
<1>2. ASSUME NEW x \in s, \A y \in s : x >= y PROVE x = k
  <2>1. x >= k /\ x \in 1 .. k
    BY <1>2
  <2> QED  BY <2>1
<1> QED  BY <1>1, <1>2 DEF Max

\* The largest element is one.
LEMMA MaxIsIn ==
  ASSUME NEW n \in Nat, NEW s, s \subseteq 1 .. n, s # {}
  PROVE  Max(s) \in s
<1>1. PICK S : S = {n - x : x \in s}
  OBVIOUS
<1>2. PICK m \in S : \A k \in S : m <= k
  <2>1. \A x \in s : n - x \in Nat
    OBVIOUS
  <2>2. S \subseteq Nat /\ S # {}
    BY <1>1, <2>1
  <2> QED  BY <2>2, Least
<1>3. PICK x \in s : m = n - x
  BY <1>1
<1>4. ASSUME NEW y \in s PROVE x >= y
  <2>1. n - x <= n - y
    BY <1>1, <1>2, <1>3
  <2>2. x \in 1 .. n /\ y \in 1 .. n
    OBVIOUS
  <2> QED  BY <2>1, <2>2
<1> QED  BY <1>4 DEF Max

\* A turn of a fold over the indices of a sequence; H does what the operator
\* does with each element.
Turn(H, w0, it, s) == IF s = {} THEN w0 ELSE H[Max(s)][it[s \ {Max(s)}]]

Folded(W, H, w0, k, it) ==
  /\ it = [s \in SUBSET (1 .. k) |-> Turn(H, w0, it, s)]
  /\ \A s \in SUBSET (1 .. k) : it[s] \in W

\* Any fold has a run: a value for every set of indices left.
LEMMA FoldRuns ==
  ASSUME NEW W, NEW last \in Nat, NEW H \in [1 .. last -> [W -> W]], NEW w0 \in W
  PROVE  \E it : Folded(W, H, w0, last, it)
<1> DEFINE Runs == {k \in 0 .. last : \E it : Folded(W, H, w0, k, it)}
<1>1. 0 \in Runs
  <2>1. PICK none : none = SUBSET (1 .. 0)
    OBVIOUS
  <2>2. none = {{}}
    BY <2>1
  <2>3. PICK it : it = [s \in none |-> w0]
    OBVIOUS
  <2>4. \A s \in none : Turn(H, w0, it, s) = w0
    BY <2>2 DEF Turn
  <2>5. it = [s \in none |-> Turn(H, w0, it, s)] /\ \A s \in none : it[s] \in W
    BY <2>3, <2>4
  <2>6. Folded(W, H, w0, 0, it)
    BY <2>1, <2>5 DEF Folded
  <2> QED  BY <2>6
<1>2. ASSUME NEW k \in 1 .. last, k - 1 \in Runs PROVE k \in Runs
  <2>1. PICK less, all : less = SUBSET (1 .. k - 1) /\ all = SUBSET (1 .. k)
    OBVIOUS
  <2>2. PICK it : it = [s \in less |-> Turn(H, w0, it, s)] /\ \A s \in less : it[s] \in W
    BY <1>2, <2>1 DEF Folded
  <2>3. PICK more : more = [s \in all |-> IF k \in s THEN H[k][it[s \ {k}]] ELSE it[s]]
    OBVIOUS
  <2>4. ASSUME NEW s \in all PROVE more[s] = Turn(H, w0, more, s) /\ more[s] \in W
    <3>1. CASE k \in s
      <4>1. Max(s) = k
        <5>1. k \in Nat /\ s \subseteq 1 .. k
          BY <2>1, <2>4
        <5> QED  BY <3>1, <5>1, MaxIsLast
      <4>2. s \ {k} \in less /\ s \ {k} \in all /\ k \notin s \ {k} /\ s # {}
        BY <2>1, <2>4, <3>1
      <4>3. more[s \ {k}] = it[s \ {k}] /\ it[s \ {k}] \in W
        BY <2>2, <2>3, <4>2
      <4>4. more[s] = H[k][it[s \ {k}]]
        BY <2>3, <2>4, <3>1
      <4>5. H[k][it[s \ {k}]] \in W
        BY <4>3
      <4> QED  BY <4>1, <4>2, <4>3, <4>4, <4>5 DEF Turn
    <3>2. CASE k \notin s
      <4>1. s \in less
        BY <2>1, <2>4, <3>2
      <4>2. more[s] = it[s] /\ it[s] \in W
        BY <2>2, <2>3, <2>4, <3>2, <4>1
      <4>3. it[s] = Turn(H, w0, it, s)
        BY <2>2, <4>1
      <4>4. PICK rest : rest = s \ {Max(s)}
        OBVIOUS
      <4>5. rest \in less /\ rest \in all /\ k \notin rest
        BY <2>1, <2>4, <3>2, <4>1, <4>4
      <4>6. more[rest] = it[rest]
        BY <2>3, <4>5
      <4>7. Turn(H, w0, it, s) = Turn(H, w0, more, s)
        BY <4>4, <4>6 DEF Turn
      <4> QED  BY <4>2, <4>3, <4>7
    <3> QED  BY <3>1, <3>2
  <2>5. more = [s \in all |-> more[s]]
    BY <2>3
  <2>6. more = [s \in all |-> Turn(H, w0, more, s)] /\ \A s \in all : more[s] \in W
    BY <2>4, <2>5
  <2>7. Folded(W, H, w0, k, more)
    BY <2>1, <2>6 DEF Folded
  <2> QED  BY <2>7
<1> HIDE DEF Runs
<1>3. 0 .. last \subseteq Runs
  BY <1>1, <1>2, Induction
<1>4. last \in Runs
  BY <1>3
<1> QED  BY <1>4 DEF Runs

\* The stores after each record of a batch.
Fit == {w \in Stores : Shaped(w.tree)}

\* AddRecord, folded over a batch, is a sequence of stores.
LEMMA BatchFolds ==
  ASSUME shape \in Shapes, NEW w0 \in Fit, NEW batch \in Seq(Records)
  PROVE  \E ws \in [0 .. Len(batch) -> Fit] :
           /\ ws[0] = w0
           /\ \A k \in 1 .. Len(batch) : ws[k] = AddRecord(ws[k - 1], batch[k])
           /\ FoldLeft(AddRecord, w0, batch) = ws[Len(batch)]
<1>L. Len(batch) \in Nat /\ DOMAIN batch = 1 .. Len(batch)
  OBVIOUS
<1>1. PICK H : H = [k \in 1 .. Len(batch) |-> [w \in Fit |-> AddRecord(w, batch[k])]]
  OBVIOUS
<1>2. ASSUME NEW k \in 1 .. Len(batch), NEW w \in Fit PROVE AddRecord(w, batch[k]) \in Fit
  <2>1. batch[k] \in Records /\ w \in Stores /\ Shaped(w.tree)
    BY DEF Fit
  <2>2. AddRecord(w, batch[k]) \in Stores /\ Shaped(AddRecord(w, batch[k]).tree)
    BY <2>1, AddRecordFacts, EnteredFacts
  <2> QED  BY <2>2 DEF Fit
<1>3. H \in [1 .. Len(batch) -> [Fit -> Fit]]
  BY <1>1, <1>2
<1>4. PICK some : Folded(Fit, H, w0, Len(batch), some)
  BY <1>L, <1>3, FoldRuns
<1>5. some = [s \in SUBSET (1 .. Len(batch)) |->
                IF s = {} THEN w0 ELSE AddRecord(some[s \ {Max(s)}], batch[Max(s)])]
  <2>1. ASSUME NEW s \in SUBSET (1 .. Len(batch)), s # {}
        PROVE  H[Max(s)][some[s \ {Max(s)}]] = AddRecord(some[s \ {Max(s)}], batch[Max(s)])
    <3>1. Max(s) \in 1 .. Len(batch)
      BY <1>L, <2>1, MaxIsIn
    <3>2. some[s \ {Max(s)}] \in Fit
      BY <1>4 DEF Folded
    <3> QED  BY <1>1, <3>1, <3>2
  <2>2. some = [s \in SUBSET (1 .. Len(batch)) |->
                  IF s = {} THEN w0 ELSE H[Max(s)][some[s \ {Max(s)}]]]
    BY <1>4 DEF Folded, Turn
  <2> QED  BY <2>1, <2>2
<1> DEFINE it == CHOOSE it : it = [s \in SUBSET (1 .. Len(batch)) |->
                IF s = {} THEN w0 ELSE AddRecord(it[s \ {Max(s)}], batch[Max(s)])]
<1>6. it = [s \in SUBSET (1 .. Len(batch)) |->
                IF s = {} THEN w0 ELSE AddRecord(it[s \ {Max(s)}], batch[Max(s)])]
  BY <1>5
<1>7. FoldLeft(AddRecord, w0, batch) = it[1 .. Len(batch)]
  BY <1>L DEF FoldLeft, MapThenFoldSet
<1> HIDE DEF it
<1>8. it[{}] = w0
  BY <1>6
<1>9. ASSUME NEW k \in 1 .. Len(batch)
      PROVE  it[1 .. k] = AddRecord(it[1 .. k - 1], batch[k])
  <2>1. PICK s : s = 1 .. k
    OBVIOUS
  <2>2. s \in SUBSET (1 .. Len(batch)) /\ s # {} /\ s \ {k} = 1 .. k - 1 /\ k \in Nat /\ k \in s
    <3>1. k \in Nat /\ k >= 1 /\ k <= Len(batch)
      BY <1>L
    <3>2. s \subseteq 1 .. Len(batch) /\ k \in s
      BY <1>L, <2>1, <3>1
    <3>3. \A x : x \in s \ {k} <=> x \in 1 .. k - 1
      BY <2>1, <3>1
    <3> QED  BY <3>1, <3>2, <3>3
  <2>3. Max(s) = k
    BY <2>1, <2>2, MaxIsLast
  <2> QED  BY <1>6, <2>1, <2>2, <2>3
<1>10. PICK ws : ws = [k \in 0 .. Len(batch) |-> it[1 .. k]]
  OBVIOUS
<1>11. ws[0] = w0
  <2>1. 1 .. 0 = {} /\ 0 \in 0 .. Len(batch)
    OBVIOUS
  <2> QED  BY <1>8, <1>10, <2>1
<1>12. \A k \in 1 .. Len(batch) : ws[k] = AddRecord(ws[k - 1], batch[k])
  BY <1>9, <1>10
<1>13. ws \in [0 .. Len(batch) -> Fit]
  <2>1. PICK T : T = {k \in 0 .. Len(batch) : ws[k] \in Fit}
    OBVIOUS
  <2>2. 0 \in T /\ \A k \in 1 .. Len(batch) : k - 1 \in T => k \in T
    BY <1>2, <1>11, <1>12, <2>1
  <2>3. 0 .. Len(batch) \subseteq T
    BY <1>L, <2>2, Induction
  <2> QED  BY <1>10, <2>1, <2>3
<1>14. FoldLeft(AddRecord, w0, batch) = ws[Len(batch)]
  BY <1>L, <1>7, <1>10
<1> QED  BY <1>11, <1>12, <1>13, <1>14

\* After a batch that names every parent before its children.
LEMMA BatchWorks ==
  ASSUME shape \in Shapes, NEW w0, Working(w0), NEW batch \in Seq(Records),
         \A k \in 1 .. Len(batch) :
           /\ batch[k].node # Root
           /\ shape[batch[k].node] \in DOMAIN tree \cup {batch[j].node : j \in 1 .. k - 1}
  PROVE  Working(FoldLeft(AddRecord, w0, batch))
<1>L. Len(batch) \in Nat
  OBVIOUS
<1>1. PICK ws \in [0 .. Len(batch) -> Fit] :
           /\ ws[0] = w0
           /\ \A k \in 1 .. Len(batch) : ws[k] = AddRecord(ws[k - 1], batch[k])
           /\ FoldLeft(AddRecord, w0, batch) = ws[Len(batch)]
  <2>1. w0 \in Fit
    BY DEF Working, Fit
  <2> QED  BY <2>1, BatchFolds
<1> DEFINE Good(k) == /\ Working(ws[k])
                      /\ \A j \in 1 .. k : batch[j].node \in DOMAIN ws[k].tree
           T == {k \in 0 .. Len(batch) : Good(k)}
<1>2. 0 \in T
  BY <1>L, <1>1
<1>3. ASSUME NEW k \in 1 .. Len(batch), k - 1 \in T PROVE k \in T
  <2>1. PICK w, rec : w = ws[k - 1] /\ rec = batch[k]
    OBVIOUS
  <2>2. Working(w) /\ rec \in Records /\ rec.node # Root
    BY <1>3, <2>1
  <2>3. DOMAIN tree \subseteq DOMAIN w.tree /\ \A j \in 1 .. k - 1 : batch[j].node \in DOMAIN w.tree
    BY <1>3, <2>1, <2>2 DEF Working
  <2>4. shape[rec.node] \in DOMAIN w.tree
    BY <2>1, <2>3
  <2>5. Working(AddRecord(w, rec)) /\ DOMAIN AddRecord(w, rec).tree = DOMAIN w.tree \cup {rec.node}
    BY <2>2, <2>4, AddRecordWorks
  <2>6. ws[k] = AddRecord(w, rec)
    BY <1>1, <2>1
  <2>7. \A j \in 1 .. k : j = k \/ j \in 1 .. k - 1
    BY <1>L
  <2>8. \A j \in 1 .. k : batch[j].node \in DOMAIN ws[k].tree
    BY <2>1, <2>3, <2>5, <2>6, <2>7
  <2> QED  BY <1>3, <2>5, <2>6, <2>8
<1> HIDE DEF T
<1>4. 0 .. Len(batch) \subseteq T
  BY <1>L, <1>2, <1>3, Induction
<1>5. Len(batch) \in T
  BY <1>L, <1>4
<1> QED  BY <1>1, <1>5 DEF T

(***************************************************************************)
(* Sums.                                                                   *)
(***************************************************************************)

\* A turn of a sum over a set.
Element(s) == CHOOSE x \in s : TRUE
Adding(fun, it, s) == IF s = {} THEN 0 ELSE fun[Element(s)] + it[s \ {Element(s)}]

AtMost(K, k) == {s \in SUBSET K : Cardinality(s) <= k}

Summing(fun, ss, it) == it = [s \in ss |-> Adding(fun, it, s)]
Summed(fun, ss, it) == Summing(fun, ss, it) /\ \A s \in ss : it[s] \in Int

\* Any sum has a run: a value for every set of terms left.
LEMMA SumRuns ==
  ASSUME NEW K, IsFiniteSet(K), NEW fun, \A x \in K : fun[x] \in Int
  PROVE  \E it : Summed(fun, SUBSET K, it)
<1> DEFINE T == {k \in 0 .. Cardinality(K) : \E it : Summed(fun, AtMost(K, k), it)}
<1>F. \A s \in SUBSET K : IsFiniteSet(s) /\ Cardinality(s) \in Nat /\ Cardinality(s) <= Cardinality(K)
  BY FS_Subset, FS_CardinalityType
<1>N. Cardinality(K) \in Nat
  BY <1>F
<1>1. 0 \in T
  <2>1. AtMost(K, 0) = {{}}
    <3>1. \A s \in SUBSET K : Cardinality(s) <= 0 <=> s = {}
      BY <1>F, FS_EmptySet
    <3> QED  BY <3>1 DEF AtMost
  <2>2. PICK it : it = [s \in {{}} |-> 0]
    OBVIOUS
  <2>3. \A s \in {{}} : Adding(fun, it, s) = 0
    BY DEF Adding
  <2>4. Summed(fun, AtMost(K, 0), it)
    BY <2>1, <2>2, <2>3 DEF Summed, Summing
  <2> QED  BY <1>N, <2>4
<1>2. ASSUME NEW k \in 1 .. Cardinality(K), k - 1 \in T PROVE k \in T
  <2>1. PICK less, all : less = AtMost(K, k - 1) /\ all = AtMost(K, k)
    OBVIOUS
  <2>2. PICK it : Summed(fun, less, it)
    BY <1>2, <2>1
  <2>3. PICK more : more = [s \in all |-> IF s \in less THEN it[s] ELSE Adding(fun, it, s)]
    OBVIOUS
  <2>4. ASSUME NEW s \in all, s # {}
        PROVE  s \ {Element(s)} \in less /\ s \ {Element(s)} \in all /\ Element(s) \in K
    <3>1. PICK x, r : x = Element(s) /\ r = s \ {x}
      OBVIOUS
    <3>2. x \in s /\ s \in SUBSET K /\ Cardinality(s) <= k
      BY <2>1, <2>4, <3>1 DEF Element, AtMost
    <3>3. Cardinality(r) = Cardinality(s) - 1
      BY <1>F, <3>1, <3>2, FS_RemoveElement
    <3>4. Cardinality(r) <= k - 1 /\ Cardinality(r) <= k
      BY <1>F, <3>2, <3>3
    <3> QED  BY <2>1, <3>1, <3>2, <3>4 DEF AtMost
  <2>5. less \subseteq all
    BY <1>F, <1>N, <2>1 DEF AtMost
  <2>6. ASSUME NEW s \in all PROVE more[s] = Adding(fun, more, s) /\ more[s] \in Int
    <3>1. Adding(fun, more, s) = Adding(fun, it, s)
      <4>1. CASE s = {}
        BY <4>1 DEF Adding
      <4>2. CASE s # {}
        <5>1. more[s \ {Element(s)}] = it[s \ {Element(s)}]
          BY <2>3, <2>4, <4>2
        <5> QED  BY <4>2, <5>1 DEF Adding
      <4> QED  BY <4>1, <4>2
    <3>2. Adding(fun, it, s) \in Int
      <4>1. CASE s = {}
        BY <4>1 DEF Adding
      <4>2. CASE s # {}
        <5>1. it[s \ {Element(s)}] \in Int /\ fun[Element(s)] \in Int
          BY <2>2, <2>4, <4>2 DEF Summed, Summing
        <5> QED  BY <4>2, <5>1 DEF Adding
      <4> QED  BY <4>1, <4>2
    <3>3. CASE s \in less
      <4>1. more[s] = it[s] /\ it[s] = Adding(fun, it, s)
        BY <2>2, <2>3, <3>3 DEF Summed, Summing
      <4> QED  BY <3>1, <3>2, <4>1
    <3>4. CASE s \notin less
      BY <2>3, <3>1, <3>2, <3>4
    <3> QED  BY <3>3, <3>4
  <2>7. more = [s \in all |-> more[s]]
    BY <2>3
  <2>8. Summed(fun, all, more)
    BY <2>6, <2>7 DEF Summed, Summing
  <2> QED  BY <2>1, <2>8
<1>3. AtMost(K, Cardinality(K)) = SUBSET K
  BY <1>F DEF AtMost
<1> HIDE DEF T
<1>4. 0 .. Cardinality(K) \subseteq T
  BY <1>N, <1>1, <1>2, Induction
<1>5. Cardinality(K) \in T
  BY <1>N, <1>4
<1>6. \E it : Summed(fun, AtMost(K, Cardinality(K)), it)
  BY <1>5 DEF T
<1> QED  BY <1>3, <1>6

Same(a, b, ss) == \A s \in ss : a[s] = b[s]

\* Two runs of a sum agree wherever both are defined.
LEMMA SumsAgree ==
  ASSUME NEW K, IsFiniteSet(K), NEW fun, NEW J, J \subseteq K,
         NEW a, Summing(fun, SUBSET K, a),
         NEW b, Summing(fun, SUBSET J, b)
  PROVE  Same(a, b, SUBSET J)
<1> DEFINE T == {k \in 0 .. Cardinality(J) : Same(a, b, AtMost(J, k))}
<1>F. \A s \in SUBSET J : IsFiniteSet(s) /\ Cardinality(s) \in Nat /\ Cardinality(s) <= Cardinality(J)
  BY FS_Subset, FS_CardinalityType
<1>N. Cardinality(J) \in Nat
  BY <1>F
<1>1. 0 \in T
  <2>1. ASSUME NEW s \in AtMost(J, 0) PROVE a[s] = b[s]
    <3>1. s \in SUBSET J /\ s \in SUBSET K /\ s = {}
      BY <1>F, FS_EmptySet DEF AtMost
    <3>2. Adding(fun, a, s) = 0 /\ Adding(fun, b, s) = 0
      BY <3>1 DEF Adding
    <3>3. a[s] = Adding(fun, a, s) /\ b[s] = Adding(fun, b, s)
      BY <3>1 DEF Summing
    <3> QED  BY <3>2, <3>3
  <2>2. Same(a, b, AtMost(J, 0))
    BY <2>1 DEF Same
  <2> QED  BY <1>N, <2>2
<1>2. ASSUME NEW k \in 1 .. Cardinality(J), k - 1 \in T PROVE k \in T
  <2>1. ASSUME NEW s \in AtMost(J, k) PROVE a[s] = b[s]
    <3>1. s \in SUBSET J /\ s \in SUBSET K
      BY DEF AtMost
    <3>2. a[s] = Adding(fun, a, s) /\ b[s] = Adding(fun, b, s)
      BY <3>1 DEF Summing
    <3>3. CASE s = {}
      BY <3>2, <3>3 DEF Adding
    <3>4. CASE s # {}
      <4>1. PICK x, r : x = Element(s) /\ r = s \ {x}
        OBVIOUS
      <4>2. x \in s /\ Cardinality(s) <= k
        BY <3>4, <4>1 DEF Element, AtMost
      <4>3. Cardinality(r) = Cardinality(s) - 1
        BY <1>F, <3>1, <4>1, <4>2, FS_RemoveElement
      <4>4. Cardinality(r) <= k - 1
        BY <1>F, <3>1, <4>2, <4>3
      <4>5. r \in AtMost(J, k - 1)
        BY <3>1, <4>1, <4>4 DEF AtMost
      <4>6. a[r] = b[r]
        BY <1>2, <4>5 DEF Same
      <4> QED  BY <3>2, <3>4, <4>1, <4>6 DEF Adding
    <3> QED  BY <3>3, <3>4
  <2>2. Same(a, b, AtMost(J, k))
    BY <2>1 DEF Same
  <2> QED  BY <2>2
<1> HIDE DEF T
<1>3. 0 .. Cardinality(J) \subseteq T
  BY <1>N, <1>1, <1>2, Induction
<1>4. Cardinality(J) \in T
  BY <1>N, <1>3
<1>5. ASSUME NEW s \in SUBSET J PROVE a[s] = b[s]
  <2>1. s \in AtMost(J, Cardinality(J))
    BY <1>F DEF AtMost
  <2> QED  BY <1>4, <2>1 DEF T, Same
<1> QED  BY <1>5 DEF Same

\* The sum of the model is such a run.
LEMMA SumRun ==
  ASSUME NEW K, IsFiniteSet(K), NEW fun, \A x \in K : fun[x] \in Int
  PROVE  \E it : Summed(fun, SUBSET K, it) /\ SumFunctionOnSet(fun, K) = it[K]
<1> DEFINE it == CHOOSE it : it = [s \in SUBSET K |->
                   IF s = {} THEN 0
                   ELSE fun[CHOOSE x \in s : TRUE] + it[s \ {CHOOSE x \in s : TRUE}]]
<1>1. SumFunctionOnSet(fun, K) = it[K]
  BY DEF SumFunctionOnSet, FoldFunctionOnSet, MapThenFoldSet
<1>2. PICK some : Summed(fun, SUBSET K, some)
  BY SumRuns
<1>3. it = [s \in SUBSET K |->
              IF s = {} THEN 0
              ELSE fun[CHOOSE x \in s : TRUE] + it[s \ {CHOOSE x \in s : TRUE}]]
  <2>1. some = [s \in SUBSET K |->
              IF s = {} THEN 0
              ELSE fun[CHOOSE x \in s : TRUE] + some[s \ {CHOOSE x \in s : TRUE}]]
    BY <1>2 DEF Summed, Summing, Adding, Element
  <2> QED  BY <2>1
<1> HIDE DEF it
<1>4. Summing(fun, SUBSET K, it)
  BY <1>3 DEF Adding, Element, Summing
<1>5. Same(it, some, SUBSET K)
  BY <1>2, <1>4, SumsAgree DEF Summed
<1>6. Summed(fun, SUBSET K, it)
  BY <1>2, <1>4, <1>5 DEF Summed, Same
<1> QED  BY <1>1, <1>6

\* A sum of whole numbers is one; a sum of none is 0.
LEMMA SumFacts ==
  ASSUME NEW K, IsFiniteSet(K), NEW fun, \A x \in K : fun[x] \in Int
  PROVE  /\ SumFunctionOnSet(fun, K) \in Int
         /\ K = {} => SumFunctionOnSet(fun, K) = 0
         /\ K # {} => /\ Element(K) \in K
                      /\ SumFunctionOnSet(fun, K) =
                           fun[Element(K)] + SumFunctionOnSet(fun, K \ {Element(K)})
<1>1. PICK it : Summed(fun, SUBSET K, it) /\ SumFunctionOnSet(fun, K) = it[K]
  BY SumRun
<1>2. it[K] = Adding(fun, it, K) /\ it[K] \in Int
  BY <1>1 DEF Summed, Summing
<1>3. K = {} => it[K] = 0
  BY <1>2 DEF Adding
<1>4. ASSUME K # {}
      PROVE  /\ Element(K) \in K
             /\ it[K] = fun[Element(K)] + SumFunctionOnSet(fun, K \ {Element(K)})
  <2>1. PICK x, J : x = Element(K) /\ J = K \ {x}
    OBVIOUS
  <2>2. x \in K
    BY <1>4, <2>1 DEF Element
  <2>3. J \subseteq K /\ IsFiniteSet(J) /\ \A y \in J : fun[y] \in Int
    BY <2>1, FS_Subset
  <2>4. PICK less : Summed(fun, SUBSET J, less) /\ SumFunctionOnSet(fun, J) = less[J]
    BY <2>3, SumRun
  <2>5. Same(it, less, SUBSET J)
    BY <1>1, <2>3, <2>4, SumsAgree DEF Summed
  <2>6. it[J] = SumFunctionOnSet(fun, J)
    BY <2>4, <2>5 DEF Same
  <2> QED  BY <1>2, <1>4, <2>1, <2>2, <2>6 DEF Adding
<1> QED  BY <1>1, <1>2, <1>3, <1>4

(***************************************************************************)
(* Adding up.                                                              *)
(***************************************************************************)

Summable(fun, K) == IsFiniteSet(K) /\ \A x \in K : fun[x] \in Int

\* One term less.
LEMMA SumLess ==
  ASSUME NEW fun, NEW K, Summable(fun, K), NEW x \in K
  PROVE  /\ Summable(fun, K \ {x})
         /\ Cardinality(K \ {x}) = Cardinality(K) - 1
         /\ Cardinality(K) \in Nat /\ Cardinality(K) # 0
BY FS_RemoveElement, FS_CardinalityType, FS_EmptySet DEF Summable

\* A sum is any of its terms and the sum of the others.
LEMMA SumRemove ==
  ASSUME NEW fun, NEW J, Summable(fun, J), NEW y \in J
  PROVE  SumFunctionOnSet(fun, J) = fun[y] + SumFunctionOnSet(fun, J \ {y})
<1> DEFINE Fine(K) == \A x \in K : SumFunctionOnSet(fun, K) = fun[x] + SumFunctionOnSet(fun, K \ {x})
           T == {k \in 0 .. Cardinality(J) :
                   \A K \in SUBSET J : Cardinality(K) = k => Fine(K)}
<1>S. \A K \in SUBSET J : Summable(fun, K) /\ Cardinality(K) \in Nat
  BY FS_Subset, FS_CardinalityType DEF Summable
<1>1. ASSUME NEW k \in 0 .. Cardinality(J), 0 .. k - 1 \subseteq T PROVE k \in T
  <2>1. ASSUME NEW K \in SUBSET J, Cardinality(K) = k, NEW x \in K
        PROVE  SumFunctionOnSet(fun, K) = fun[x] + SumFunctionOnSet(fun, K \ {x})
    <3>1. PICK e, L : e = Element(K) /\ L = K \ {e}
      OBVIOUS
    <3>2. e \in K /\ SumFunctionOnSet(fun, K) = fun[e] + SumFunctionOnSet(fun, L)
      BY <1>S, <2>1, <3>1, SumFacts DEF Summable
    <3>3. CASE x = e
      BY <3>1, <3>2, <3>3
    <3>4. CASE x # e
      <4>1. x \in L /\ L \in SUBSET J /\ Cardinality(L) = k - 1 /\ k # 0 /\ k \in Nat
        BY <1>S, <2>1, <3>1, <3>2, <3>4, SumLess
      <4>2. k - 1 \in T
        BY <1>1, <4>1
      <4>3. SumFunctionOnSet(fun, L) = fun[x] + SumFunctionOnSet(fun, L \ {x})
        BY <4>1, <4>2
      <4>4. PICK M : M = K \ {x}
        OBVIOUS
      <4>5. e \in M /\ M \in SUBSET J /\ Cardinality(M) = k - 1
        BY <1>S, <2>1, <3>2, <3>4, <4>4, SumLess
      <4>6. SumFunctionOnSet(fun, M) = fun[e] + SumFunctionOnSet(fun, M \ {e})
        BY <4>2, <4>5
      <4>7. PICK N : N = L \ {x}
        OBVIOUS
      <4>8. N = M \ {e} /\ N \in SUBSET J
        BY <2>1, <3>1, <4>4, <4>7
      <4>9. SumFunctionOnSet(fun, N) \in Int /\ fun[x] \in Int /\ fun[e] \in Int
        BY <1>S, <2>1, <3>2, <4>8, SumFacts DEF Summable
      <4>10. PICK k1, l1, m1, n1 :
               /\ k1 = SumFunctionOnSet(fun, K) /\ l1 = SumFunctionOnSet(fun, L)
               /\ m1 = SumFunctionOnSet(fun, M) /\ n1 = SumFunctionOnSet(fun, N)
        OBVIOUS
      <4>11. l1 = fun[x] + n1 /\ m1 = fun[e] + n1 /\ k1 = fun[e] + l1
        BY <3>2, <4>3, <4>6, <4>7, <4>8, <4>10, Zenon
      <4>12. n1 \in Int
        BY <4>9, <4>10
      <4>13. k1 = fun[x] + m1
        BY <4>9, <4>11, <4>12
      <4> QED  BY <4>4, <4>10, <4>13, Zenon
    <3> QED  BY <3>3, <3>4
  <2> QED  BY <2>1
<1> HIDE DEF T
<1>2. 0 .. Cardinality(J) \subseteq T
  BY <1>1, <1>S, Course
<1>3. Cardinality(J) \in T
  BY <1>2, <1>S
<1> QED  BY <1>3 DEF T

\* Terms that are sums themselves, the second part of which some lack.
LEMMA SumSplit ==
  ASSUME NEW J, IsFiniteSet(J),
         NEW h, NEW a, NEW r, \A x \in J : a[x] \in Int,
         NEW E, E \subseteq J, \A x \in E : r[x] \in Int,
         \A x \in J : h[x] = a[x] + IF x \in E THEN r[x] ELSE 0
  PROVE  SumFunctionOnSet(h, J) = SumFunctionOnSet(a, J) + SumFunctionOnSet(r, E)
<1> DEFINE Fine(K) == SumFunctionOnSet(h, K) = SumFunctionOnSet(a, K) + SumFunctionOnSet(r, E \cap K)
           T == {k \in 0 .. Cardinality(J) :
                   \A K \in SUBSET J : Cardinality(K) = k => Fine(K)}
<1>S. \A K \in SUBSET J : /\ Summable(h, K) /\ Summable(a, K) /\ Summable(r, E \cap K)
                          /\ Cardinality(K) \in Nat
  <2>1. ASSUME NEW K \in SUBSET J
        PROVE  IsFiniteSet(K) /\ IsFiniteSet(E \cap K) /\ Cardinality(K) \in Nat
    <3>1. E \cap K \in SUBSET J
      OBVIOUS
    <3> QED  BY <3>1, FS_Subset, FS_CardinalityType
  <2>2. \A x \in J : h[x] \in Int
    OBVIOUS
  <2> QED  BY <2>1, <2>2 DEF Summable
<1>1. ASSUME NEW k \in 0 .. Cardinality(J), 0 .. k - 1 \subseteq T PROVE k \in T
  <2>1. ASSUME NEW K \in SUBSET J, Cardinality(K) = k PROVE Fine(K)
    <3>1. CASE K = {}
      <4>1. E \cap K = {}
        BY <3>1
      <4>2. SumFunctionOnSet(h, K) = 0 /\ SumFunctionOnSet(a, K) = 0
            /\ SumFunctionOnSet(r, E \cap K) = 0
        BY <1>S, <3>1, <4>1, SumFacts DEF Summable
      <4> QED  BY <4>2
    <3>2. CASE K # {}
      <4>1. PICK x \in K : TRUE
        BY <3>2
      <4>2. PICK L : L = K \ {x}
        OBVIOUS
      <4>3. L \in SUBSET J /\ Cardinality(L) = k - 1 /\ k # 0 /\ k \in Nat
        BY <1>S, <2>1, <4>1, <4>2, SumLess
      <4>4. SumFunctionOnSet(h, L) = SumFunctionOnSet(a, L) + SumFunctionOnSet(r, E \cap L)
        <5>1. k - 1 \in T
          BY <1>1, <4>3
        <5> QED  BY <4>3, <5>1
      <4>5. /\ SumFunctionOnSet(h, K) = h[x] + SumFunctionOnSet(h, L)
            /\ SumFunctionOnSet(a, K) = a[x] + SumFunctionOnSet(a, L)
        <5>1. Summable(h, K) /\ Summable(a, K)
          BY <1>S, <2>1
        <5>2. SumFunctionOnSet(h, K) = h[x] + SumFunctionOnSet(h, K \ {x})
          BY <5>1, <4>1, SumRemove
        <5>3. SumFunctionOnSet(a, K) = a[x] + SumFunctionOnSet(a, K \ {x})
          BY <5>1, <4>1, SumRemove
        <5> QED  BY <4>2, <5>2, <5>3
      <4>6. /\ SumFunctionOnSet(a, L) \in Int /\ SumFunctionOnSet(r, E \cap L) \in Int
            /\ a[x] \in Int
        BY <1>S, <2>1, <4>1, <4>3, SumFacts DEF Summable
      <4>7. CASE x \in E
        <5>1. PICK M : M = E \cap K
          OBVIOUS
        <5>2. x \in M /\ M \ {x} = E \cap L /\ Summable(r, M)
          BY <1>S, <2>1, <4>1, <4>2, <4>7, <5>1
        <5>3. SumFunctionOnSet(r, M) = r[x] + SumFunctionOnSet(r, E \cap L)
          BY <5>2, SumRemove
        <5>4. h[x] = a[x] + r[x] /\ r[x] \in Int
          BY <2>1, <4>1, <4>7
        <5> QED  BY <4>4, <4>5, <4>6, <5>1, <5>3, <5>4
      <4>8. CASE x \notin E
        <5>1. E \cap L = E \cap K
          BY <4>2, <4>8
        <5>2. h[x] = a[x]
          BY <2>1, <4>1, <4>6, <4>8
        <5> QED  BY <4>4, <4>5, <4>6, <5>1, <5>2
      <4> QED  BY <4>7, <4>8
    <3> QED  BY <3>1, <3>2
  <2> QED  BY <2>1
<1> HIDE DEF T
<1>2. 0 .. Cardinality(J) \subseteq T
  BY <1>1, <1>S, Course
<1>3. Cardinality(J) \in T
  BY <1>2, <1>S
<1>4. E \cap J = E
  OBVIOUS
<1> QED  BY <1>3, <1>4 DEF T

\* A sum of zeros is 0.
LEMMA SumZero ==
  ASSUME NEW K, IsFiniteSet(K), NEW fun, \A x \in K : fun[x] = 0
  PROVE  SumFunctionOnSet(fun, K) = 0
<1>1. \A x \in K : fun[x] \in Int /\ fun[x] = fun[x] + IF x \in K THEN fun[x] ELSE 0
  OBVIOUS
<1>2. SumFunctionOnSet(fun, K) = SumFunctionOnSet(fun, K) + SumFunctionOnSet(fun, K)
  BY <1>1, SumSplit
<1>3. PICK s : s = SumFunctionOnSet(fun, K)
  OBVIOUS
<1>4. s \in Int
  BY <1>1, <1>3, SumFacts
<1>5. s = s + s
  BY <1>2, <1>3, Zenon
<1>6. s = 0
  BY <1>4, <1>5
<1> QED  BY <1>3, <1>6, Zenon

\* Where a function is 0 does not matter for its sum.
LEMMA SumSame ==
  ASSUME NEW K, IsFiniteSet(K), NEW fun, NEW E, E \subseteq K, NEW r,
         \A x \in E : r[x] \in Int /\ fun[x] = r[x], \A x \in K \ E : fun[x] = 0
  PROVE  SumFunctionOnSet(fun, K) = SumFunctionOnSet(r, E)
<1>1. PICK zero : zero = [x \in K |-> 0]
  OBVIOUS
<1>2. SumFunctionOnSet(zero, K) = 0
  BY <1>1, SumZero
<1>3. \A x \in K : zero[x] \in Int /\ fun[x] = zero[x] + IF x \in E THEN r[x] ELSE 0
  BY <1>1
<1>4. SumFunctionOnSet(fun, K) = SumFunctionOnSet(zero, K) + SumFunctionOnSet(r, E)
  BY <1>3, SumSplit
<1>5. SumFunctionOnSet(r, E) \in Int
  BY FS_Subset, SumFacts
<1> QED  BY <1>2, <1>4, <1>5

(***************************************************************************)
(* The descent from the root.                                              *)
(***************************************************************************)

\* What ClearDirtyNode leaves in a node, from what it left in the children.
Passed(w, roll, n, f) ==
  IF PassedOn(f)
  THEN SumFunctionOnSet([c \in DirtyChildren(w, n) |-> roll[c][f]], DirtyChildren(w, n))
  ELSE 0

Rolled(w, roll, n) == [f \in Fields |-> w.temp[n].val[f] + Passed(w, roll, n, f)]

Rolling(w, ss, roll) == roll = [n \in ss |-> Rolled(w, roll, n)]
WellRolled(w, ss, roll) == Rolling(w, ss, roll) /\ \A n \in ss : roll[n] \in Values

LastNodes(w, k) == {n \in DOMAIN w.tree : n > MaxNode - k}

\* The children have larger numbers.
LEMMA ChildrenLater ==
  ASSUME NEW w, Working(w), NEW n \in DOMAIN w.tree
  PROVE  \A c \in DirtyChildren(w, n) : c \in DOMAIN w.tree /\ c \in Nodes /\ n \in Nodes /\ n < c
<1>1. ASSUME NEW c \in DirtyChildren(w, n)
      PROVE  c \in DOMAIN w.tree /\ c \in Nodes /\ n \in Nodes /\ n < c
  <2>1. c \in DOMAIN w.tree /\ w.tree[c].parent = n
    BY <1>1 DEF DirtyChildren, Working, Grown
  <2>2. c \in Nodes /\ n \in Nodes /\ n \in 0 .. c - 1
    BY <2>1 DEF Working, Grown, Rising
  <2> QED  BY <2>1, <2>2 DEF Nodes
<1> QED  BY <1>1

\* A node's values depend on those of its children only.
LEMMA RolledFacts ==
  ASSUME NEW w, Working(w), NEW n \in DOMAIN w.tree, NEW roll,
         \A c \in DirtyChildren(w, n) : roll[c] \in Values
  PROVE  /\ Rolled(w, roll, n) \in Values
         /\ \A f \in Fields : Passed(w, roll, n, f) \in Int
         /\ \A other : (\A c \in DirtyChildren(w, n) : other[c] = roll[c]) =>
              Rolled(w, other, n) = Rolled(w, roll, n)
<1>1. PICK D : D = DirtyChildren(w, n)
  OBVIOUS
<1>2. IsFiniteSet(D)
  <2>1. MaxNode \in Nat /\ D \subseteq Nodes
    BY <1>1, StoreConstants DEF DirtyChildren, Working, Stores
  <2>2. IsFiniteSet(Nodes)
    BY <2>1, FS_Interval DEF Nodes
  <2> QED  BY <2>1, <2>2, FS_Subset
<1>3. ASSUME NEW f \in Fields PROVE Passed(w, roll, n, f) \in Int
  <2>1. PICK fun : fun = [c \in D |-> roll[c][f]]
    OBVIOUS
  <2>2. \A c \in D : fun[c] \in Int
    BY <1>1, <2>1 DEF Values
  <2>3. SumFunctionOnSet(fun, D) \in Int
    BY <1>2, <2>2, SumFacts
  <2> QED  BY <1>1, <2>1, <2>3 DEF Passed
<1>4. w.temp[n].val \in Values
  <2>1. n \in Nodes
    BY DEF Working, Grown, Rising
  <2> QED  BY <2>1 DEF Working, Stores, Payload
<1>5. Rolled(w, roll, n) \in Values
  BY <1>3, <1>4 DEF Rolled, Values
<1>6. ASSUME NEW other, \A c \in DirtyChildren(w, n) : other[c] = roll[c]
      PROVE  Rolled(w, other, n) = Rolled(w, roll, n)
  <2>1. ASSUME NEW f PROVE Passed(w, other, n, f) = Passed(w, roll, n, f)
    <3>1. [c \in DirtyChildren(w, n) |-> other[c][f]] = [c \in DirtyChildren(w, n) |-> roll[c][f]]
      BY <1>6
    <3> QED  BY <3>1 DEF Passed
  <2> QED  BY <2>1 DEF Rolled
<1> QED  BY <1>3, <1>5, <1>6

\* ClearDirtyNode's recursion ends in every node, from the largest down.
LEMMA RollRuns ==
  ASSUME NEW w, Working(w)
  PROVE  \E roll : WellRolled(w, DOMAIN w.tree, roll)
<1> DEFINE T == {k \in 0 .. MaxNode : \E roll : WellRolled(w, LastNodes(w, k), roll)}
<1>N. MaxNode \in Nat /\ DOMAIN w.tree \subseteq 1 .. MaxNode
  BY StoreConstants DEF Working, Grown, Rising, Nodes
<1>1. 0 \in T
  <2>1. LastNodes(w, 0) = {}
    BY <1>N DEF LastNodes
  <2>2. PICK roll : roll = [n \in {} |-> Rolled(w, w, n)]
    OBVIOUS
  <2>3. WellRolled(w, LastNodes(w, 0), roll)
    BY <2>1, <2>2 DEF WellRolled, Rolling
  <2> QED  BY <1>N, <2>3
<1>2. ASSUME NEW k \in 1 .. MaxNode, k - 1 \in T PROVE k \in T
  <2>1. PICK less, all : less = LastNodes(w, k - 1) /\ all = LastNodes(w, k)
    OBVIOUS
  <2>2. PICK roll : WellRolled(w, less, roll)
    BY <1>2, <2>1
  <2>3. PICK more : more = [n \in all |-> IF n \in less THEN roll[n] ELSE Rolled(w, roll, n)]
    OBVIOUS
  <2>4. less \subseteq all /\ all \subseteq DOMAIN w.tree
    BY <1>N, <2>1 DEF LastNodes
  <2>5. ASSUME NEW n \in all PROVE DirtyChildren(w, n) \subseteq less
    <3>1. n \in DOMAIN w.tree /\ n > MaxNode - k
      BY <2>1 DEF LastNodes
    <3>2. ASSUME NEW c \in DirtyChildren(w, n) PROVE c \in less
      <4>1. c \in DOMAIN w.tree /\ c \in Nodes /\ n \in Nodes /\ n < c
        BY <3>1, ChildrenLater
      <4>2. c > MaxNode - (k - 1)
        BY <1>N, <3>1, <4>1 DEF Nodes
      <4> QED  BY <2>1, <4>1, <4>2 DEF LastNodes
    <3> QED  BY <3>2
  <2>6. ASSUME NEW n \in all PROVE more[n] = Rolled(w, more, n) /\ more[n] \in Values
    <3>1. \A c \in DirtyChildren(w, n) : more[c] = roll[c] /\ roll[c] \in Values
      BY <2>2, <2>3, <2>4, <2>5 DEF WellRolled
    <3>2. Rolled(w, more, n) = Rolled(w, roll, n) /\ Rolled(w, roll, n) \in Values
      BY <2>4, <3>1, RolledFacts
    <3>3. CASE n \in less
      <4>1. more[n] = roll[n] /\ roll[n] = Rolled(w, roll, n)
        BY <2>2, <2>3, <3>3 DEF WellRolled, Rolling
      <4> QED  BY <3>2, <4>1
    <3>4. CASE n \notin less
      BY <2>3, <3>2, <3>4
    <3> QED  BY <3>3, <3>4
  <2>7. more = [n \in all |-> more[n]]
    BY <2>3
  <2>8. WellRolled(w, all, more)
    BY <2>6, <2>7 DEF WellRolled, Rolling
  <2> QED  BY <2>1, <2>8
<1> HIDE DEF T
<1>3. 0 .. MaxNode \subseteq T
  BY <1>N, <1>1, <1>2, Induction
<1>4. MaxNode \in T
  BY <1>N, <1>3
<1>5. \E roll : WellRolled(w, LastNodes(w, MaxNode), roll)
  BY <1>4 DEF T
<1>6. LastNodes(w, MaxNode) = DOMAIN w.tree
  BY <1>N DEF LastNodes
<1> QED  BY <1>5, <1>6

\* Two runs of the recursion agree.
LEMMA RollsAgree ==
  ASSUME NEW w, Working(w),
         NEW a, WellRolled(w, DOMAIN w.tree, a), NEW b, Rolling(w, DOMAIN w.tree, b)
  PROVE  \A n \in DOMAIN w.tree : a[n] = b[n]
<1> DEFINE T == {k \in 0 .. MaxNode : Same(a, b, LastNodes(w, k))}
<1>N. MaxNode \in Nat /\ DOMAIN w.tree \subseteq 1 .. MaxNode
  BY StoreConstants DEF Working, Grown, Rising, Nodes
<1>1. 0 \in T
  <2>1. LastNodes(w, 0) = {}
    BY <1>N DEF LastNodes
  <2> QED  BY <1>N, <2>1 DEF Same
<1>2. ASSUME NEW k \in 1 .. MaxNode, k - 1 \in T PROVE k \in T
  <2>1. ASSUME NEW n \in LastNodes(w, k) PROVE a[n] = b[n]
    <3>1. n \in DOMAIN w.tree /\ n > MaxNode - k
      BY DEF LastNodes
    <3>2. ASSUME NEW c \in DirtyChildren(w, n) PROVE a[c] = b[c] /\ a[c] \in Values
      <4>1. c \in DOMAIN w.tree /\ c \in Nodes /\ n \in Nodes /\ n < c
        BY <3>1, ChildrenLater
      <4>2. c > MaxNode - (k - 1)
        BY <1>N, <3>1, <4>1 DEF Nodes
      <4>3. c \in LastNodes(w, k - 1)
        BY <4>1, <4>2 DEF LastNodes
      <4> QED  BY <1>2, <4>1, <4>3 DEF Same, WellRolled
    <3>3. Rolled(w, b, n) = Rolled(w, a, n)
      BY <3>1, <3>2, RolledFacts
    <3>4. a[n] = Rolled(w, a, n) /\ b[n] = Rolled(w, b, n)
      BY <3>1 DEF WellRolled, Rolling
    <3> QED  BY <3>3, <3>4
  <2>2. Same(a, b, LastNodes(w, k))
    BY <2>1 DEF Same
  <2> QED  BY <2>2
<1> HIDE DEF T
<1>3. 0 .. MaxNode \subseteq T
  BY <1>N, <1>1, <1>2, Induction
<1>4. Same(a, b, LastNodes(w, MaxNode))
  BY <1>N, <1>3 DEF T
<1>5. LastNodes(w, MaxNode) = DOMAIN w.tree
  BY <1>N DEF LastNodes
<1> QED  BY <1>4, <1>5 DEF Same

\* The model's recursion is such a run.
LEMMA RolledUpFacts ==
  ASSUME NEW w, Working(w)
  PROVE  WellRolled(w, DOMAIN w.tree, RolledUp(w))
<1> DEFINE U == CHOOSE roll : roll = [n \in DOMAIN w.tree |->
        [f \in Fields |->
           w.temp[n].val[f] +
           (IF PassedOn(f)
            THEN SumFunctionOnSet([c \in DirtyChildren(w, n) |-> roll[c][f]],
                                  DirtyChildren(w, n))
            ELSE 0)]]
<1>1. RolledUp(w) = U
  BY DEF RolledUp
<1>2. PICK some : WellRolled(w, DOMAIN w.tree, some)
  BY RollRuns
<1>3. U = [n \in DOMAIN w.tree |->
        [f \in Fields |->
           w.temp[n].val[f] +
           (IF PassedOn(f)
            THEN SumFunctionOnSet([c \in DirtyChildren(w, n) |-> U[c][f]],
                                  DirtyChildren(w, n))
            ELSE 0)]]
  <2>1. some = [n \in DOMAIN w.tree |->
        [f \in Fields |->
           w.temp[n].val[f] +
           (IF PassedOn(f)
            THEN SumFunctionOnSet([c \in DirtyChildren(w, n) |-> some[c][f]],
                                  DirtyChildren(w, n))
            ELSE 0)]]
    BY <1>2, Zenon DEF WellRolled, Rolling, Rolled, Passed
  <2> QED  BY <2>1, ZenonT(40)
<1> HIDE DEF U
<1>4. Rolling(w, DOMAIN w.tree, U)
  BY <1>3, Zenon DEF Rolling, Rolled, Passed
<1>5. \A n \in DOMAIN w.tree : some[n] = U[n]
  BY <1>2, <1>4, RollsAgree
<1>6. WellRolled(w, DOMAIN w.tree, U)
  BY <1>2, <1>4, <1>5 DEF WellRolled
<1> QED  BY <1>1, <1>6

\* One turn of the descent.
Comes(w, reached, n) ==
  /\ n \in w.dirty
  /\ \/ n = Root
     \/ n \in w.tree[w.tree[n].parent].children /\ reached[w.tree[n].parent]

\* The descent comes to every dirty node.
LEMMA VisitedFacts ==
  ASSUME NEW w, Working(w)
  PROVE  Visited(w) = w.dirty
<1> DEFINE U == CHOOSE reached : reached = [n \in Nodes |->
        /\ n \in w.dirty
        /\ \/ n = Root
           \/ n \in w.tree[w.tree[n].parent].children /\ reached[w.tree[n].parent]]
<1>N. MaxNode \in Nat /\ w.dirty \subseteq Nodes /\ Nodes = 1 .. MaxNode
  BY StoreConstants DEF Working, Stores, Nodes
<1>1. Visited(w) = {n \in Nodes : U[n]}
  BY DEF Visited
<1>2. ASSUME NEW n \in w.dirty, n # Root
      PROVE  /\ w.tree[n].parent \in w.dirty /\ n \in w.tree[w.tree[n].parent].children
             /\ w.tree[n].parent \in 0 .. n - 1
  BY <1>2 DEF Working, Upward, Grown, Rising
<1>3. PICK some : some = [n \in Nodes |-> n \in w.dirty]
  OBVIOUS
<1>4. ASSUME NEW n \in Nodes PROVE some[n] <=> Comes(w, some, n)
  <2>1. CASE n \in w.dirty /\ n # Root
    <3>1. w.tree[n].parent \in Nodes /\ some[w.tree[n].parent]
      BY <1>N, <1>2, <1>3, <2>1
    <3> QED  BY <1>2, <1>3, <2>1, <3>1 DEF Comes
  <2>2. CASE n = Root
    BY <1>3, <2>2 DEF Comes
  <2>3. CASE n \notin w.dirty
    BY <1>3, <2>3 DEF Comes
  <2> QED  BY <2>1, <2>2, <2>3
<1>5. some = [n \in Nodes |-> Comes(w, some, n)]
  <2>1. \A n \in Nodes : some[n] = Comes(w, some, n)
    <3>1. \A n \in Nodes : some[n] \in BOOLEAN /\ Comes(w, some, n) \in BOOLEAN
      BY <1>3 DEF Comes
    <3> QED  BY <1>4, <3>1
  <2> QED  BY <1>3, <2>1
<1>6. U = [n \in Nodes |-> Comes(w, U, n)]
  <2>1. some = [n \in Nodes |->
        /\ n \in w.dirty
        /\ \/ n = Root
           \/ n \in w.tree[w.tree[n].parent].children /\ some[w.tree[n].parent]]
    BY <1>5, Zenon DEF Comes
  <2>2. U = [n \in Nodes |->
        /\ n \in w.dirty
        /\ \/ n = Root
           \/ n \in w.tree[w.tree[n].parent].children /\ U[w.tree[n].parent]]
    BY <2>1
  <2> HIDE DEF U
  <2> QED  BY <2>2, Zenon DEF Comes
<1> HIDE DEF U
<1> DEFINE T == {n \in 0 .. MaxNode : n \in w.dirty => U[n]}
<1>7. ASSUME NEW n \in 0 .. MaxNode, 0 .. n - 1 \subseteq T PROVE n \in T
  <2>1. SUFFICES ASSUME n \in w.dirty PROVE U[n]
    OBVIOUS
  <2>2. n \in Nodes /\ (U[n] <=> Comes(w, U, n))
    BY <1>N, <1>6, <2>1
  <2>3. CASE n = Root
    BY <2>1, <2>2, <2>3 DEF Comes
  <2>4. CASE n # Root
    <3>1. w.tree[n].parent \in T
      BY <1>2, <1>7, <2>1, <2>4
    <3>2. U[w.tree[n].parent]
      BY <1>2, <2>1, <2>4, <3>1
    <3> QED  BY <1>2, <2>1, <2>2, <2>4, <3>2 DEF Comes
  <2> QED  BY <2>3, <2>4
<1> HIDE DEF T
<1>8. 0 .. MaxNode \subseteq T
  BY <1>N, <1>7, Course
<1>9. ASSUME NEW n \in w.dirty PROVE U[n]
  <2>1. n \in 0 .. MaxNode
    BY <1>N
  <2> QED  BY <1>8, <2>1 DEF T
<1>10. ASSUME NEW n \in Nodes, U[n] PROVE n \in w.dirty
  BY <1>6, <1>10 DEF Comes
<1> QED  BY <1>N, <1>1, <1>9, <1>10

(***************************************************************************)
(* What was received.                                                      *)
(***************************************************************************)

Receipts == [Nodes -> Payload]

Receipt(g, rec) == [g EXCEPT ![rec.node] = Received(@, rec)]

Receipted(g0, batch) ==
  FoldLeft(LAMBDA g, rec : [g EXCEPT ![rec.node] = Received(@, rec)], g0, batch)

\* A receipt changes the account of its node.
LEMMA ReceiptFacts ==
  ASSUME NEW g \in Receipts, NEW rec \in Records
  PROVE  /\ Receipt(g, rec) \in Receipts
         /\ Receipt(g, rec)[rec.node] = Received(g[rec.node], rec)
         /\ \A n \in Nodes \ {rec.node} : Receipt(g, rec)[n] = g[n]
<1>1. rec.node \in Nodes /\ g[rec.node] \in Payload
  BY DEF Records, Receipts
<1>2. Received(g[rec.node], rec) \in Payload
  <2>1. /\ g[rec.node].val \in [Fields -> Int] /\ g[rec.node].cc \in Nat
        /\ rec.val \in [Fields -> Int] /\ rec.cc \in Nat
    BY <1>1 DEF Payload, Values, Records
  <2>2. [f \in Fields |-> IF f \in Static THEN rec.val[f] ELSE g[rec.node].val[f] + rec.val[f]]
          \in [Fields -> Int]
    BY <2>1
  <2>3. g[rec.node].cc + rec.cc \in Nat
    BY <2>1
  <2> QED  BY <2>2, <2>3 DEF Received, Payload, Values
<1> QED  BY <1>1, <1>2 DEF Receipt, Receipts

\* The receipts after each record of a batch.
LEMMA ReceiptFolds ==
  ASSUME NEW g0 \in Receipts, NEW batch \in Seq(Records)
  PROVE  \E gs \in [0 .. Len(batch) -> Receipts] :
           /\ gs[0] = g0
           /\ \A k \in 1 .. Len(batch) : gs[k] = Receipt(gs[k - 1], batch[k])
           /\ Receipted(g0, batch) = gs[Len(batch)]
<1>L. Len(batch) \in Nat /\ DOMAIN batch = 1 .. Len(batch)
  OBVIOUS
<1>1. PICK H : H = [k \in 1 .. Len(batch) |-> [g \in Receipts |-> Receipt(g, batch[k])]]
  OBVIOUS
<1>2. ASSUME NEW k \in 1 .. Len(batch), NEW g \in Receipts PROVE Receipt(g, batch[k]) \in Receipts
  <2>1. batch[k] \in Records
    OBVIOUS
  <2> QED  BY <2>1, ReceiptFacts
<1>3. H \in [1 .. Len(batch) -> [Receipts -> Receipts]]
  BY <1>1, <1>2
<1>4. PICK some : Folded(Receipts, H, g0, Len(batch), some)
  BY <1>L, <1>3, FoldRuns
<1>5. some = [s \in SUBSET (1 .. Len(batch)) |->
                IF s = {} THEN g0 ELSE Receipt(some[s \ {Max(s)}], batch[Max(s)])]
  <2>1. ASSUME NEW s \in SUBSET (1 .. Len(batch)), s # {}
        PROVE  H[Max(s)][some[s \ {Max(s)}]] = Receipt(some[s \ {Max(s)}], batch[Max(s)])
    <3>1. Max(s) \in 1 .. Len(batch)
      BY <1>L, <2>1, MaxIsIn
    <3>2. some[s \ {Max(s)}] \in Receipts
      BY <1>4 DEF Folded
    <3> QED  BY <1>1, <3>1, <3>2
  <2>2. some = [s \in SUBSET (1 .. Len(batch)) |->
                  IF s = {} THEN g0 ELSE H[Max(s)][some[s \ {Max(s)}]]]
    BY <1>4 DEF Folded, Turn
  <2> QED  BY <2>1, <2>2
<1> DEFINE it == CHOOSE it : it = [s \in SUBSET (1 .. Len(batch)) |->
                IF s = {} THEN g0 ELSE Receipt(it[s \ {Max(s)}], batch[Max(s)])]
<1>6. it = [s \in SUBSET (1 .. Len(batch)) |->
                IF s = {} THEN g0 ELSE Receipt(it[s \ {Max(s)}], batch[Max(s)])]
  BY <1>5
<1>7. Receipted(g0, batch) = it[1 .. Len(batch)]
  BY <1>L DEF Receipted, FoldLeft, MapThenFoldSet, Receipt
<1> HIDE DEF it
<1>8. it[{}] = g0
  BY <1>6
<1>9. ASSUME NEW k \in 1 .. Len(batch)
      PROVE  it[1 .. k] = Receipt(it[1 .. k - 1], batch[k])
  <2>1. PICK s : s = 1 .. k
    OBVIOUS
  <2>2. s \in SUBSET (1 .. Len(batch)) /\ s # {} /\ s \ {k} = 1 .. k - 1 /\ k \in Nat /\ k \in s
    <3>1. k \in Nat /\ k >= 1 /\ k <= Len(batch)
      BY <1>L
    <3>2. s \subseteq 1 .. Len(batch) /\ k \in s
      BY <1>L, <2>1, <3>1
    <3>3. \A x : x \in s \ {k} <=> x \in 1 .. k - 1
      BY <2>1, <3>1
    <3> QED  BY <3>1, <3>2, <3>3
  <2>3. Max(s) = k
    BY <2>1, <2>2, MaxIsLast
  <2> QED  BY <1>6, <2>1, <2>2, <2>3
<1>10. PICK gs : gs = [k \in 0 .. Len(batch) |-> it[1 .. k]]
  OBVIOUS
<1>11. gs[0] = g0
  <2>1. 1 .. 0 = {} /\ 0 \in 0 .. Len(batch)
    OBVIOUS
  <2> QED  BY <1>8, <1>10, <2>1
<1>12. \A k \in 1 .. Len(batch) : gs[k] = Receipt(gs[k - 1], batch[k])
  BY <1>9, <1>10
<1>13. gs \in [0 .. Len(batch) -> Receipts]
  <2>1. PICK T : T = {k \in 0 .. Len(batch) : gs[k] \in Receipts}
    OBVIOUS
  <2>2. 0 \in T /\ \A k \in 1 .. Len(batch) : k - 1 \in T => k \in T
    BY <1>2, <1>11, <1>12, <2>1
  <2>3. 0 .. Len(batch) \subseteq T
    BY <1>L, <2>2, Induction
  <2> QED  BY <1>10, <2>1, <2>3
<1>14. Receipted(g0, batch) = gs[Len(batch)]
  BY <1>L, <1>7, <1>10
<1> QED  BY <1>11, <1>12, <1>13, <1>14

(***************************************************************************)
(* A fetch.                                                                *)
(***************************************************************************)

Orders == SetToAllKPermutations(Nodes \ {Root})

\* The batch a program sends.
Sends(order, batch) ==
  /\ batch \in Seq(Records) /\ Len(batch) = Len(order)
  /\ \A i \in 1 .. Len(batch) :
       /\ batch[i].node = order[i] /\ batch[i].node # Root
       /\ shape[batch[i].node] \in DOMAIN tree \cup {batch[j].node : j \in 1 .. i - 1}
  /\ \A i, j \in 1 .. Len(batch) : batch[i].node = batch[j].node => i = j

\* A batch has a node once, and never the root.
LEMMA OrderFacts ==
  ASSUME NEW order \in Orders
  PROVE  /\ order \in Seq(Nodes \ {Root})
         /\ \A i, j \in 1 .. Len(order) : order[i] = order[j] => i = j
<1>1. PICK S \in SUBSET (Nodes \ {Root}) :
        order \in {f \in [1 .. Cardinality(S) -> S] :
                     \A i, j \in 1 .. Cardinality(S) : i # j => f[i] # f[j]}
  BY DEF Orders, SetToAllKPermutations, SetToSeqs
<1>2. Cardinality(S) \in Nat
  <2>1. MaxNode \in Nat
    BY StoreConstants
  <2>2. IsFiniteSet(Nodes)
    BY <2>1, FS_Interval DEF Nodes
  <2>3. S \in SUBSET Nodes
    OBVIOUS
  <2>4. IsFiniteSet(S)
    BY <2>2, <2>3, FS_Subset
  <2> QED  BY <2>4, FS_CardinalityType
<1>3. PICK n \in Nat : n = Cardinality(S)
  BY <1>2
<1>4. /\ order \in [1 .. n -> Nodes \ {Root}]
      /\ \A i, j \in 1 .. n : i # j => order[i] # order[j]
  BY <1>1, <1>3
<1>5. order \in Seq(Nodes \ {Root}) /\ Len(order) = n
  BY <1>3, <1>4
<1> QED  BY <1>4, <1>5

\* What a fetch stores is a batch of records, one per node.
LEMMA FetchSends ==
  ASSUME NEW order \in Orders, NEW run, Fetch(order, run)
  PROVE  \E batch : Sends(order, batch) /\ Store(batch, run, time + 1)
<1>1. PICK what \in [1 .. Len(order) -> Payloads] :
        Store([i \in 1 .. Len(order) |->
                 [node |-> order[i], val |-> what[i].val, cc |-> what[i].cc]], run, time + 1)
  BY DEF Fetch
<1>2. PICK batch : batch = [i \in 1 .. Len(order) |->
                 [node |-> order[i], val |-> what[i].val, cc |-> what[i].cc]]
  OBVIOUS
<1>3. Store(batch, run, time + 1)
  BY <1>1, <1>2
<1>4. /\ order \in Seq(Nodes \ {Root}) /\ Len(order) \in Nat
      /\ \A i, j \in 1 .. Len(order) : order[i] = order[j] => i = j
  BY OrderFacts
<1>5. ASSUME NEW i \in 1 .. Len(order) PROVE batch[i] \in Records /\ batch[i].node = order[i]
  <2>1. what[i] \in Payload /\ order[i] \in Nodes
    BY <1>4, StoreConstants
  <2>2. batch[i] = [node |-> order[i], val |-> what[i].val, cc |-> what[i].cc]
    BY <1>2
  <2> QED  BY <2>1, <2>2 DEF Payload, Records
<1>6. batch \in Seq(Records) /\ Len(batch) = Len(order)
  <2>1. batch \in [1 .. Len(order) -> Records]
    BY <1>2, <1>5
  <2> QED  BY <1>4, <2>1
<1>7. ASSUME NEW i \in 1 .. Len(order)
      PROVE  shape[order[i]] \in DOMAIN tree \cup {order[j] : j \in 1 .. i - 1}
  BY DEF Fetch, CanSend
<1>8. ASSUME NEW i \in 1 .. Len(batch)
      PROVE  /\ batch[i].node = order[i] /\ batch[i].node # Root
             /\ shape[batch[i].node] \in DOMAIN tree \cup {batch[j].node : j \in 1 .. i - 1}
  <2>1. batch[i].node = order[i] /\ order[i] # Root
    BY <1>4, <1>5, <1>6
  <2>2. \A j \in 1 .. i - 1 : order[j] = batch[j].node
    BY <1>4, <1>5, <1>6
  <2> QED  BY <1>6, <1>7, <2>1, <2>2
<1>9. \A i, j \in 1 .. Len(batch) : batch[i].node = batch[j].node => i = j
  BY <1>4, <1>6, <1>8
<1> QED  BY <1>3, <1>6, <1>8, <1>9 DEF Sends

(***************************************************************************)
(* The invariant of the tree.                                              *)
(***************************************************************************)

TreeInv ==
  /\ shape \in Shapes
  /\ tree \in Trees /\ Shaped(tree) /\ Grown(tree)
  /\ NothingLeftDirty
  /\ temp \in [Nodes -> Payload]

\* The store at the end of a batch: after the running node, the records.
Ended(batch, run) ==
  FoldLeft(AddRecord, MarkNodeDirty([tree |-> tree, dirty |-> dirty, temp |-> temp], run), batch)

\* A batch, and the running node after it, keep the store in order.
LEMMA EndedWorks ==
  ASSUME TreeInv, NEW order, NEW batch, Sends(order, batch), NEW run \in Nodes
  PROVE  Working(Ended(batch, run))
<1>1. PICK w : w = [tree |-> tree, dirty |-> dirty, temp |-> temp]
  OBVIOUS
<1>2. w \in Stores
  BY <1>1 DEF TreeInv, NothingLeftDirty, Stores
<1>3. Upward(tree, dirty)
  BY DEF TreeInv, NothingLeftDirty, Upward
<1>4. Working(w)
  BY <1>1, <1>2, <1>3 DEF Working, TreeInv
<1>5. PICK w0 : w0 = MarkNodeDirty(w, run)
  OBVIOUS
<1>6. Working(w0)
  BY <1>4, <1>5, MarkWorks DEF TreeInv
<1>7. shape \in Shapes
  BY DEF TreeInv
<1>8. Working(FoldLeft(AddRecord, w0, batch))
  BY <1>6, <1>7, BatchWorks DEF Sends
<1> QED  BY <1>1, <1>5, <1>8 DEF Ended

\* What a batch leaves behind.
Ends(w, roll) ==
  [n \in DOMAIN w.tree |-> IF n \in w.dirty THEN Cleared(w, roll, n) ELSE w.tree[n]]

\* A fetch, in terms of the store at the end of its batch.
LEMMA StoreEnds ==
  ASSUME TreeInv, NEW order, NEW batch, Sends(order, batch), NEW run \in Nodes,
         NEW ts, Store(batch, run, ts), NEW w, w = Ended(batch, run)
  PROVE  /\ Working(w)
         /\ tree' = Ends(w, RolledUp(w)) /\ dirty' = {}
         /\ temp' = [n \in Nodes |-> IF n \in w.dirty THEN Nothing ELSE w.temp[n]]
         /\ marked' = (marked \ Ascent(tree, running, {})) \cup Ascent(tree, run, {})
         /\ running' = run /\ start' = StartTime(ts)
         /\ slices' = [Padded(slices, SliceIndex(ts)) EXCEPT ![SliceIndex(ts)] =
              [nodes |-> [n \in w.dirty |-> Filed(w, RolledUp(w), n)], now |-> ts, run |-> run]]
         /\ got' = Receipted(got, batch)
         /\ snap' = Append(snap, Ends(w, RolledUp(w)))
<1>1. Working(w)
  BY EndedWorks
<1>2. Visited(w) = w.dirty
  BY <1>1, VisitedFacts
<1>3. w = FoldLeft(AddRecord, MarkNodeDirty([tree |-> tree, dirty |-> dirty, temp |-> temp], run), batch)
  BY DEF Ended
<1>4. /\ tree' = Ends(w, RolledUp(w)) /\ dirty' = w.dirty \ w.dirty
      /\ temp' = [n \in Nodes |-> IF n \in w.dirty THEN Nothing ELSE w.temp[n]]
  BY <1>2, <1>3, Zenon DEF Store, Ends
<1>5. marked' = (marked \ Ascent(tree, running, {})) \cup Ascent(tree, run, {})
  BY DEF Store, Unmarked
<1>6. running' = run /\ start' = StartTime(ts)
  BY DEF Store
<1>7. slices' = [Padded(slices, SliceIndex(ts)) EXCEPT ![SliceIndex(ts)] =
              [nodes |-> [n \in w.dirty |-> Filed(w, RolledUp(w), n)], now |-> ts, run |-> run]]
  BY <1>2, <1>3, Zenon DEF Store
<1>8. got' = Receipted(got, batch)
  BY Zenon DEF Store, Receipted
<1>9. snap' = Append(snap, Ends(w, RolledUp(w)))
  BY <1>2, <1>3, Zenon DEF Store, Ends
<1> QED  BY <1>1, <1>4, <1>5, <1>6, <1>7, <1>8, <1>9

\* The children's share is a number in every field.
LEMMA ShareFacts ==
  ASSUME NEW w, Working(w), NEW n \in DOMAIN w.tree
  PROVE  FromChildren(w, RolledUp(w), n) \in Values
<1>1. PICK roll, D : roll = RolledUp(w) /\ D = DirtyChildren(w, n)
  OBVIOUS
<1>2. WellRolled(w, DOMAIN w.tree, roll)
  BY <1>1, RolledUpFacts
<1>3. IsFiniteSet(D)
  <2>1. MaxNode \in Nat /\ D \subseteq Nodes
    BY <1>1, StoreConstants DEF DirtyChildren, Working, Stores
  <2>2. IsFiniteSet(Nodes)
    BY <2>1, FS_Interval DEF Nodes
  <2> QED  BY <2>1, <2>2, FS_Subset
<1>4. \A c \in D : roll[c] \in Values
  BY <1>1, <1>2, ChildrenLater DEF WellRolled
<1>5. ASSUME NEW f \in Fields
      PROVE  SumFunctionOnSet([c \in D |-> roll[c][f]], D) \in Int
  <2>1. PICK fun : fun = [c \in D |-> roll[c][f]]
    OBVIOUS
  <2>2. \A c \in D : fun[c] \in Int
    BY <1>4, <2>1 DEF Values
  <2>3. SumFunctionOnSet(fun, D) \in Int
    BY <1>3, <2>2, SumFacts
  <2> QED  BY <2>1, <2>3
<1>6. FromChildren(w, roll, n) =
        [f \in Fields |-> IF f \in Static THEN 0 ELSE SumFunctionOnSet([c \in D |-> roll[c][f]], D)]
  BY <1>1 DEF FromChildren
<1>7. FromChildren(w, roll, n) \in Values
  BY <1>5, <1>6 DEF Values
<1> QED  BY <1>1, <1>7

\* What ClearDirtyNode leaves in a node.
LEMMA ClearedFacts ==
  ASSUME NEW w, Working(w), NEW n \in DOMAIN w.tree
  PROVE  /\ Cleared(w, RolledUp(w), n) \in RecordNode
         /\ Cleared(w, RolledUp(w), n).parent = w.tree[n].parent
         /\ Cleared(w, RolledUp(w), n).children = w.tree[n].children
         /\ Cleared(w, RolledUp(w), n).cc = w.tree[n].cc + w.temp[n].cc
         /\ Cleared(w, RolledUp(w), n).all =
              [f \in Fields |-> IF f \in Static THEN RolledUp(w)[n][f]
                                ELSE w.tree[n].all[f] + RolledUp(w)[n][f]]
         /\ Cleared(w, RolledUp(w), n).cld =
              [f \in Fields |-> w.tree[n].cld[f] + FromChildren(w, RolledUp(w), n)[f]]
         /\ Filed(w, RolledUp(w), n) \in SliceNode
<1>1. PICK roll, node, share :
        roll = RolledUp(w) /\ node = w.tree[n] /\ share = FromChildren(w, RolledUp(w), n)
  OBVIOUS
<1>2. node \in RecordNode /\ n \in Nodes
  <2>1. w.tree \in Trees
    BY DEF Working, Stores
  <2> QED  BY <1>1, <2>1 DEF Trees
<1>3. roll[n] \in [Fields -> Int] /\ share \in [Fields -> Int]
  BY <1>1, RolledUpFacts, ShareFacts DEF WellRolled, Values
<1>4. w.temp[n].cc \in Nat
  BY <1>2 DEF Working, Stores, Payload
<1>5. PICK all, cld :
        /\ all = [f \in Fields |-> IF f \in Static THEN roll[n][f] ELSE node.all[f] + roll[n][f]]
        /\ cld = [f \in Fields |-> node.cld[f] + share[f]]
  OBVIOUS
<1>6. all \in Values /\ cld \in Values
  <2>1. node.all \in [Fields -> Int] /\ node.cld \in [Fields -> Int]
    BY <1>2 DEF RecordNode, Values
  <2> QED  BY <1>3, <1>5, <2>1 DEF Values
<1>7. Cleared(w, roll, n) = [node EXCEPT !.all = all, !.cld = cld, !.cc = node.cc + w.temp[n].cc]
  BY <1>1, <1>5 DEF Cleared
<1>8. Cleared(w, roll, n) =
        [parent |-> node.parent, children |-> node.children, all |-> all, cld |-> cld,
         cc |-> node.cc + w.temp[n].cc]
  BY <1>2, <1>7 DEF RecordNode
<1>9. Cleared(w, roll, n) \in RecordNode
  BY <1>2, <1>4, <1>6, <1>8 DEF RecordNode
<1>10. Filed(w, roll, n) \in SliceNode
  BY <1>1, <1>3, <1>4 DEF Filed, SliceNode, Values
<1> QED  BY <1>1, <1>5, <1>8, <1>9, <1>10

\* What it leaves of the tree.
LEMMA EndsFacts ==
  ASSUME NEW w, Working(w), NEW u, u = Ends(w, RolledUp(w))
  PROVE  /\ u \in Trees /\ Shaped(u) /\ Grown(u) /\ DOMAIN u = DOMAIN w.tree
         /\ \A n \in DOMAIN u : u[n] = IF n \in w.dirty THEN Cleared(w, RolledUp(w), n) ELSE w.tree[n]
<1>1. PICK t : t = w.tree
  OBVIOUS
<1>2. t \in Trees /\ Shaped(t) /\ Grown(t) /\ DOMAIN t \subseteq Nodes
  BY <1>1 DEF Working, Stores, Grown, Rising
<1>3. /\ DOMAIN u = DOMAIN t
      /\ \A n \in DOMAIN t : u[n] = IF n \in w.dirty THEN Cleared(w, RolledUp(w), n) ELSE t[n]
  BY <1>1 DEF Ends
<1>4. u = [n \in DOMAIN t |-> u[n]]
  BY <1>1 DEF Ends
<1>5. \A n \in DOMAIN t : t[n] \in RecordNode
  BY <1>2 DEF Trees
<1>6. \A n \in DOMAIN t :
        u[n] \in RecordNode /\ u[n].parent = t[n].parent /\ u[n].children = t[n].children
  <2>1. ASSUME NEW n \in DOMAIN t
        PROVE  u[n] \in RecordNode /\ u[n].parent = t[n].parent /\ u[n].children = t[n].children
    <3>1. /\ Cleared(w, RolledUp(w), n) \in RecordNode
          /\ Cleared(w, RolledUp(w), n).parent = t[n].parent
          /\ Cleared(w, RolledUp(w), n).children = t[n].children
      BY <1>1, ClearedFacts, ZenonT(40)
    <3> QED  BY <1>3, <1>5, <3>1
  <2> QED  BY <2>1
<1>7. u \in Trees
  <2>1. u \in [DOMAIN t -> RecordNode]
    BY <1>4, <1>6
  <2> QED  BY <1>2, <2>1 DEF Trees
<1>8. Shaped(u)
  BY <1>2, <1>3, <1>6 DEF Shaped
<1>9. Grown(u)
  <2>1. Rising(u) /\ Root \in DOMAIN u
    BY <1>2, <1>3, <1>6 DEF Grown, Rising
  <2>2. \A m \in DOMAIN u \ {Root} : u[m].parent \in DOMAIN u /\ m \in u[u[m].parent].children
    BY <1>2, <1>3, <1>6 DEF Grown
  <2>3. ASSUME NEW m \in DOMAIN u, NEW c \in u[m].children
        PROVE  c \in DOMAIN u /\ u[c].parent = m
    <3>1. c \in t[m].children /\ m \in DOMAIN t
      BY <1>3, <1>6, <2>3
    <3>2. c \in DOMAIN t /\ t[c].parent = m
      BY <1>2, <3>1 DEF Grown
    <3> QED  BY <1>3, <1>6, <3>2
  <2> QED  BY <2>1, <2>2, <2>3 DEF Grown
<1> QED  BY <1>1, <1>3, <1>7, <1>8, <1>9

\* No step leaves a node dirty or the tree in disorder.
LEMMA TreeStep == ASSUME TreeInv, [Next]_vars PROVE TreeInv'
<1>1. ASSUME NEW order \in Orders, NEW run \in Nodes, Fetch(order, run) PROVE TreeInv'
  <2>1. PICK batch : Sends(order, batch) /\ Store(batch, run, time + 1)
    BY <1>1, FetchSends
  <2>2. PICK w : w = Ended(batch, run)
    OBVIOUS
  <2>3. /\ Working(w) /\ tree' = Ends(w, RolledUp(w)) /\ dirty' = {}
        /\ temp' = [n \in Nodes |-> IF n \in w.dirty THEN Nothing ELSE w.temp[n]]
    BY <2>1, <2>2, StoreEnds
  <2>4. PICK u : u = Ends(w, RolledUp(w))
    OBVIOUS
  <2>5. u \in Trees /\ Shaped(u) /\ Grown(u)
    BY <2>3, <2>4, EndsFacts
  <2>6. shape' = shape
    BY <1>1 DEF Fetch
  <2>7. Shaped(tree)'
    BY <2>3, <2>4, <2>5, <2>6 DEF Shaped
  <2>8. temp' \in [Nodes -> Payload]
    <3>1. Nothing \in Payload
      BY DEF Nothing, Payload, Values, Blank
    <3>2. w.temp \in [Nodes -> Payload]
      BY <2>3 DEF Working, Stores
    <3> QED  BY <2>3, <3>1, <3>2
  <2>9. Grown(tree)' /\ (tree \in Trees)'
    BY <2>3, <2>4, <2>5 DEF Grown, Rising, Trees
  <2> QED  BY <2>3, <2>6, <2>7, <2>8, <2>9 DEF TreeInv, NothingLeftDirty, Shapes
<1>2. ASSUME UNCHANGED <<shape, tree, dirty, temp>> PROVE TreeInv'
  BY <1>2 DEF TreeInv, Shaped, Grown, Rising, Trees, NothingLeftDirty, Shapes
<1>F. CASE FetchBefore
  BY <1>2, <1>F DEF FetchBefore, storeVars
<1>3. CASE FailedFetch
  BY <1>2, <1>3 DEF FailedFetch, storeVars
<1>4. ASSUME NEW to, QueryDiff(to) PROVE TreeInv'
  BY <1>2, <1>4 DEF QueryDiff, storeVars
<1>5. CASE UNCHANGED vars
  BY <1>2, <1>5 DEF vars, storeVars
<1> QED  BY <1>1, <1>3, <1>4, <1>5, <1>F DEF Next, Orders

\* At first there is the root.
LEMMA TreeInit == ASSUME Init PROVE TreeInv
<1>1. tree = [n \in {Root} |-> NewNode(0)]
  BY DEF Init
<1>2. Root \in Nodes /\ MaxNode \in Nat
  BY StoreConstants DEF Root, Nodes
<1>3. NewNode(0) \in RecordNode
  BY DEF NewNode, RecordNode, Values, Blank
<1>4. tree \in Trees
  <2>1. tree \in [{Root} -> RecordNode]
    BY <1>1, <1>3
  <2>2. {Root} \in SUBSET Nodes
    BY <1>2
  <2> QED  BY <2>1, <2>2 DEF Trees
<1>5. DOMAIN tree = {Root} /\ tree[Root].parent = 0 /\ tree[Root].children = {}
  BY <1>1 DEF NewNode
<1>6. shape \in Shapes /\ shape[Root] = 0
  BY <1>2 DEF Init, Shapes
<1>7. Shaped(tree) /\ Grown(tree)
  BY <1>2, <1>5, <1>6 DEF Shaped, Grown, Rising, Root
<1>8. temp \in [Nodes -> Payload]
  BY DEF Init, Nothing, Payload, Values, Blank
<1> QED  BY <1>4, <1>6, <1>7, <1>8 DEF TreeInv, NothingLeftDirty, Init

\* Only the way from the running node to the root is marked.
LEMMA MarkedStep == ASSUME TreeInv, MarkedOnPath, [Next]_vars PROVE MarkedOnPath'
<1>1. ASSUME NEW order \in Orders, NEW run \in Nodes, Fetch(order, run) PROVE MarkedOnPath'
  <2>1. PICK batch : Sends(order, batch) /\ Store(batch, run, time + 1)
    BY <1>1, FetchSends
  <2>2. PICK w : w = Ended(batch, run)
    OBVIOUS
  <2>3. /\ Working(w) /\ tree' = Ends(w, RolledUp(w)) /\ running' = run
        /\ marked' = (marked \ Ascent(tree, running, {})) \cup Ascent(tree, run, {})
    BY <2>1, <2>2, StoreEnds
  <2>4. PICK u : u = Ends(w, RolledUp(w))
    OBVIOUS
  <2>5. u \in Trees /\ Shaped(u) /\ Grown(u) /\ DOMAIN u = DOMAIN w.tree
    BY <2>3, <2>4, EndsFacts
  <2>6. Rising(tree) /\ Rising(u) /\ DOMAIN tree \subseteq DOMAIN u
    BY <2>3, <2>5 DEF TreeInv, Grown, Working
  <2>7. \A m \in DOMAIN tree : u[m].parent = tree[m].parent
    BY <2>5, <2>6 DEF TreeInv, Shaped
  <2>8. Ascent(tree, run, {}) \subseteq Ascent(u, run, {})
    <3>1. run \in 0 .. MaxNode
      BY DEF Nodes
    <3> QED  BY <2>6, <2>7, <3>1, AscentGrows
  <2>9. marked' \subseteq Ascent(u, run, {})
    BY <2>3, <2>8 DEF MarkedOnPath
  <2> QED  BY <2>3, <2>4, <2>9 DEF MarkedOnPath
<1>2. ASSUME UNCHANGED <<tree, marked, running>> PROVE MarkedOnPath'
  BY <1>2 DEF MarkedOnPath
<1>F. CASE FetchBefore
  BY <1>2, <1>F DEF FetchBefore, storeVars
<1>3. CASE FailedFetch
  BY <1>2, <1>3 DEF FailedFetch, storeVars
<1>4. ASSUME NEW to, QueryDiff(to) PROVE MarkedOnPath'
  BY <1>2, <1>4 DEF QueryDiff, storeVars
<1>5. CASE UNCHANGED vars
  BY <1>2, <1>5 DEF vars, storeVars
<1> QED  BY <1>1, <1>3, <1>4, <1>5, <1>F DEF Next, Orders

\* A node that became known with a batch is in the slice of that batch, and
\* stays in it.
LEMMA CoveredStep == ASSUME SliceInv, TreeInv, OnlyRootUncovered, [Next]_vars PROVE OnlyRootUncovered'
<1>2. ASSUME NEW n \in DOMAIN tree \ {Root}
      PROVE  \E j \in 1 .. Len(slices') : n \in DOMAIN slices'[j].nodes
  <2>1. PICK j \in 1 .. Len(slices) : n \in DOMAIN slices[j].nodes
    BY DEF OnlyRootUncovered
  <2>2. slices[j] # EmptySlice
    BY <2>1 DEF EmptySlice
  <2>3. j <= Len(slices') /\ slices'[j] = slices[j]
    BY <2>2, FilledKept
  <2>4. Len(slices') \in Nat /\ Len(slices) \in Nat
    BY SliceStep DEF SliceInv, VectorInv
  <2> QED  BY <2>1, <2>3, <2>4
<1>1. ASSUME NEW order \in Orders, NEW run \in Nodes, Fetch(order, run) PROVE OnlyRootUncovered'
  <2>1. PICK batch : Sends(order, batch) /\ Store(batch, run, time + 1)
    BY <1>1, FetchSends
  <2>2. PICK w : w = Ended(batch, run)
    OBVIOUS
  <2>3. PICK roll, files, new :
          /\ roll = RolledUp(w) /\ files = [n \in w.dirty |-> Filed(w, roll, n)]
          /\ new = [nodes |-> files, now |-> time + 1, run |-> run]
    OBVIOUS
  <2>4. /\ Working(w) /\ tree' = Ends(w, RolledUp(w))
        /\ slices' = [Padded(slices, SliceIndex(time + 1)) EXCEPT ![SliceIndex(time + 1)] = new]
    BY <2>1, <2>2, <2>3, StoreEnds
  <2>5. DOMAIN tree' = DOMAIN w.tree
    BY <2>4, EndsFacts
  <2>6. PICK i, S :
          /\ i \in Nat \ {0}
          /\ slices' \in Seq(S) /\ Len(slices) \in Nat
          /\ Len(slices') = IF i > Len(slices) THEN i ELSE Len(slices)
          /\ slices'[i] = new
    BY <2>4, FilingFacts
  <2>7. i \in 1 .. Len(slices') /\ DOMAIN slices'[i].nodes = w.dirty
    BY <2>3, <2>6
  <2>8. ASSUME NEW n \in DOMAIN tree' \ {Root}
        PROVE  \E j \in 1 .. Len(slices') : n \in DOMAIN slices'[j].nodes
    <3>1. CASE n \in DOMAIN tree
      BY <1>2, <3>1, <2>8
    <3>2. CASE n \notin DOMAIN tree
      <4>1. n \in w.dirty
        BY <2>4, <2>5, <3>2 DEF Working
      <4> QED  BY <2>7, <4>1
    <3> QED  BY <3>1, <3>2
  <2> QED  BY <2>8 DEF OnlyRootUncovered
<1>3. ASSUME tree' = tree PROVE OnlyRootUncovered'
  BY <1>2, <1>3 DEF OnlyRootUncovered
<1>F. CASE FetchBefore
  BY <1>3, <1>F DEF FetchBefore, storeVars
<1>4. CASE FailedFetch
  BY <1>3, <1>4 DEF FailedFetch, storeVars
<1>5. ASSUME NEW to, QueryDiff(to) PROVE OnlyRootUncovered'
  BY <1>3, <1>5 DEF QueryDiff, storeVars
<1>6. CASE UNCHANGED vars
  BY <1>3, <1>6 DEF vars, storeVars
<1> QED  BY <1>1, <1>4, <1>5, <1>6, <1>F DEF Next, Orders

\* A sum depends on the values in its set only.
LEMMA SumEqual ==
  ASSUME NEW K, IsFiniteSet(K), NEW fun, NEW r, \A x \in K : r[x] \in Int /\ fun[x] = r[x]
  PROVE  SumFunctionOnSet(fun, K) = SumFunctionOnSet(r, K)
BY SumSame

\* The sum over two sets that share nothing.
LEMMA SumDisjoint ==
  ASSUME NEW A, IsFiniteSet(A), NEW B, IsFiniteSet(B), A \cap B = {},
         NEW fun, \A x \in A \cup B : fun[x] \in Int
  PROVE  SumFunctionOnSet(fun, A \cup B) = SumFunctionOnSet(fun, A) + SumFunctionOnSet(fun, B)
<1>1. PICK J : J = A \cup B
  OBVIOUS
<1>2. IsFiniteSet(J)
  BY <1>1, FS_Union
<1>3. PICK a : a = [x \in J |-> IF x \in A THEN fun[x] ELSE 0]
  OBVIOUS
<1>4. SumFunctionOnSet(a, J) = SumFunctionOnSet(fun, A)
  <2>1. \A x \in A : fun[x] \in Int /\ a[x] = fun[x]
    BY <1>1, <1>3
  <2>2. \A x \in J \ A : a[x] = 0
    BY <1>3
  <2>3. A \subseteq J
    BY <1>1
  <2> QED  BY <1>2, <2>1, <2>2, <2>3, SumSame
<1>5. \A x \in J : a[x] \in Int /\ fun[x] = a[x] + IF x \in B THEN fun[x] ELSE 0
  <2>1. ASSUME NEW x \in J PROVE a[x] \in Int /\ fun[x] = a[x] + IF x \in B THEN fun[x] ELSE 0
    <3>1. fun[x] \in Int
      BY <1>1
    <3>2. CASE x \in A
      <4>1. a[x] = fun[x] /\ x \notin B
        BY <1>3, <3>2
      <4> QED  BY <3>1, <4>1
    <3>3. CASE x \notin A
      <4>1. a[x] = 0 /\ x \in B
        BY <1>1, <1>3, <3>3
      <4> QED  BY <3>1, <4>1
    <3> QED  BY <3>2, <3>3
  <2> QED  BY <2>1
<1>6. B \subseteq J /\ \A x \in B : fun[x] \in Int
  BY <1>1
<1>7. SumFunctionOnSet(fun, J) = SumFunctionOnSet(a, J) + SumFunctionOnSet(fun, B)
  BY <1>2, <1>5, <1>6, SumSplit
<1> QED  BY <1>1, <1>4, <1>7

\* Sets that share nothing.
Apart(B, J) == \A c, d \in J : c # d => B[c] \cap B[d] = {}
United(B, J) == UNION {B[c] : c \in J}

\* The sum over sets that share nothing is the sum of their sums.
LEMMA SumUnion ==
  ASSUME NEW J, IsFiniteSet(J), NEW B, Apart(B, J), \A c \in J : IsFiniteSet(B[c]),
         NEW fun, \A x \in United(B, J) : fun[x] \in Int,
         NEW part, \A c \in J : part[c] = SumFunctionOnSet(fun, B[c])
  PROVE  SumFunctionOnSet(fun, United(B, J)) = SumFunctionOnSet(part, J)
<1> DEFINE Fine(K) == /\ SumFunctionOnSet(fun, United(B, K)) = SumFunctionOnSet(part, K)
                      /\ IsFiniteSet(United(B, K))
           T == {k \in 0 .. Cardinality(J) :
                   \A K \in SUBSET J : Cardinality(K) = k => Fine(K)}
<1>S. \A c \in J : part[c] \in Int /\ \A x \in B[c] : fun[x] \in Int
  <2>1. ASSUME NEW c \in J PROVE part[c] \in Int /\ \A x \in B[c] : fun[x] \in Int
    <3>1. \A x \in B[c] : fun[x] \in Int
      BY DEF United
    <3>2. SumFunctionOnSet(fun, B[c]) \in Int
      BY <3>1, SumFacts
    <3> QED  BY <3>1, <3>2
  <2> QED  BY <2>1
<1>F. \A K \in SUBSET J : Summable(part, K) /\ Cardinality(K) \in Nat
  BY <1>S, FS_Subset, FS_CardinalityType DEF Summable
<1>1. ASSUME NEW k \in 0 .. Cardinality(J), 0 .. k - 1 \subseteq T PROVE k \in T
  <2>1. ASSUME NEW K \in SUBSET J, Cardinality(K) = k PROVE Fine(K)
    <3>1. CASE K = {}
      <4>1. United(B, K) = {}
        BY <3>1 DEF United
      <4>2. IsFiniteSet({}) /\ SumFunctionOnSet(fun, {}) = 0 /\ SumFunctionOnSet(part, {}) = 0
        <5>1. IsFiniteSet({})
          BY FS_EmptySet
        <5> QED  BY <5>1, SumFacts
      <4> QED  BY <3>1, <4>1, <4>2
    <3>2. CASE K # {}
      <4>1. PICK c \in K : TRUE
        BY <3>2
      <4>2. PICK L : L = K \ {c}
        OBVIOUS
      <4>3. L \in SUBSET J /\ Cardinality(L) = k - 1 /\ k # 0 /\ k \in Nat
        BY <1>F, <2>1, <4>1, <4>2, SumLess
      <4>4. Fine(L)
        <5>1. k - 1 \in T
          BY <1>1, <4>3
        <5> QED  BY <4>3, <5>1
      <4>5. United(B, K) = B[c] \cup United(B, L) /\ B[c] \cap United(B, L) = {}
        <5>1. United(B, K) = B[c] \cup United(B, L)
          BY <4>1, <4>2 DEF United
        <5>2. \A d \in L : B[c] \cap B[d] = {}
          BY <2>1, <4>1, <4>2 DEF Apart
        <5> QED  BY <5>1, <5>2 DEF United
      <4>6. IsFiniteSet(B[c]) /\ IsFiniteSet(United(B, L))
        BY <2>1, <4>1, <4>4
      <4>7. \A x \in B[c] \cup United(B, L) : fun[x] \in Int
        BY <1>S, <4>3, <2>1, <4>1 DEF United
      <4>8. SumFunctionOnSet(fun, B[c] \cup United(B, L)) =
              SumFunctionOnSet(fun, B[c]) + SumFunctionOnSet(fun, United(B, L))
        BY <4>5, <4>6, <4>7, SumDisjoint
      <4>9. SumFunctionOnSet(part, K) = part[c] + SumFunctionOnSet(part, K \ {c})
        <5>1. Summable(part, K)
          BY <1>F, <2>1
        <5> QED  BY <4>1, <5>1, SumRemove
      <4>10. part[c] = SumFunctionOnSet(fun, B[c])
        BY <2>1, <4>1
      <4>11. SumFunctionOnSet(fun, United(B, K)) = SumFunctionOnSet(part, K)
        BY <4>2, <4>4, <4>5, <4>8, <4>9, <4>10, Zenon
      <4>12. IsFiniteSet(United(B, K))
        <5>1. IsFiniteSet(B[c] \cup United(B, L))
          BY <4>6, FS_Union
        <5> QED  BY <4>5, <5>1, Zenon
      <4> QED  BY <4>11, <4>12
    <3> QED  BY <3>1, <3>2
  <2> QED  BY <2>1
<1> HIDE DEF T
<1>2. 0 .. Cardinality(J) \subseteq T
  BY <1>1, <1>F, Course
<1>3. Cardinality(J) \in T
  BY <1>2, <1>F
<1> QED  BY <1>3 DEF T

(***************************************************************************)
(* Subtrees.                                                               *)
(***************************************************************************)

\* The nodes of a tree that are below n, and n itself.
Under(t, n) == {m \in DOMAIN t : n \in Ascent(t, m, {})}

\* A node is below n if it is n or its parent is below n.
LEMMA UnderStep ==
  ASSUME NEW t, Grown(t), NEW m \in DOMAIN t, NEW n \in DOMAIN t
  PROVE  m \in Under(t, n) <=>
           m = n \/ (t[m].parent \in DOMAIN t /\ t[m].parent \in Under(t, n))
<1>1. Rising(t) /\ m \in 0 .. MaxNode /\ t[m].parent \in 0 .. MaxNode
  BY StoreConstants DEF Grown, Rising, Nodes
<1>2. Ascent(t, m, {}) = {m} \cup Ascent(t, t[m].parent, {})
  BY <1>1, AscentStep
<1>3. t[m].parent \notin DOMAIN t => Ascent(t, t[m].parent, {}) = {}
  BY <1>1, AscentStep
<1> QED  BY <1>2, <1>3 DEF Under

\* What is below a node has a greater number.
LEMMA UnderLater ==
  ASSUME NEW t, Grown(t), NEW n \in DOMAIN t
  PROVE  n \in Under(t, n) /\ \A m \in Under(t, n) : n <= m
<1> DEFINE T == {m \in 0 .. MaxNode : m \in Under(t, n) => n <= m}
<1>N. MaxNode \in Nat /\ DOMAIN t \subseteq 1 .. MaxNode
  BY StoreConstants DEF Grown, Rising, Nodes
<1>1. ASSUME NEW m \in 0 .. MaxNode, 0 .. m - 1 \subseteq T PROVE m \in T
  <2>1. SUFFICES ASSUME m \in Under(t, n), m # n PROVE n <= m
    BY <1>N
  <2>2. m \in DOMAIN t
    BY <2>1 DEF Under
  <2>3. t[m].parent \in Under(t, n) /\ t[m].parent \in 0 .. m - 1
    BY <2>1, <2>2, UnderStep DEF Grown, Rising
  <2>4. n <= t[m].parent
    BY <1>1, <2>3
  <2> QED  BY <1>N, <2>2, <2>3, <2>4
<1> HIDE DEF T
<1>2. 0 .. MaxNode \subseteq T
  BY <1>N, <1>1, Course
<1>3. ASSUME NEW m \in Under(t, n) PROVE n <= m
  <2>1. m \in 0 .. MaxNode
    BY <1>N DEF Under
  <2> QED  BY <1>2, <2>1 DEF T
<1> QED  BY <1>3, UnderStep

\* A subtree is its node and the subtrees of the children, which share nothing.
LEMMA UnderChildren ==
  ASSUME NEW t, Grown(t), NEW n \in DOMAIN t,
         NEW B, B = [c \in t[n].children |-> Under(t, c)]
  PROVE  /\ Under(t, n) = {n} \cup United(B, t[n].children)
         /\ n \notin United(B, t[n].children)
         /\ Apart(B, t[n].children)
<1> DEFINE J == t[n].children
<1>N. MaxNode \in Nat /\ DOMAIN t \subseteq 1 .. MaxNode
  BY StoreConstants DEF Grown, Rising, Nodes
<1>J. \A c \in J : /\ c \in DOMAIN t /\ t[c].parent = n /\ n < c
                   /\ B[c] = Under(t, c) /\ B[c] \subseteq DOMAIN t
  <2>1. \A c \in J : c \in DOMAIN t /\ t[c].parent = n
    BY DEF Grown
  <2>2. \A c \in J : n < c
    BY <1>N, <2>1 DEF Grown, Rising
  <2> QED  BY <2>1, <2>2 DEF Under
<1>U. \A x : x \in United(B, J) <=> \E c \in J : x \in B[c]
  BY DEF United
<1>P. \A m \in DOMAIN t : t[m].parent \in 0 .. m - 1
  BY DEF Grown, Rising
<1> HIDE DEF J
<1>1. \A m \in DOMAIN t : (m \in Under(t, n) /\ m # n) => m \in United(B, J)
  <2> DEFINE T == {m \in 0 .. MaxNode :
                     (m \in Under(t, n) /\ m # n) => m \in United(B, J)}
  <2>1. ASSUME NEW m \in 0 .. MaxNode, 0 .. m - 1 \subseteq T PROVE m \in T
    <3>1. SUFFICES ASSUME m \in Under(t, n), m # n PROVE m \in United(B, J)
      OBVIOUS
    <3>2. PICK p : p = t[m].parent
      OBVIOUS
    <3>3. m \in DOMAIN t /\ p \in DOMAIN t /\ p \in Under(t, n)
      <4>1. m \in DOMAIN t
        BY <3>1 DEF Under
      <4> QED  BY <3>1, <3>2, <4>1, UnderStep
    <3>4. CASE p = n
      <4>1. m # Root
        BY <1>N, <1>P, <3>2, <3>3 DEF Root
      <4>2. m \in J
        BY <3>2, <3>3, <3>4, <4>1 DEF Grown, J
      <4>3. m \in B[m]
        BY <1>J, <3>3, <4>2, UnderLater
      <4> QED  BY <1>U, <4>2, <4>3
    <3>5. CASE p # n
      <4>1. p \in 0 .. m - 1
        BY <1>P, <3>2, <3>3
      <4>2. PICK c \in J : p \in B[c]
        BY <1>U, <2>1, <3>3, <3>5, <4>1
      <4>3. m \in B[c]
        <5>1. c \in DOMAIN t /\ B[c] = Under(t, c)
          BY <1>J, <4>2
        <5>2. t[m].parent \in DOMAIN t /\ t[m].parent \in Under(t, c)
          BY <3>2, <3>3, <4>2, <5>1
        <5>3. m \in Under(t, c)
          BY <3>3, <5>1, <5>2, UnderStep
        <5> QED  BY <5>1, <5>3
      <4> QED  BY <1>U, <4>3
    <3> QED  BY <3>4, <3>5
  <2> HIDE DEF T
  <2>2. 0 .. MaxNode \subseteq T
    BY <1>N, <2>1, Course
  <2>3. \A m \in DOMAIN t : m \in T
    BY <1>N, <2>2
  <2> QED  BY <2>3 DEF T
<1>2. \A c \in J : B[c] \subseteq Under(t, n)
  <2> TAKE c \in J
  <2> DEFINE T == {m \in 0 .. MaxNode : m \in B[c] => m \in Under(t, n)}
  <2>1. ASSUME NEW m \in 0 .. MaxNode, 0 .. m - 1 \subseteq T PROVE m \in T
    <3>1. SUFFICES ASSUME m \in B[c] PROVE m \in Under(t, n)
      OBVIOUS
    <3>2. PICK p : p = t[m].parent
      OBVIOUS
    <3>3. m \in DOMAIN t /\ (m = c \/ (p \in DOMAIN t /\ p \in B[c]))
      BY <1>J, <3>1, <3>2, UnderStep
    <3>4. p \in DOMAIN t /\ p \in Under(t, n)
      <4>1. CASE m = c
        BY <1>J, <3>2, <4>1, UnderLater
      <4>2. CASE p \in DOMAIN t /\ p \in B[c]
        <5>1. p \in 0 .. m - 1
          BY <1>P, <3>2, <3>3
        <5> QED  BY <2>1, <4>2, <5>1
      <4> QED  BY <3>3, <4>1, <4>2
    <3> QED  BY <3>2, <3>3, <3>4, UnderStep
  <2> HIDE DEF T
  <2>2. 0 .. MaxNode \subseteq T
    BY <1>N, <2>1, Course
  <2>3. ASSUME NEW m \in B[c] PROVE m \in Under(t, n)
    <3>1. m \in T
      BY <1>J, <1>N, <2>2
    <3> QED  BY <3>1 DEF T
  <2> QED  BY <2>3
<1>3. \A c \in J : n \notin B[c]
  <2>1. ASSUME NEW c \in J, n \in B[c] PROVE FALSE
    <3>1. c \in DOMAIN t /\ n < c /\ n \in Under(t, c)
      BY <1>J, <2>1
    <3>2. c <= n
      BY <3>1, UnderLater
    <3>3. c \in Nat /\ n \in Nat
      BY <1>N, <3>1
    <3> QED  BY <3>1, <3>2, <3>3
  <2> QED  BY <2>1
<1>4. \A c, d \in J : c # d => B[c] \cap B[d] = {}
  <2> TAKE c, d \in J
  <2>0. SUFFICES ASSUME c # d PROVE B[c] \cap B[d] = {}
    OBVIOUS
  <2> DEFINE T == {m \in 0 .. MaxNode : m \notin B[c] \cap B[d]}
  <2>1. ASSUME NEW m \in 0 .. MaxNode, 0 .. m - 1 \subseteq T PROVE m \in T
    <3>1. SUFFICES ASSUME m \in B[c], m \in B[d] PROVE FALSE
      OBVIOUS
    <3>2. PICK p : p = t[m].parent
      OBVIOUS
    <3>3. /\ m \in DOMAIN t
          /\ m = c \/ (p \in DOMAIN t /\ p \in B[c])
          /\ m = d \/ (p \in DOMAIN t /\ p \in B[d])
      BY <1>J, <3>1, <3>2, UnderStep
    <3>4. CASE m = c
      <4>1. p = n /\ p \in B[d]
        BY <1>J, <2>0, <3>2, <3>3, <3>4
      <4> QED  BY <1>3, <4>1
    <3>5. CASE m = d
      <4>1. p = n /\ p \in B[c]
        BY <1>J, <2>0, <3>2, <3>3, <3>5
      <4> QED  BY <1>3, <4>1
    <3>6. CASE m # c /\ m # d
      <4>1. p \in 0 .. m - 1 /\ p \in B[c] \cap B[d]
        BY <1>P, <3>2, <3>3, <3>6
      <4> QED  BY <2>1, <4>1
    <3> QED  BY <3>4, <3>5, <3>6
  <2> HIDE DEF T
  <2>2. 0 .. MaxNode \subseteq T
    BY <1>N, <2>1, Course
  <2>3. ASSUME NEW m \in B[c] \cap B[d] PROVE FALSE
    <3>1. m \in T
      BY <1>J, <1>N, <2>2
    <3> QED  BY <2>3, <3>1 DEF T
  <2> QED  BY <2>3
<1>5. Under(t, n) = {n} \cup United(B, J)
  <2>1. n \in Under(t, n) /\ Under(t, n) \subseteq DOMAIN t
    BY UnderLater DEF Under
  <2> QED  BY <1>1, <1>2, <1>U, <2>1
<1>6. Apart(B, J)
  BY <1>4, Zenon DEF Apart
<1>7. n \notin United(B, J)
  BY <1>3, <1>U
<1> QED  BY <1>5, <1>6, <1>7 DEF J

(***************************************************************************)
(* Totals.                                                                 *)
(***************************************************************************)

\* The sum of a field over the children.
ChildSum(t, n, f) == SumFunctionOnSet([c \in t[n].children |-> t[c].all[f]], t[n].children)

SharesRight(t) ==
  \A n \in DOMAIN t : \A f \in Fields \ Static : t[n].cld[f] = ChildSum(t, n, f)

\* What a node's total has from its children.
Share(node, f) == IF PassedOn(f) THEN node.cld[f] ELSE 0

\* A node shows what was received for it, and the children's share.
Shows(node, sum) ==
  /\ node.cc = sum.cc
  /\ \A f \in Fields : node.all[f] = sum.val[f] + Share(node, f)

\* What every node shows follows from its children and its own receipts.
OwnInv ==
  /\ SharesRight(tree)
  /\ \A n \in DOMAIN tree : Shows(tree[n], got[n])
  /\ \A n \in Nodes \ DOMAIN tree : got[n] = Nothing

\* Sums over children and subtrees are finite.
LEMMA ChildrenFinite ==
  ASSUME NEW t, Grown(t), NEW n \in DOMAIN t
  PROVE  IsFiniteSet(t[n].children) /\ IsFiniteSet(Under(t, n))
<1>1. MaxNode \in Nat /\ DOMAIN t \subseteq Nodes
  BY StoreConstants DEF Grown, Rising
<1>2. IsFiniteSet(Nodes)
  BY <1>1, FS_Interval DEF Nodes
<1>3. t[n].children \subseteq Nodes /\ Under(t, n) \subseteq Nodes
  BY <1>1 DEF Grown, Under
<1> QED  BY <1>2, <1>3, FS_Subset

\* If a total is the node's own and those of the children, it is the sum of
\* what the nodes below have of their own.
LEMMA TotalsAdd ==
  ASSUME NEW t \in Trees, Grown(t), NEW f \in Fields,
         NEW own, \A n \in DOMAIN t : own[n] \in Int,
         \A n \in DOMAIN t : t[n].all[f] = own[n] + ChildSum(t, n, f)
  PROVE  \A n \in DOMAIN t : t[n].all[f] = SumFunctionOnSet(own, Under(t, n))
<1> DEFINE T == {k \in 0 .. MaxNode : \A n \in DOMAIN t :
                   n = MaxNode - k => t[n].all[f] = SumFunctionOnSet(own, Under(t, n))}
<1>N. MaxNode \in Nat /\ DOMAIN t \subseteq 1 .. MaxNode
  BY StoreConstants DEF Grown, Rising, Nodes
<1>1. ASSUME NEW k \in 0 .. MaxNode, 0 .. k - 1 \subseteq T PROVE k \in T
  <2>1. ASSUME NEW n \in DOMAIN t, n = MaxNode - k
        PROVE  t[n].all[f] = SumFunctionOnSet(own, Under(t, n))
    <3>1. PICK J, B, part : /\ J = t[n].children
                            /\ B = [c \in J |-> Under(t, c)]
                            /\ part = [c \in J |-> t[c].all[f]]
      OBVIOUS
    <3>2. /\ Under(t, n) = {n} \cup United(B, J) /\ n \notin United(B, J)
          /\ Apart(B, J)
      <4>1. B = [c \in t[n].children |-> Under(t, c)]
        BY <3>1
      <4> QED  BY <3>1, <4>1, UnderChildren
    <3>3. \A c \in J : c \in DOMAIN t /\ n < c
      BY <1>N, <3>1 DEF Grown, Rising
    <3>4. \A c \in J : IsFiniteSet(B[c])
      BY <3>1, <3>3, ChildrenFinite
    <3>5. \A x \in United(B, J) : own[x] \in Int
      <4>1. United(B, J) \subseteq DOMAIN t
        BY <3>2 DEF Under
      <4> QED  BY <4>1
    <3>6. \A c \in J : part[c] = SumFunctionOnSet(own, B[c])
      <4>1. ASSUME NEW c \in J PROVE part[c] = SumFunctionOnSet(own, B[c])
        <5>1. c \in DOMAIN t /\ c \in 1 .. MaxNode /\ n \in 1 .. MaxNode /\ n < c
          BY <1>N, <3>3
        <5>2. MaxNode - c \in 0 .. k - 1 /\ c = MaxNode - (MaxNode - c)
          BY <1>N, <2>1, <5>1
        <5>3. t[c].all[f] = SumFunctionOnSet(own, Under(t, c))
          BY <1>1, <5>1, <5>2
        <5> QED  BY <3>1, <5>3
      <4> QED  BY <4>1
    <3>7. IsFiniteSet(J)
      BY <3>1, ChildrenFinite
    <3>8. SumFunctionOnSet(own, United(B, J)) = SumFunctionOnSet(part, J)
      BY <3>2, <3>4, <3>5, <3>6, <3>7, SumUnion
    <3>9. IsFiniteSet(United(B, J))
      <4>1. IsFiniteSet(Under(t, n))
        BY ChildrenFinite
      <4> QED  BY <3>2, <4>1, FS_Subset
    <3>10. SumFunctionOnSet(own, {n}) = own[n]
      <4>1. Summable(own, {n}) /\ IsFiniteSet({}) /\ {n} \ {n} = {} /\ n \in {n}
        BY FS_Singleton, FS_EmptySet DEF Summable
      <4>2. SumFunctionOnSet(own, {n}) = own[n] + SumFunctionOnSet(own, {n} \ {n})
        BY <4>1, SumRemove
      <4>3. SumFunctionOnSet(own, {}) = 0
        BY <4>1, SumFacts
      <4>4. SumFunctionOnSet(own, {n}) = own[n] + 0
        BY <4>1, <4>2, <4>3
      <4> QED  BY <4>4
    <3>11. SumFunctionOnSet(own, {n} \cup United(B, J)) =
             SumFunctionOnSet(own, {n}) + SumFunctionOnSet(own, United(B, J))
      <4>1. IsFiniteSet({n}) /\ {n} \cap United(B, J) = {}
        BY <3>2, FS_Singleton
      <4>2. \A x \in {n} \cup United(B, J) : own[x] \in Int
        BY <3>5
      <4> QED  BY <3>9, <4>1, <4>2, SumDisjoint
    <3>12. t[n].all[f] = own[n] + SumFunctionOnSet(part, J)
      BY <3>1, Zenon DEF ChildSum
    <3> QED  BY <3>2, <3>8, <3>10, <3>11, <3>12, Zenon
  <2> QED  BY <2>1
<1> HIDE DEF T
<1>2. 0 .. MaxNode \subseteq T
  BY <1>N, <1>1, Course
<1>3. ASSUME NEW n \in DOMAIN t
      PROVE  t[n].all[f] = SumFunctionOnSet(own, Under(t, n))
  <2>1. MaxNode - n \in 0 .. MaxNode /\ n = MaxNode - (MaxNode - n)
    BY <1>N
  <2>2. MaxNode - n \in T
    BY <1>2, <2>1
  <2> QED  BY <2>1, <2>2 DEF T
<1> QED  BY <1>3

\* The totals of the model's property.
LEMMA OwnTotals ==
  ASSUME TreeInv, got \in Receipts, OwnInv
  PROVE  TotalsRight
<1>1. PICK t, g : t = tree /\ g = got
  OBVIOUS
<1>2. t \in Trees /\ Grown(t) /\ g \in Receipts /\ DOMAIN t \subseteq Nodes
  BY <1>1 DEF TreeInv, Trees
<1>3. /\ SharesRight(t)
      /\ \A n \in DOMAIN t : Shows(t[n], g[n])
  BY <1>1 DEF OwnInv
<1>4. \A n \in DOMAIN t : \A f \in Fields : g[n].val[f] \in Int
  BY <1>2 DEF Receipts, Payload, Values
<1>5. ASSUME NEW n \in DOMAIN t PROVE t[n].cc = g[n].cc
  BY <1>3 DEF Shows
<1>6. ASSUME NEW n \in DOMAIN t, NEW f \in Static \cup Accumulated
      PROVE  t[n].all[f] = g[n].val[f]
  <2>1. f \in Fields /\ Share(t[n], f) = 0
    BY StoreConstants DEF Share, PassedOn
  <2>2. t[n].all[f] = g[n].val[f] + 0
    BY <1>3, <2>1 DEF Shows
  <2> QED  BY <1>4, <2>1, <2>2
<1>7. ASSUME NEW n \in DOMAIN t, NEW f \in Fields \ (Static \cup Accumulated)
      PROVE  t[n].all[f] = SumFunctionOnSet([m \in Under(t, n) |-> g[m].val[f]], Under(t, n))
  <2>1. PICK own : own = [m \in DOMAIN t |-> g[m].val[f]]
    OBVIOUS
  <2>2. \A m \in DOMAIN t : own[m] = g[m].val[f] /\ own[m] \in Int
    BY <1>4, <2>1
  <2>3. ASSUME NEW m \in DOMAIN t PROVE t[m].all[f] = own[m] + ChildSum(t, m, f)
    <3>1. Share(t[m], f) = t[m].cld[f]
      BY <1>7 DEF Share, PassedOn
    <3>2. t[m].cld[f] = ChildSum(t, m, f)
      BY <1>3, <1>7 DEF SharesRight
    <3>3. t[m].all[f] = g[m].val[f] + Share(t[m], f)
      BY <1>3, <1>7 DEF Shows
    <3> QED  BY <2>2, <3>1, <3>2, <3>3
  <2>4. t[n].all[f] = SumFunctionOnSet(own, Under(t, n))
    BY <1>2, <1>7, <2>2, <2>3, TotalsAdd
  <2>5. PICK U, fun : U = Under(t, n) /\ fun = [m \in U |-> g[m].val[f]]
    OBVIOUS
  <2>6. IsFiniteSet(U) /\ U \subseteq DOMAIN t
    BY <1>2, <2>5, ChildrenFinite DEF Under
  <2>7. SumFunctionOnSet(fun, U) = SumFunctionOnSet(own, U)
    BY <2>2, <2>5, <2>6, SumEqual
  <2> QED  BY <2>4, <2>5, <2>7
<1>8. ASSUME NEW n \in DOMAIN t, NEW f \in Fields \ Static
      PROVE  LET kids == {c \in DOMAIN t : t[c].parent = n}
             IN  t[n].cld[f] = SumFunctionOnSet([c \in kids |-> t[c].all[f]], kids)
  <2>1. {c \in DOMAIN t : t[c].parent = n} = t[n].children
    <3>1. ASSUME NEW c \in DOMAIN t, t[c].parent = n PROVE c \in t[n].children
      <4>1. c # Root
        BY <1>2, <3>1 DEF Grown, Rising, Root, Nodes
      <4> QED  BY <1>2, <3>1, <4>1 DEF Grown
    <3> QED  BY <1>2, <3>1 DEF Grown
  <2>2. t[n].cld[f] = ChildSum(t, n, f)
    BY <1>3 DEF SharesRight
  <2> QED  BY <2>1, <2>2, Zenon DEF ChildSum
<1>9. \A n \in DOMAIN t : Below(n) = Under(t, n)
  BY <1>1 DEF Below, Under
<1> QED  BY <1>1, <1>5, <1>6, <1>7, <1>8, <1>9 DEF TotalsRight

(***************************************************************************)
(* Totals in the middle of a batch.                                        *)
(***************************************************************************)

Default(node) == [val |-> [f \in Fields |-> DefaultValue(node, f)], cc |-> 0]

\* What a dirty node shows once its temporary values are added.
Owes(node, part, sum) ==
  /\ node.cc + part.cc = sum.cc
  /\ \A f \in Fields : IF f \in Static THEN part.val[f] = sum.val[f]
                       ELSE node.all[f] + part.val[f] = sum.val[f] + Share(node, f)

\* A node has no record of this batch yet.
Fresh(w, n) == n \in w.dirty => w.temp[n] = Default(w.tree[n])

\* Nodes, dirty or not, agree with what was received.
Takes(w, g) ==
  /\ SharesRight(w.tree)
  /\ \A n \in DOMAIN w.tree : IF n \in w.dirty THEN Owes(w.tree[n], w.temp[n], g[n])
                              ELSE Shows(w.tree[n], g[n])
  /\ \A n \in Nodes \ DOMAIN w.tree : g[n] = Nothing

\* The children's share is a number.
LEMMA ShareNumbers ==
  ASSUME NEW node \in RecordNode
  PROVE  \A f \in Fields : /\ Share(node, f) \in Int /\ node.all[f] \in Int /\ node.cld[f] \in Int
                           /\ f \in Static => Share(node, f) = 0
BY DEF RecordNode, Values, Share, PassedOn

\* A node that shows its receipts owes nothing.
LEMMA ShowsOwes ==
  ASSUME NEW node \in RecordNode, NEW sum \in Payload, Shows(node, sum)
  PROVE  Owes(node, Default(node), sum)
<1>1. node.cc + 0 = sum.cc
  BY DEF Shows, RecordNode
<1>2. ASSUME NEW f \in Fields
      PROVE  IF f \in Static THEN DefaultValue(node, f) = sum.val[f]
             ELSE node.all[f] + DefaultValue(node, f) = sum.val[f] + Share(node, f)
  <2>1. node.all[f] = sum.val[f] + Share(node, f)
    BY DEF Shows
  <2>2. sum.val[f] \in Int
    BY DEF Payload, Values
  <2>3. node.all[f] \in Int /\ (f \in Static => Share(node, f) = 0)
    BY ShareNumbers
  <2>4. CASE f \in Static
    BY <2>1, <2>2, <2>3, <2>4 DEF DefaultValue
  <2>5. CASE f \notin Static
    BY <2>1, <2>3, <2>5 DEF DefaultValue
  <2> QED  BY <2>4, <2>5
<1> QED  BY <1>1, <1>2 DEF Owes, Default

\* A record makes a node owe its values.
LEMMA OwesMore ==
  ASSUME NEW node \in RecordNode, NEW sum \in Payload, NEW rec \in Records,
         Owes(node, Default(node), sum)
  PROVE  Owes(node, [val |-> rec.val, cc |-> rec.cc], Received(sum, rec))
<1>1. /\ rec.cc \in Nat /\ sum.cc \in Nat /\ node.cc \in Nat
      /\ node.cc + 0 = sum.cc
  BY DEF Owes, Default, Records, Payload, RecordNode
<1>2. ASSUME NEW f \in Fields
      PROVE  IF f \in Static THEN rec.val[f] = Received(sum, rec).val[f]
             ELSE node.all[f] + rec.val[f] = Received(sum, rec).val[f] + Share(node, f)
  <2>1. CASE f \in Static
    BY <2>1 DEF Received
  <2>2. CASE f \notin Static
    <3>1. node.all[f] + 0 = sum.val[f] + Share(node, f)
      BY <2>2 DEF Owes, Default, DefaultValue
    <3>2. sum.val[f] \in Int /\ rec.val[f] \in Int
      BY DEF Payload, Values, Records
    <3>3. node.all[f] \in Int /\ Share(node, f) \in Int
      BY ShareNumbers
    <3>4. Received(sum, rec).val[f] = sum.val[f] + rec.val[f]
      BY <2>2 DEF Received
    <3>5. PICK a, b, c, d : a = node.all[f] /\ b = rec.val[f] /\ c = sum.val[f] /\ d = Share(node, f)
      OBVIOUS
    <3>6. a + b = c + b + d
      BY <3>1, <3>2, <3>3, <3>5
    <3> QED  BY <2>2, <3>4, <3>5, <3>6
  <2> QED  BY <2>1, <2>2
<1>3. node.cc + rec.cc = Received(sum, rec).cc
  BY <1>1 DEF Received
<1> QED  BY <1>2, <1>3 DEF Owes

\* A new node shows that it received nothing.
LEMMA NewShows == ASSUME NEW p PROVE Shows(NewNode(p), Nothing)
<1>1. ASSUME NEW f \in Fields PROVE NewNode(p).all[f] = Nothing.val[f] + Share(NewNode(p), f)
  <2>1. NewNode(p).all[f] = 0 /\ NewNode(p).cld[f] = 0 /\ Nothing.val[f] = 0
    BY DEF NewNode, Nothing, Blank
  <2> QED  BY <2>1 DEF Share
<1> QED  BY <1>1 DEF Shows, NewNode, Nothing

\* Marking dirty leaves the accounts alone, and the nodes without a record.
LEMMA MarkTakes ==
  ASSUME shape \in Shapes, NEW w \in Stores, Shaped(w.tree), NEW g \in Receipts, Takes(w, g),
         NEW n \in Nodes
  PROVE  /\ Takes(MarkNodeDirty(w, n), g)
         /\ \A m \in Nodes : Fresh(w, m) => Fresh(MarkNodeDirty(w, n), m)
<1>1. PICK v, new : v = MarkNodeDirty(w, n) /\ new = NewlyDirty(w, n)
  OBVIOUS
<1>2. /\ v.tree = w.tree /\ v.dirty = w.dirty \cup new
      /\ \A m \in Nodes \ new : v.temp[m] = w.temp[m]
      /\ \A m \in new : v.temp[m] = Default(w.tree[m])
      /\ new \subseteq DOMAIN w.tree \ w.dirty
  BY <1>1, MarkFacts DEF Default
<1>3. /\ DOMAIN w.tree \subseteq Nodes
      /\ \A m \in DOMAIN w.tree : w.tree[m] \in RecordNode /\ g[m] \in Payload
  <2>1. w.tree \in Trees
    BY DEF Stores
  <2>2. DOMAIN w.tree \subseteq Nodes /\ \A m \in DOMAIN w.tree : w.tree[m] \in RecordNode
    BY <2>1 DEF Trees
  <2> QED  BY <2>2 DEF Receipts
<1>4. ASSUME NEW m \in DOMAIN w.tree
      PROVE  IF m \in v.dirty THEN Owes(w.tree[m], v.temp[m], g[m]) ELSE Shows(w.tree[m], g[m])
  <2>1. CASE m \in new
    <3>1. Shows(w.tree[m], g[m])
      BY <1>2, <2>1 DEF Takes
    <3>2. Owes(w.tree[m], Default(w.tree[m]), g[m])
      BY <1>3, <3>1, ShowsOwes
    <3> QED  BY <1>2, <2>1, <3>2
  <2>2. CASE m \notin new
    BY <1>2, <1>3, <2>2 DEF Takes
  <2> QED  BY <2>1, <2>2
<1>5. Takes(v, g)
  BY <1>2, <1>4 DEF Takes
<1>6. \A m \in Nodes : Fresh(w, m) => Fresh(v, m)
  BY <1>2 DEF Fresh
<1> QED  BY <1>1, <1>5, <1>6

\* What a node shows depends on its values only.
Alike(a, b) == a.all = b.all /\ a.cld = b.cld /\ a.cc = b.cc

\* Accounts depend on the values of a node only.
LEMMA AlikeFacts ==
  ASSUME NEW a, NEW b, Alike(a, b)
  PROVE  /\ \A sum : Shows(a, sum) => Shows(b, sum)
         /\ \A part, sum : Owes(a, part, sum) => Owes(b, part, sum)
         /\ Default(a) = Default(b)
<1>1. a.all = b.all /\ a.cld = b.cld /\ a.cc = b.cc
  BY DEF Alike
<1>2. \A f : Share(a, f) = Share(b, f)
  BY <1>1 DEF Share
<1>3. \A f : DefaultValue(a, f) = DefaultValue(b, f)
  BY <1>1 DEF DefaultValue
<1> QED  BY <1>1, <1>2, <1>3, Zenon DEF Shows, Owes, Default

\* A new node adds nothing to its parent's share.
LEMMA EnteredShares ==
  ASSUME NEW t \in Trees, Grown(t), SharesRight(t), NEW n \in Nodes \ DOMAIN t, NEW p \in DOMAIN t,
         NEW u, Joined(t, n, p, u)
  PROVE  SharesRight(u) /\ \A m \in DOMAIN t : Alike(t[m], u[m])
<1>1. /\ DOMAIN u = DOMAIN t \cup {n} /\ u[n] = NewNode(p)
      /\ \A m \in DOMAIN t : u[m] = [t[m] EXCEPT !.children = IF m = p THEN @ \cup {n} ELSE @]
  BY DEF Joined
<1>2. \A m \in DOMAIN t : t[m] \in RecordNode
  BY DEF Trees
<1>3. \A m \in DOMAIN t : /\ u[m].all = t[m].all /\ u[m].cld = t[m].cld /\ u[m].cc = t[m].cc
                          /\ m # p => u[m].children = t[m].children
                          /\ m = p => u[m].children = t[m].children \cup {n}
  BY <1>1, <1>2 DEF RecordNode
<1>4. \A m \in DOMAIN t : t[m].children \subseteq DOMAIN t /\ IsFiniteSet(t[m].children)
  BY ChildrenFinite DEF Grown
<1>5. ASSUME NEW m \in DOMAIN u, NEW f \in Fields \ Static PROVE u[m].cld[f] = ChildSum(u, m, f)
  <2>1. CASE m = n
    <3>1. u[n].children = {} /\ u[n].cld[f] = 0
      BY <1>1 DEF NewNode, Blank
    <3>2. \A fun : SumFunctionOnSet(fun, {}) = 0
      BY FS_EmptySet, SumFacts
    <3>3. ChildSum(u, n, f) = 0
      BY <3>1, <3>2 DEF ChildSum
    <3> QED  BY <2>1, <3>1, <3>3
  <2>2. CASE m \in DOMAIN t
    <3>1. PICK J, K, r, fun : /\ J = t[m].children /\ r = [c \in J |-> t[c].all[f]]
                              /\ K = u[m].children /\ fun = [c \in K |-> u[c].all[f]]
      OBVIOUS
    <3>2. IsFiniteSet(J) /\ J \subseteq DOMAIN t /\ J \subseteq K /\ K \subseteq J \cup {n}
      BY <1>3, <1>4, <2>2, <3>1
    <3>3. \A c \in J : r[c] \in Int /\ fun[c] = r[c]
      <4>1. ASSUME NEW c \in J PROVE r[c] \in Int /\ fun[c] = r[c]
        <5>1. c \in DOMAIN t /\ t[c].all[f] \in Int
          BY <1>2, <3>2 DEF RecordNode, Values
        <5> QED  BY <1>3, <3>1, <3>2, <5>1
      <4> QED  BY <4>1
    <3>4. \A c \in K \ J : fun[c] = 0
      <4>1. u[n].all[f] = 0
        BY <1>1 DEF NewNode, Blank
      <4> QED  BY <3>1, <3>2, <4>1
    <3>5. IsFiniteSet(K)
      <4>1. IsFiniteSet(J \cup {n})
        BY <3>2, FS_AddElement
      <4> QED  BY <3>2, <4>1, FS_Subset
    <3>6. SumFunctionOnSet(fun, K) = SumFunctionOnSet(r, J)
      BY <3>2, <3>3, <3>4, <3>5, SumSame
    <3>7. ChildSum(u, m, f) = SumFunctionOnSet(fun, K) /\ ChildSum(t, m, f) = SumFunctionOnSet(r, J)
      BY <3>1, Zenon DEF ChildSum
    <3>8. t[m].cld[f] = ChildSum(t, m, f)
      BY <2>2 DEF SharesRight
    <3> QED  BY <1>3, <2>2, <3>6, <3>7, <3>8
  <2> QED  BY <1>1, <2>1, <2>2
<1> QED  BY <1>3, <1>5 DEF SharesRight, Alike

\* Adding the node of a record leaves the accounts alone, too.
LEMMA EnteredTakes ==
  ASSUME shape \in Shapes, NEW w, Working(w), NEW rec \in Records, rec.node # Root,
         shape[rec.node] \in DOMAIN w.tree, NEW g \in Receipts, Takes(w, g)
  PROVE  /\ Takes(Entered(w, rec), g)
         /\ \A m \in Nodes : Fresh(w, m) => Fresh(Entered(w, rec), m)
<1>1. CASE rec.node \in DOMAIN w.tree
  <2>1. Entered(w, rec) = w
    BY <1>1 DEF Entered
  <2> QED  BY <2>1
<1>2. CASE rec.node \notin DOMAIN w.tree
  <2>1. PICK n, p, t, u, e :
          /\ n = rec.node /\ p = shape[n] /\ t = w.tree /\ u = AddNode(t, n, p)
          /\ e = Entered(w, rec)
    OBVIOUS
  <2>2. t \in Trees /\ Grown(t) /\ n \in Nodes \ DOMAIN t /\ p \in DOMAIN t
    BY <1>2, <2>1 DEF Working, Stores, Records
  <2>3. p \in 0 .. n - 1
    BY <2>1, <2>2, ShapesRise
  <2>4. Joined(t, n, p, u)
    BY <2>1, <2>2, <2>3, AddNodeFacts
  <2>5. SharesRight(u) /\ \A m \in DOMAIN t : Alike(t[m], u[m])
    <3>1. SharesRight(t)
      BY <2>1 DEF Takes
    <3> QED  BY <2>2, <2>4, <3>1, EnteredShares
  <2>6. DOMAIN u = DOMAIN t \cup {n} /\ u[n] = NewNode(p)
    BY <2>4 DEF Joined
  <2>7. e.tree = u /\ e.dirty = w.dirty /\ e.temp = w.temp
    <3>1. w \in Stores /\ Shaped(w.tree)
      BY DEF Working
    <3>2. /\ Entered(w, rec).dirty = w.dirty /\ Entered(w, rec).temp = w.temp
          /\ rec.node \notin DOMAIN w.tree =>
               Entered(w, rec).tree = AddNode(w.tree, rec.node, shape[rec.node])
      BY <3>1, EnteredFacts
    <3> QED  BY <1>2, <2>1, <3>2
  <2>8. w.dirty \subseteq DOMAIN t
    BY <2>1 DEF Working, Upward
  <2>9. ASSUME NEW m \in DOMAIN u
        PROVE  IF m \in w.dirty THEN Owes(u[m], w.temp[m], g[m]) ELSE Shows(u[m], g[m])
    <3>1. CASE m = n
      <4>1. g[n] = Nothing
        BY <2>1, <2>2 DEF Takes
      <4>2. Shows(u[n], g[n])
        BY <2>6, <4>1, NewShows
      <4> QED  BY <2>2, <2>8, <3>1, <4>2
    <3>2. CASE m \in DOMAIN t
      <4>1. IF m \in w.dirty THEN Owes(t[m], w.temp[m], g[m]) ELSE Shows(t[m], g[m])
        BY <2>1, <3>2 DEF Takes
      <4>2. Alike(t[m], u[m])
        BY <2>5, <3>2
      <4> QED  BY <4>1, <4>2, AlikeFacts
    <3> QED  BY <2>6, <3>1, <3>2
  <2>10. Takes(e, g)
    BY <2>1, <2>5, <2>6, <2>7, <2>9 DEF Takes
  <2>11. ASSUME NEW m \in Nodes, Fresh(w, m) PROVE Fresh(e, m)
    <3>1. SUFFICES ASSUME m \in w.dirty PROVE w.temp[m] = Default(u[m])
      BY <2>7 DEF Fresh
    <3>2. w.temp[m] = Default(t[m])
      BY <2>1, <2>11, <3>1 DEF Fresh
    <3>3. Alike(t[m], u[m])
      BY <2>5, <2>8, <3>1
    <3> QED  BY <3>2, <3>3, AlikeFacts
  <2> QED  BY <2>1, <2>10, <2>11
<1> QED  BY <1>1, <1>2

\* A record counts for its node, unless the batch has one already.
LEMMA AddRecordTakes ==
  ASSUME shape \in Shapes, NEW w, Working(w), NEW rec \in Records, rec.node # Root,
         shape[rec.node] \in DOMAIN w.tree, NEW g \in Receipts, Takes(w, g), Fresh(w, rec.node)
  PROVE  /\ Takes(AddRecord(w, rec), Receipt(g, rec))
         /\ \A m \in Nodes \ {rec.node} : Fresh(w, m) => Fresh(AddRecord(w, rec), m)
<1>1. PICK e, n : e = Entered(w, rec) /\ n = rec.node
  OBVIOUS
<1>2. e \in Stores /\ Shaped(e.tree) /\ DOMAIN e.tree = DOMAIN w.tree \cup {n} /\ n \in Nodes
  <2>1. w \in Stores /\ Shaped(w.tree)
    BY DEF Working
  <2> QED  BY <1>1, <2>1, EnteredFacts DEF Records
<1>3. Takes(e, g) /\ \A m \in Nodes : Fresh(w, m) => Fresh(e, m)
  BY <1>1, EnteredTakes
<1>4. PICK v : v = MarkNodeDirty(e, n)
  OBVIOUS
<1>5. Takes(v, g) /\ \A m \in Nodes : Fresh(w, m) => Fresh(v, m)
  BY <1>2, <1>3, <1>4, MarkTakes
<1>6. v \in Stores /\ v.tree = e.tree /\ v.dirty = e.dirty \cup NewlyDirty(e, n)
  BY <1>2, <1>4, MarkFacts
<1>7. PICK a : a = AddRecord(w, rec)
  OBVIOUS
<1>8. /\ a.tree = v.tree /\ a.dirty = v.dirty
      /\ a.temp[n] = [val |-> rec.val, cc |-> rec.cc]
      /\ \A m \in Nodes \ {n} : a.temp[m] = v.temp[m]
  <2>1. w \in Stores /\ Shaped(w.tree)
    BY DEF Working
  <2>2. /\ AddRecord(w, rec).tree = Entered(w, rec).tree
        /\ AddRecord(w, rec).dirty = w.dirty \cup NewlyDirty(Entered(w, rec), rec.node)
        /\ AddRecord(w, rec).temp[rec.node] = [val |-> rec.val, cc |-> rec.cc]
        /\ \A m \in Nodes \ {rec.node} :
             AddRecord(w, rec).temp[m] = MarkNodeDirty(Entered(w, rec), rec.node).temp[m]
    BY <2>1, AddRecordFacts
  <2>3. e.dirty = w.dirty
    BY <1>1, <2>1, EnteredFacts
  <2> QED  BY <1>1, <1>4, <1>6, <1>7, <2>2, <2>3
<1>9. n \in v.dirty
  <2>1. Working(AddRecord(w, rec))
    BY AddRecordWorks
  <2>2. Upward(e.tree, w.dirty)
    BY <1>1, EnteredGrows DEF Working
  <2>3. Grown(e.tree)
    BY <1>1, EnteredGrows DEF Working
  <2>4. e.dirty = w.dirty
    BY <1>1, EnteredFacts DEF Working
  <2>5. n \in 0 .. MaxNode
    BY <1>2 DEF Nodes
  <2>6. n \in w.dirty \cup Ascent(e.tree, n, w.dirty)
    BY <1>2, <2>2, <2>3, <2>5, AscentCloses
  <2> QED  BY <1>6, <2>4, <2>6 DEF NewlyDirty
<1>10. /\ Receipt(g, rec)[n] = Received(g[n], rec)
       /\ \A m \in Nodes \ {n} : Receipt(g, rec)[m] = g[m]
  BY <1>1, ReceiptFacts
<1>11. /\ DOMAIN v.tree \subseteq Nodes /\ n \in DOMAIN v.tree
       /\ v.tree[n] \in RecordNode /\ g[n] \in Payload
  <2>1. v.tree \in Trees
    BY <1>6 DEF Stores
  <2> QED  BY <1>2, <1>6, <2>1 DEF Trees, Receipts
<1>12. ASSUME NEW m \in DOMAIN v.tree
       PROVE  IF m \in v.dirty THEN Owes(v.tree[m], a.temp[m], Receipt(g, rec)[m])
              ELSE Shows(v.tree[m], Receipt(g, rec)[m])
  <2>1. CASE m = n
    <3>1. Owes(v.tree[n], v.temp[n], g[n])
      BY <1>5, <1>9, <1>11 DEF Takes
    <3>2. v.temp[n] = Default(v.tree[n])
      <4>1. Fresh(v, n)
        BY <1>1, <1>2, <1>5
      <4> QED  BY <1>9, <4>1 DEF Fresh
    <3>3. Owes(v.tree[n], Default(v.tree[n]), g[n])
      BY <3>1, <3>2
    <3>4. Owes(v.tree[n], [val |-> rec.val, cc |-> rec.cc], Received(g[n], rec))
      BY <1>11, <3>3, OwesMore
    <3> QED  BY <1>8, <1>9, <1>10, <2>1, <3>4
  <2>2. CASE m # n
    <3>1. m \in Nodes \ {n}
      BY <1>11, <2>2
    <3>2. a.temp[m] = v.temp[m] /\ Receipt(g, rec)[m] = g[m]
      BY <1>8, <1>10, <3>1
    <3>3. IF m \in v.dirty THEN Owes(v.tree[m], v.temp[m], g[m]) ELSE Shows(v.tree[m], g[m])
      BY <1>5 DEF Takes
    <3> QED  BY <3>2, <3>3
  <2> QED  BY <2>1, <2>2
<1>13. \A m \in Nodes \ DOMAIN v.tree : Receipt(g, rec)[m] = Nothing
  BY <1>5, <1>10, <1>11 DEF Takes
<1>14. Takes(a, Receipt(g, rec))
  <2>1. SharesRight(v.tree)
    BY <1>5 DEF Takes
  <2> QED  BY <1>8, <1>12, <1>13, <2>1 DEF Takes
<1>15. \A m \in Nodes \ {n} : Fresh(w, m) => Fresh(a, m)
  BY <1>5, <1>8 DEF Fresh
<1> QED  BY <1>1, <1>7, <1>14, <1>15

(***************************************************************************)
(* Totals at the end of a batch.                                           *)
(***************************************************************************)

\* At the end of a batch, what is pending is what the accounts are ahead.
LEMMA BatchTakes ==
  ASSUME TreeInv, got \in Receipts, OwnInv, NEW order, NEW batch, Sends(order, batch),
         NEW run \in Nodes
  PROVE  Takes(Ended(batch, run), Receipted(got, batch))
<1>L. Len(batch) \in Nat /\ batch \in Seq(Records) /\ shape \in Shapes
  BY DEF Sends, TreeInv
<1>1. PICK w : w = [tree |-> tree, dirty |-> dirty, temp |-> temp]
  OBVIOUS
<1>2. w.tree = tree /\ w.dirty = {} /\ w \in Stores
  BY <1>1 DEF TreeInv, NothingLeftDirty, Stores
<1>3. Working(w)
  <2>1. Upward(tree, {})
    BY DEF Upward
  <2> QED  BY <1>2, <2>1 DEF Working, TreeInv
<1>4. Takes(w, got) /\ \A m \in Nodes : Fresh(w, m)
  BY <1>2 DEF Takes, OwnInv, Fresh
<1>5. PICK w0 : w0 = MarkNodeDirty(w, run)
  OBVIOUS
<1>6. Working(w0) /\ w0.tree = tree
  BY <1>2, <1>3, <1>5, <1>L, MarkWorks
<1>7. Takes(w0, got) /\ \A m \in Nodes : Fresh(w0, m)
  <2>1. Shaped(w.tree)
    BY <1>3 DEF Working
  <2> QED  BY <1>2, <1>4, <1>5, <1>L, <2>1, MarkTakes
<1>8. PICK ws \in [0 .. Len(batch) -> Fit] :
           /\ ws[0] = w0
           /\ \A k \in 1 .. Len(batch) : ws[k] = AddRecord(ws[k - 1], batch[k])
           /\ FoldLeft(AddRecord, w0, batch) = ws[Len(batch)]
  <2>1. w0 \in Fit
    BY <1>6 DEF Working, Fit
  <2> QED  BY <1>L, <2>1, BatchFolds
<1>9. PICK gs \in [0 .. Len(batch) -> Receipts] :
           /\ gs[0] = got
           /\ \A k \in 1 .. Len(batch) : gs[k] = Receipt(gs[k - 1], batch[k])
           /\ Receipted(got, batch) = gs[Len(batch)]
  BY <1>L, ReceiptFolds
<1>10. \A k \in 1 .. Len(batch) :
         /\ batch[k] \in Records /\ batch[k].node \in Nodes /\ batch[k].node # Root
         /\ shape[batch[k].node] \in DOMAIN tree \cup {batch[j].node : j \in 1 .. k - 1}
         /\ \A j \in 1 .. Len(batch) : batch[j].node = batch[k].node => j = k
  <2> TAKE k \in 1 .. Len(batch)
  <2>1. batch[k] \in Records
    BY <1>L
  <2>2. batch[k].node \in Nodes
    BY <2>1 DEF Records
  <2>3. /\ batch[k].node # Root
        /\ shape[batch[k].node] \in DOMAIN tree \cup {batch[j].node : j \in 1 .. k - 1}
    BY Zenon DEF Sends
  <2>4. \A j \in 1 .. Len(batch) : batch[j].node = batch[k].node => j = k
    BY Zenon DEF Sends
  <2> QED  BY <2>1, <2>2, <2>3, <2>4
<1> DEFINE Good(k) ==
             /\ Working(ws[k]) /\ Takes(ws[k], gs[k])
             /\ \A j \in 1 .. k : batch[j].node \in DOMAIN ws[k].tree
             /\ \A j \in k + 1 .. Len(batch) : Fresh(ws[k], batch[j].node)
           T == {k \in 0 .. Len(batch) : Good(k)}
<1>11. 0 \in T
  <2>1. \A j \in 0 + 1 .. Len(batch) : Fresh(ws[0], batch[j].node)
    BY <1>7, <1>8, <1>10
  <2> QED  BY <1>L, <1>6, <1>7, <1>8, <1>9, <2>1
<1>12. ASSUME NEW k \in 1 .. Len(batch), k - 1 \in T PROVE k \in T
  <2>1. PICK v, g, rec : v = ws[k - 1] /\ g = gs[k - 1] /\ rec = batch[k]
    OBVIOUS
  <2>2. /\ Working(v) /\ Takes(v, g) /\ g \in Receipts
        /\ \A j \in 1 .. k - 1 : batch[j].node \in DOMAIN v.tree
    BY <1>L, <1>12, <2>1
  <2>3. \A j \in k .. Len(batch) : Fresh(v, batch[j].node)
    <3>1. k - 1 + 1 = k
      BY <1>L
    <3> QED  BY <1>12, <2>1, <3>1
  <2>4. rec \in Records /\ rec.node # Root /\ Fresh(v, rec.node)
    BY <1>L, <1>10, <2>1, <2>3
  <2>5. shape[rec.node] \in DOMAIN v.tree
    <3>1. DOMAIN tree \subseteq DOMAIN v.tree
      BY <2>2 DEF Working
    <3> QED  BY <1>10, <2>1, <2>2, <3>1
  <2>6. PICK a, h : a = AddRecord(v, rec) /\ h = Receipt(g, rec)
    OBVIOUS
  <2>7. ws[k] = a /\ gs[k] = h
    BY <1>8, <1>9, <2>1, <2>6
  <2>8. Working(a) /\ DOMAIN a.tree = DOMAIN v.tree \cup {rec.node}
    BY <1>L, <2>2, <2>4, <2>5, <2>6, AddRecordWorks
  <2>9. Takes(a, h) /\ \A m \in Nodes \ {rec.node} : Fresh(v, m) => Fresh(a, m)
    BY <1>L, <2>2, <2>4, <2>5, <2>6, AddRecordTakes
  <2>10. \A j \in 1 .. k : batch[j].node \in DOMAIN a.tree
    <3>1. \A j \in 1 .. k : j = k \/ j \in 1 .. k - 1
      BY <1>L
    <3> QED  BY <2>1, <2>2, <2>8, <3>1
  <2>11. \A j \in k + 1 .. Len(batch) : Fresh(a, batch[j].node)
    <3>1. ASSUME NEW j \in k + 1 .. Len(batch) PROVE Fresh(a, batch[j].node)
      <4>1. j \in k .. Len(batch) /\ j \in 1 .. Len(batch) /\ j # k
        BY <1>L
      <4>2. batch[j].node \in Nodes \ {rec.node}
        BY <1>10, <2>1, <4>1
      <4> QED  BY <2>3, <2>9, <4>1, <4>2
    <3> QED  BY <3>1
  <2> QED  BY <1>12, <2>7, <2>8, <2>9, <2>10, <2>11
<1> HIDE DEF T
<1>13. 0 .. Len(batch) \subseteq T
  BY <1>L, <1>11, <1>12, Induction
<1>14. Takes(ws[Len(batch)], gs[Len(batch)])
  <2>1. Len(batch) \in T
    BY <1>L, <1>13
  <2> QED  BY <2>1 DEF T
<1>15. Ended(batch, run) = ws[Len(batch)]
  BY <1>1, <1>5, <1>8 DEF Ended
<1> QED  BY <1>9, <1>14, <1>15

\* What the dirty children of a node hand over.
Handed(w, n, f) ==
  SumFunctionOnSet([c \in DirtyChildren(w, n) |-> RolledUp(w)[c][f]], DirtyChildren(w, n))

\* What the children hand to a node.
LEMMA HandedFacts ==
  ASSUME NEW w, Working(w), NEW n \in DOMAIN w.tree, NEW f \in Fields
  PROVE  /\ Handed(w, n, f) \in Int
         /\ RolledUp(w)[n][f] = w.temp[n].val[f] + IF PassedOn(f) THEN Handed(w, n, f) ELSE 0
         /\ FromChildren(w, RolledUp(w), n)[f] = IF f \in Static THEN 0 ELSE Handed(w, n, f)
         /\ w.temp[n].val[f] \in Int /\ RolledUp(w)[n][f] \in Int
         /\ DirtyChildren(w, n) = {} => Handed(w, n, f) = 0
<1>1. PICK roll, D, fun : /\ roll = RolledUp(w) /\ D = DirtyChildren(w, n)
                          /\ fun = [c \in D |-> roll[c][f]]
  OBVIOUS
<1>2. WellRolled(w, DOMAIN w.tree, roll)
  BY <1>1, RolledUpFacts
<1>3. \A m \in DOMAIN w.tree : roll[m] \in Values /\ roll[m] = Rolled(w, roll, m)
  BY <1>2 DEF WellRolled, Rolling
<1>4. \A c \in D : fun[c] \in Int
  BY <1>1, <1>3, ChildrenLater DEF Values
<1>5. IsFiniteSet(D)
  <2>1. IsFiniteSet(w.tree[n].children)
    BY ChildrenFinite DEF Working
  <2> QED  BY <1>1, <2>1, FS_Subset DEF DirtyChildren
<1>6. Handed(w, n, f) = SumFunctionOnSet(fun, D)
  BY <1>1 DEF Handed
<1>7. Handed(w, n, f) \in Int /\ (D = {} => Handed(w, n, f) = 0)
  BY <1>4, <1>5, <1>6, SumFacts
<1>8. roll[n][f] = w.temp[n].val[f] + IF PassedOn(f) THEN Handed(w, n, f) ELSE 0
  <2>1. Passed(w, roll, n, f) = IF PassedOn(f) THEN Handed(w, n, f) ELSE 0
    BY <1>1, Zenon DEF Passed, Handed
  <2>2. roll[n][f] = w.temp[n].val[f] + Passed(w, roll, n, f)
    BY <1>3 DEF Rolled
  <2> QED  BY <2>1, <2>2
<1>9. FromChildren(w, roll, n)[f] = IF f \in Static THEN 0 ELSE Handed(w, n, f)
  <2>1. FromChildren(w, roll, n) =
          [ff \in Fields |-> IF ff \in Static THEN 0 ELSE Handed(w, n, ff)]
    BY <1>1, Zenon DEF FromChildren, Handed
  <2> QED  BY <2>1
<1>10. w.temp[n].val[f] \in Int
  <2>1. n \in Nodes
    BY DEF Working, Grown, Rising
  <2> QED  BY <2>1 DEF Working, Stores, Payload, Values
<1> QED  BY <1>1, <1>3, <1>7, <1>8, <1>9, <1>10 DEF Values

\* After the descent, each node has the share of its children again.
LEMMA EndsShares ==
  ASSUME NEW w, Working(w), SharesRight(w.tree), NEW u, u = Ends(w, RolledUp(w))
  PROVE  SharesRight(u)
<1>1. PICK t, roll : t = w.tree /\ roll = RolledUp(w)
  OBVIOUS
<1>2. /\ DOMAIN u = DOMAIN t
      /\ \A n \in DOMAIN t : u[n] = IF n \in w.dirty THEN Cleared(w, roll, n) ELSE t[n]
  BY <1>1, EndsFacts
<1>3. Grown(t) /\ Upward(t, w.dirty) /\ \A n \in DOMAIN t : t[n] \in RecordNode
  BY <1>1 DEF Working, Stores, Trees
<1>4. ASSUME NEW n \in DOMAIN t
      PROVE  /\ u[n].children = t[n].children
             /\ \A f \in Fields \ Static :
                  /\ u[n].all[f] = t[n].all[f] + IF n \in w.dirty THEN roll[n][f] ELSE 0
                  /\ u[n].cld[f] = t[n].cld[f] + IF n \in w.dirty THEN Handed(w, n, f) ELSE 0
  <2>1. CASE n \in w.dirty
    <3>1. /\ u[n].children = t[n].children
          /\ u[n].all = [f \in Fields |-> IF f \in Static THEN roll[n][f] ELSE t[n].all[f] + roll[n][f]]
          /\ u[n].cld = [f \in Fields |-> t[n].cld[f] + FromChildren(w, roll, n)[f]]
      BY <1>1, <1>2, <2>1, ClearedFacts
    <3>2. \A f \in Fields \ Static : FromChildren(w, roll, n)[f] = Handed(w, n, f)
      BY <1>1, HandedFacts
    <3> QED  BY <2>1, <3>1, <3>2
  <2>2. CASE n \notin w.dirty
    <3>1. u[n] = t[n]
      BY <1>2, <2>2
    <3>2. \A f \in Fields : t[n].all[f] \in Int /\ t[n].cld[f] \in Int
      BY <1>3 DEF RecordNode, Values
    <3> QED  BY <2>2, <3>1, <3>2
  <2> QED  BY <2>1, <2>2
<1>5. ASSUME NEW n \in DOMAIN t, NEW f \in Fields \ Static PROVE u[n].cld[f] = ChildSum(u, n, f)
  <2>1. PICK J, D, h, a, r : /\ J = t[n].children /\ D = DirtyChildren(w, n)
                             /\ h = [c \in J |-> u[c].all[f]] /\ a = [c \in J |-> t[c].all[f]]
                             /\ r = [c \in D |-> roll[c][f]]
    OBVIOUS
  <2>2. D = J \cap w.dirty /\ J \subseteq DOMAIN t /\ IsFiniteSet(J)
    BY <1>1, <1>3, <2>1, ChildrenFinite DEF DirtyChildren, Grown
  <2>3. \A c \in J : a[c] \in Int
    BY <1>3, <2>1, <2>2 DEF RecordNode, Values
  <2>4. \A c \in D : r[c] \in Int
    BY <1>1, <2>1, <2>2, HandedFacts
  <2>5. \A c \in J : h[c] = a[c] + IF c \in D THEN r[c] ELSE 0
    BY <1>4, <2>1, <2>2
  <2>6. SumFunctionOnSet(h, J) = SumFunctionOnSet(a, J) + SumFunctionOnSet(r, D)
    BY <2>2, <2>3, <2>4, <2>5, SumSplit
  <2>7. SumFunctionOnSet(a, J) = t[n].cld[f]
    <3>1. t[n].cld[f] = ChildSum(t, n, f)
      BY <1>1 DEF SharesRight
    <3> QED  BY <2>1, <3>1, Zenon DEF ChildSum
  <2>8. SumFunctionOnSet(r, D) = Handed(w, n, f)
    BY <1>1, <2>1, Zenon DEF Handed
  <2>9. ChildSum(u, n, f) = SumFunctionOnSet(h, J)
    BY <1>4, <2>1, Zenon DEF ChildSum
  <2>10. n \notin w.dirty => Handed(w, n, f) = 0
    <3>1. SUFFICES ASSUME n \notin w.dirty PROVE D = {}
      BY <1>1, <2>1, HandedFacts
    <3>2. ASSUME NEW c \in D PROVE FALSE
      <4>1. c \in w.dirty /\ t[c].parent = n
        BY <1>3, <2>1, <2>2 DEF Grown
      <4>2. c # Root
        <5>1. t[c].parent \in 0 .. c - 1 /\ n \in Nodes
          BY <1>3, <2>2 DEF Grown, Rising
        <5> QED  BY <4>1, <5>1 DEF Root, Nodes
      <4> QED  BY <1>3, <3>1, <4>1, <4>2 DEF Upward
    <3> QED  BY <3>2
  <2>11. u[n].cld[f] = t[n].cld[f] + Handed(w, n, f)
    BY <1>4, <2>10
  <2> QED  BY <2>6, <2>7, <2>8, <2>9, <2>11, Zenon
<1> QED  BY <1>2, <1>5 DEF SharesRight

\* And each node shows what was received for it.
LEMMA EndsShow ==
  ASSUME NEW w, Working(w), NEW g \in Receipts, Takes(w, g), NEW u, u = Ends(w, RolledUp(w)),
         NEW n \in DOMAIN w.tree
  PROVE  Shows(u[n], g[n])
<1>1. PICK t, roll, part : t = w.tree /\ roll = RolledUp(w) /\ part = w.temp[n]
  OBVIOUS
<1>2. u[n] = IF n \in w.dirty THEN Cleared(w, roll, n) ELSE t[n]
  BY <1>1, EndsFacts
<1>3. CASE n \notin w.dirty
  BY <1>1, <1>2, <1>3 DEF Takes
<1>4. CASE n \in w.dirty
  <2>1. /\ u[n].cc = t[n].cc + part.cc
        /\ u[n].all = [f \in Fields |-> IF f \in Static THEN roll[n][f] ELSE t[n].all[f] + roll[n][f]]
        /\ u[n].cld = [f \in Fields |-> t[n].cld[f] + FromChildren(w, roll, n)[f]]
    BY <1>1, <1>2, <1>4, ClearedFacts
  <2>2. Owes(t[n], part, g[n])
    BY <1>1, <1>4 DEF Takes
  <2>3. t[n] \in RecordNode /\ g[n] \in Payload
    BY <1>1 DEF Working, Stores, Trees, Receipts
  <2>4. ASSUME NEW f \in Fields PROVE u[n].all[f] = g[n].val[f] + Share(u[n], f)
    <3>1. PICK s : s = Handed(w, n, f)
      OBVIOUS
    <3>2. /\ s \in Int /\ part.val[f] \in Int
          /\ roll[n][f] = part.val[f] + IF PassedOn(f) THEN s ELSE 0
          /\ FromChildren(w, roll, n)[f] = IF f \in Static THEN 0 ELSE s
      BY <1>1, <3>1, HandedFacts
    <3>3. t[n].all[f] \in Int /\ t[n].cld[f] \in Int /\ g[n].val[f] \in Int
      BY <2>3 DEF RecordNode, Payload, Values
    <3>4. CASE f \in Static
      <4>1. Share(u[n], f) = 0 /\ ~PassedOn(f)
        BY <3>4 DEF Share, PassedOn
      <4>2. part.val[f] = g[n].val[f]
        BY <2>2, <3>4 DEF Owes
      <4>3. u[n].all[f] = roll[n][f]
        BY <2>1, <3>4
      <4> QED  BY <3>2, <3>3, <4>1, <4>2, <4>3
    <3>5. CASE f \notin Static
      <4>1. u[n].all[f] = t[n].all[f] + roll[n][f] /\ u[n].cld[f] = t[n].cld[f] + s
        BY <2>1, <3>2, <3>5
      <4>2. t[n].all[f] + part.val[f] = g[n].val[f] + Share(t[n], f)
        BY <2>2, <3>5 DEF Owes
      <4>3. CASE PassedOn(f)
        <5>1. Share(t[n], f) = t[n].cld[f] /\ Share(u[n], f) = t[n].cld[f] + s
          BY <4>1, <4>3 DEF Share
        <5> QED  BY <3>2, <3>3, <4>1, <4>2, <4>3, <5>1
      <4>4. CASE ~PassedOn(f)
        <5>1. Share(t[n], f) = 0 /\ Share(u[n], f) = 0
          BY <4>4 DEF Share
        <5> QED  BY <3>2, <3>3, <4>1, <4>2, <4>4, <5>1
      <4> QED  BY <4>3, <4>4
    <3> QED  BY <3>4, <3>5
  <2>5. u[n].cc = g[n].cc
    BY <2>1, <2>2 DEF Owes
  <2> QED  BY <2>4, <2>5 DEF Shows
<1> QED  BY <1>3, <1>4

\* The accounts, in every step.
LEMMA OwnStep == ASSUME TreeInv, got \in Receipts, OwnInv, [Next]_vars PROVE OwnInv'
<1>1. ASSUME NEW order \in Orders, NEW run \in Nodes, Fetch(order, run) PROVE OwnInv'
  <2>1. PICK batch : Sends(order, batch) /\ Store(batch, run, time + 1)
    BY <1>1, FetchSends
  <2>2. PICK w, g : w = Ended(batch, run) /\ g = Receipted(got, batch)
    OBVIOUS
  <2>3. Working(w) /\ tree' = Ends(w, RolledUp(w)) /\ got' = g
    BY <2>1, <2>2, StoreEnds
  <2>4. Takes(w, g)
    BY <2>1, <2>2, BatchTakes
  <2>5. g \in Receipts
    <3>1. batch \in Seq(Records)
      BY <2>1 DEF Sends
    <3>2. PICK gs \in [0 .. Len(batch) -> Receipts] : Receipted(got, batch) = gs[Len(batch)]
      BY <3>1, ReceiptFolds
    <3>3. Len(batch) \in 0 .. Len(batch)
      BY <3>1
    <3> QED  BY <2>2, <3>2, <3>3
  <2>6. PICK u : u = Ends(w, RolledUp(w))
    OBVIOUS
  <2>7. DOMAIN u = DOMAIN w.tree
    BY <2>3, <2>6, EndsFacts
  <2>8. SharesRight(u)
    <3>1. SharesRight(w.tree)
      BY <2>4 DEF Takes
    <3> QED  BY <2>3, <2>6, <3>1, EndsShares
  <2>9. \A n \in DOMAIN u : Shows(u[n], g[n])
    BY <2>3, <2>4, <2>5, <2>6, <2>7, EndsShow
  <2>10. \A n \in Nodes \ DOMAIN u : g[n] = Nothing
    BY <2>4, <2>7 DEF Takes
  <2>11. tree' = u /\ got' = g
    BY <2>3, <2>6
  <2>12. SharesRight(tree)'
    BY <2>8, <2>11 DEF SharesRight, ChildSum
  <2> QED  BY <2>9, <2>10, <2>11, <2>12 DEF OwnInv, Shows, Share
<1>2. ASSUME UNCHANGED <<tree, got>> PROVE OwnInv'
  BY <1>2 DEF OwnInv, SharesRight, ChildSum, Shows, Share
<1>F. CASE FetchBefore
  BY <1>2, <1>F DEF FetchBefore, storeVars
<1>3. CASE FailedFetch
  BY <1>2, <1>3 DEF FailedFetch, storeVars
<1>4. ASSUME NEW to, QueryDiff(to) PROVE OwnInv'
  BY <1>2, <1>4 DEF QueryDiff, storeVars
<1>5. CASE UNCHANGED vars
  BY <1>2, <1>5 DEF vars, storeVars
<1> QED  BY <1>1, <1>3, <1>4, <1>5, <1>F DEF Next, Orders

\* At first nothing was received.
LEMMA OwnInit == ASSUME Init PROVE OwnInv
<1>1. tree = [n \in {Root} |-> NewNode(0)] /\ got = [n \in Nodes |-> Nothing]
  BY DEF Init
<1>2. Root \in Nodes
  BY StoreConstants DEF Root, Nodes
<1>3. DOMAIN tree = {Root} /\ tree[Root] = NewNode(0) /\ got[Root] = Nothing
  BY <1>1, <1>2
<1>4. ASSUME NEW f \in Fields PROVE tree[Root].cld[f] = ChildSum(tree, Root, f)
  <2>1. tree[Root].children = {} /\ tree[Root].cld[f] = 0
    BY <1>3 DEF NewNode, Blank
  <2>2. \A fun : SumFunctionOnSet(fun, {}) = 0
    BY FS_EmptySet, SumFacts
  <2> QED  BY <2>1, <2>2 DEF ChildSum
<1> QED  BY <1>1, <1>3, <1>4, NewShows DEF OwnInv, SharesRight

(***************************************************************************)
(* The types of the rest.                                                  *)
(***************************************************************************)

Slice(s) ==
  /\ DOMAIN s.nodes \subseteq Nodes
  /\ \A n \in DOMAIN s.nodes : s.nodes[n] \in SliceNode
  /\ {s.now, s.run} \subseteq Nat

\* A query reaches one slice beyond the present at most.
SizeInv == slices # << >> => Len(slices) <= time - start + 2

HistoryInv ==
  /\ running \in 0 .. MaxNode /\ start \in Nat /\ recv \in BOOLEAN
  /\ SizeInv
  /\ \A i \in 1 .. Len(slices) : Slice(slices[i])
  /\ got \in Receipts
  /\ snap \in Seq(Trees)

\* An empty slice is one.
LEMMA EmptyIsSlice == Slice(EmptySlice)
BY DEF Slice, EmptySlice

\* The types and lengths of the rest, in every step.
LEMMA HistoryStep ==
  ASSUME SliceInv, TreeInv, HistoryInv, [Next]_vars
  PROVE  HistoryInv'
<1>N. time \in Nat /\ Len(slices) \in Nat /\ (slices # << >> => start \in 1 .. time)
  BY DEF SliceInv, VectorInv, StartInv
<1>1. ASSUME NEW order \in Orders, NEW run \in Nodes, Fetch(order, run) PROVE HistoryInv'
  <2>1. PICK batch : Sends(order, batch) /\ Store(batch, run, time + 1)
    BY <1>1, FetchSends
  <2>2. PICK w : w = Ended(batch, run)
    OBVIOUS
  <2>3. PICK files, new :
          /\ files = [n \in w.dirty |-> Filed(w, RolledUp(w), n)]
          /\ new = [nodes |-> files, now |-> time + 1, run |-> run]
    OBVIOUS
  <2>4. /\ Working(w) /\ running' = run /\ start' = StartTime(time + 1)
        /\ slices' = [Padded(slices, SliceIndex(time + 1)) EXCEPT ![SliceIndex(time + 1)] = new]
        /\ got' = Receipted(got, batch)
        /\ snap' = Append(snap, Ends(w, RolledUp(w)))
    BY <2>1, <2>2, <2>3, StoreEnds
  <2>5. time' = time + 1 /\ recv' = recv
    BY <1>1 DEF Fetch
  <2>6. PICK i, S :
          /\ i \in Nat \ {0}
          /\ i = (IF slices = << >> THEN 1 ELSE time + 1 - start + 1)
          /\ slices' \in Seq(S)
          /\ Len(slices') = IF i > Len(slices) THEN i ELSE Len(slices)
          /\ slices'[i] = new
          /\ \A j \in 1 .. Len(slices') :
               j # i => slices'[j] = IF j <= Len(slices) THEN slices[j] ELSE EmptySlice
    BY <2>4, FilingFacts
  <2>7. running' \in 0 .. MaxNode /\ start' \in Nat
    BY <1>N, <2>4 DEF Nodes, StartTime, HistoryInv
  <2>8. SizeInv'
    <3>1. CASE slices = << >>
      <4>1. Len(slices) = 0 /\ start' = time + 1
        BY <2>4, <3>1 DEF StartTime
      <4> QED  BY <1>N, <2>5, <2>6, <3>1, <4>1 DEF SizeInv
    <3>2. CASE slices # << >>
      <4>1. start' = start /\ Len(slices) <= time - start + 2 /\ i = time + 1 - start + 1
        BY <2>4, <2>6, <3>2 DEF StartTime, HistoryInv, SizeInv
      <4>2. start \in Nat /\ Len(slices') <= time + 1 - start + 2
        <5>1. start \in Nat
          BY <1>N, <3>2
        <5> QED  BY <1>N, <2>6, <4>1, <5>1
      <4> QED  BY <1>N, <2>5, <4>1, <4>2 DEF SizeInv
    <3> QED  BY <3>1, <3>2
  <2>9. Slice(new)
    <3>1. w.dirty \subseteq DOMAIN w.tree /\ w.dirty \subseteq Nodes
      BY <2>4 DEF Working, Stores, Upward
    <3>2. \A n \in w.dirty : Filed(w, RolledUp(w), n) \in SliceNode
      BY <2>4, <3>1, ClearedFacts
    <3>3. DOMAIN files = w.dirty /\ \A n \in DOMAIN files : files[n] \in SliceNode
      BY <2>3, <3>2
    <3>4. {time + 1, run} \subseteq Nat
      BY <1>N DEF Nodes
    <3>5. new.nodes = files /\ new.now = time + 1 /\ new.run = run
      BY <2>3
    <3> QED  BY <3>1, <3>3, <3>4, <3>5 DEF Slice
  <2>10. \A j \in 1 .. Len(slices') : Slice(slices'[j])
    <3>1. ASSUME NEW j \in 1 .. Len(slices') PROVE Slice(slices'[j])
      <4>1. CASE j = i
        BY <2>6, <2>9, <4>1
      <4>2. CASE j # i /\ j <= Len(slices)
        <5>1. j \in 1 .. Len(slices) /\ slices'[j] = slices[j]
          BY <1>N, <2>6, <4>2
        <5> QED  BY <5>1 DEF HistoryInv
      <4>3. CASE j # i /\ ~(j <= Len(slices))
        BY <2>6, <4>3, EmptyIsSlice
      <4> QED  BY <4>1, <4>2, <4>3
    <3> QED  BY <3>1
  <2>11. got' \in Receipts
    <3>1. got \in Receipts /\ batch \in Seq(Records)
      BY <2>1 DEF HistoryInv, Sends
    <3>2. PICK gs \in [0 .. Len(batch) -> Receipts] : Receipted(got, batch) = gs[Len(batch)]
      BY <3>1, ReceiptFolds
    <3>3. Len(batch) \in 0 .. Len(batch)
      BY <3>1
    <3> QED  BY <2>4, <3>2, <3>3
  <2>12. snap' \in Seq(Trees)
    BY <2>4, EndsFacts DEF HistoryInv
  <2> QED  BY <2>5, <2>7, <2>8, <2>10, <2>11, <2>12 DEF HistoryInv, Slice
<1>2. ASSUME UNCHANGED <<running, start, got, snap>>, recv' \in BOOLEAN, SizeInv',
             \A i \in 1 .. Len(slices') : Slice(slices'[i])
      PROVE  HistoryInv'
  BY <1>2 DEF HistoryInv, Receipts, Trees, Slice
<1>F. CASE FetchBefore
  <2>1. /\ UNCHANGED <<running, start, got, snap, slices, recv>>
        /\ slices = << >> /\ recv \in BOOLEAN
    BY <1>F DEF FetchBefore, storeVars, sliceVars, HistoryInv
  <2>2. SizeInv'
    BY <2>1 DEF SizeInv
  <2> QED  BY <1>2, <2>1, <2>2 DEF HistoryInv
<1>3. CASE FailedFetch
  <2>1. /\ UNCHANGED <<running, start, got, snap, slices>>
        /\ time' = time + 1 /\ recv' = FALSE
    BY <1>3 DEF FailedFetch, storeVars, sliceVars
  <2>2. SizeInv'
    BY <1>N, <2>1 DEF HistoryInv, SizeInv
  <2> QED  BY <1>2, <2>1, <2>2 DEF HistoryInv
<1>4. ASSUME NEW to \in 0 .. time + 1, QueryDiff(to) PROVE HistoryInv'
  <2>1. /\ UNCHANGED <<running, start, got, snap, recv, time>>
        /\ slices # << >> /\ slices' = Padded(slices, SliceIndex(IF to = 0 THEN time ELSE to))
    BY <1>4 DEF QueryDiff, storeVars
  <2>2. PICK i, at : at = (IF to = 0 THEN time ELSE to) /\ i = SliceIndex(at)
    OBVIOUS
  <2>3. at \in 0 .. time + 1 /\ i = at - start + 1 /\ start \in 1 .. time
    BY <1>N, <2>1, <2>2 DEF SliceIndex, StartTime
  <2>4. i \in Int /\ i <= time - start + 2
    BY <1>N, <2>3
  <2>5. PICK S : slices \in Seq(S)
    BY DEF SliceInv, VectorInv
  <2>6. /\ Len(slices') = IF i > Len(slices) THEN i ELSE Len(slices)
        /\ \A j \in 1 .. Len(slices') :
             slices'[j] = IF j <= Len(slices) THEN slices[j] ELSE EmptySlice
    <3>1. slices' = Padded(slices, i)
      BY <2>1, <2>2
    <3> QED  BY <2>4, <2>5, <3>1, PaddedFacts
  <2>7. SizeInv'
    BY <1>N, <2>1, <2>4, <2>6 DEF HistoryInv, SizeInv
  <2>8. \A j \in 1 .. Len(slices') : Slice(slices'[j])
    <3>1. ASSUME NEW j \in 1 .. Len(slices') PROVE Slice(slices'[j])
      <4>1. CASE j <= Len(slices)
        <5>1. Len(slices') \in Nat
          BY <1>N, <2>4, <2>6
        <5>2. j \in 1 .. Len(slices) /\ slices'[j] = slices[j]
          BY <1>N, <2>6, <4>1, <5>1
        <5> QED  BY <5>2 DEF HistoryInv
      <4>2. CASE ~(j <= Len(slices))
        BY <2>6, <4>2, EmptyIsSlice
      <4> QED  BY <4>1, <4>2
    <3> QED  BY <3>1
  <2> QED  BY <1>2, <2>1, <2>7, <2>8 DEF HistoryInv
<1>5. CASE UNCHANGED vars
  <2>1. UNCHANGED <<running, start, got, snap, recv, time, slices>>
    BY <1>5 DEF vars, storeVars, sliceVars
  <2> QED  BY <1>2, <2>1 DEF HistoryInv, SizeInv
<1> QED  BY <1>1, <1>3, <1>4, <1>5, <1>F DEF Next, Orders

(***************************************************************************)
(* Differences.                                                            *)
(***************************************************************************)

\* A value that grows at some steps only.
Grows(lo, hi, H, d, v) ==
  /\ lo \in Nat /\ hi \in Nat /\ lo <= hi /\ H \subseteq lo + 1 .. hi
  /\ \A k \in H : d[k] \in Int
  /\ \A k \in lo .. hi : v[k] \in Int
  /\ \A k \in lo + 1 .. hi : v[k] = v[k - 1] + IF k \in H THEN d[k] ELSE 0

\* It has grown by the sum of these steps.
LEMMA Telescopes ==
  ASSUME NEW lo, NEW hi, NEW H, NEW d, NEW v, Grows(lo, hi, H, d, v)
  PROVE  v[lo] + SumFunctionOnSet(d, H) = v[hi]
<1> USE DEF Grows
<1> DEFINE Part(k) == H \cap lo + 1 .. lo + k
           T == {k \in 0 .. hi - lo : v[lo] + SumFunctionOnSet(d, Part(k)) = v[lo + k]}
<1>F. \A K \in SUBSET H : Summable(d, K)
  <2>1. IsFiniteSet(lo + 1 .. hi)
    BY FS_Interval
  <2> QED  BY <2>1, FS_Subset DEF Summable
<1>1. 0 \in T
  <2>1. Part(0) = {} /\ Part(0) \in SUBSET H
    OBVIOUS
  <2>2. SumFunctionOnSet(d, Part(0)) = 0
    BY <1>F, <2>1, SumFacts DEF Summable
  <2>3. lo + 0 = lo /\ v[lo] \in Int /\ 0 \in 0 .. hi - lo
    OBVIOUS
  <2> QED  BY <2>2, <2>3
<1>2. ASSUME NEW k \in 1 .. hi - lo, k - 1 \in T PROVE k \in T
  <2>1. PICK x, K, L : x = lo + k /\ K = Part(k) /\ L = Part(k - 1)
    OBVIOUS
  <2>2. x \in lo + 1 .. hi /\ x - 1 \in lo .. hi /\ lo + (k - 1) = x - 1 /\ lo \in lo .. hi
    BY <2>1
  <2>3. v[x] = v[x - 1] + IF x \in H THEN d[x] ELSE 0
    BY <2>2
  <2>4. v[lo] + SumFunctionOnSet(d, L) = v[x - 1]
    BY <1>2, <2>1, <2>2
  <2>5. K \in SUBSET H /\ L \in SUBSET H /\ v[lo] \in Int /\ v[x - 1] \in Int
    BY <2>1, <2>2
  <2>6. SumFunctionOnSet(d, L) \in Int
    BY <1>F, <2>5, SumFacts DEF Summable
  <2>7. CASE x \in H
    <3>1. x \in K /\ K \ {x} = L
      BY <2>1, <2>2, <2>7
    <3>2. SumFunctionOnSet(d, K) = d[x] + SumFunctionOnSet(d, K \ {x})
      BY <1>F, <2>5, <3>1, SumRemove
    <3>3. SumFunctionOnSet(d, K) = d[x] + SumFunctionOnSet(d, L)
      BY <3>1, <3>2, Zenon
    <3>4. d[x] \in Int
      BY <2>7
    <3>5. v[lo] + SumFunctionOnSet(d, K) = v[x]
      BY <2>3, <2>4, <2>5, <2>6, <2>7, <3>3, <3>4
    <3> QED  BY <2>1, <3>5
  <2>8. CASE x \notin H
    <3>1. K = L
      BY <2>1, <2>2, <2>8
    <3>2. v[lo] + SumFunctionOnSet(d, K) = v[x]
      BY <2>3, <2>4, <2>5, <2>8, <3>1
    <3> QED  BY <2>1, <3>2
  <2> QED  BY <2>7, <2>8
<1> HIDE DEF T
<1>3. 0 .. hi - lo \subseteq T
  BY <1>1, <1>2, Induction
<1>4. hi - lo \in T /\ lo + (hi - lo) = hi
  BY <1>3
<1>5. Part(hi - lo) = H
  <2>1. lo + (hi - lo) = hi
    OBVIOUS
  <2>2. Part(hi - lo) = H \cap lo + 1 .. hi
    BY <2>1
  <2> QED  BY <2>2
<1> QED  BY <1>4, <1>5 DEF T

\* A value that stays the same from step to step.
LEMMA Stays ==
  ASSUME NEW lo \in Nat, NEW hi \in Nat, lo <= hi,
         NEW v, \A k \in lo + 1 .. hi : v[k] = v[k - 1]
  PROVE  v[hi] = v[lo]
<1> DEFINE T == {k \in 0 .. hi - lo : v[lo + k] = v[lo]}
<1>1. 0 \in T
  OBVIOUS
<1>2. ASSUME NEW k \in 1 .. hi - lo, k - 1 \in T PROVE k \in T
  <2>1. lo + k \in lo + 1 .. hi /\ lo + (k - 1) = lo + k - 1
    OBVIOUS
  <2>2. v[lo + k] = v[lo + k - 1]
    BY <2>1
  <2> QED  BY <1>2, <2>1, <2>2
<1> HIDE DEF T
<1>3. 0 .. hi - lo \subseteq T
  BY <1>1, <1>2, Induction
<1>4. hi - lo \in T /\ lo + (hi - lo) = hi
  BY <1>3
<1> QED  BY <1>4 DEF T

(***************************************************************************)
(* The current tree from one fetch to the next.                            *)
(***************************************************************************)

Known(t, n)      == IF n \in DOMAIN t THEN t[n] ELSE NewNode(0)
Before(ss, k, n) == IF k > 0 THEN Known(ss[k], n) ELSE NewNode(0)

\* A slice's node leads from one node to the next.
Adds(a, s, b) ==
  /\ a.cc + s.cc = b.cc
  /\ \A f \in Fields \ Static : a.all[f] + s.all[f] = b.all[f] /\ a.cld[f] + s.cld[f] = b.cld[f]
  /\ \A f \in Static : b.all[f] = s.all[f]

Follows(a, files, n, b) == IF n \in DOMAIN files THEN Adds(a, files[n], b) ELSE Alike(a, b)

\* Each slice is the change of the tree in its fetch.
ChangeInv ==
  /\ recv /\ slices # << >> => Len(snap) = Now
  /\ slices = << >> <=> snap = << >>
  /\ Len(snap) <= Len(slices)
  /\ \A i \in 1 .. Len(slices) : i > Len(snap) => DOMAIN slices[i].nodes = {}
  /\ \A k \in 1 .. Len(snap) : \A n \in Nodes :
       Follows(Before(snap, k - 1, n), slices[k].nodes, n, Before(snap, k, n))
  /\ \A n \in Nodes : Alike(Before(snap, Len(snap), n), Known(tree, n))

\* A batch enters nodes and changes no values of the current tree.
LEMMA BatchKeeps ==
  ASSUME TreeInv, NEW order, NEW batch, Sends(order, batch), NEW run \in Nodes,
         NEW w, w = Ended(batch, run)
  PROVE  \A n \in Nodes : Alike(Known(tree, n), Known(w.tree, n))
<1>L. Len(batch) \in Nat /\ batch \in Seq(Records) /\ shape \in Shapes
  BY DEF Sends, TreeInv
<1>1. PICK v : v = [tree |-> tree, dirty |-> dirty, temp |-> temp]
  OBVIOUS
<1>2. v.tree = tree /\ v \in Stores /\ Shaped(v.tree)
  BY <1>1 DEF TreeInv, NothingLeftDirty, Stores
<1>3. PICK w0 : w0 = MarkNodeDirty(v, run)
  OBVIOUS
<1>4. w0 \in Stores /\ w0.tree = tree
  BY <1>2, <1>3, <1>L, MarkFacts
<1>5. PICK ws \in [0 .. Len(batch) -> Fit] :
           /\ ws[0] = w0
           /\ \A k \in 1 .. Len(batch) : ws[k] = AddRecord(ws[k - 1], batch[k])
           /\ FoldLeft(AddRecord, w0, batch) = ws[Len(batch)]
  <2>1. w0 \in Fit
    BY <1>2, <1>4 DEF Fit
  <2> QED  BY <1>L, <2>1, BatchFolds
<1> DEFINE Good(k) == \A n \in Nodes : Alike(Known(tree, n), Known(ws[k].tree, n))
           T == {k \in 0 .. Len(batch) : Good(k)}
<1>6. 0 \in T
  BY <1>L, <1>4, <1>5 DEF Alike
<1>7. ASSUME NEW k \in 1 .. Len(batch), k - 1 \in T PROVE k \in T
  <2>1. PICK a, rec, u : a = ws[k - 1] /\ rec = batch[k] /\ u = ws[k].tree
    OBVIOUS
  <2>2. a \in Stores /\ Shaped(a.tree) /\ rec \in Records /\ a.tree \in Trees
    <3>1. k - 1 \in 0 .. Len(batch)
      BY <1>L
    <3>2. a \in Fit
      BY <2>1, <3>1
    <3> QED  BY <1>L, <2>1, <3>2 DEF Fit, Stores
  <2>3. u = Entered(a, rec).tree
    <3>1. AddRecord(a, rec).tree = Entered(a, rec).tree
      BY <1>L, <2>2, AddRecordFacts
    <3> QED  BY <1>5, <2>1, <3>1
  <2>4. \A n \in Nodes : Alike(Known(a.tree, n), Known(u, n))
    <3>1. CASE rec.node \in DOMAIN a.tree
      <4>1. u = a.tree
        BY <2>3, <3>1 DEF Entered
      <4> QED  BY <4>1 DEF Alike
    <3>2. CASE rec.node \notin DOMAIN a.tree
      <4>1. PICK m, p, t : m = rec.node /\ p = shape[m] /\ t = a.tree
        OBVIOUS
      <4>2. m \in Nodes \ DOMAIN t /\ p \in 0 .. m - 1 /\ t \in Trees
        BY <1>L, <2>2, <3>2, <4>1, ShapesRise DEF Records
      <4>3. Joined(t, m, p, AddNode(t, m, p))
        BY <4>2, AddNodeFacts
      <4>4. u = AddNode(t, m, p)
        <5>1. Entered(a, rec).tree = AddNode(a.tree, rec.node, shape[rec.node])
          BY <1>L, <2>2, <3>2, EnteredFacts
        <5> QED  BY <2>3, <4>1, <5>1
      <4>5. /\ DOMAIN u = DOMAIN t \cup {m} /\ u[m] = NewNode(p)
            /\ \A n \in DOMAIN t : u[n] = [t[n] EXCEPT !.children = IF n = p THEN @ \cup {m} ELSE @]
        BY <4>3, <4>4 DEF Joined
      <4>6. \A n \in DOMAIN t : t[n] \in RecordNode
        BY <4>2 DEF Trees
      <4>7. \A n \in DOMAIN t : Alike(t[n], u[n])
        BY <4>5, <4>6 DEF RecordNode, Alike
      <4>8. Alike(NewNode(0), NewNode(p))
        BY DEF Alike, NewNode
      <4> QED  BY <4>1, <4>2, <4>5, <4>7, <4>8 DEF Known, Alike
    <3> QED  BY <3>1, <3>2
  <2>5. \A n \in Nodes : Alike(Known(tree, n), Known(a.tree, n))
    BY <1>7, <2>1
  <2>6. Good(k)
    BY <2>1, <2>4, <2>5 DEF Alike
  <2> QED  BY <1>7, <2>6
<1> HIDE DEF T
<1>8. 0 .. Len(batch) \subseteq T
  BY <1>L, <1>6, <1>7, Induction
<1>9. \A n \in Nodes : Alike(Known(tree, n), Known(ws[Len(batch)].tree, n))
  <2>1. Len(batch) \in T
    BY <1>L, <1>8
  <2> QED  BY <2>1 DEF T
<1>10. w = ws[Len(batch)]
  BY <1>1, <1>3, <1>5 DEF Ended
<1> QED  BY <1>9, <1>10

\* What a fetch files is what it changes.
LEMMA EndsFollow ==
  ASSUME NEW w, Working(w), NEW u, u = Ends(w, RolledUp(w)),
         NEW files, files = [n \in w.dirty |-> Filed(w, RolledUp(w), n)],
         NEW n \in Nodes
  PROVE  Follows(Known(w.tree, n), files, n, Known(u, n))
<1>1. PICK t, roll : t = w.tree /\ roll = RolledUp(w)
  OBVIOUS
<1>2. /\ DOMAIN u = DOMAIN t
      /\ \A m \in DOMAIN t : u[m] = IF m \in w.dirty THEN Cleared(w, roll, m) ELSE t[m]
  BY <1>1, EndsFacts
<1>3. DOMAIN files = w.dirty /\ w.dirty \subseteq DOMAIN t
  BY <1>1 DEF Working, Upward
<1>4. CASE n \in w.dirty
  <2>1. /\ u[n].cc = t[n].cc + w.temp[n].cc
        /\ u[n].all = [f \in Fields |-> IF f \in Static THEN roll[n][f] ELSE t[n].all[f] + roll[n][f]]
        /\ u[n].cld = [f \in Fields |-> t[n].cld[f] + FromChildren(w, roll, n)[f]]
    <3>1. n \in DOMAIN w.tree /\ u[n] = Cleared(w, roll, n)
      BY <1>1, <1>2, <1>3, <1>4
    <3> QED  BY <1>1, <3>1, ClearedFacts, SMTT(30)
  <2>2. files[n] = [all |-> roll[n], cld |-> FromChildren(w, roll, n), cc |-> w.temp[n].cc]
    BY <1>1, <1>4 DEF Filed
  <2>3. Static \subseteq Fields
    BY StoreConstants
  <2>4. Adds(t[n], files[n], u[n])
    BY <2>1, <2>2, <2>3 DEF Adds
  <2>5. Known(t, n) = t[n] /\ Known(u, n) = u[n]
    BY <1>2, <1>3, <1>4 DEF Known
  <2> QED  BY <1>1, <1>3, <1>4, <2>4, <2>5 DEF Follows
<1>5. CASE n \notin w.dirty
  <2>1. Known(t, n) = Known(u, n)
    BY <1>2, <1>5 DEF Known
  <2> QED  BY <1>1, <1>3, <1>5, <2>1 DEF Follows, Alike
<1> QED  BY <1>4, <1>5

\* What a slice adds depends on the values of the node only.
LEMMA FollowsAlike ==
  ASSUME NEW a, NEW b, Alike(a, b), NEW files, NEW n, NEW c, Follows(b, files, n, c)
  PROVE  Follows(a, files, n, c)
BY DEF Follows, Adds, Alike

\* Each slice is the change of its fetch, in every step.
LEMMA ChangeStep ==
  ASSUME SliceInv, TreeInv, HistoryInv, ChangeInv, [Next]_vars
  PROVE  ChangeInv'
<1>N. /\ time \in Nat /\ Len(slices) \in Nat /\ (slices # << >> => start \in 1 .. time)
      /\ snap \in Seq(Trees) /\ Len(snap) \in Nat
  BY DEF SliceInv, VectorInv, StartInv, HistoryInv
<1>1. ASSUME NEW order \in Orders, NEW run \in Nodes, Fetch(order, run) PROVE ChangeInv'
  <2>1. PICK batch : Sends(order, batch) /\ Store(batch, run, time + 1)
    BY <1>1, FetchSends
  <2>2. PICK w : w = Ended(batch, run)
    OBVIOUS
  <2>3. PICK u, files, new :
          /\ u = Ends(w, RolledUp(w))
          /\ files = [n \in w.dirty |-> Filed(w, RolledUp(w), n)]
          /\ new = [nodes |-> files, now |-> time + 1, run |-> run]
    OBVIOUS
  <2>4. /\ Working(w) /\ tree' = u /\ start' = StartTime(time + 1)
        /\ slices' = [Padded(slices, SliceIndex(time + 1)) EXCEPT ![SliceIndex(time + 1)] = new]
        /\ snap' = Append(snap, u)
    BY <2>1, <2>2, <2>3, StoreEnds
  <2>5. time' = time + 1 /\ recv
    BY <1>1 DEF Fetch
  <2>6. PICK i, S :
          /\ i \in Nat \ {0}
          /\ i = (IF slices = << >> THEN 1 ELSE time + 1 - start + 1)
          /\ slices' \in Seq(S)
          /\ Len(slices') = IF i > Len(slices) THEN i ELSE Len(slices)
          /\ slices'[i] = new
          /\ \A j \in 1 .. Len(slices') :
               j # i => slices'[j] = IF j <= Len(slices) THEN slices[j] ELSE EmptySlice
    BY <2>4, FilingFacts
  <2>7. i = Len(snap) + 1 /\ Now' = i
    <3>1. CASE slices = << >>
      <4>1. Len(snap) = 0 /\ start' = time + 1
        BY <2>4, <3>1 DEF ChangeInv, StartTime
      <4> QED  BY <1>N, <2>5, <2>6, <3>1, <4>1 DEF Now
    <3>2. CASE slices # << >>
      <4>1. Len(snap) = time - start + 1 /\ start' = start
        BY <2>4, <2>5, <3>2 DEF ChangeInv, StartTime, Now
      <4> QED  BY <1>N, <2>5, <2>6, <3>2, <4>1 DEF Now
    <3> QED  BY <3>1, <3>2
  <2>8. /\ Len(snap') = i /\ snap'[i] = u /\ snap' # << >>
        /\ \A k \in 1 .. Len(snap) : snap'[k] = snap[k]
    <3>1. u \in Trees
      BY <2>3, <2>4, EndsFacts
    <3> QED  BY <1>N, <2>4, <2>7, <3>1
  <2>9. Len(slices') \in Nat /\ Len(snap') <= Len(slices') /\ slices' # << >>
    BY <1>N, <2>6, <2>8
  <2>10. \A j \in 1 .. Len(slices') : j > Len(snap') => DOMAIN slices'[j].nodes = {}
    <3>1. ASSUME NEW j \in 1 .. Len(slices'), j > i PROVE DOMAIN slices'[j].nodes = {}
      <4>1. CASE j <= Len(slices)
        <5>1. j \in 1 .. Len(slices) /\ j > Len(snap) /\ slices'[j] = slices[j]
          BY <1>N, <2>6, <2>7, <2>9, <3>1, <4>1
        <5> QED  BY <5>1 DEF ChangeInv
      <4>2. CASE ~(j <= Len(slices))
        <5>1. slices'[j] = EmptySlice
          BY <2>6, <3>1, <4>2
        <5> QED  BY <5>1 DEF EmptySlice
      <4> QED  BY <4>1, <4>2
    <3> QED  BY <2>8, <3>1
  <2>11. \A k \in 0 .. Len(snap) : \A n : Before(snap', k, n) = Before(snap, k, n)
    BY <1>N, <2>8 DEF Before
  <2>12. \A n : Before(snap', i, n) = Known(u, n)
    BY <2>6, <2>8 DEF Before
  <2>13. ASSUME NEW k \in 1 .. Len(snap'), NEW n \in Nodes
         PROVE  Follows(Before(snap', k - 1, n), slices'[k].nodes, n, Before(snap', k, n))
    <3>1. CASE k \in 1 .. Len(snap)
      <4>1. Follows(Before(snap, k - 1, n), slices[k].nodes, n, Before(snap, k, n))
        BY <3>1 DEF ChangeInv
      <4>2. k \in 0 .. Len(snap) /\ k - 1 \in 0 .. Len(snap)
        BY <1>N, <3>1
      <4>3. slices'[k] = slices[k]
        <5>1. Len(snap) <= Len(slices)
          BY DEF ChangeInv
        <5>2. k \in 1 .. Len(slices') /\ k # i /\ k <= Len(slices)
          BY <1>N, <2>7, <2>8, <2>9, <3>1, <5>1
        <5> QED  BY <2>6, <5>2
      <4> QED  BY <2>11, <4>1, <4>2, <4>3
    <3>2. CASE k = i
      <4>1. slices'[k].nodes = files
        BY <2>3, <2>6, <3>2
      <4>2. Follows(Known(w.tree, n), files, n, Known(u, n))
        BY <2>3, <2>4, EndsFollow
      <4>3. Alike(Known(tree, n), Known(w.tree, n))
        BY <2>1, <2>2, BatchKeeps
      <4>4. Alike(Before(snap, Len(snap), n), Known(tree, n))
        BY DEF ChangeInv
      <4>5. Alike(Before(snap, Len(snap), n), Known(w.tree, n))
        BY <4>3, <4>4 DEF Alike
      <4>6. Follows(Before(snap, Len(snap), n), files, n, Known(u, n))
        BY <4>2, <4>5, FollowsAlike
      <4>7. k - 1 = Len(snap) /\ k - 1 \in 0 .. Len(snap)
        BY <1>N, <2>7, <3>2
      <4> QED  BY <2>11, <2>12, <3>2, <4>1, <4>6, <4>7
    <3> QED  BY <1>N, <2>7, <2>8, <3>1, <3>2
  <2>14. \A n \in Nodes : Alike(Before(snap', Len(snap'), n), Known(tree', n))
    BY <2>4, <2>8, <2>12 DEF Alike
  <2>15. recv' /\ slices' # << >> => Len(snap') = Now'
    BY <2>7, <2>8
  <2> QED  BY <2>8, <2>9, <2>10, <2>13, <2>14, <2>15
           DEF ChangeInv, Known, Before, Follows, Adds, Alike
<1>2. ASSUME UNCHANGED <<tree, snap>>,
             recv' /\ slices' # << >> => Len(snap) = Now', slices' = << >> <=> slices = << >>,
             Len(slices') \in Nat, Len(slices) <= Len(slices'),
             \A j \in 1 .. Len(slices') :
               slices'[j] = IF j <= Len(slices) THEN slices[j] ELSE EmptySlice
      PROVE  ChangeInv'
  <2>1. Len(snap) <= Len(slices') /\ \A k \in 1 .. Len(snap) : slices'[k] = slices[k]
    <3>1. Len(snap) <= Len(slices)
      BY DEF ChangeInv
    <3> QED  BY <1>2, <1>N, <3>1
  <2>2. \A j \in 1 .. Len(slices') : j > Len(snap) => DOMAIN slices'[j].nodes = {}
    <3>1. ASSUME NEW j \in 1 .. Len(slices'), j > Len(snap) PROVE DOMAIN slices'[j].nodes = {}
      <4>1. CASE j <= Len(slices)
        <5>1. j \in 1 .. Len(slices) /\ slices'[j] = slices[j]
          BY <1>2, <1>N, <4>1
        <5> QED  BY <3>1, <5>1 DEF ChangeInv
      <4>2. CASE ~(j <= Len(slices))
        BY <1>2, <4>2 DEF EmptySlice
      <4> QED  BY <4>1, <4>2
    <3> QED  BY <3>1
  <2>3. \A k \in 1 .. Len(snap) : \A n \in Nodes :
          Follows(Before(snap, k - 1, n), slices'[k].nodes, n, Before(snap, k, n))
    BY <2>1 DEF ChangeInv
  <2>4. slices' = << >> <=> snap = << >>
    BY <1>2 DEF ChangeInv
  <2>5. \A n \in Nodes : Alike(Before(snap, Len(snap), n), Known(tree, n))
    BY DEF ChangeInv
  <2> QED  BY <1>2, <2>1, <2>2, <2>3, <2>4, <2>5
           DEF ChangeInv, Known, Before, Follows, Adds, Alike
<1>F. CASE FetchBefore
  <2>1. UNCHANGED <<tree, snap, slices>> /\ slices = << >>
    BY <1>F DEF FetchBefore, storeVars, sliceVars
  <2> QED  BY <1>2, <1>N, <2>1
<1>3. CASE FailedFetch
  <2>1. UNCHANGED <<tree, snap, slices>> /\ recv' = FALSE
    BY <1>3 DEF FailedFetch, storeVars, sliceVars
  <2> QED  BY <1>2, <1>N, <2>1
<1>4. ASSUME NEW to \in 0 .. time + 1, QueryDiff(to) PROVE ChangeInv'
  <2>1. /\ UNCHANGED <<tree, start, snap, recv, time>>
        /\ slices # << >> /\ slices' = Padded(slices, SliceIndex(IF to = 0 THEN time ELSE to))
    BY <1>4 DEF QueryDiff, storeVars
  <2>2. PICK i, at : at = (IF to = 0 THEN time ELSE to) /\ i = SliceIndex(at)
    OBVIOUS
  <2>3. i \in Int
    BY <1>N, <2>1, <2>2 DEF SliceIndex, StartTime
  <2>4. PICK S : slices \in Seq(S)
    BY DEF SliceInv, VectorInv
  <2>5. /\ Len(slices') = IF i > Len(slices) THEN i ELSE Len(slices)
        /\ \A j \in 1 .. Len(slices') :
             slices'[j] = IF j <= Len(slices) THEN slices[j] ELSE EmptySlice
    <3>1. slices' = Padded(slices, i)
      BY <2>1, <2>2
    <3> QED  BY <2>3, <2>4, <3>1, PaddedFacts
  <2>6. Len(slices') \in Nat /\ Len(slices) <= Len(slices') /\ Len(slices) # 0
    BY <1>N, <2>1, <2>3, <2>4, <2>5
  <2>7. slices' # << >>
    BY <2>6
  <2>8. Now' = Now /\ (recv' /\ slices' # << >> => Len(snap) = Now')
    BY <2>1 DEF Now, ChangeInv
  <2> QED  BY <1>2, <2>1, <2>5, <2>6, <2>7, <2>8
<1>5. CASE UNCHANGED vars
  <2>1. UNCHANGED <<tree, start, snap, recv, time, slices>>
    BY <1>5 DEF vars, storeVars, sliceVars
  <2>2. Now' = Now /\ (recv' /\ slices' # << >> => Len(snap) = Now')
    BY <2>1 DEF Now, ChangeInv
  <2> QED  BY <1>2, <1>N, <2>1, <2>2
<1> QED  BY <1>1, <1>3, <1>4, <1>5, <1>F DEF Next, Orders

\* At first there is no slice.
LEMMA ChangeInit == ASSUME Init PROVE ChangeInv
<1>1. slices = << >> /\ snap = << >> /\ tree = [n \in {Root} |-> NewNode(0)]
  BY DEF Init
<1>2. Len(snap) = 0 /\ Len(slices) = 0
  BY <1>1
<1>3. \A n \in Nodes : Known(tree, n) = NewNode(0) /\ Before(snap, 0, n) = NewNode(0)
  BY <1>1 DEF Known, Before
<1> QED  BY <1>1, <1>2, <1>3 DEF ChangeInv, Alike

Told(sum, n, has) ==
  /\ sum.cc = SumFunctionOnSet([i \in has |-> slices[i].nodes[n].cc], has)
  /\ \A f \in Fields \ Static :
       /\ sum.all[f] = SumFunctionOnSet([i \in has |-> slices[i].nodes[n].all[f]], has)
       /\ sum.cld[f] = SumFunctionOnSet([i \in has |-> slices[i].nodes[n].cld[f]], has)
  /\ \A f \in Static \cap Fields : sum.all[f] =
       IF has = {} THEN 0
       ELSE slices[CHOOSE i \in has : \A j \in has : i >= j].nodes[n].all[f]

\* What a client is told of a node in the slices from one time to another.
LEMMA SliceSumFacts ==
  ASSUME NEW n, NEW from, NEW to
  PROVE  Told(SliceSum(n, from, to), n,
              {i \in Merged(from, to) : n \in DOMAIN slices[i].nodes})
BY DEF SliceSum, Told

\* A node before and after a fetch is a record.
LEMMA BeforeFacts ==
  ASSUME HistoryInv, NEW k \in 0 .. Len(snap), NEW n \in Nodes
  PROVE  Before(snap, k, n) \in RecordNode
<1>1. NewNode(0) \in RecordNode
  BY DEF NewNode, RecordNode, Values, Blank
<1>2. snap \in Seq(Trees) /\ Len(snap) \in Nat
  BY DEF HistoryInv
<1>3. CASE k > 0
  <2>1. snap[k] \in Trees
    BY <1>2, <1>3
  <2> QED  BY <1>1, <1>3, <2>1 DEF Before, Known, Trees
<1>4. CASE ~(k > 0)
  BY <1>1, <1>4 DEF Before
<1> QED  BY <1>3, <1>4

\* The last slice that has a node.
LEMMA LastIsThere ==
  ASSUME NEW k \in Nat, NEW s, s \subseteq 1 .. k, s # {},
         NEW x, x = CHOOSE i \in s : \A j \in s : i >= j
  PROVE  x \in s /\ \A j \in s : x >= j
<1>1. \E i \in s : \A j \in s : i >= j
  <2>1. PICK S : S = {k - i : i \in s}
    OBVIOUS
  <2>2. S \subseteq Nat /\ S # {}
    <3>1. \A i \in s : k - i \in Nat
      OBVIOUS
    <3> QED  BY <2>1, <3>1
  <2>3. PICK m \in S : \A y \in S : m <= y
    BY <2>2, Least
  <2>4. PICK i \in s : m = k - i
    BY <2>1
  <2>5. ASSUME NEW j \in s PROVE i >= j
    <3>1. k - i <= k - j
      BY <2>1, <2>3, <2>4
    <3>2. i \in 1 .. k /\ j \in 1 .. k
      OBVIOUS
    <3> QED  BY <3>1, <3>2
  <2> QED  BY <2>5
<1> QED  BY <1>1, Zenon

\* Nodes that follow one another, some of them with a slice's node.
Chain(lo, hi, has, node, file) ==
  /\ lo \in Nat /\ hi \in Nat /\ lo <= hi /\ has \subseteq lo + 1 .. hi
  /\ \A k \in lo .. hi : node[k] \in RecordNode
  /\ \A k \in has : file[k] \in SliceNode
  /\ \A k \in lo + 1 .. hi : IF k \in has THEN Adds(node[k - 1], file[k], node[k])
                             ELSE Alike(node[k - 1], node[k])

Leads(has, file, a, b) ==
  /\ a.cc + SumFunctionOnSet([i \in has |-> file[i].cc], has) = b.cc
  /\ \A f \in Fields \ Static :
       /\ a.all[f] + SumFunctionOnSet([i \in has |-> file[i].all[f]], has) = b.all[f]
       /\ a.cld[f] + SumFunctionOnSet([i \in has |-> file[i].cld[f]], has) = b.cld[f]
  /\ \A f \in Static : has # {} =>
       file[CHOOSE i \in has : \A j \in has : i >= j].all[f] = b.all[f]

\* Along a chain of slices, the changes add up.
LEMMA NodesAdd ==
  ASSUME NEW lo, NEW hi, NEW has, NEW node, NEW file, Chain(lo, hi, has, node, file)
  PROVE  Leads(has, file, node[lo], node[hi])
<1> USE DEF Chain
<1>1. node[lo].cc + SumFunctionOnSet([i \in has |-> file[i].cc], has) = node[hi].cc
  <2>1. PICK v, g : v = [k \in lo .. hi |-> node[k].cc] /\ g = [i \in has |-> file[i].cc]
    OBVIOUS
  <2>2. \A k \in has : g[k] \in Int
    BY <2>1 DEF SliceNode
  <2>3. \A k \in lo .. hi : v[k] \in Int
    BY <2>1 DEF RecordNode
  <2>4. \A k \in lo + 1 .. hi : v[k] = v[k - 1] + IF k \in has THEN g[k] ELSE 0
    <3>1. ASSUME NEW k \in lo + 1 .. hi PROVE v[k] = v[k - 1] + IF k \in has THEN g[k] ELSE 0
      <4>1. k \in lo .. hi /\ k - 1 \in lo .. hi
        OBVIOUS
      <4>2. IF k \in has THEN node[k - 1].cc + file[k].cc = node[k].cc
            ELSE node[k - 1].cc = node[k].cc
        BY DEF Adds, Alike
      <4> QED  BY <2>1, <2>3, <4>1, <4>2
    <3> QED  BY <3>1
  <2>5. v[lo] + SumFunctionOnSet(g, has) = v[hi]
    <3>1. Grows(lo, hi, has, g, v)
      BY <2>2, <2>3, <2>4 DEF Grows
    <3> QED  BY <3>1, Telescopes
  <2>6. v[lo] = node[lo].cc /\ v[hi] = node[hi].cc
    <3>1. lo \in lo .. hi /\ hi \in lo .. hi
      OBVIOUS
    <3> QED  BY <2>1, <3>1
  <2> QED  BY <2>1, <2>5, <2>6
<1>2. ASSUME NEW f \in Fields \ Static
     PROVE  node[lo].all[f] + SumFunctionOnSet([i \in has |-> file[i].all[f]], has) = node[hi].all[f]
  <2>1. PICK v, g : v = [k \in lo .. hi |-> node[k].all[f]] /\ g = [i \in has |-> file[i].all[f]]
    OBVIOUS
  <2>2. \A k \in has : g[k] \in Int
    BY <2>1 DEF SliceNode, Values
  <2>3. \A k \in lo .. hi : v[k] \in Int
    BY <2>1 DEF RecordNode, Values
  <2>4. \A k \in lo + 1 .. hi : v[k] = v[k - 1] + IF k \in has THEN g[k] ELSE 0
    <3>1. ASSUME NEW k \in lo + 1 .. hi PROVE v[k] = v[k - 1] + IF k \in has THEN g[k] ELSE 0
      <4>1. k \in lo .. hi /\ k - 1 \in lo .. hi
        OBVIOUS
      <4>2. IF k \in has THEN node[k - 1].all[f] + file[k].all[f] = node[k].all[f]
            ELSE node[k - 1].all[f] = node[k].all[f]
        BY DEF Adds, Alike
      <4> QED  BY <2>1, <2>3, <4>1, <4>2
    <3> QED  BY <3>1
  <2>5. v[lo] + SumFunctionOnSet(g, has) = v[hi]
    <3>1. Grows(lo, hi, has, g, v)
      BY <2>2, <2>3, <2>4 DEF Grows
    <3> QED  BY <3>1, Telescopes
  <2>6. v[lo] = node[lo].all[f] /\ v[hi] = node[hi].all[f]
    <3>1. lo \in lo .. hi /\ hi \in lo .. hi
      OBVIOUS
    <3> QED  BY <2>1, <3>1
  <2> QED  BY <2>1, <2>5, <2>6
<1>3. ASSUME NEW f \in Fields \ Static
     PROVE  node[lo].cld[f] + SumFunctionOnSet([i \in has |-> file[i].cld[f]], has) = node[hi].cld[f]
  <2>1. PICK v, g : v = [k \in lo .. hi |-> node[k].cld[f]] /\ g = [i \in has |-> file[i].cld[f]]
    OBVIOUS
  <2>2. \A k \in has : g[k] \in Int
    BY <2>1 DEF SliceNode, Values
  <2>3. \A k \in lo .. hi : v[k] \in Int
    BY <2>1 DEF RecordNode, Values
  <2>4. \A k \in lo + 1 .. hi : v[k] = v[k - 1] + IF k \in has THEN g[k] ELSE 0
    <3>1. ASSUME NEW k \in lo + 1 .. hi PROVE v[k] = v[k - 1] + IF k \in has THEN g[k] ELSE 0
      <4>1. k \in lo .. hi /\ k - 1 \in lo .. hi
        OBVIOUS
      <4>2. IF k \in has THEN node[k - 1].cld[f] + file[k].cld[f] = node[k].cld[f]
            ELSE node[k - 1].cld[f] = node[k].cld[f]
        BY DEF Adds, Alike
      <4> QED  BY <2>1, <2>3, <4>1, <4>2
    <3> QED  BY <3>1
  <2>5. v[lo] + SumFunctionOnSet(g, has) = v[hi]
    <3>1. Grows(lo, hi, has, g, v)
      BY <2>2, <2>3, <2>4 DEF Grows
    <3> QED  BY <3>1, Telescopes
  <2>6. v[lo] = node[lo].cld[f] /\ v[hi] = node[hi].cld[f]
    <3>1. lo \in lo .. hi /\ hi \in lo .. hi
      OBVIOUS
    <3> QED  BY <2>1, <3>1
  <2> QED  BY <2>1, <2>5, <2>6
<1>4. ASSUME NEW f \in Static, has # {}
      PROVE  file[CHOOSE i \in has : \A j \in has : i >= j].all[f] = node[hi].all[f]
  <2>1. PICK x : x = CHOOSE i \in has : \A j \in has : i >= j
    OBVIOUS
  <2>2. x \in has /\ \A j \in has : x >= j
    <3>1. has \subseteq 1 .. hi
      OBVIOUS
    <3> QED  BY <1>4, <2>1, <3>1, LastIsThere
  <2>3. x \in lo + 1 .. hi /\ x \in Nat /\ x <= hi
    BY <2>2
  <2>4. Adds(node[x - 1], file[x], node[x])
    BY <2>2, <2>3
  <2>5. node[x].all[f] = file[x].all[f]
    BY <2>4 DEF Adds
  <2>6. PICK v : v = [k \in lo .. hi |-> node[k].all[f]]
    OBVIOUS
  <2>7. \A k \in x + 1 .. hi : v[k] = v[k - 1]
    <3>1. ASSUME NEW k \in x + 1 .. hi PROVE v[k] = v[k - 1]
      <4>1. k \in lo + 1 .. hi /\ k \in lo .. hi /\ k - 1 \in lo .. hi /\ k \notin has
        BY <2>2, <2>3
      <4>2. Alike(node[k - 1], node[k])
        BY <4>1
      <4> QED  BY <2>6, <4>1, <4>2 DEF Alike
    <3> QED  BY <3>1
  <2>8. v[hi] = v[x]
    BY <2>3, <2>7, Stays
  <2>9. hi \in lo .. hi /\ x \in lo .. hi
    BY <2>3
  <2> QED  BY <2>1, <2>5, <2>6, <2>8, <2>9
<1> QED  BY <1>1, <1>2, <1>3, <1>4, Zenon DEF Leads

\* The answer to a client is the change from one node to the other.
Shown(sum, before, after) ==
  /\ before.cc + sum.cc = after.cc
  /\ \A f \in Fields \ Static :
       /\ before.all[f] + sum.all[f] = after.all[f]
       /\ before.cld[f] + sum.cld[f] = after.cld[f]
  /\ \A f \in Static : sum.all[f] \in {after.all[f], 0}

\* A sum of slices is the change of the tree over their fetches.
LEMMA DiffFollows == ASSUME SliceInv, HistoryInv, ChangeInv PROVE DiffIsTheChange
<1>N. /\ time \in Nat /\ Len(slices) \in Nat /\ (slices # << >> => start \in 1 .. time)
      /\ snap \in Seq(Trees) /\ Len(snap) \in Nat /\ start \in Nat
  BY DEF SliceInv, VectorInv, StartInv, HistoryInv
<1>1. SUFFICES ASSUME NEW d \in Diffs,
                      NEW lo, lo = IF d[1] > start THEN d[1] - start ELSE 0,
                      NEW hi, hi = IF d[2] < start + Len(snap) THEN d[2] - start + 1 ELSE Len(snap),
                      hi > lo, NEW n \in DOMAIN snap[hi]
               PROVE  Shown(SliceSum(n, d[1], d[2]),
                            IF lo > 0 /\ n \in DOMAIN snap[lo] THEN snap[lo][n] ELSE NewNode(0),
                            snap[hi][n])
  BY DEF DiffIsTheChange, Shown
<1>2. d[1] \in Nat /\ d[2] \in Nat /\ d[1] <= d[2]
  BY <1>1, StoreConstants DEF Diffs, Times
<1>3. lo \in Nat /\ hi \in 1 .. Len(snap) /\ lo <= hi /\ hi \in Nat
  BY <1>1, <1>2, <1>N, SMTT(30)
<1>4. slices # << >> /\ Len(snap) <= Len(slices)
  BY <1>3 DEF ChangeInv
<1>5. n \in Nodes /\ Static \subseteq Fields
  <2>1. snap[hi] \in Trees
    BY <1>3, <1>N
  <2> QED  BY <1>1, <2>1, StoreConstants DEF Trees
<1>6. PICK has : has = {i \in Merged(d[1], d[2]) : n \in DOMAIN slices[i].nodes}
  OBVIOUS
<1>7. has = {i \in lo + 1 .. hi : n \in DOMAIN slices[i].nodes}
  <2>1. Merged(d[1], d[2]) =
          {i \in 1 .. Len(slices) : i >= d[1] - start + 1 /\ i <= d[2] - start + 1}
    BY <1>4 DEF Merged, SliceIndex, StartTime
  <2>2. \A i \in 1 .. Len(slices) : n \in DOMAIN slices[i].nodes => i <= Len(snap)
    <3>1. \A i \in 1 .. Len(slices) : i > Len(snap) => DOMAIN slices[i].nodes = {}
      BY DEF ChangeInv
    <3> QED  BY <1>N, <3>1
  <2>3. ASSUME NEW i \in has PROVE i \in lo + 1 .. hi /\ n \in DOMAIN slices[i].nodes
    <3>1. i \in 1 .. Len(slices) /\ i >= d[1] - start + 1 /\ i <= d[2] - start + 1
          /\ n \in DOMAIN slices[i].nodes
      BY <1>6, <2>1, <2>3
    <3>2. i <= Len(snap)
      BY <2>2, <3>1
    <3> QED  BY <1>1, <1>2, <1>3, <1>N, <3>1, <3>2
  <2>4. ASSUME NEW i \in lo + 1 .. hi, n \in DOMAIN slices[i].nodes PROVE i \in has
    <3>1. i \in 1 .. Len(slices)
      BY <1>3, <1>4, <1>N
    <3>2. i >= d[1] - start + 1 /\ i <= d[2] - start + 1
      BY <1>1, <1>2, <1>3, <1>N
    <3> QED  BY <1>6, <2>1, <2>4, <3>1, <3>2
  <2> QED  BY <2>3, <2>4
<1>8. PICK node, file : /\ node = [k \in lo .. hi |-> Before(snap, k, n)]
                        /\ file = [i \in has |-> slices[i].nodes[n]]
  OBVIOUS
<1>9. \A k \in lo .. hi : node[k] \in RecordNode
  <2>1. \A k \in lo .. hi : k \in 0 .. Len(snap)
    BY <1>3, <1>N
  <2> QED  BY <1>5, <1>8, <2>1, BeforeFacts
<1>10. \A i \in has : file[i] \in SliceNode
  <2>1. ASSUME NEW i \in has PROVE file[i] \in SliceNode
    <3>1. i \in 1 .. Len(slices) /\ n \in DOMAIN slices[i].nodes
      BY <1>3, <1>4, <1>7, <1>N
    <3>2. Slice(slices[i])
      BY <3>1 DEF HistoryInv
    <3> QED  BY <1>8, <3>1, <3>2 DEF Slice
  <2> QED  BY <2>1
<1>11. ASSUME NEW k \in lo + 1 .. hi
       PROVE  IF k \in has THEN Adds(node[k - 1], file[k], node[k]) ELSE Alike(node[k - 1], node[k])
  <2>1. k \in 1 .. Len(snap) /\ k - 1 \in lo .. hi /\ k \in lo .. hi
    BY <1>3, <1>N
  <2>2. Follows(Before(snap, k - 1, n), slices[k].nodes, n, Before(snap, k, n))
    BY <1>5, <2>1 DEF ChangeInv
  <2>3. k \in has <=> n \in DOMAIN slices[k].nodes
    BY <1>7
  <2> QED  BY <1>8, <2>1, <2>2, <2>3 DEF Follows
<1>12. PICK sum, before, after :
         /\ sum = SliceSum(n, d[1], d[2])
         /\ before = IF lo > 0 /\ n \in DOMAIN snap[lo] THEN snap[lo][n] ELSE NewNode(0)
         /\ after = snap[hi][n]
  OBVIOUS
<1>13. before = node[lo] /\ after = node[hi]
  <2>1. lo \in lo .. hi /\ hi \in lo .. hi /\ hi > 0
    BY <1>3
  <2>2. before = Before(snap, lo, n)
    BY <1>12 DEF Before, Known
  <2>3. after = Before(snap, hi, n)
    BY <1>1, <1>12, <2>1 DEF Before, Known
  <2> QED  BY <1>8, <2>1, <2>2, <2>3
<1>14. Leads(has, file, before, after)
  <2>1. Chain(lo, hi, has, node, file)
    BY <1>3, <1>7, <1>9, <1>10, <1>11 DEF Chain
  <2>2. Leads(has, file, node[lo], node[hi])
    BY <2>1, NodesAdd
  <2> QED  BY <1>13, <2>2
<1>15. Told(sum, n, has)
  BY <1>6, <1>12, SliceSumFacts
<1>16. before.cc + sum.cc = after.cc
  <2>1. [i \in has |-> file[i].cc] = [i \in has |-> slices[i].nodes[n].cc]
    BY <1>8
  <2> QED  BY <1>14, <1>15, <2>1 DEF Leads, Told
<1>17. ASSUME NEW f \in Fields \ Static PROVE before.all[f] + sum.all[f] = after.all[f]
  <2>1. [i \in has |-> file[i].all[f]] = [i \in has |-> slices[i].nodes[n].all[f]]
    BY <1>8
  <2> QED  BY <1>14, <1>15, <2>1, ZenonT(40) DEF Leads, Told
<1>18. ASSUME NEW f \in Fields \ Static PROVE before.cld[f] + sum.cld[f] = after.cld[f]
  <2>1. [i \in has |-> file[i].cld[f]] = [i \in has |-> slices[i].nodes[n].cld[f]]
    BY <1>8
  <2> QED  BY <1>14, <1>15, <2>1, ZenonT(40) DEF Leads, Told
<1>19. ASSUME NEW f \in Static PROVE sum.all[f] \in {after.all[f], 0}
  <2>1. PICK x : x = CHOOSE i \in has : \A j \in has : i >= j
    OBVIOUS
  <2>2. f \in Static \cap Fields
    BY <1>5
  <2>3. sum.all[f] = IF has = {} THEN 0 ELSE slices[x].nodes[n].all[f]
    BY <1>15, <2>1, <2>2 DEF Told
  <2>4. CASE has = {}
    BY <2>3, <2>4
  <2>5. CASE has # {}
    <3>1. x \in has
      <4>1. has \subseteq 1 .. hi
        BY <1>3, <1>7
      <4> QED  BY <1>3, <2>1, <2>5, <4>1, LastIsThere
    <3>2. file[x].all[f] = after.all[f]
      BY <1>14, <2>1, <2>5 DEF Leads
    <3> QED  BY <1>8, <2>3, <2>5, <3>1, <3>2
  <2> QED  BY <2>4, <2>5
<1>20. Shown(sum, before, after)
  BY <1>16, <1>17, <1>18, <1>19 DEF Shown
<1> QED  BY <1>12, <1>20

\* All of it.
StoreInv == SliceInv /\ TreeInv /\ MarkedOnPath /\ OnlyRootUncovered /\ HistoryInv /\ OwnInv
            /\ ChangeInv

\* The invariant holds at first.
LEMMA StoreInit == ASSUME Init PROVE StoreInv
<1>1. SliceInv
  <2>1. << >> \in Seq({})
    OBVIOUS
  <2> QED
    BY <2>1 DEF Init, SliceInv, VectorInv, StartInv, FutureInv, LatestInv
<1>2. TreeInv
  BY TreeInit
<1>3. MarkedOnPath
  BY DEF Init, MarkedOnPath
<1>4. OnlyRootUncovered
  BY DEF Init, OnlyRootUncovered
<1>5. HistoryInv
  <2>1. Nothing \in Payload
    BY DEF Nothing, Payload, Values, Blank
  <2>2. got \in Receipts
    BY <2>1 DEF Init, Receipts
  <2>3. running \in 0 .. MaxNode
    BY StoreConstants DEF Init
  <2> QED  BY <2>2, <2>3 DEF Init, HistoryInv, SizeInv
<1>6. OwnInv
  BY OwnInit
<1>7. ChangeInv
  BY ChangeInit
<1> QED  BY <1>1, <1>2, <1>3, <1>4, <1>5, <1>6, <1>7 DEF StoreInv

\* And no step breaks it.
LEMMA StoreStep == ASSUME StoreInv, [Next]_vars PROVE StoreInv'
<1>1. SliceInv'
  BY SliceStep DEF StoreInv
<1>2. TreeInv'
  BY TreeStep DEF StoreInv
<1>3. MarkedOnPath'
  BY MarkedStep DEF StoreInv
<1>4. OnlyRootUncovered'
  BY CoveredStep DEF StoreInv
<1>5. HistoryInv'
  BY HistoryStep DEF StoreInv
<1>6. OwnInv'
  BY OwnStep DEF StoreInv, HistoryInv
<1>7. ChangeInv'
  BY ChangeStep DEF StoreInv
<1> QED  BY <1>1, <1>2, <1>3, <1>4, <1>5, <1>6, <1>7 DEF StoreInv

\* In every reachable state the tree, the marks and the slices are in order.
THEOREM StoreInvariance == Spec => []StoreInv
BY StoreInit, StoreStep, PTL DEF Spec

\* The vector of slices starts at a fetch, reaches the last one while the
\* connection lives, and is empty beyond it.
THEOREM SlicesInPlace == Spec => []SliceInv
<1>1. StoreInv => SliceInv
  BY DEF StoreInv
<1> QED  BY <1>1, StoreInvariance, PTL

\* Every variable keeps its type, and no query makes the vector longer than
\* one slice beyond the present (GetTimeSlice).
THEOREM StoreTypes == Spec => []TypeOK
<1>1. StoreInv => TypeOK
  <2>1. SUFFICES ASSUME StoreInv PROVE TypeOK
    OBVIOUS
  <2>2. SliceInv /\ TreeInv /\ MarkedOnPath /\ HistoryInv
    BY <2>1 DEF StoreInv
  <2>3. shape \in [Nodes -> 0 .. MaxNode] /\ temp \in [Nodes -> Payload] /\ recv \in BOOLEAN
    BY <2>2 DEF TreeInv, Shapes, HistoryInv
  <2>4. DOMAIN tree \subseteq Nodes /\ \A n \in DOMAIN tree : tree[n] \in RecordNode
    BY <2>2 DEF TreeInv, Trees
  <2>5. dirty \cup marked \subseteq Nodes
    <3>1. Ascent(tree, running, {}) \subseteq DOMAIN tree \ {}
      BY <2>2, AscentKnown DEF TreeInv, Grown, HistoryInv
    <3> QED  BY <2>2, <2>4, <3>1 DEF TreeInv, NothingLeftDirty, MarkedOnPath
  <2>6. {running, start, time} \subseteq Nat
    BY <2>2, StoreConstants DEF HistoryInv, SliceInv, VectorInv
  <2>7. slices # << >> => Len(slices) <= time - start + 2
    BY <2>2 DEF HistoryInv, SizeInv
  <2>8. \A i \in 1 .. Len(slices) :
          /\ DOMAIN slices[i].nodes \subseteq Nodes
          /\ \A n \in DOMAIN slices[i].nodes : slices[i].nodes[n] \in SliceNode
          /\ {slices[i].now, slices[i].run} \subseteq Nat
    BY <2>2 DEF HistoryInv, Slice
  <2>9. got \in [Nodes -> Payload]
    BY <2>2 DEF HistoryInv, Receipts
  <2>10. \A i \in 1 .. Len(snap) :
           \A n \in DOMAIN snap[i] : n \in Nodes /\ snap[i][n] \in RecordNode
    <3>1. snap \in Seq(Trees)
      BY <2>2 DEF HistoryInv
    <3>2. \A i \in 1 .. Len(snap) : snap[i] \in Trees
      BY <3>1
    <3> QED  BY <3>2 DEF Trees
  <2> QED  BY <2>3, <2>4, <2>5, <2>6, <2>7, <2>8, <2>9, <2>10 DEF TypeOK
<1> QED  BY <1>1, StoreInvariance, PTL

\* No node stays dirty, so none swallows later batches for its branch
\* (MarkNodeDirty, ClearDirtyNode).
THEOREM AlwaysCleared == Spec => []NothingLeftDirty
<1>1. StoreInv => NothingLeftDirty
  BY DEF StoreInv, TreeInv
<1> QED  BY <1>1, StoreInvariance, PTL

\* However the fetches cut the calls, a node's total is what was received for
\* it and, for a counter that callers do not include themselves, below it
\* (AddRecord, MarkNodeDirty, ClearDirtyNode).
THEOREM TotalsAreRight == Spec => []TotalsRight
<1>1. StoreInv => TotalsRight
  BY OwnTotals DEF StoreInv, HistoryInv
<1> QED  BY <1>1, StoreInvariance, PTL

\* The slices between any two fetches add up to the change of the current tree
\* (MergeTimeSlice, Accumulate).
THEOREM DiffsAddUp == Spec => []DiffIsTheChange
<1>1. StoreInv => DiffIsTheChange
  BY DiffFollows DEF StoreInv
<1> QED  BY <1>1, StoreInvariance, PTL

\* Only the way from the running node to the root is marked as running
\* (UnmarkRunningNodes, MarkRunningNodes).
THEOREM MarksFollowRunning == Spec => []MarkedOnPath
<1>1. StoreInv => MarkedOnPath
  BY DEF StoreInv
<1> QED  BY <1>1, StoreInvariance, PTL

\* CheckAllTimeSlice finds every node but the root in some slice.
THEOREM AllButRootCovered == Spec => []OnlyRootUncovered
<1>1. StoreInv => OnlyRootUncovered
  BY DEF StoreInv
<1> QED  BY <1>1, StoreInvariance, PTL

\* A diff up to now shows the counters and the running node of the last fetch
\* as long as the connection lives (GetTimeSlice, Store, DumpJSON).
THEOREM DiffAlwaysUpToDate == Spec => []DiffIsUpToDate
<1>1. SliceInv => DiffIsUpToDate
  <2>1. SUFFICES ASSUME SliceInv, recv, slices # << >>
                 PROVE  \E i \in 1 .. Len(slices) :
                          i = SliceIndex(time) /\ slices[i].now = time /\ slices[i].run = running
    BY DEF DiffIsUpToDate
  <2>2. Now = SliceIndex(time)
    BY <2>1 DEF Now, SliceIndex, StartTime
  <2>3. Now \in Nat \ {0} /\ Len(slices) \in Nat
    BY <2>1 DEF SliceInv, VectorInv, StartInv, Now
  <2> QED  BY <2>1, <2>2, <2>3 DEF SliceInv, LatestInv
<1> QED  BY <1>1, SlicesInPlace, PTL

\* No batch and no query changes a slice that was filled: a fetch files its
\* batch at a place that is new or that a query left empty.
THEOREM FilledStaysFilled == Spec => SlicesAreFinal
<1>1. ASSUME SliceInv, [Next]_vars
      PROVE  [\A i \in 1 .. Len(slices) :
                slices[i] # EmptySlice => i <= Len(slices') /\ slices'[i] = slices[i]]_vars
  BY <1>1, FilledKept
<1> QED  BY <1>1, SlicesInPlace, PTL DEF Spec, SlicesAreFinal

=============================================================================
