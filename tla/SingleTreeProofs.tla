-------------------------- MODULE SingleTreeProofs --------------------------
(***************************************************************************)
(* The integrated tree, for any stores, threads, call trees and bounds.    *)
(* First what crashes the receive thread: a request for a time to come, a  *)
(* target that never told what it measures, or one that measures less than *)
(* the one the global store follows.  Then what the global tree holds:     *)
(* every call of the sources that measure anything once, in the tree or in *)
(* a slice still to be integrated, and in the slices of the global store.  *)
(***************************************************************************)
EXTENDS SingleTree, FiniteSetTheorems, WellFoundedInduction, TLAPS

(***************************************************************************)
(* Least and greatest numbers.                                             *)
(***************************************************************************)

\* The order of the numbers, as a relation.
LEMMA Descent ==
  \E R : IsWellFoundedOn(R, Nat) /\ \A k, m \in Nat : k < m => <<k, m>> \in R
<1>1. IsWellFoundedOn(OpToRel(<, Nat), Nat)
  BY NatLessThanWellFounded
<1>2. \A k, m \in Nat : k < m => <<k, m>> \in OpToRel(<, Nat)
  BY DEF OpToRel
<1> QED  BY <1>1, <1>2

\* A set of numbers has a least element.
LEMMA Least == ASSUME NEW S, S \subseteq Nat, S # {} PROVE \E m \in S : \A k \in S : m <= k
<1>1. PICK R : IsWellFoundedOn(R, Nat) /\ \A k, m \in Nat : k < m => <<k, m>> \in R
  BY Descent
<1>2. PICK m \in S : \A k \in S : ~ (<<k, m>> \in R)
  <2>1. \A RR, SS, TT : IsWellFoundedOn(RR, SS) /\ TT \subseteq SS /\ TT # {}
                          => \E x \in TT : \A y \in TT : ~ (<<y, x>> \in RR)
    BY WFMin
  <2>2. S \subseteq Nat /\ S # {} /\ IsWellFoundedOn(R, Nat)
    BY <1>1
  <2> QED  BY <2>1, <2>2
<1>3. ASSUME NEW k \in S PROVE m <= k
  <2>1. m \in Nat /\ k \in Nat
    OBVIOUS
  <2>2. ~(k < m)
    BY <1>1, <1>2, <2>1
  <2> QED  BY <2>1, <2>2
<1> QED  BY <1>3

LEMMA MinFacts ==
  ASSUME NEW S, S \subseteq Nat, S # {}
  PROVE  Min(S) \in S /\ \A k \in S : Min(S) <= k
BY Least DEF Min

LEMMA MaxFacts ==
  ASSUME NEW S, S \subseteq Nat, S # {}, NEW B \in Nat, \A k \in S : k <= B
  PROVE  Max(S) \in S /\ \A k \in S : k <= Max(S)
<1>1. PICK T : T = {B - k : k \in S}
  OBVIOUS
<1>2. T \subseteq Nat /\ T # {}
  <2>1. ASSUME NEW k \in S PROVE B - k \in Nat
    OBVIOUS
  <2>2. \E k : k \in S
    OBVIOUS
  <2> QED  BY <1>1, <2>1, <2>2
<1>3. PICK d \in T : \A e \in T : d <= e
  BY <1>2, Least
<1>4. PICK m \in S : d = B - m
  BY <1>1
<1>5. ASSUME NEW k \in S PROVE m >= k
  <2>1. B - m <= B - k
    BY <1>1, <1>3, <1>4
  <2> QED  BY <2>1
<1>6. Max(S) \in S /\ \A k \in S : Max(S) >= k
  BY <1>5 DEF Max
<1> QED  BY <1>6

(***************************************************************************)
(* Time slices.                                                            *)
(***************************************************************************)

\* A vector of time slices of the times until now.
Until(v, now) == v = << >> \/ (DOMAIN v # {} /\ DOMAIN v \subseteq 0 .. now)

\* A lookup of a time until now.
LEMMA LookupFacts ==
  ASSUME NEW v, NEW now \in Nat, Until(v, now), NEW ts \in 0 .. now
  PROVE  /\ Until(GetTimeSlice(v, ts), now)
         /\ ts = now => ts \in DOMAIN GetTimeSlice(v, ts)
<1>1. CASE v = << >>
  <2>1. DOMAIN v = {}
    BY <1>1
  <2>2. PICK last : last = Max(DOMAIN v \cup {ts})
    OBVIOUS
  <2>3. last = ts
    BY <2>1, <2>2 DEF Max
  <2>5. GetTimeSlice(v, ts) = [k \in ts .. last |-> IF k \in DOMAIN v THEN v[k] ELSE NoNodes]
    BY <1>1, <2>2 DEF GetTimeSlice
  <2>4. DOMAIN GetTimeSlice(v, ts) = ts .. ts
    BY <2>3, <2>5
  <2> QED  BY <2>4 DEF Until
<1>2. CASE v # << >>
  <2>1. PICK start : start = Min(DOMAIN v)
    OBVIOUS
  <2>2. start \in DOMAIN v /\ DOMAIN v \subseteq 0 .. now
    BY <1>2, <2>1, MinFacts DEF Until
  <2>3. PICK last : last = Max(DOMAIN v \cup {ts})
    OBVIOUS
  <2>4. last \in 0 .. now /\ ts <= last /\ start <= last
    <3>1. PICK S : S = DOMAIN v \cup {ts}
      OBVIOUS
    <3>2. S \subseteq Nat /\ S # {} /\ \A k \in S : k <= now
      BY <2>2, <3>1
    <3>3. Max(S) \in S /\ \A k \in S : k <= Max(S)
      BY <3>2, MaxFacts
    <3> QED  BY <2>2, <2>3, <3>1, <3>3
  <2>5. CASE ts < start
    <3>1. GetTimeSlice(v, ts) = v
      BY <1>2, <2>1, <2>5 DEF GetTimeSlice
    <3>2. ts # now
      BY <2>2, <2>5
    <3> QED  BY <3>1, <3>2
  <2>6. CASE ~(ts < start)
    <3>1. GetTimeSlice(v, ts) = [k \in start .. last |-> IF k \in DOMAIN v THEN v[k] ELSE NoNodes]
      BY <1>2, <2>1, <2>3, <2>6 DEF GetTimeSlice
    <3>2. DOMAIN GetTimeSlice(v, ts) = start .. last
      BY <3>1
    <3>3. start \in 0 .. now /\ start <= ts
      BY <2>2, <2>6
    <3> QED  BY <2>4, <3>2, <3>3 DEF Until
  <2> QED  BY <2>5, <2>6
<1> QED  BY <1>1, <1>2

\* A diff request leaves no slice of a time to come, unless it asked for one.
LEMMA QueriedFacts ==
  ASSUME NEW v, NEW now \in Nat, Until(v, now), NEW from \in Nat, NEW to \in 0 .. now
  PROVE  Until(Queried(v, from, to), now)
<1>1. CASE from <= to
  <2>1. PICK w : w = GetTimeSlice(v, from)
    OBVIOUS
  <2>2. from \in 0 .. now
    BY <1>1
  <2>3. Until(w, now)
    BY <2>1, <2>2, LookupFacts
  <2>4. Until(GetTimeSlice(w, to), now)
    BY <2>3, LookupFacts
  <2> QED  BY <1>1, <2>1, <2>4 DEF Queried
<1>2. CASE ~(from <= to)
  BY <1>2, LookupFacts DEF Queried
<1> QED  BY <1>1, <1>2

(***************************************************************************)
(* The inductive invariant.                                                *)
(***************************************************************************)

States == {"absent", "new", "live", "dead"}
KindInv ==
  /\ state \in [Stores -> States]
  /\ meta \subseteq Stores
  /\ time \in [Stores -> Nat]
  /\ DOMAIN slices = Sources
  /\ \A s \in Sources : tree[s] # NoNodes => s[1] \in meta
  /\ future \in BOOLEAN

\* What is left of a round.
TodoInv ==
  /\ pc = "fetch" => todo # {} /\ todo \subseteq Stores
  /\ pc = "integrate" => todo # {} /\ todo \subseteq Existing

\* The slices of a source end with its last fetch.
UntilNow == future \/ \A s \in Sources : Until(slices[s], time[s[1]])

CInv == KindInv /\ TodoInv /\ UntilNow /\ CrashNeedsReason

LEMMA CInit == Init => CInv
<1> SUFFICES ASSUME Init PROVE CInv
  OBVIOUS
<1>1. KindInv
  BY DEF Init, KindInv, States
<1>2. TodoInv /\ CrashNeedsReason
  BY DEF Init, TodoInv, CrashNeedsReason
<1>3. UntilNow
  BY DEF Init, UntilNow, Until
<1> QED  BY <1>1, <1>2, <1>3 DEF CInv

\* The first of the sources that are left.
LEMMA NextSourceFacts ==
  ASSUME todo # {}, todo \subseteq Sources
  PROVE  NextSource \in todo
<1>1. \A s \in todo : s[1] \in Nat /\ s[2] \in Nat
  BY SingleTreeConstants DEF Sources
<1>2. PICK i \in {s[1] : s \in todo} : \A k \in {s[1] : s \in todo} : i <= k
  <2>1. PICK S : S = {s[1] : s \in todo}
    OBVIOUS
  <2>2. S \subseteq Nat /\ S # {}
    BY <1>1, <2>1
  <2> QED  BY <2>1, <2>2, Least
<1>3. PICK S : S = {s[2] : s \in {r \in todo : r[1] = i}}
  OBVIOUS
<1>4. S \subseteq Nat /\ S # {}
  BY <1>1, <1>2, <1>3
<1>5. PICK j \in S : \A k \in S : j <= k
  BY <1>4, Least
<1>6. PICK s \in todo : s[1] = i /\ s[2] = j
  BY <1>3, <1>5
<1>7. ASSUME NEW r \in todo PROVE s[1] < r[1] \/ (s[1] = r[1] /\ s[2] <= r[2])
  <2>1. i <= r[1] /\ i \in Nat /\ r[1] \in Nat
    BY <1>1, <1>2
  <2>2. r[1] = i => j <= r[2]
    BY <1>3, <1>5
  <2> QED  BY <1>6, <2>1, <2>2
<1>8. \E m \in todo : \A r \in todo : m[1] < r[1] \/ (m[1] = r[1] /\ m[2] <= r[2])
  BY <1>7
<1> QED  BY <1>8 DEF NextSource

\* A request asks for slices of a source, and grows their vector.
LEMMA QueryStep ==
  ASSUME CInv, NEW i \in Stores, NEW from \in 1 .. MaxTime + 1, NEW to \in 1 .. MaxTime + 1,
         QuerySource(i, from, to)
  PROVE  CInv'
<1> USE DEF globalVars
<1>1. /\ UNCHANGED <<state, meta, time, tree, pc, todo>> /\ pc # "crashed"
      /\ future' = (future \/ to > time[i])
      /\ slices' = [s \in Sources |-> IF s[1] = i /\ tree[s] # NoNodes
                      THEN Queried(slices[s], from, to) ELSE slices[s]]
  BY DEF QuerySource, Query
<1>2. KindInv'
  BY <1>1 DEF CInv, KindInv, Sources
<1>3. TodoInv' /\ CrashNeedsReason'
  BY <1>1 DEF CInv, TodoInv, CrashNeedsReason, Existing, Sources
<1>4. UntilNow'
  <2>1. CASE future'
    BY <2>1 DEF UntilNow
  <2>2. CASE ~future'
    <3>1. ~future /\ ~(to > time[i]) /\ time[i] \in Nat
      BY <1>1, <2>2 DEF CInv, KindInv
    <3>2. from \in Nat /\ to \in 0 .. time[i]
      BY <3>1, SingleTreeConstants
    <3>3. ASSUME NEW s \in Sources PROVE Until(slices'[s], time'[s[1]])
      <4>1. Until(slices[s], time[s[1]])
        BY <3>1 DEF CInv, UntilNow
      <4>2. CASE s[1] = i /\ tree[s] # NoNodes
        <5>1. slices'[s] = Queried(slices[s], from, to)
          BY <1>1, <4>2
        <5> QED  BY <1>1, <3>1, <3>2, <4>1, <4>2, <5>1, QueriedFacts
      <4>3. CASE ~(s[1] = i /\ tree[s] # NoNodes)
        BY <1>1, <4>1, <4>3
      <4> QED  BY <4>2, <4>3
    <3> QED  BY <3>3 DEF UntilNow
  <2> QED  BY <2>1, <2>2
<1> QED  BY <1>2, <1>3, <1>4 DEF CInv

\* A fetch files its batch in the slice of the new time number.
LEMMA FetchStep ==
  ASSUME CInv, pc = "fetch", NEW i \in Stores, i = Min(todo), Fetch(i), future' = future
  PROVE  CInv'
<1>1. /\ state[i] \in {"new", "live"} /\ state' = [state EXCEPT ![i] = "live"]
      /\ meta' = meta \cup {i} /\ time' = [time EXCEPT ![i] = time[i] + 1]
  BY DEF CInv, KindInv, Fetch
<1>K. time \in [Stores -> Nat] /\ DOMAIN slices = Sources /\ state \in [Stores -> States]
  BY DEF CInv, KindInv
<1>2. PICK now \in Nat : now = time[i] + 1
  BY <1>K
<1>3. time'[i] = now /\ \A j \in Stores \ {i} : time'[j] = time[j]
  BY <1>1, <1>2, <1>K
<1>4. todo # {} /\ todo \subseteq Stores
  BY DEF CInv, TodoInv
<1> DEFINE Missing ==
             \E t \in ThreadIds : time'[i] \notin DOMAIN GetTimeSlice(slices[i, t], time'[i])
           Filing(batch, run) ==
             slices' = [s \in Sources |-> IF s[1] # i THEN slices[s]
                         ELSE [GetTimeSlice(slices[i, s[2]], time'[i])
                                 EXCEPT ![time'[i]] = Filed(<<i, s[2]>>, batch[s[2]], run[s[2]])]]
           Outcome(batch, run) ==
             /\ \A s \in Sources : s[1] # i => tree'[s] = tree[s]
             /\ \/ Missing /\ pc' = "crashed" /\ todo' = todo /\ slices' = slices
                \/ Filing(batch, run) /\ NextStore(i)
<1>5. PICK batch, run : Outcome(batch, run)
  <2>1. PICK batch, run : Store(i, batch, run)
    BY DEF Fetch
  <2>2. \A s \in Sources : s[1] # i => tree'[s] = tree[s]
    BY <2>1 DEF Store
  <2>3. Missing => pc' = "crashed" /\ todo' = todo /\ slices' = slices
    BY <2>1 DEF Store
  <2>4. ~Missing => Filing(batch, run) /\ NextStore(i)
    BY <2>1 DEF Store
  <2> HIDE DEF Missing, Filing
  <2>5. Outcome(batch, run)
    BY <2>2, <2>3, <2>4
  <2> HIDE DEF Outcome
  <2> QED  BY <2>5
<1>6. \A s \in Sources : s[1] \in Stores /\ s[2] \in ThreadIds /\ s = <<s[1], s[2]>>
  BY DEF Sources
<1>7. \A t \in ThreadIds : <<i, t>> \in Sources
  BY DEF Sources
<1>8. ASSUME ~future, NEW t \in ThreadIds
      PROVE  /\ Until(GetTimeSlice(slices[i, t], now), now)
             /\ now \in DOMAIN GetTimeSlice(slices[i, t], now)
  <2>1. Until(slices[i, t], time[i])
    BY <1>7, <1>8 DEF CInv, UntilNow
  <2>2. Until(slices[i, t], now)
    <3>1. PICK v : v = slices[i, t]
      OBVIOUS
    <3>2. time[i] \in Nat
      BY <1>K
    <3>3. 0 .. time[i] \subseteq 0 .. now
      BY <1>2, <3>2
    <3> QED  BY <2>1, <3>1, <3>3 DEF Until
  <2>3. now \in 0 .. now
    BY <1>2
  <2> QED  BY <2>2, <2>3, LookupFacts
<1>9. KindInv'
  <2>1. state' \in [Stores -> States] /\ meta' \subseteq Stores /\ time' \in [Stores -> Nat]
    BY <1>1, <1>K DEF CInv, KindInv, States
  <2>2. DOMAIN slices' = Sources
    BY <1>5, <1>K
  <2>3. ASSUME NEW s \in Sources, tree'[s] # NoNodes PROVE s[1] \in meta'
    <3>1. CASE s[1] = i
      BY <1>1, <3>1
    <3>2. CASE s[1] # i
      BY <1>1, <1>5, <2>3, <3>2 DEF CInv, KindInv
    <3> QED  BY <3>1, <3>2
  <2> QED  BY <2>1, <2>2, <2>3 DEF CInv, KindInv, Sources
<1>10. TodoInv'
  BY <1>4, <1>5 DEF TodoInv, NextStore
<1>11. CrashNeedsReason'
  <2>1. CASE future
    BY <2>1 DEF CrashNeedsReason
  <2>2. CASE ~future
    <3>1. NextStore(i)
      BY <1>3, <1>5, <1>8, <2>2
    <3> QED  BY <3>1 DEF CrashNeedsReason, NextStore
  <2> QED  BY <2>1, <2>2
<1>12. UntilNow'
  <2>1. CASE future
    BY <2>1 DEF UntilNow
  <2>2. CASE ~future
    <3>1. slices' = [s \in Sources |-> IF s[1] # i THEN slices[s]
                          ELSE [GetTimeSlice(slices[i, s[2]], time'[i])
                                  EXCEPT ![time'[i]] = Filed(<<i, s[2]>>, batch[s[2]], run[s[2]])]]
      BY <1>3, <1>5, <1>8, <2>2
    <3>2. ASSUME NEW s \in Sources, s[1] = i PROVE Until(slices'[s], time'[s[1]])
      <4>1. PICK w : w = GetTimeSlice(slices[i, s[2]], now)
        OBVIOUS
      <4>2. Until(w, now) /\ now \in DOMAIN w
        BY <1>6, <1>8, <2>2, <4>1
      <4>3. slices'[s] = [w EXCEPT ![now] = Filed(<<i, s[2]>>, batch[s[2]], run[s[2]])]
        BY <1>3, <3>1, <3>2, <4>1
      <4>4. DOMAIN slices'[s] = DOMAIN w
        BY <4>3
      <4>5. DOMAIN w # {} /\ DOMAIN w \subseteq 0 .. now
        BY <4>2 DEF Until
      <4> QED  BY <1>3, <3>2, <4>4, <4>5 DEF Until
    <3>3. ASSUME NEW s \in Sources, s[1] # i PROVE Until(slices'[s], time'[s[1]])
      <4>1. slices'[s] = slices[s] /\ time'[s[1]] = time[s[1]]
        BY <1>3, <1>6, <3>1, <3>3
      <4> QED  BY <2>2, <4>1 DEF CInv, UntilNow
    <3> QED  BY <3>2, <3>3 DEF UntilNow
  <2> QED  BY <2>1, <2>2
<1> QED  BY <1>9, <1>10, <1>11, <1>12 DEF CInv

\* The other turns of the receive thread.
LEMMA MissStep ==
  ASSUME CInv, pc = "fetch", NEW i \in Stores, FetchFails(i) \/ BadAnswer(i) \/ Skip(i),
         future' = future
  PROVE  CInv'
<1>1. /\ NextStore(i) \/ pc' = "stopped"
      /\ UNCHANGED <<tree, slices>> /\ meta \subseteq meta' /\ meta' \subseteq Stores
      /\ state' \in [Stores -> States] /\ time' \in [Stores -> Nat]
      /\ \A j \in Stores : time[j] <= time'[j]
  <2>1. CASE FetchFails(i)
    BY <2>1 DEF CInv, KindInv, FetchFails, States
  <2>2. CASE Skip(i)
    BY <2>2 DEF CInv, KindInv, Skip, sourceVars
  <2>3. CASE BadAnswer(i)
    BY <2>3 DEF CInv, KindInv, BadAnswer, sourceVars
  <2> QED  BY <2>1, <2>2, <2>3
<1>2. KindInv'
  BY <1>1 DEF CInv, KindInv, Sources
<1>3. TodoInv'
  BY <1>1 DEF CInv, TodoInv, NextStore
<1>4. CrashNeedsReason'
  BY <1>1 DEF CrashNeedsReason, NextStore
<1>5. UntilNow'
  <2>1. \A s \in Sources : s[1] \in Stores
    BY DEF Sources
  <2>2. \A j \in Stores : time[j] \in Nat /\ time'[j] \in Nat
    BY <1>1 DEF CInv, KindInv
  <2>3. ASSUME NEW s \in Sources, Until(slices[s], time[s[1]])
        PROVE  Until(slices[s], time'[s[1]])
    BY <1>1, <2>1, <2>2, <2>3 DEF Until
  <2> QED  BY <1>1, <2>3 DEF CInv, UntilNow
<1> QED  BY <1>2, <1>3, <1>4, <1>5 DEF CInv

\* The integration of a round begins if a store lends its metadata.
LEMMA BeginStep == ASSUME CInv, BeginIntegrate PROVE CInv'
<1> USE DEF sourceVars
<1>1. /\ UNCHANGED <<state, meta, time, tree, slices, future>> /\ pc = "choose"
  BY DEF BeginIntegrate
<1>2. PICK nonzero \in SUBSET {i \in Stores \ meta : state[i] # "absent"} :
        LET lenders == {i \in meta : records[i] # 0} \cup nonzero
            lender  == Min(lenders)
        IN
        \/ pc' = "sleep"
        \/ lenders # {} /\ lender \notin meta /\ pc' = "crashed"
        \/ /\ todo' = Existing
           /\ pc' = IF Existing = {} THEN "sleep" ELSE "integrate"
  BY DEF BeginIntegrate
<1>3. KindInv' /\ UntilNow'
  BY <1>1 DEF CInv, KindInv, UntilNow, Sources
<1>4. TodoInv'
  <2>1. Existing' = Existing
    BY <1>1 DEF Existing, Sources
  <2> QED  BY <1>2, <2>1 DEF TodoInv
<1>5. CrashNeedsReason'
  <2>1. SUFFICES ASSUME pc' = "crashed" PROVE \E i \in Stores \ meta : state[i] # "absent"
    BY <1>1 DEF CrashNeedsReason
  <2>2. PICK lenders : lenders = {i \in meta : records[i] # 0} \cup nonzero
    OBVIOUS
  <2>3. lenders # {} /\ Min(lenders) \notin meta
    BY <1>2, <2>1, <2>2
  <2>4. lenders \subseteq Nat
    BY <2>2, SingleTreeConstants DEF CInv, KindInv
  <2>5. Min(lenders) \in nonzero
    BY <2>2, <2>3, <2>4, MinFacts
  <2> QED  BY <2>5
<1> QED  BY <1>3, <1>4, <1>5 DEF CInv

\* A source is integrated, and its slices are removed.
LEMMA IntegrateStep == ASSUME CInv, Integrate PROVE CInv'
<1>1. /\ pc = "integrate" /\ UNCHANGED <<records, lent, state, meta, time, tree, future>>
  BY DEF Integrate
<1>2. PICK s : s = NextSource
  OBVIOUS
<1>S. todo # {} /\ todo \subseteq Sources /\ todo \subseteq Existing
  BY <1>1 DEF CInv, TodoInv, Existing
<1>3. s \in todo
  BY <1>2, <1>S, NextSourceFacts
<1>4. PICK v : v = GetTimeSlice(slices[s], time[s[1]])
  OBVIOUS
<1>5. \/ /\ time[s[1]] \in DOMAIN v => records[s[1]] < lent
         /\ pc' = "crashed" /\ UNCHANGED <<slices, todo>>
      \/ /\ slices' = [slices EXCEPT ![s] = << >>]
         /\ todo' = todo \ {s}
         /\ pc' = IF todo = {s} THEN "sleep" ELSE pc
  BY <1>2, <1>4 DEF Integrate, RemoveTimeSlice, Short
<1>6. KindInv'
  BY <1>1, <1>5 DEF CInv, KindInv, Sources
<1>7. TodoInv'
  <2>1. Existing' = Existing
    BY <1>1 DEF Existing, Sources
  <2> QED  BY <1>1, <1>3, <1>S, <1>5, <2>1 DEF TodoInv
<1>8. UntilNow'
  <2>1. \A r \in Sources : slices'[r] = slices[r] \/ slices'[r] = << >>
    BY <1>5 DEF CInv, KindInv
  <2> QED  BY <1>1, <2>1 DEF CInv, UntilNow, Until, Sources
<1>9. CrashNeedsReason'
  <2>1. CASE future
    BY <1>1, <2>1 DEF CrashNeedsReason
  <2>2. CASE ~future
    <3>1. Until(slices[s], time[s[1]]) /\ time[s[1]] \in Nat
      BY <1>3, <1>S, <2>2 DEF CInv, KindInv, UntilNow, Sources
    <3>2. time[s[1]] \in DOMAIN v
      BY <1>4, <3>1, LookupFacts
    <3>3. s[1] \in meta
      BY <1>3, <1>S DEF CInv, KindInv, Existing
    <3>4. pc' = "crashed" => records[s[1]] < lent
      BY <1>1, <1>5, <3>2
    <3> QED  BY <1>1, <3>3, <3>4 DEF CrashNeedsReason
  <2> QED  BY <2>1, <2>2
<1> QED  BY <1>6, <1>7, <1>8, <1>9 DEF CInv

LEMMA CStep == CInv /\ [Next]_vars => CInv'
<1> SUFFICES ASSUME CInv, [Next]_vars PROVE CInv'
  OBVIOUS
<1>1. ASSUME NEW i \in Stores, Create(i) PROVE CInv'
  <2>1. /\ UNCHANGED <<records, lent, meta, time, tree, slices, pc, todo, future>>
        /\ state[i] = "absent" /\ state' = [state EXCEPT ![i] = "new"]
    BY <1>1 DEF Create, globalVars
  <2>2. KindInv'
    BY <2>1 DEF CInv, KindInv, States, Sources
  <2>3. TodoInv' /\ UntilNow'
    BY <2>1 DEF CInv, TodoInv, UntilNow, Existing, Sources
  <2>4. CrashNeedsReason'
    <3>1. \A j \in Stores : state[j] # "absent" => state'[j] # "absent"
      BY <2>1 DEF CInv, KindInv
    <3> QED  BY <2>1, <3>1 DEF CInv, CrashNeedsReason
  <2> QED  BY <2>2, <2>3, <2>4 DEF CInv
<1>2. CASE Wake
  <2>1. /\ UNCHANGED <<records, state, meta, time, tree, slices, future>>
        /\ pc = "sleep" /\ pc' = "fetch" /\ todo' = Stores
    BY <1>2 DEF Wake, sourceVars
  <2>2. KindInv' /\ UntilNow'
    BY <2>1 DEF CInv, KindInv, UntilNow, Sources
  <2>3. TodoInv' /\ CrashNeedsReason'
    BY <2>1, SingleTreeConstants DEF TodoInv, CrashNeedsReason
  <2> QED  BY <2>2, <2>3 DEF CInv
<1>3. CASE Receive
  <2>1. PICK i : i = Min(todo)
    OBVIOUS
  <2>2. pc = "fetch" /\ future' = future /\ (Fetch(i) \/ FetchFails(i) \/ BadAnswer(i) \/ Skip(i))
    BY <1>3, <2>1 DEF Receive
  <2>3. todo # {} /\ todo \subseteq Stores /\ todo \subseteq Nat
    BY <2>2, SingleTreeConstants DEF CInv, TodoInv
  <2>4. i \in Stores
    BY <2>1, <2>3, MinFacts
  <2> QED  BY <2>1, <2>2, <2>4, FetchStep, MissStep
<1>4. CASE BeginIntegrate \/ Integrate
  BY <1>4, BeginStep, IntegrateStep
<1>5. ASSUME NEW from \in 1 .. MaxTime + 1, NEW to \in 1 .. MaxTime + 1,
             QueryGlobal(from, to) \/ \E i \in Stores : QuerySource(i, from, to)
      PROVE  CInv'
  <2>1. CASE \E i \in Stores : QuerySource(i, from, to)
    BY <2>1, QueryStep
  <2>2. CASE QueryGlobal(from, to)
    <3>1. /\ UNCHANGED <<records, lent, state, meta, time, tree, slices, pc, todo>>
          /\ future' = (future \/ to > gtime)
      BY <2>2 DEF QueryGlobal, Query, sourceVars
    <3>2. KindInv'
      BY <3>1 DEF CInv, KindInv, Sources
    <3>3. TodoInv' /\ UntilNow' /\ CrashNeedsReason'
      BY <3>1 DEF CInv, KindInv, TodoInv, UntilNow, CrashNeedsReason, Existing, Sources
    <3> QED  BY <3>2, <3>3 DEF CInv
  <2> QED  BY <1>5, <2>1, <2>2
<1>6. CASE UNCHANGED vars
  <2>1. UNCHANGED <<records, lent, state, meta, time, tree, slices, pc, todo, future>>
    BY <1>6 DEF vars, sourceVars, globalVars
  <2>2. KindInv' /\ TodoInv'
    BY <2>1 DEF CInv, KindInv, TodoInv, Existing, Sources
  <2>3. UntilNow' /\ CrashNeedsReason'
    BY <2>1 DEF CInv, UntilNow, CrashNeedsReason, Sources
  <2> QED  BY <2>2, <2>3 DEF CInv
<1> QED  BY <1>1, <1>2, <1>3, <1>4, <1>5, <1>6 DEF Next

\* While no request names a time to come, the slices of every source end with
\* its last fetch, and the rounds go on.
THEOREM SlicesUntilNow == Spec => []CInv
<1>1. Init => CInv
  BY CInit
<1>2. CInv /\ [Next]_vars => CInv'
  BY CStep
<1> QED  BY <1>1, <1>2, PTL DEF Spec

\* Storing and integrating crash only after a request for a time to come, or for
\* a target that is there and never told what it measures, or has fewer records
\* than the global store.
THEOREM CrashHasReason == Spec => []CrashNeedsReason
<1>1. CInv => CrashNeedsReason
  BY DEF CInv
<1> QED  BY <1>1, SlicesUntilNow, PTL

(***************************************************************************)
(* The second inductive invariant.                                         *)
(***************************************************************************)

\* Counts of some nodes of S.
Tally(f, S) == f \in [DOMAIN f -> Int] /\ DOMAIN f \subseteq S

\* A vector of time slices.
Vector(v) == v = << >> \/ \E a, b \in Nat : a <= b /\ DOMAIN v = a .. b

\* A set of nodes of a call tree with their ancestors.
Closed(s, N) == N \subseteq Nodes(s) /\ \A n \in N \ {1} : Parent(s, n) \in N

\* A vector of slices of a source.
Slices(s, v) == Vector(v) /\ \A k \in DOMAIN v : Tally(v[k], Nodes(s))

\* Numbers for paths: one each, the next ones after that of the root.
IsNumbering(f) ==
  /\ IsFiniteSet(DOMAIN f) /\ << >> \notin DOMAIN f
  /\ f \in [DOMAIN f -> 2 .. Cardinality(DOMAIN f) + 1]
  /\ \A p, q \in DOMAIN f : f[p] = f[q] => p = q
  /\ \A d \in 2 .. Cardinality(DOMAIN f) + 1 : \E p \in DOMAIN f : f[p] = d

\* The paths that have a number, the root's too.
Numbers(f) == DOMAIN f \cup {<< >>}

\* A tree with a node for every number.
NodeEach(f, t) == t \in [1 .. Cardinality(DOMAIN f) + 1 -> Int]

\* The parent of a node stands for the path without the last name.
ParentsRight(f, gp) ==
  \A p \in DOMAIN f : Front(p) \in Numbers(f) /\ gp[f[p]] = Seq0(f, Front(p))

\* The round: every store and the global store go one time number further.
RoundInv ==
  /\ shape \in [Sources -> Shapes] /\ records \in [Stores -> 0 .. MaxRecords]
  /\ state \in [Stores -> States] /\ meta \subseteq Stores
  /\ time \in [Stores -> 0 .. MaxTime] /\ gtime \in 0 .. MaxTime /\ lent \in 0 .. Blank
  /\ pc \in {"sleep", "fetch", "choose", "integrate", "stopped", "crashed"}
  /\ pc = "fetch" => todo # {} /\ todo \subseteq Stores /\ \A i \in todo : time[i] < MaxTime
  /\ pc \in {"fetch", "choose"} => gtime < MaxTime
  /\ pc = "integrate" => todo # {} /\ todo \subseteq Sources /\ lent # 0
  /\ queries \in 0 .. MaxQueries /\ dest \in BOOLEAN /\ future \in BOOLEAN

\* The tree and the slices of a source; a slice has the parents of its nodes.
SourceOK(s, tr, v, me) ==
  /\ Tally(tr, Nodes(s)) /\ (tr # NoNodes => s[1] \in me)
  /\ Slices(s, v) /\ \A k \in DOMAIN v : Closed(s, DOMAIN v[k])

SourcesInv ==
  /\ DOMAIN tree = Sources /\ DOMAIN slices = Sources
  /\ \A s \in Sources : SourceOK(s, tree[s], slices[s], meta)

\* The sources that were fetched in this round and are not integrated yet.
Fetched(s) ==
  \/ pc = "fetch" /\ s[1] \notin todo
  \/ pc = "choose"
  \/ pc = "integrate" /\ s \in todo

\* Nothing is left in a slice of a source that records anything but what the
\* last fetch of this round filed; those of the others pile up.
FreshInv ==
  pc \notin {"stopped", "crashed"} =>
    \A s \in Measured : \A k \in DOMAIN slices[s] :
      DOMAIN slices[s][k] # {} => k = time[s[1]] /\ tree[s] # NoNodes /\ Fetched(s)

\* The global tree has a node for the root and one for every numbered path.
NodesInv ==
  /\ IsNumbering(ids) /\ NodeEach(ids, gtree)
  /\ DOMAIN gparent = DOMAIN gtree /\ ParentsRight(ids, gparent)

\* The slices of the global store: until a request names a time to come they
\* end with the slice being written.
GlobalSlices(S, gs) == Vector(gs) /\ \A k \in DOMAIN gs : Tally(gs[k], S)
GlobalInv ==
  /\ GlobalSlices(DOMAIN gtree, gslices)
  /\ lent # 0 => gslices # << >>
  /\ ~future => dest /\ (gslices # << >> => \E a \in Nat : a <= gtime /\ DOMAIN gslices = a .. gtime)

TInv == /\ RoundInv /\ SourcesInv /\ FreshInv /\ GlobalTotals
        /\ NodesInv /\ GlobalInv /\ GlobalSlicesAddUp

\* What holds of 0 and passes on from a number to the next, up to a bound,
\* holds up to the bound.
LEMMA Induction ==
  ASSUME NEW last \in Nat, NEW T, 0 \in T, \A k \in 1 .. last : k - 1 \in T => k \in T
  PROVE  0 .. last \subseteq T
<1>1. PICK S : S = {k \in 0 .. last : k \notin T}
  OBVIOUS
<1>2. SUFFICES ASSUME S # {} PROVE FALSE
  BY <1>1
<1>3. PICK m \in S : \A k \in S : m <= k
  <2>1. S \subseteq Nat
    BY <1>1
  <2> QED  BY <1>2, <2>1, Least
<1>4. m \in 1 .. last /\ m \notin T
  BY <1>1, <1>3
<1>5. m - 1 \in 0 .. last /\ ~(m <= m - 1)
  BY <1>4
<1>6. m - 1 \in T
  BY <1>1, <1>3, <1>5
<1> QED  BY <1>4, <1>6

\* What passes on to a number from all the smaller ones holds of each.
LEMMA Course ==
  ASSUME NEW last \in Nat, NEW T, \A k \in 0 .. last : (0 .. k - 1 \subseteq T) => k \in T
  PROVE  0 .. last \subseteq T
<1>1. PICK S : S = {k \in 0 .. last : k \notin T}
  OBVIOUS
<1>2. SUFFICES ASSUME S # {} PROVE FALSE
  BY <1>1
<1>3. PICK m \in S : \A k \in S : m <= k
  <2>1. S \subseteq Nat
    BY <1>1
  <2> QED  BY <1>2, <2>1, Least
<1>4. m \in 0 .. last /\ m \notin T
  BY <1>1
<1>5. ASSUME NEW k \in 0 .. m - 1 PROVE k \in T
  <2>1. k \in 0 .. last /\ ~(m <= k)
    BY <1>4
  <2> QED  BY <1>1, <1>3, <2>1
<1> QED  BY <1>4, <1>5

(***************************************************************************)
(* Sums.                                                                   *)
(***************************************************************************)

\* A turn of a sum over a set.
Element(s) == CHOOSE x \in s : TRUE
Adding(fun, it, s) == IF s = {} THEN 0 ELSE fun[Element(s)] + it[s \ {Element(s)}]

AtMost(K, k) == {s \in SUBSET K : Cardinality(s) <= k}

Summing(fun, ss, it) == it = [s \in ss |-> Adding(fun, it, s)]
Summed(fun, ss, it) == Summing(fun, ss, it) /\ \A s \in ss : it[s] \in Int

\* Any sum has a run: a value for every set of terms left.
LEMMA SumRuns ==
  ASSUME NEW K, IsFiniteSet(K), NEW fun, \A x \in K : fun[x] \in Int
  PROVE  \E it : Summed(fun, SUBSET K, it)
<1> DEFINE T == {k \in 0 .. Cardinality(K) : \E it : Summed(fun, AtMost(K, k), it)}
<1>F. \A s \in SUBSET K : IsFiniteSet(s) /\ Cardinality(s) \in Nat /\ Cardinality(s) <= Cardinality(K)
  BY FS_Subset, FS_CardinalityType
<1>N. Cardinality(K) \in Nat
  BY <1>F
<1>1. 0 \in T
  <2>1. AtMost(K, 0) = {{}}
    <3>1. \A s \in SUBSET K : Cardinality(s) <= 0 <=> s = {}
      BY <1>F, FS_EmptySet
    <3> QED  BY <3>1 DEF AtMost
  <2>2. PICK it : it = [s \in {{}} |-> 0]
    OBVIOUS
  <2>3. \A s \in {{}} : Adding(fun, it, s) = 0
    BY DEF Adding
  <2>4. Summed(fun, AtMost(K, 0), it)
    BY <2>1, <2>2, <2>3 DEF Summed, Summing
  <2> QED  BY <1>N, <2>4
<1>2. ASSUME NEW k \in 1 .. Cardinality(K), k - 1 \in T PROVE k \in T
  <2>1. PICK less, all : less = AtMost(K, k - 1) /\ all = AtMost(K, k)
    OBVIOUS
  <2>2. PICK it : Summed(fun, less, it)
    BY <1>2, <2>1
  <2>3. PICK more : more = [s \in all |-> IF s \in less THEN it[s] ELSE Adding(fun, it, s)]
    OBVIOUS
  <2>4. ASSUME NEW s \in all, s # {}
        PROVE  s \ {Element(s)} \in less /\ s \ {Element(s)} \in all /\ Element(s) \in K
    <3>1. PICK x, r : x = Element(s) /\ r = s \ {x}
      OBVIOUS
    <3>2. x \in s /\ s \in SUBSET K /\ Cardinality(s) <= k
      BY <2>1, <2>4, <3>1 DEF Element, AtMost
    <3>3. Cardinality(r) = Cardinality(s) - 1
      BY <1>F, <3>1, <3>2, FS_RemoveElement
    <3>4. Cardinality(r) <= k - 1 /\ Cardinality(r) <= k
      BY <1>F, <3>2, <3>3
    <3> QED  BY <2>1, <3>1, <3>2, <3>4 DEF AtMost
  <2>5. less \subseteq all
    BY <1>F, <1>N, <2>1 DEF AtMost
  <2>6. ASSUME NEW s \in all PROVE more[s] = Adding(fun, more, s) /\ more[s] \in Int
    <3>1. Adding(fun, more, s) = Adding(fun, it, s)
      <4>1. CASE s = {}
        BY <4>1 DEF Adding
      <4>2. CASE s # {}
        <5>1. more[s \ {Element(s)}] = it[s \ {Element(s)}]
          BY <2>3, <2>4, <4>2
        <5> QED  BY <4>2, <5>1 DEF Adding
      <4> QED  BY <4>1, <4>2
    <3>2. Adding(fun, it, s) \in Int
      <4>1. CASE s = {}
        BY <4>1 DEF Adding
      <4>2. CASE s # {}
        <5>1. it[s \ {Element(s)}] \in Int /\ fun[Element(s)] \in Int
          BY <2>2, <2>4, <4>2 DEF Summed, Summing
        <5> QED  BY <4>2, <5>1 DEF Adding
      <4> QED  BY <4>1, <4>2
    <3>3. CASE s \in less
      <4>1. more[s] = it[s] /\ it[s] = Adding(fun, it, s)
        BY <2>2, <2>3, <3>3 DEF Summed, Summing
      <4> QED  BY <3>1, <3>2, <4>1
    <3>4. CASE s \notin less
      BY <2>3, <3>1, <3>2, <3>4
    <3> QED  BY <3>3, <3>4
  <2>7. more = [s \in all |-> more[s]]
    BY <2>3
  <2>8. Summed(fun, all, more)
    BY <2>6, <2>7 DEF Summed, Summing
  <2> QED  BY <2>1, <2>8
<1>3. AtMost(K, Cardinality(K)) = SUBSET K
  BY <1>F DEF AtMost
<1> HIDE DEF T
<1>4. 0 .. Cardinality(K) \subseteq T
  BY <1>N, <1>1, <1>2, Induction
<1>5. Cardinality(K) \in T
  BY <1>N, <1>4
<1>6. \E it : Summed(fun, AtMost(K, Cardinality(K)), it)
  BY <1>5 DEF T
<1> QED  BY <1>3, <1>6

Same(a, b, ss) == \A s \in ss : a[s] = b[s]

\* Two runs of a sum agree wherever both are defined.
LEMMA SumsAgree ==
  ASSUME NEW K, IsFiniteSet(K), NEW fun, NEW J, J \subseteq K,
         NEW a, Summing(fun, SUBSET K, a),
         NEW b, Summing(fun, SUBSET J, b)
  PROVE  Same(a, b, SUBSET J)
<1> DEFINE T == {k \in 0 .. Cardinality(J) : Same(a, b, AtMost(J, k))}
<1>F. \A s \in SUBSET J : IsFiniteSet(s) /\ Cardinality(s) \in Nat /\ Cardinality(s) <= Cardinality(J)
  BY FS_Subset, FS_CardinalityType
<1>N. Cardinality(J) \in Nat
  BY <1>F
<1>1. 0 \in T
  <2>1. ASSUME NEW s \in AtMost(J, 0) PROVE a[s] = b[s]
    <3>1. s \in SUBSET J /\ s \in SUBSET K /\ s = {}
      BY <1>F, FS_EmptySet DEF AtMost
    <3>2. Adding(fun, a, s) = 0 /\ Adding(fun, b, s) = 0
      BY <3>1 DEF Adding
    <3>3. a[s] = Adding(fun, a, s) /\ b[s] = Adding(fun, b, s)
      BY <3>1 DEF Summing
    <3> QED  BY <3>2, <3>3
  <2>2. Same(a, b, AtMost(J, 0))
    BY <2>1 DEF Same
  <2> QED  BY <1>N, <2>2
<1>2. ASSUME NEW k \in 1 .. Cardinality(J), k - 1 \in T PROVE k \in T
  <2>1. ASSUME NEW s \in AtMost(J, k) PROVE a[s] = b[s]
    <3>1. s \in SUBSET J /\ s \in SUBSET K
      BY DEF AtMost
    <3>2. a[s] = Adding(fun, a, s) /\ b[s] = Adding(fun, b, s)
      BY <3>1 DEF Summing
    <3>3. CASE s = {}
      BY <3>2, <3>3 DEF Adding
    <3>4. CASE s # {}
      <4>1. PICK x, r : x = Element(s) /\ r = s \ {x}
        OBVIOUS
      <4>2. x \in s /\ Cardinality(s) <= k
        BY <3>4, <4>1 DEF Element, AtMost
      <4>3. Cardinality(r) = Cardinality(s) - 1
        BY <1>F, <3>1, <4>1, <4>2, FS_RemoveElement
      <4>4. Cardinality(r) <= k - 1
        BY <1>F, <3>1, <4>2, <4>3
      <4>5. r \in AtMost(J, k - 1)
        BY <3>1, <4>1, <4>4 DEF AtMost
      <4>6. a[r] = b[r]
        BY <1>2, <4>5 DEF Same
      <4> QED  BY <3>2, <3>4, <4>1, <4>6 DEF Adding
    <3> QED  BY <3>3, <3>4
  <2>2. Same(a, b, AtMost(J, k))
    BY <2>1 DEF Same
  <2> QED  BY <2>2
<1> HIDE DEF T
<1>3. 0 .. Cardinality(J) \subseteq T
  BY <1>N, <1>1, <1>2, Induction
<1>4. Cardinality(J) \in T
  BY <1>N, <1>3
<1>5. ASSUME NEW s \in SUBSET J PROVE a[s] = b[s]
  <2>1. s \in AtMost(J, Cardinality(J))
    BY <1>F DEF AtMost
  <2> QED  BY <1>4, <2>1 DEF T, Same
<1> QED  BY <1>5 DEF Same

\* The sum of the model is such a run.
LEMMA SumRun ==
  ASSUME NEW K, IsFiniteSet(K), NEW fun, \A x \in K : fun[x] \in Int
  PROVE  \E it : Summed(fun, SUBSET K, it) /\ SumFunctionOnSet(fun, K) = it[K]
<1> DEFINE it == CHOOSE it : it = [s \in SUBSET K |->
                   IF s = {} THEN 0
                   ELSE fun[CHOOSE x \in s : TRUE] + it[s \ {CHOOSE x \in s : TRUE}]]
<1>1. SumFunctionOnSet(fun, K) = it[K]
  BY DEF SumFunctionOnSet, FoldFunctionOnSet, MapThenFoldSet
<1>2. PICK some : Summed(fun, SUBSET K, some)
  BY SumRuns
<1>3. it = [s \in SUBSET K |->
              IF s = {} THEN 0
              ELSE fun[CHOOSE x \in s : TRUE] + it[s \ {CHOOSE x \in s : TRUE}]]
  <2>1. some = [s \in SUBSET K |->
              IF s = {} THEN 0
              ELSE fun[CHOOSE x \in s : TRUE] + some[s \ {CHOOSE x \in s : TRUE}]]
    BY <1>2 DEF Summed, Summing, Adding, Element
  <2> QED  BY <2>1
<1> HIDE DEF it
<1>4. Summing(fun, SUBSET K, it)
  BY <1>3 DEF Adding, Element, Summing
<1>5. Same(it, some, SUBSET K)
  BY <1>2, <1>4, SumsAgree DEF Summed
<1>6. Summed(fun, SUBSET K, it)
  BY <1>2, <1>4, <1>5 DEF Summed, Same
<1> QED  BY <1>1, <1>6

\* A sum of whole numbers is one; a sum of none is 0.
LEMMA SumFacts ==
  ASSUME NEW K, IsFiniteSet(K), NEW fun, \A x \in K : fun[x] \in Int
  PROVE  /\ SumFunctionOnSet(fun, K) \in Int
         /\ K = {} => SumFunctionOnSet(fun, K) = 0
         /\ K # {} => /\ Element(K) \in K
                      /\ SumFunctionOnSet(fun, K) =
                           fun[Element(K)] + SumFunctionOnSet(fun, K \ {Element(K)})
<1>1. PICK it : Summed(fun, SUBSET K, it) /\ SumFunctionOnSet(fun, K) = it[K]
  BY SumRun
<1>2. it[K] = Adding(fun, it, K) /\ it[K] \in Int
  BY <1>1 DEF Summed, Summing
<1>3. K = {} => it[K] = 0
  BY <1>2 DEF Adding
<1>4. ASSUME K # {}
      PROVE  /\ Element(K) \in K
             /\ it[K] = fun[Element(K)] + SumFunctionOnSet(fun, K \ {Element(K)})
  <2>1. PICK x, J : x = Element(K) /\ J = K \ {x}
    OBVIOUS
  <2>2. x \in K
    BY <1>4, <2>1 DEF Element
  <2>3. J \subseteq K /\ IsFiniteSet(J) /\ \A y \in J : fun[y] \in Int
    BY <2>1, FS_Subset
  <2>4. PICK less : Summed(fun, SUBSET J, less) /\ SumFunctionOnSet(fun, J) = less[J]
    BY <2>3, SumRun
  <2>5. Same(it, less, SUBSET J)
    BY <1>1, <2>3, <2>4, SumsAgree DEF Summed
  <2>6. it[J] = SumFunctionOnSet(fun, J)
    BY <2>4, <2>5 DEF Same
  <2> QED  BY <1>2, <1>4, <2>1, <2>2, <2>6 DEF Adding
<1> QED  BY <1>1, <1>2, <1>3, <1>4

(***************************************************************************)
(* Adding up.                                                              *)
(***************************************************************************)

Summable(fun, K) == IsFiniteSet(K) /\ \A x \in K : fun[x] \in Int

\* One term less.
LEMMA SumLess ==
  ASSUME NEW fun, NEW K, Summable(fun, K), NEW x \in K
  PROVE  /\ Summable(fun, K \ {x})
         /\ Cardinality(K \ {x}) = Cardinality(K) - 1
         /\ Cardinality(K) \in Nat /\ Cardinality(K) # 0
BY FS_RemoveElement, FS_CardinalityType, FS_EmptySet DEF Summable

\* A sum is any of its terms and the sum of the others.
LEMMA SumRemove ==
  ASSUME NEW fun, NEW J, Summable(fun, J), NEW y \in J
  PROVE  SumFunctionOnSet(fun, J) = fun[y] + SumFunctionOnSet(fun, J \ {y})
<1> DEFINE Fine(K) == \A x \in K : SumFunctionOnSet(fun, K) = fun[x] + SumFunctionOnSet(fun, K \ {x})
           T == {k \in 0 .. Cardinality(J) :
                   \A K \in SUBSET J : Cardinality(K) = k => Fine(K)}
<1>S. \A K \in SUBSET J : Summable(fun, K) /\ Cardinality(K) \in Nat
  BY FS_Subset, FS_CardinalityType DEF Summable
<1>1. ASSUME NEW k \in 0 .. Cardinality(J), 0 .. k - 1 \subseteq T PROVE k \in T
  <2>1. ASSUME NEW K \in SUBSET J, Cardinality(K) = k, NEW x \in K
        PROVE  SumFunctionOnSet(fun, K) = fun[x] + SumFunctionOnSet(fun, K \ {x})
    <3>1. PICK e, L : e = Element(K) /\ L = K \ {e}
      OBVIOUS
    <3>2. e \in K /\ SumFunctionOnSet(fun, K) = fun[e] + SumFunctionOnSet(fun, L)
      BY <1>S, <2>1, <3>1, SumFacts DEF Summable
    <3>3. CASE x = e
      BY <3>1, <3>2, <3>3
    <3>4. CASE x # e
      <4>1. x \in L /\ L \in SUBSET J /\ Cardinality(L) = k - 1 /\ k # 0 /\ k \in Nat
        BY <1>S, <2>1, <3>1, <3>2, <3>4, SumLess
      <4>2. k - 1 \in T
        BY <1>1, <4>1
      <4>3. SumFunctionOnSet(fun, L) = fun[x] + SumFunctionOnSet(fun, L \ {x})
        BY <4>1, <4>2
      <4>4. PICK M : M = K \ {x}
        OBVIOUS
      <4>5. e \in M /\ M \in SUBSET J /\ Cardinality(M) = k - 1
        BY <1>S, <2>1, <3>2, <3>4, <4>4, SumLess
      <4>6. SumFunctionOnSet(fun, M) = fun[e] + SumFunctionOnSet(fun, M \ {e})
        BY <4>2, <4>5
      <4>7. PICK N : N = L \ {x}
        OBVIOUS
      <4>8. N = M \ {e} /\ N \in SUBSET J
        BY <2>1, <3>1, <4>4, <4>7
      <4>9. SumFunctionOnSet(fun, N) \in Int /\ fun[x] \in Int /\ fun[e] \in Int
        BY <1>S, <2>1, <3>2, <4>8, SumFacts DEF Summable
      <4>10. PICK k1, l1, m1, n1 :
               /\ k1 = SumFunctionOnSet(fun, K) /\ l1 = SumFunctionOnSet(fun, L)
               /\ m1 = SumFunctionOnSet(fun, M) /\ n1 = SumFunctionOnSet(fun, N)
        OBVIOUS
      <4>11. l1 = fun[x] + n1 /\ m1 = fun[e] + n1 /\ k1 = fun[e] + l1
        BY <3>2, <4>3, <4>6, <4>7, <4>8, <4>10, Zenon
      <4>12. n1 \in Int
        BY <4>9, <4>10
      <4>13. k1 = fun[x] + m1
        BY <4>9, <4>11, <4>12
      <4> QED  BY <4>4, <4>10, <4>13, Zenon
    <3> QED  BY <3>3, <3>4
  <2> QED  BY <2>1
<1> HIDE DEF T
<1>2. 0 .. Cardinality(J) \subseteq T
  BY <1>1, <1>S, Course
<1>3. Cardinality(J) \in T
  BY <1>2, <1>S
<1> QED  BY <1>3 DEF T

\* Terms that are sums themselves, the second part of which some lack.
LEMMA SumSplit ==
  ASSUME NEW J, IsFiniteSet(J),
         NEW h, NEW a, NEW r, \A x \in J : a[x] \in Int,
         NEW E, E \subseteq J, \A x \in E : r[x] \in Int,
         \A x \in J : h[x] = a[x] + IF x \in E THEN r[x] ELSE 0
  PROVE  SumFunctionOnSet(h, J) = SumFunctionOnSet(a, J) + SumFunctionOnSet(r, E)
<1> DEFINE Fine(K) == SumFunctionOnSet(h, K) = SumFunctionOnSet(a, K) + SumFunctionOnSet(r, E \cap K)
           T == {k \in 0 .. Cardinality(J) :
                   \A K \in SUBSET J : Cardinality(K) = k => Fine(K)}
<1>S. \A K \in SUBSET J : /\ Summable(h, K) /\ Summable(a, K) /\ Summable(r, E \cap K)
                          /\ Cardinality(K) \in Nat
  <2>1. ASSUME NEW K \in SUBSET J
        PROVE  IsFiniteSet(K) /\ IsFiniteSet(E \cap K) /\ Cardinality(K) \in Nat
    <3>1. E \cap K \in SUBSET J
      OBVIOUS
    <3> QED  BY <3>1, FS_Subset, FS_CardinalityType
  <2>2. \A x \in J : h[x] \in Int
    OBVIOUS
  <2> QED  BY <2>1, <2>2 DEF Summable
<1>1. ASSUME NEW k \in 0 .. Cardinality(J), 0 .. k - 1 \subseteq T PROVE k \in T
  <2>1. ASSUME NEW K \in SUBSET J, Cardinality(K) = k PROVE Fine(K)
    <3>1. CASE K = {}
      <4>1. E \cap K = {}
        BY <3>1
      <4>2. SumFunctionOnSet(h, K) = 0 /\ SumFunctionOnSet(a, K) = 0
            /\ SumFunctionOnSet(r, E \cap K) = 0
        BY <1>S, <3>1, <4>1, SumFacts DEF Summable
      <4> QED  BY <4>2
    <3>2. CASE K # {}
      <4>1. PICK x \in K : TRUE
        BY <3>2
      <4>2. PICK L : L = K \ {x}
        OBVIOUS
      <4>3. L \in SUBSET J /\ Cardinality(L) = k - 1 /\ k # 0 /\ k \in Nat
        BY <1>S, <2>1, <4>1, <4>2, SumLess
      <4>4. SumFunctionOnSet(h, L) = SumFunctionOnSet(a, L) + SumFunctionOnSet(r, E \cap L)
        <5>1. k - 1 \in T
          BY <1>1, <4>3
        <5> QED  BY <4>3, <5>1
      <4>5. /\ SumFunctionOnSet(h, K) = h[x] + SumFunctionOnSet(h, L)
            /\ SumFunctionOnSet(a, K) = a[x] + SumFunctionOnSet(a, L)
        <5>1. Summable(h, K) /\ Summable(a, K)
          BY <1>S, <2>1
        <5>2. SumFunctionOnSet(h, K) = h[x] + SumFunctionOnSet(h, K \ {x})
          BY <5>1, <4>1, SumRemove
        <5>3. SumFunctionOnSet(a, K) = a[x] + SumFunctionOnSet(a, K \ {x})
          BY <5>1, <4>1, SumRemove
        <5> QED  BY <4>2, <5>2, <5>3
      <4>6. /\ SumFunctionOnSet(a, L) \in Int /\ SumFunctionOnSet(r, E \cap L) \in Int
            /\ a[x] \in Int
        BY <1>S, <2>1, <4>1, <4>3, SumFacts DEF Summable
      <4>7. CASE x \in E
        <5>1. PICK M : M = E \cap K
          OBVIOUS
        <5>2. x \in M /\ M \ {x} = E \cap L /\ Summable(r, M)
          BY <1>S, <2>1, <4>1, <4>2, <4>7, <5>1
        <5>3. SumFunctionOnSet(r, M) = r[x] + SumFunctionOnSet(r, E \cap L)
          BY <5>2, SumRemove
        <5>4. h[x] = a[x] + r[x] /\ r[x] \in Int
          BY <2>1, <4>1, <4>7
        <5> QED  BY <4>4, <4>5, <4>6, <5>1, <5>3, <5>4
      <4>8. CASE x \notin E
        <5>1. E \cap L = E \cap K
          BY <4>2, <4>8
        <5>2. h[x] = a[x]
          BY <2>1, <4>1, <4>6, <4>8
        <5> QED  BY <4>4, <4>5, <4>6, <5>1, <5>2
      <4> QED  BY <4>7, <4>8
    <3> QED  BY <3>1, <3>2
  <2> QED  BY <2>1
<1> HIDE DEF T
<1>2. 0 .. Cardinality(J) \subseteq T
  BY <1>1, <1>S, Course
<1>3. Cardinality(J) \in T
  BY <1>2, <1>S
<1>4. E \cap J = E
  OBVIOUS
<1> QED  BY <1>3, <1>4 DEF T

\* A sum of zeros is 0.
LEMMA SumZero ==
  ASSUME NEW K, IsFiniteSet(K), NEW fun, \A x \in K : fun[x] = 0
  PROVE  SumFunctionOnSet(fun, K) = 0
<1>1. \A x \in K : fun[x] \in Int /\ fun[x] = fun[x] + IF x \in K THEN fun[x] ELSE 0
  OBVIOUS
<1>2. SumFunctionOnSet(fun, K) = SumFunctionOnSet(fun, K) + SumFunctionOnSet(fun, K)
  BY <1>1, SumSplit
<1>3. PICK s : s = SumFunctionOnSet(fun, K)
  OBVIOUS
<1>4. s \in Int
  BY <1>1, <1>3, SumFacts
<1>5. s = s + s
  BY <1>2, <1>3, Zenon
<1>6. s = 0
  BY <1>4, <1>5
<1> QED  BY <1>3, <1>6, Zenon

\* Where a function is 0 does not matter for its sum.
LEMMA SumSame ==
  ASSUME NEW K, IsFiniteSet(K), NEW fun, NEW E, E \subseteq K, NEW r,
         \A x \in E : r[x] \in Int /\ fun[x] = r[x], \A x \in K \ E : fun[x] = 0
  PROVE  SumFunctionOnSet(fun, K) = SumFunctionOnSet(r, E)
<1>1. PICK zero : zero = [x \in K |-> 0]
  OBVIOUS
<1>2. SumFunctionOnSet(zero, K) = 0
  BY <1>1, SumZero
<1>3. \A x \in K : zero[x] \in Int /\ fun[x] = zero[x] + IF x \in E THEN r[x] ELSE 0
  BY <1>1
<1>4. SumFunctionOnSet(fun, K) = SumFunctionOnSet(zero, K) + SumFunctionOnSet(r, E)
  BY <1>3, SumSplit
<1>5. SumFunctionOnSet(r, E) \in Int
  BY FS_Subset, SumFacts
<1> QED  BY <1>2, <1>4, <1>5


\* Functions that agree have the same sum.
LEMMA SumEqual ==
  ASSUME NEW K, NEW f, Summable(f, K), NEW g, \A x \in K : f[x] = g[x]
  PROVE  SumFunctionOnSet(f, K) = SumFunctionOnSet(g, K)
<1>1. K \subseteq K /\ (\A x \in K : g[x] \in Int /\ f[x] = g[x]) /\ \A x \in K \ K : f[x] = 0
  BY DEF Summable
<1>2. IsFiniteSet(K)
  BY DEF Summable
<1> QED  BY <1>1, <1>2, SumSame

\* A sum in which one term changes.
LEMMA SumChange ==
  ASSUME NEW K, NEW f, Summable(f, K), NEW g, Summable(g, K), NEW x \in K,
         \A y \in K \ {x} : f[y] = g[y]
  PROVE  SumFunctionOnSet(g, K) = SumFunctionOnSet(f, K) + (g[x] - f[x])
<1>1. PICK J : J = K \ {x}
  OBVIOUS
<1>2. Summable(f, J)
  BY <1>1, SumLess
<1>3. SumFunctionOnSet(f, J) = SumFunctionOnSet(g, J)
  BY <1>1, <1>2, SumEqual
<1>4. PICK fk, fj, gk : /\ fk = SumFunctionOnSet(f, K) /\ fj = SumFunctionOnSet(f, J)
                        /\ gk = SumFunctionOnSet(g, K)
  OBVIOUS
<1>5. fk = f[x] + fj
  BY <1>1, <1>4, SumRemove
<1>6. gk = g[x] + SumFunctionOnSet(g, J)
  BY <1>1, <1>4, SumRemove
<1>7. gk = g[x] + fj
  BY <1>3, <1>4, <1>6
<1>8. fj \in Int /\ f[x] \in Int /\ g[x] \in Int
  BY <1>2, <1>4, SumFacts DEF Summable
<1>9. gk = fk + (g[x] - f[x])
  BY <1>5, <1>7, <1>8
<1> QED  BY <1>4, <1>9

\* A sum of which one term is left.
LEMMA SumOnly ==
  ASSUME NEW K, NEW f, Summable(f, K), NEW x \in K, \A y \in K \ {x} : f[y] = 0
  PROVE  SumFunctionOnSet(f, K) = f[x]
<1>1. PICK J : J = K \ {x}
  OBVIOUS
<1>2. SumFunctionOnSet(f, J) = 0
  <2>1. IsFiniteSet(J) /\ \A y \in J : f[y] = 0
    BY <1>1, FS_Subset DEF Summable
  <2> QED  BY <2>1, SumZero
<1>3. SumFunctionOnSet(f, K) = f[x] + SumFunctionOnSet(f, J)
  BY <1>1, SumRemove
<1>4. f[x] \in Int
  BY DEF Summable
<1> QED  BY <1>2, <1>3, <1>4

(***************************************************************************)
(* Recursive functions.                                                    *)
(***************************************************************************)

Smaller(D, k) == {m \in D : m <= k}
Recursed(D, B, back, W, base, H, k, it) ==
  /\ it = [m \in Smaller(D, k) |-> IF m \in B THEN base ELSE H[m][it[back[m]]]]
  /\ \A m \in Smaller(D, k) : it[m] \in W

\* A function defined by going back from m to back[m], B where to stop.
Descends(D, B, back) == back \in [D \ B -> D] /\ \A m \in D \ B : back[m] < m
Computed(D, B, back, W, base, H, it) ==
  /\ it = [m \in D |-> IF m \in B THEN base ELSE H[m][it[back[m]]]]
  /\ \A m \in D : it[m] \in W

\* A recursion on numbers that goes back to smaller ones defines a function.
LEMMA Recursion ==
  ASSUME NEW last \in Nat, NEW D, D \subseteq 0 .. last, NEW B, B \subseteq D,
         NEW back, Descends(D, B, back),
         NEW W, NEW base \in W, NEW H \in [D \ B -> [W -> W]]
  PROVE  \E it : Computed(D, B, back, W, base, H, it)
<1> DEFINE T == {k \in 0 .. last : \E it : Recursed(D, B, back, W, base, H, k, it)}
<1>D. \A m \in D : m \in Nat /\ m <= last
  OBVIOUS
<1>B. back \in [D \ B -> D] /\ \A m \in D \ B : back[m] < m
  BY DEF Descends
<1>1. 0 \in T
  <2>1. \A m \in Smaller(D, 0) : m = 0 /\ m \in D
    BY <1>D DEF Smaller
  <2>2. \A m \in Smaller(D, 0) : m \in B
    <3>1. ASSUME NEW m \in Smaller(D, 0), m \notin B PROVE FALSE
      <4>1. m \in D \ B /\ m = 0
        BY <2>1, <3>1
      <4>2. back[m] \in D /\ back[m] < m
        BY <1>B, <4>1
      <4>3. back[m] \in Nat
        BY <1>D, <4>2
      <4> QED  BY <4>1, <4>2, <4>3
    <3> QED  BY <3>1
  <2>3. PICK it : it = [m \in Smaller(D, 0) |-> base]
    OBVIOUS
  <2>4. Recursed(D, B, back, W, base, H, 0, it)
    BY <2>2, <2>3 DEF Recursed
  <2> QED  BY <2>4
<1>2. ASSUME NEW k \in 1 .. last, k - 1 \in T PROVE k \in T
  <2>1. PICK less, all : less = Smaller(D, k - 1) /\ all = Smaller(D, k)
    OBVIOUS
  <2>2. PICK it : /\ it = [m \in less |-> IF m \in B THEN base ELSE H[m][it[back[m]]]]
                  /\ \A m \in less : it[m] \in W
    BY <1>2, <2>1 DEF Recursed
  <2>3. PICK more : more = [m \in all |-> IF m \in less THEN it[m]
                              ELSE IF m \in B THEN base ELSE H[m][it[back[m]]]]
    OBVIOUS
  <2>4. less \subseteq all /\ \A m \in all : m \in D /\ m \in Nat /\ (m \notin less => m = k)
    <3>1. ASSUME NEW m \in all PROVE m \in D /\ m \in Nat /\ m <= k
      BY <1>D, <2>1 DEF Smaller
    <3>2. k \in Nat
      OBVIOUS
    <3>3. \A m \in all : m \notin less => m = k
      <4>1. ASSUME NEW m \in all, m \notin less PROVE m = k
        <5>1. ~(m <= k - 1)
          BY <2>1, <3>1, <4>1 DEF Smaller
        <5> QED  BY <3>1, <3>2, <5>1
      <4> QED  BY <4>1
    <3>4. less \subseteq all
      <4>1. ASSUME NEW m \in less PROVE m \in all
        <5>1. m \in D /\ m <= k - 1 /\ m \in Nat
          BY <1>D, <2>1 DEF Smaller
        <5>2. m <= k
          BY <3>2, <5>1
        <5> QED  BY <2>1, <5>1, <5>2 DEF Smaller
      <4> QED  BY <4>1
    <3> QED  BY <3>1, <3>3, <3>4
  <2>5. ASSUME NEW m \in all, m \notin B
        PROVE  back[m] \in less /\ more[back[m]] = it[back[m]] /\ it[back[m]] \in W
    <3>1. m \in D \ B /\ m <= k /\ m \in Nat
      BY <2>1, <2>4, <2>5 DEF Smaller
    <3>2. back[m] \in D /\ back[m] < m /\ back[m] \in Nat
      BY <1>B, <1>D, <3>1
    <3>3. back[m] \in less
      BY <2>1, <3>1, <3>2 DEF Smaller
    <3> QED  BY <2>2, <2>3, <2>4, <3>3
  <2>6. ASSUME NEW m \in all
        PROVE  /\ more[m] = IF m \in B THEN base ELSE H[m][more[back[m]]]
               /\ more[m] \in W
    <3>1. CASE m \in B
      BY <2>2, <2>3, <3>1
    <3>2. CASE m \notin B
      <4>1. more[m] = H[m][it[back[m]]]
        BY <2>2, <2>3, <3>2
      <4>2. more[m] = H[m][more[back[m]]]
        BY <2>5, <3>2, <4>1
      <4>3. H[m] \in [W -> W]
        BY <2>4, <3>2
      <4> QED  BY <2>5, <3>2, <4>1, <4>2, <4>3
    <3> QED  BY <3>1, <3>2
  <2>7. more = [m \in all |-> IF m \in B THEN base ELSE H[m][more[back[m]]]]
    <3>1. more = [m \in all |-> more[m]]
      BY <2>3
    <3> QED  BY <2>6, <3>1
  <2>8. Recursed(D, B, back, W, base, H, k, more)
    BY <2>1, <2>6, <2>7 DEF Recursed
  <2> QED  BY <2>8
<1> HIDE DEF T
<1>3. 0 .. last \subseteq T
  BY <1>1, <1>2, Induction
<1>4. PICK it : Recursed(D, B, back, W, base, H, last, it)
  BY <1>3 DEF T
<1>5. Smaller(D, last) = D
  BY <1>D DEF Smaller
<1> QED  BY <1>4, <1>5 DEF Recursed, Computed

(***************************************************************************)
(* Call trees.                                                             *)
(***************************************************************************)

\* The parents of a call tree have smaller numbers.
LEMMA ShapeFacts ==
  ASSUME shape \in [Sources -> Shapes], NEW s \in Sources
  PROVE  /\ shape[s] \in Seq(Range(shape[s])) /\ Len(shape[s]) \in Nat
         /\ DOMAIN shape[s] = 1 .. Len(shape[s])
         /\ \A n \in Nodes(s) \ {1} : n - 1 \in 1 .. Len(shape[s]) /\ Parent(s, n) \in 1 .. n - 1
<1>1. PICK t : t = shape[s]
  OBVIOUS
<1>2. t \in Seq(Range(t)) /\ \A i \in DOMAIN t : t[i].parent \in 1 .. i
  BY <1>1, SingleTreeConstants
<1>3. Len(t) \in Nat /\ DOMAIN t = 1 .. Len(t)
  BY <1>2
<1>4. ASSUME NEW n \in 1 .. Len(t) + 1, n # 1
      PROVE  n - 1 \in 1 .. Len(t) /\ t[n - 1].parent \in 1 .. n - 1
  BY <1>2, <1>3, <1>4
<1> QED  BY <1>1, <1>2, <1>3, <1>4 DEF Nodes, Parent

\* The gnid of the root is given; that of a node is made of its parent's.
LEMMA GNIDFacts ==
  ASSUME shape \in [Sources -> Shapes], NEW s \in Sources
  PROVE  /\ GNID(s, 0) = << >> /\ GNID(s, 1) = << >>
         /\ \A n \in Nodes(s) \ {1} :
              /\ GNID(s, n) # << >>
              /\ Front(GNID(s, n)) = GNID(s, Parent(s, n))
<1>1. PICK last : last = Len(shape[s]) + 1
  OBVIOUS
<1>2. last \in Nat /\ last >= 1 /\ Nodes(s) = 1 .. last
  BY <1>1, ShapeFacts DEF Nodes
<1>3. PICK Names : Names = {shape[s][i].name : i \in DOMAIN shape[s]}
  OBVIOUS
<1>4. PICK D, B : D = 0 .. last /\ B = {0, 1}
  OBVIOUS
<1>5. \A m \in D \ B : /\ m \in Nodes(s) \ {1} /\ Parent(s, m) \in D /\ Parent(s, m) < m
                       /\ shape[s][m - 1].name \in Names
  <2>1. ASSUME NEW m \in D \ B
        PROVE  /\ m \in Nodes(s) \ {1} /\ Parent(s, m) \in D /\ Parent(s, m) < m
               /\ shape[s][m - 1].name \in Names
    <3>1. m \in Nodes(s) \ {1}
      BY <1>2, <1>4
    <3>2. Parent(s, m) \in 1 .. m - 1 /\ m - 1 \in DOMAIN shape[s]
      BY <3>1, ShapeFacts
    <3>3. m \in 0 .. last
      BY <1>4
    <3> QED  BY <1>2, <1>3, <1>4, <3>1, <3>2, <3>3
  <2> QED  BY <2>1
<1>6. PICK back : back = [m \in D \ B |-> Parent(s, m)]
  OBVIOUS
<1>7. PICK H : H = [m \in D \ B |-> [w \in Seq(Names) |-> Append(w, shape[s][m - 1].name)]]
  OBVIOUS
<1>8. Descends(D, B, back)
  BY <1>5, <1>6 DEF Descends
<1>9. H \in [D \ B -> [Seq(Names) -> Seq(Names)]]
  BY <1>5, <1>7
<1>10. D \subseteq 0 .. last /\ B \subseteq D
  BY <1>2, <1>4
<1>11. << >> \in Seq(Names)
  OBVIOUS
<1>W. PICK W : W = Seq(Names)
  OBVIOUS
<1>12. PICK some : /\ some = [m \in D |-> IF m \in B THEN << >> ELSE H[m][some[back[m]]]]
                   /\ \A m \in D : some[m] \in Seq(Names)
  <2>1. H \in [D \ B -> [W -> W]] /\ << >> \in W
    BY <1>9, <1>11, <1>W
  <2>2. PICK base : base = << >>
    OBVIOUS
  <2>3. \E it : Computed(D, B, back, W, base, H, it)
    <3>1. base \in W /\ last \in Nat
      BY <1>2, <2>1, <2>2
    <3> QED  BY <1>8, <1>10, <2>1, <3>1, Recursion
  <2> QED  BY <1>W, <2>2, <2>3 DEF Computed
<1>13. some = [m \in 0 .. last |->
                 IF m <= 1 THEN << >> ELSE Append(some[Parent(s, m)], shape[s][m - 1].name)]
  <2>1. \A m \in D : m \in B <=> m <= 1
    BY <1>2, <1>4
  <2>2. ASSUME NEW m \in D, m \notin B
        PROVE  H[m][some[back[m]]] = Append(some[Parent(s, m)], shape[s][m - 1].name)
    <3>1. back[m] = Parent(s, m) /\ some[Parent(s, m)] \in Seq(Names)
      BY <1>5, <1>6, <1>12, <2>2
    <3> QED  BY <1>7, <2>2, <3>1
  <2> QED  BY <1>4, <1>12, <2>1, <2>2
<1> DEFINE path == CHOOSE path : path = [m \in 0 .. last |->
                 IF m <= 1 THEN << >> ELSE Append(path[Parent(s, m)], shape[s][m - 1].name)]
<1>14. path = [m \in 0 .. last |->
                 IF m <= 1 THEN << >> ELSE Append(path[Parent(s, m)], shape[s][m - 1].name)]
  BY <1>13
<1>15. \A n : GNID(s, n) = path[n]
  BY <1>1 DEF GNID
<1> HIDE DEF path
<1>16. path[0] = << >> /\ path[1] = << >>
  BY <1>2, <1>14
<1>17. \A m \in D \ B : path[m] = Append(path[Parent(s, m)], shape[s][m - 1].name)
  <2>1. ASSUME NEW m \in D \ B
        PROVE  path[m] = Append(path[Parent(s, m)], shape[s][m - 1].name)
    <3>1. m \in 0 .. last /\ ~(m <= 1)
      BY <1>2, <1>4
    <3> QED  BY <1>14, <3>1
  <2> QED  BY <2>1
<1>18. \A m \in D : path[m] \in Seq(Names)
  <2>1. PICK T : T = {m \in 0 .. last : path[m] \in Seq(Names)}
    OBVIOUS
  <2>2. ASSUME NEW m \in 0 .. last, 0 .. m - 1 \subseteq T PROVE m \in T
    <3>1. CASE m \in B
      BY <1>2, <1>4, <1>11, <1>16, <2>1, <3>1
    <3>2. CASE m \notin B
      <4>1. Parent(s, m) \in 0 .. m - 1
        BY <1>2, <1>4, <1>5, <3>2
      <4>2. path[Parent(s, m)] \in Seq(Names) /\ shape[s][m - 1].name \in Names
        BY <1>4, <1>5, <2>1, <2>2, <3>2, <4>1
      <4>3. path[m] = Append(path[Parent(s, m)], shape[s][m - 1].name)
        BY <1>4, <1>17, <3>2
      <4>4. path[m] \in Seq(Names)
        BY <4>2, <4>3
      <4> QED  BY <2>1, <4>4
    <3> QED  BY <3>1, <3>2
  <2>3. 0 .. last \subseteq T
    BY <1>2, <2>2, Course
  <2> QED  BY <1>4, <2>1, <2>3
<1>19. ASSUME NEW n \in Nodes(s) \ {1}
       PROVE  path[n] # << >> /\ Front(path[n]) = path[Parent(s, n)]
  <2>1. n \in D \ B
    BY <1>2, <1>4
  <2>2. PICK p, x : p = path[Parent(s, n)] /\ x = shape[s][n - 1].name
    OBVIOUS
  <2>3. path[n] = Append(p, x) /\ p \in Seq(Names) /\ x \in Names
    BY <1>5, <1>17, <1>18, <2>1, <2>2
  <2>4. Append(p, x) # << >>
    BY <2>3
  <2>5. Front(Append(p, x)) = p
    BY <2>3 DEF Front
  <2> QED  BY <2>2, <2>3, <2>4, <2>5
<1> QED  BY <1>15, <1>16, <1>19

\* A node with its ancestors is closed.
LEMMA AboveFacts ==
  ASSUME shape \in [Sources -> Shapes], NEW s \in Sources, NEW n \in Nodes(s)
  PROVE  Closed(s, Above(s, n)) /\ n \in Above(s, n)
<1>1. PICK D, B, last : D = Nodes(s) /\ B = {1} /\ last = Len(shape[s]) + 1
  OBVIOUS
<1>2. last \in Nat /\ last >= 1 /\ D = 1 .. last
  BY <1>1, ShapeFacts DEF Nodes
<1>3. \A m \in D \ B : Parent(s, m) \in 1 .. m - 1
  BY <1>1, ShapeFacts
<1>4. PICK back : back = [m \in D \ B |-> Parent(s, m)]
  OBVIOUS
<1>5. PICK H : H = [m \in D \ B |-> [w \in SUBSET D |-> {m} \cup w]]
  OBVIOUS
<1>6. Descends(D, B, back)
  <2>1. ASSUME NEW m \in D \ B PROVE back[m] \in D /\ back[m] < m
    BY <1>2, <1>3, <1>4
  <2> QED  BY <1>4, <2>1 DEF Descends
<1>7. PICK some : Computed(D, B, back, SUBSET D, {1}, H, some)
  <2>1. D \subseteq 0 .. last /\ B \subseteq D
    BY <1>1, <1>2
  <2>2. H \in [D \ B -> [SUBSET D -> SUBSET D]]
    BY <1>5
  <2>3. PICK W, base : W = SUBSET D /\ base = {1}
    OBVIOUS
  <2>4. H \in [D \ B -> [W -> W]] /\ base \in W
    BY <1>1, <2>1, <2>2, <2>3
  <2>5. \E it : Computed(D, B, back, W, base, H, it)
    BY <1>2, <1>6, <2>1, <2>4, Recursion
  <2> QED  BY <2>3, <2>5
<1>8. some = [m \in D |-> IF m = 1 THEN {1} ELSE {m} \cup some[Parent(s, m)]]
  <2>1. some = [m \in D |-> IF m \in B THEN {1} ELSE H[m][some[back[m]]]]
    BY <1>7 DEF Computed
  <2>2. ASSUME NEW m \in D, m \notin B
        PROVE  H[m][some[back[m]]] = {m} \cup some[Parent(s, m)]
    <3>1. back[m] = Parent(s, m) /\ Parent(s, m) \in D
      BY <1>2, <1>3, <1>4, <2>2
    <3>2. some[Parent(s, m)] \in SUBSET D
      BY <1>7, <3>1 DEF Computed
    <3> QED  BY <1>5, <2>2, <3>1, <3>2
  <2>3. \A m \in D : m \in B <=> m = 1
    BY <1>1
  <2> QED  BY <2>1, <2>2, <2>3
<1> DEFINE up == CHOOSE up : up = [m \in D |-> IF m = 1 THEN {1} ELSE {m} \cup up[Parent(s, m)]]
<1>9. up = [m \in D |-> IF m = 1 THEN {1} ELSE {m} \cup up[Parent(s, m)]]
  BY <1>8
<1>10. Above(s, n) = up[n]
  BY <1>1 DEF Above
<1> HIDE DEF up
<1>11. PICK T : T = {m \in 0 .. last : m \in D => Closed(s, up[m]) /\ m \in up[m]}
  OBVIOUS
<1>12. ASSUME NEW m \in 0 .. last, 0 .. m - 1 \subseteq T PROVE m \in T
  <2>1. SUFFICES ASSUME m \in D PROVE Closed(s, up[m]) /\ m \in up[m]
    BY <1>11
  <2>2. CASE m = 1
    <3>1. up[m] = {1}
      BY <1>9, <2>1, <2>2
    <3> QED  BY <1>1, <2>1, <2>2, <3>1 DEF Closed
  <2>3. CASE m # 1
    <3>1. PICK p : p = Parent(s, m)
      OBVIOUS
    <3>2. p \in 1 .. m - 1
      BY <1>1, <1>3, <2>1, <2>3, <3>1
    <3>3. p \in D /\ p \in 0 .. m - 1
      BY <1>2, <2>1, <3>2
    <3>4. Closed(s, up[p]) /\ p \in up[p]
      BY <1>11, <1>12, <3>3
    <3>5. up[m] = {m} \cup up[p]
      BY <1>9, <2>1, <2>3, <3>1
    <3> QED  BY <1>1, <2>1, <3>1, <3>4, <3>5 DEF Closed
  <2> QED  BY <2>2, <2>3
<1>13. 0 .. last \subseteq T
  BY <1>2, <1>12, Course
<1>14. n \in T /\ n \in D
  BY <1>1, <1>2, <1>13
<1> QED  BY <1>10, <1>11, <1>14

(***************************************************************************)
(* Numbers for gnids.                                                      *)
(***************************************************************************)

\* g has the numbers of f and some for other paths of P.
Extends(g, f, P) ==
  /\ DOMAIN f \subseteq DOMAIN g /\ DOMAIN g \subseteq DOMAIN f \cup P
  /\ \A p \in DOMAIN f : g[p] = f[p]

\* A new path gets the next number.
LEMMA GNIDToSeqFacts ==
  ASSUME NEW f, IsNumbering(f), NEW path
  PROVE  /\ IsNumbering(GNIDToSeq(f, path))
         /\ Extends(GNIDToSeq(f, path), f, {path})
         /\ path \in DOMAIN GNIDToSeq(f, path) \cup {<< >>}
<1>1. PICK g : g = GNIDToSeq(f, path)
  OBVIOUS
<1>2. CASE path = << >> \/ path \in DOMAIN f
  <2>1. g = f
    BY <1>1, <1>2 DEF GNIDToSeq
  <2> QED  BY <1>1, <1>2, <2>1 DEF Extends
<1>3. CASE path # << >> /\ path \notin DOMAIN f
  <2>1. PICK N, M : N = DOMAIN f /\ M = N \cup {path}
    OBVIOUS
  <2>2. PICK c : c = Cardinality(N)
    OBVIOUS
  <2>3. IsFiniteSet(N) /\ c \in Nat /\ IsFiniteSet(M) /\ Cardinality(M) = c + 1
    <3>1. IsFiniteSet(N)
      BY <2>1 DEF IsNumbering
    <3>2. IsFiniteSet(M) /\ Cardinality(M) = Cardinality(N) + 1
      BY <1>3, <2>1, <3>1, FS_AddElement
    <3> QED  BY <2>2, <3>1, <3>2, FS_CardinalityType
  <2>4. g = [p \in M |-> IF p = path THEN c + 2 ELSE f[p]]
    BY <1>1, <1>3, <2>1, <2>2 DEF GNIDToSeq
  <2>5. f \in [N -> 2 .. c + 1] /\ << >> \notin N
        /\ (\A p, q \in N : f[p] = f[q] => p = q)
        /\ (\A d \in 2 .. c + 1 : \E p \in N : f[p] = d)
    BY <2>1, <2>2 DEF IsNumbering
  <2>6. DOMAIN g = M /\ g[path] = c + 2 /\ path \notin N /\ path \in M
        /\ \A p \in N : p \in M /\ g[p] = f[p] /\ f[p] \in 2 .. c + 1
    BY <1>3, <2>1, <2>4, <2>5
  <2>7. g \in [M -> 2 .. (c + 1) + 1]
    <3>1. \A p \in M : g[p] \in 2 .. (c + 1) + 1
      BY <2>1, <2>3, <2>6
    <3> QED  BY <2>4, <3>1
  <2>8. ASSUME NEW p \in M, NEW q \in M, g[p] = g[q] PROVE p = q
    <3>1. \A r \in N : g[r] # c + 2
      BY <2>3, <2>6
    <3>2. CASE p \in N /\ q \in N
      BY <2>5, <2>6, <2>8, <3>2
    <3>3. CASE ~(p \in N /\ q \in N)
      BY <2>1, <2>6, <2>8, <3>1, <3>3
    <3> QED  BY <3>2, <3>3
  <2>9. ASSUME NEW d \in 2 .. (c + 1) + 1 PROVE \E p \in M : g[p] = d
    <3>1. CASE d = c + 2
      BY <2>6, <3>1
    <3>2. CASE d # c + 2
      <4>1. d \in 2 .. c + 1
        BY <2>3, <3>2
      <4> QED  BY <2>5, <2>6, <4>1
    <3> QED  BY <3>1, <3>2
  <2>10. << >> \notin M
    BY <1>3, <2>1, <2>5
  <2>11. IsNumbering(g)
    BY <2>3, <2>6, <2>7, <2>8, <2>9, <2>10 DEF IsNumbering
  <2>12. Extends(g, f, {path}) /\ path \in DOMAIN g
    BY <2>1, <2>6 DEF Extends
  <2> QED  BY <1>1, <2>11, <2>12
<1> QED  BY <1>2, <1>3

\* More numbers, twice.
LEMMA ExtendsTwice ==
  ASSUME NEW f, NEW g, NEW h, NEW P, NEW Q, NEW R, Extends(g, f, P), Extends(h, g, Q),
         P \subseteq R, Q \subseteq R
  PROVE  Extends(h, f, R)
<1>1. /\ DOMAIN f \subseteq DOMAIN g /\ DOMAIN g \subseteq DOMAIN f \cup P
      /\ DOMAIN g \subseteq DOMAIN h /\ DOMAIN h \subseteq DOMAIN g \cup Q
      /\ (\A p \in DOMAIN f : g[p] = f[p]) /\ (\A p \in DOMAIN g : h[p] = g[p])
  BY DEF Extends
<1>2. \A p \in DOMAIN f : h[p] = f[p]
  BY <1>1
<1> QED  BY <1>1, <1>2 DEF Extends

\* A node of a slice and its parent get their numbers.
LEMMA NumberedFacts ==
  ASSUME NEW f, IsNumbering(f), NEW s, NEW n
  PROVE  /\ IsNumbering(Numbered(s, f, n))
         /\ Extends(Numbered(s, f, n), f, {GNID(s, n), GNID(s, Parent(s, n))})
         /\ GNID(s, n) \in DOMAIN Numbered(s, f, n) \cup {<< >>}
<1>1. PICK p, q : p = GNID(s, n) /\ q = GNID(s, Parent(s, n))
  OBVIOUS
<1>2. PICK g : g = GNIDToSeq(f, p)
  OBVIOUS
<1>3. IsNumbering(g) /\ Extends(g, f, {p}) /\ p \in DOMAIN g \cup {<< >>}
  BY <1>2, GNIDToSeqFacts
<1>4. PICK h : h = GNIDToSeq(g, q)
  OBVIOUS
<1>5. IsNumbering(h) /\ Extends(h, g, {q})
  BY <1>3, <1>4, GNIDToSeqFacts
<1>6. Extends(h, f, {p, q})
  BY <1>3, <1>5, ExtendsTwice
<1>7. p \in DOMAIN h \cup {<< >>}
  BY <1>3, <1>5 DEF Extends
<1>8. Numbered(s, f, n) = h
  BY <1>1, <1>2, <1>4 DEF Numbered
<1> QED  BY <1>1, <1>5, <1>6, <1>7, <1>8

\* The paths of the nodes of N, but that of the root.
PathsOf(s, N) == {GNID(s, n) : n \in N} \ {<< >>}

\* All nodes of a slice get their numbers, and nothing else.
LEMMA AllNumberedFacts ==
  ASSUME shape \in [Sources -> Shapes], NEW s \in Sources, NEW f, IsNumbering(f),
         NEW N, Closed(s, N)
  PROVE  /\ IsNumbering(AllNumbered(s, f, N))
         /\ Extends(AllNumbered(s, f, N), f, PathsOf(s, N))
         /\ \A n \in N : GNID(s, n) \in DOMAIN AllNumbered(s, f, N) \cup {<< >>}
<1>1. PICK last : last = Len(shape[s]) + 1
  OBVIOUS
<1>2. last \in Nat /\ last >= 1 /\ Nodes(s) = 1 .. last /\ N \subseteq 1 .. last
  BY <1>1, ShapeFacts DEF Nodes, Closed
<1>3. PICK P : P = {GNID(s, m) : m \in 0 .. last}
  OBVIOUS
<1>4. PICK W : W = {g \in UNION {[Q -> Nat] : Q \in SUBSET (DOMAIN f \cup P)} : IsNumbering(g)}
  OBVIOUS
<1>5. ASSUME NEW g, IsNumbering(g), Extends(g, f, P) PROVE g \in W
  <2>1. DOMAIN g \in SUBSET (DOMAIN f \cup P)
    BY <1>5 DEF Extends
  <2>2. g \in [DOMAIN g -> Nat]
    <3>1. PICK c : c = Cardinality(DOMAIN g)
      OBVIOUS
    <3>2. g \in [DOMAIN g -> 2 .. c + 1] /\ c \in Nat
      BY <1>5, <3>1, FS_CardinalityType DEF IsNumbering
    <3> QED  BY <3>2
  <2> QED  BY <1>4, <1>5, <2>1, <2>2
<1>6. \A g \in W : IsNumbering(g) /\ DOMAIN g \subseteq DOMAIN f \cup P
  BY <1>4
<1>7. PICK D, B : D = 0 .. last /\ B = {0}
  OBVIOUS
<1>8. \A k \in D \ B : k \in 1 .. last /\ k - 1 \in D
  BY <1>2, <1>7
<1>9. PICK back : back = [k \in D \ B |-> k - 1]
  OBVIOUS
<1>10. PICK H : H = [k \in D \ B |-> [g \in W |-> IF k \in N THEN Numbered(s, g, k) ELSE g]]
  OBVIOUS
<1>11. \A k \in N : GNID(s, k) \in P /\ GNID(s, Parent(s, k)) \in P
  <2>1. ASSUME NEW k \in N PROVE k \in 0 .. last /\ Parent(s, k) \in 0 .. last
    <3>1. k \in 1 .. last /\ k \in Nodes(s)
      BY <1>2
    <3>2. CASE k = 1
      BY <1>2, <3>1, <3>2 DEF Parent
    <3>3. CASE k # 1
      <4>1. Parent(s, k) \in 1 .. k - 1
        BY <3>1, <3>3, ShapeFacts
      <4> QED  BY <1>2, <3>1, <4>1
    <3> QED  BY <3>2, <3>3
  <2> QED  BY <1>3, <2>1
<1>12. ASSUME NEW g \in W, NEW k \in N PROVE Numbered(s, g, k) \in W
  <2>1. PICK h : h = Numbered(s, g, k)
    OBVIOUS
  <2>2. IsNumbering(h) /\ Extends(h, g, {GNID(s, k), GNID(s, Parent(s, k))})
    BY <1>6, <2>1, NumberedFacts
  <2>3. DOMAIN h \in SUBSET (DOMAIN f \cup P)
    BY <1>6, <1>11, <2>2 DEF Extends
  <2>4. h \in [DOMAIN h -> Nat]
    <3>1. PICK c : c = Cardinality(DOMAIN h)
      OBVIOUS
    <3>2. h \in [DOMAIN h -> 2 .. c + 1] /\ c \in Nat
      BY <2>2, <3>1, FS_CardinalityType DEF IsNumbering
    <3> QED  BY <3>2
  <2> QED  BY <1>4, <2>1, <2>2, <2>3, <2>4
<1>13. Descends(D, B, back)
  <2>1. ASSUME NEW m \in D \ B PROVE back[m] \in D /\ back[m] < m
    <3>1. m \in 1 .. last /\ m - 1 \in D
      BY <1>8
    <3> QED  BY <1>2, <1>9, <3>1
  <2> QED  BY <1>9, <2>1 DEF Descends
<1>14. H \in [D \ B -> [W -> W]]
  BY <1>10, <1>12
<1>15. f \in W
  <2>1. Extends(f, f, P)
    BY DEF Extends
  <2> QED  BY <1>5, <2>1
<1>16. PICK some : Computed(D, B, back, W, f, H, some)
  <2>1. D \subseteq 0 .. last /\ B \subseteq D
    BY <1>2, <1>7
  <2> QED  BY <1>2, <1>13, <1>14, <1>15, <2>1, Recursion
<1>17. some = [k \in 0 .. last |-> IF k = 0 THEN f
                 ELSE IF k \in N THEN Numbered(s, some[k - 1], k) ELSE some[k - 1]]
  <2>1. some = [k \in D |-> IF k \in B THEN f ELSE H[k][some[back[k]]]]
    BY <1>16 DEF Computed
  <2>2. ASSUME NEW k \in D, k \notin B
        PROVE  H[k][some[back[k]]] = IF k \in N THEN Numbered(s, some[k - 1], k) ELSE some[k - 1]
    <3>1. back[k] = k - 1 /\ some[k - 1] \in W
      BY <1>8, <1>9, <1>16, <2>2 DEF Computed
    <3> QED  BY <1>10, <2>2, <3>1
  <2>3. \A k \in D : k \in B <=> k = 0
    BY <1>7
  <2> QED  BY <1>7, <2>1, <2>2, <2>3
<1> DEFINE upto == CHOOSE upto : upto = [k \in 0 .. last |-> IF k = 0 THEN f
                 ELSE IF k \in N THEN Numbered(s, upto[k - 1], k) ELSE upto[k - 1]]
<1>18. upto = [k \in 0 .. last |-> IF k = 0 THEN f
                 ELSE IF k \in N THEN Numbered(s, upto[k - 1], k) ELSE upto[k - 1]]
  BY <1>17
<1>19. AllNumbered(s, f, N) = upto[last]
  BY <1>1 DEF AllNumbered
<1> HIDE DEF upto
<1> DEFINE Good(k) == /\ IsNumbering(upto[k])
                      /\ Extends(upto[k], f, {GNID(s, n) : n \in N} \cup {<< >>})
                      /\ \A n \in N : n <= k => GNID(s, n) \in DOMAIN upto[k] \cup {<< >>}
           T == {k \in 0 .. last : Good(k)}
<1>20. 0 \in T
  <2>1. upto[0] = f
    BY <1>2, <1>18
  <2>2. \A n \in N : ~(n <= 0)
    BY <1>2
  <2> QED  BY <1>2, <2>1, <2>2 DEF Extends
<1>21. ASSUME NEW k \in 1 .. last, k - 1 \in T PROVE k \in T
  <2>1. PICK g, h : g = upto[k - 1] /\ h = upto[k]
    OBVIOUS
  <2>2. h = IF k \in N THEN Numbered(s, g, k) ELSE g
    BY <1>2, <1>18, <2>1
  <2>3. PICK Q : Q = {GNID(s, n) : n \in N} \cup {<< >>}
    OBVIOUS
  <2>4. IsNumbering(g) /\ Extends(g, f, Q)
        /\ \A n \in N : n <= k - 1 => GNID(s, n) \in DOMAIN g \cup {<< >>}
    BY <1>21, <2>1, <2>3
  <2>5. \A n \in N : n \in Nat /\ (n <= k => n = k \/ n <= k - 1)
    BY <1>2
  <2>6. CASE k \in N
    <3>1. IsNumbering(h) /\ Extends(h, g, {GNID(s, k), GNID(s, Parent(s, k))})
          /\ GNID(s, k) \in DOMAIN h \cup {<< >>}
      BY <2>2, <2>4, <2>6, NumberedFacts
    <3>2. {GNID(s, k), GNID(s, Parent(s, k))} \subseteq Q
      <4>1. CASE k = 1
        <5>1. GNID(s, Parent(s, k)) = << >>
          BY <4>1, GNIDFacts DEF Parent
        <5> QED  BY <2>3, <2>6, <5>1
      <4>2. CASE k # 1
        <5>1. Parent(s, k) \in N
          BY <2>6, <4>2 DEF Closed
        <5> QED  BY <2>3, <2>6, <5>1
      <4> QED  BY <4>1, <4>2
    <3>3. Extends(h, f, Q)
      BY <2>4, <3>1, <3>2, ExtendsTwice
    <3>4. DOMAIN g \subseteq DOMAIN h
      BY <3>1 DEF Extends
    <3>5. \A n \in N : n <= k => GNID(s, n) \in DOMAIN h \cup {<< >>}
      BY <2>4, <2>5, <3>1, <3>4
    <3> QED  BY <2>1, <2>3, <3>1, <3>3, <3>5
  <2>7. CASE k \notin N
    <3>1. h = g /\ \A n \in N : n # k
      BY <2>2, <2>7
    <3>2. IsNumbering(h) /\ Extends(h, f, Q)
      BY <2>4, <3>1
    <3>3. \A n \in N : n <= k => GNID(s, n) \in DOMAIN h \cup {<< >>}
      BY <2>4, <2>5, <3>1
    <3> QED  BY <2>1, <2>3, <3>2, <3>3
  <2> QED  BY <2>6, <2>7
<1> HIDE DEF T
<1>22. 0 .. last \subseteq T
  BY <1>2, <1>20, <1>21, Induction
<1>23. Good(last)
  <2>1. last \in T
    BY <1>2, <1>22
  <2> QED  BY <2>1 DEF T
<1>24. PICK h : h = upto[last]
  OBVIOUS
<1>25. Extends(h, f, PathsOf(s, N))
  <2>1. Extends(h, f, {GNID(s, n) : n \in N} \cup {<< >>}) /\ << >> \notin DOMAIN h
    BY <1>23, <1>24 DEF IsNumbering
  <2> QED  BY <2>1 DEF Extends, PathsOf
<1>26. \A n \in N : n <= last
  BY <1>2
<1> QED  BY <1>19, <1>23, <1>24, <1>25, <1>26

(***************************************************************************)
(* Vectors of time slices.                                                 *)
(***************************************************************************)

\* A vector with the slices of v and empty ones.
Grown(w, v) ==
  /\ DOMAIN v \subseteq DOMAIN w
  /\ \A k \in DOMAIN w : w[k] = IF k \in DOMAIN v THEN v[k] ELSE NoNodes

\* The least and the greatest time of an interval.
LEMMA IntervalEnds ==
  ASSUME NEW a \in Nat, NEW b \in Nat, a <= b
  PROVE  Min(a .. b) = a /\ \A ts \in Nat : a <= ts => Max((a .. b) \cup {ts}) = IF ts <= b THEN b ELSE ts
<1>1. Min(a .. b) = a
  <2>1. a .. b \subseteq Nat /\ a \in a .. b
    OBVIOUS
  <2>2. PICK m : m = Min(a .. b)
    OBVIOUS
  <2>3. m \in a .. b /\ m <= a
    BY <2>1, <2>2, MinFacts
  <2>4. m = a
    BY <2>3
  <2> QED  BY <2>2, <2>4
<1>2. ASSUME NEW ts \in Nat, a <= ts
      PROVE  Max((a .. b) \cup {ts}) = IF ts <= b THEN b ELSE ts
  <2>1. PICK S, top : S = (a .. b) \cup {ts} /\ top = IF ts <= b THEN b ELSE ts
    OBVIOUS
  <2>2. top \in S /\ top \in Nat /\ S \subseteq Nat /\ \A k \in S : k <= top
    BY <1>2, <2>1
  <2>3. PICK m : m = Max(S)
    OBVIOUS
  <2>4. m \in S /\ \A k \in S : k <= m
    BY <2>2, <2>3, MaxFacts
  <2>5. m <= top /\ top <= m /\ m \in Nat
    BY <2>2, <2>4
  <2> QED  BY <2>1, <2>2, <2>3, <2>5
<1> QED  BY <1>1, <1>2

\* The slices of v and empty ones at the times a .. c.
Filling(w, v, a, c) == w = [k \in a .. c |-> IF k \in DOMAIN v THEN v[k] ELSE NoNodes]

\* What a lookup makes of a vector of the times a .. b.
LEMMA LookupShape ==
  ASSUME NEW v, NEW a \in Nat, NEW b \in Nat, a <= b, DOMAIN v = a .. b, NEW ts \in Nat
  PROVE  \/ ts < a /\ GetTimeSlice(v, ts) = v
         \/ a <= ts /\ Filling(GetTimeSlice(v, ts), v, a, IF ts <= b THEN b ELSE ts)
<1>1. v # << >>
  BY SMT
<1>2. PICK start : start = Min(DOMAIN v)
  OBVIOUS
<1>3. start = a
  BY <1>2, IntervalEnds
<1>4. CASE ts < a
  BY <1>1, <1>2, <1>3, <1>4 DEF GetTimeSlice
<1>5. CASE ~(ts < a)
  <2>1. a <= ts
    BY <1>5
  <2>2. PICK last : last = Max(DOMAIN v \cup {ts})
    OBVIOUS
  <2>3. last = IF ts <= b THEN b ELSE ts
    BY <2>1, <2>2, IntervalEnds
  <2>4. GetTimeSlice(v, ts) = [k \in start .. last |-> IF k \in DOMAIN v THEN v[k] ELSE NoNodes]
    BY <1>1, <1>2, <1>3, <1>5, <2>2 DEF GetTimeSlice
  <2> QED  BY <1>3, <2>1, <2>3, <2>4 DEF Filling
<1> QED  BY <1>4, <1>5

\* A lookup in an empty vector makes one slice.
LEMMA LookupFirst ==
  ASSUME NEW ts \in Nat
  PROVE  GetTimeSlice(<< >>, ts) = [k \in ts .. ts |-> NoNodes]
<1>1. PICK v : v = << >>
  OBVIOUS
<1>2. PICK D : D = DOMAIN v
  OBVIOUS
<1>3. D = {}
  BY <1>1, <1>2
<1>4. PICK last : last = Max(D \cup {ts})
  OBVIOUS
<1>5. last = ts
  BY <1>3, <1>4 DEF Max
<1>6. GetTimeSlice(v, ts) = [k \in ts .. last |-> IF k \in D THEN v[k] ELSE NoNodes]
  BY <1>1, <1>2, <1>4 DEF GetTimeSlice
<1>7. GetTimeSlice(v, ts) = [k \in ts .. ts |-> NoNodes]
  BY <1>3, <1>5, <1>6
<1> QED  BY <1>1, <1>7

\* A lookup only adds empty slices.
LEMMA LookupGrows ==
  ASSUME NEW v, Vector(v), NEW ts \in Nat
  PROVE  Vector(GetTimeSlice(v, ts)) /\ Grown(GetTimeSlice(v, ts), v)
<1>1. PICK w : w = GetTimeSlice(v, ts)
  OBVIOUS
<1>2. CASE v = << >>
  <2>3. w = GetTimeSlice(<< >>, ts)
    BY <1>1, <1>2
  <2>4. w = [k \in ts .. ts |-> NoNodes]
    BY <2>3, LookupFirst
  <2>1. DOMAIN w = ts .. ts /\ (\A k \in DOMAIN w : w[k] = NoNodes) /\ DOMAIN v = {}
    BY <1>2, <2>4
  <2> QED  BY <1>1, <2>1 DEF Vector, Grown
<1>3. CASE v # << >>
  <2>1. PICK a, b \in Nat : a <= b /\ DOMAIN v = a .. b
    BY <1>3 DEF Vector
  <2>2. \/ ts < a /\ w = v
        \/ a <= ts /\ Filling(w, v, a, IF ts <= b THEN b ELSE ts)
    BY <1>1, <2>1, LookupShape
  <2>3. CASE w = v
    BY <1>1, <2>3 DEF Grown
  <2>4. CASE a <= ts /\ Filling(w, v, a, IF ts <= b THEN b ELSE ts)
    <3>1. PICK c : c = IF ts <= b THEN b ELSE ts
      OBVIOUS
    <3>2. c \in Nat /\ a <= c /\ b <= c
      BY <2>1, <2>4, <3>1
    <3>3. DOMAIN w = a .. c /\ \A k \in DOMAIN w : w[k] = IF k \in DOMAIN v THEN v[k] ELSE NoNodes
      BY <2>4, <3>1 DEF Filling
    <3>4. DOMAIN v \subseteq DOMAIN w
      BY <2>1, <3>2, <3>3
    <3> QED  BY <1>1, <3>2, <3>3, <3>4 DEF Vector, Grown
  <2> QED  BY <2>2, <2>3, <2>4
<1> QED  BY <1>2, <1>3

\* Growth adds up.
LEMMA GrownTwice ==
  ASSUME NEW u, NEW v, NEW w, Grown(v, u), Grown(w, v)
  PROVE  Grown(w, u)
<1>1. DOMAIN u \subseteq DOMAIN v /\ DOMAIN v \subseteq DOMAIN w
  BY DEF Grown
<1>2. ASSUME NEW k \in DOMAIN w PROVE w[k] = IF k \in DOMAIN u THEN u[k] ELSE NoNodes
  <2>1. CASE k \in DOMAIN v
    BY <1>1, <2>1 DEF Grown
  <2>2. CASE k \notin DOMAIN v
    BY <1>1, <2>2 DEF Grown
  <2> QED  BY <2>1, <2>2
<1> QED  BY <1>1, <1>2 DEF Grown

\* So does a diff request.
LEMMA QueriedGrows ==
  ASSUME NEW v, Vector(v), NEW from \in Nat, NEW to \in Nat
  PROVE  Vector(Queried(v, from, to)) /\ Grown(Queried(v, from, to), v)
<1>1. PICK w, x : w = GetTimeSlice(v, from) /\ x = GetTimeSlice(w, to)
  OBVIOUS
<1>2. Vector(w) /\ Grown(w, v)
  BY <1>1, LookupGrows
<1>3. Vector(x) /\ Grown(x, w)
  BY <1>1, <1>2, LookupGrows
<1>4. Grown(x, v)
  BY <1>2, <1>3, GrownTwice
<1>5. Vector(GetTimeSlice(v, to)) /\ Grown(GetTimeSlice(v, to), v)
  BY LookupGrows
<1>6. Grown(v, v)
  BY DEF Grown
<1>7. \/ Queried(v, from, to) = x \/ Queried(v, from, to) = GetTimeSlice(v, to)
      \/ Queried(v, from, to) = v
  BY <1>1 DEF Queried
<1>8. PICK q : q = Queried(v, from, to)
  OBVIOUS
<1>9. Vector(q) /\ Grown(q, v)
  <2>1. CASE q = x
    BY <1>3, <1>4, <2>1
  <2>2. CASE q = GetTimeSlice(v, to)
    BY <1>5, <2>2
  <2>3. CASE q = v
    BY <1>6, <2>3
  <2> QED  BY <1>7, <1>8, <2>1, <2>2, <2>3
<1> QED  BY <1>8, <1>9

\* The times of a vector are finitely many.
LEMMA VectorFinite ==
  ASSUME NEW v, Vector(v)
  PROVE  IsFiniteSet(DOMAIN v) /\ DOMAIN v \subseteq Nat
<1>1. CASE v = << >>
  <2>1. DOMAIN v = {}
    BY <1>1
  <2> QED  BY <2>1, FS_EmptySet
<1>2. CASE \E a, b \in Nat : a <= b /\ DOMAIN v = a .. b
  <2>1. PICK a, b \in Nat : a <= b /\ DOMAIN v = a .. b
    BY <1>2
  <2>2. IsFiniteSet(a .. b)
    BY FS_Interval
  <2> QED  BY <2>1, <2>2
<1> QED  BY <1>1, <1>2 DEF Vector

(***************************************************************************)
(* Calls under a path.                                                     *)
(***************************************************************************)

\* A set of numbers up to a bound is finite.
LEMMA NodesFinite ==
  ASSUME shape \in [Sources -> Shapes], NEW s \in Sources
  PROVE  \A N : N \subseteq Nodes(s) => IsFiniteSet(N)
<1>1. IsFiniteSet(Nodes(s))
  BY ShapeFacts, FS_Interval DEF Nodes
<1> QED  BY <1>1, FS_Subset

\* What Plus adds.
LEMMA PlusFacts ==
  ASSUME NEW S, NEW c, NEW r, Tally(c, S), Tally(r, S)
  PROVE  /\ Tally(Plus(c, r), S) /\ DOMAIN Plus(c, r) = DOMAIN c \cup DOMAIN r
         /\ \A n \in DOMAIN c \cup DOMAIN r :
              Plus(c, r)[n] = (IF n \in DOMAIN c THEN c[n] ELSE 0) + (IF n \in DOMAIN r THEN r[n] ELSE 0)
<1>1. PICK p : p = Plus(c, r)
  OBVIOUS
<1>2. p = [n \in DOMAIN c \cup DOMAIN r |->
             (IF n \in DOMAIN c THEN c[n] ELSE 0) + (IF n \in DOMAIN r THEN r[n] ELSE 0)]
  BY <1>1 DEF Plus
<1>3. /\ DOMAIN c \subseteq S /\ (\A n \in DOMAIN c : c[n] \in Int)
      /\ DOMAIN r \subseteq S /\ (\A n \in DOMAIN r : r[n] \in Int)
  BY DEF Tally
<1>4. \A n \in DOMAIN c \cup DOMAIN r : p[n] \in Int
  BY <1>2, <1>3
<1>5. p \in [DOMAIN p -> Int] /\ DOMAIN p \subseteq S
  BY <1>2, <1>3, <1>4
<1> QED  BY <1>1, <1>2, <1>5 DEF Tally

\* Sums over parts of what Plus adds.
LEMMA SumPlus ==
  ASSUME NEW S, IsFiniteSet(S), NEW c, NEW r, Tally(c, S), Tally(r, S), NEW T
  PROVE  SumFunctionOnSet(Plus(c, r), (DOMAIN c \cup DOMAIN r) \cap T)
           = SumFunctionOnSet(c, DOMAIN c \cap T) + SumFunctionOnSet(r, DOMAIN r \cap T)
<1>1. PICK J, K, E, h : /\ J = (DOMAIN c \cup DOMAIN r) \cap T /\ K = DOMAIN c \cap T
                        /\ E = DOMAIN r \cap T /\ h = Plus(c, r)
  OBVIOUS
<1>2. PICK a : a = [n \in J |-> IF n \in K THEN c[n] ELSE 0]
  OBVIOUS
<1>3. /\ DOMAIN c \subseteq S /\ (\A n \in DOMAIN c : c[n] \in Int)
      /\ DOMAIN r \subseteq S /\ (\A n \in DOMAIN r : r[n] \in Int)
  BY DEF Tally
<1>4. IsFiniteSet(J)
  BY <1>1, <1>3, FS_Subset
<1>5. \A n \in J : h[n] = (IF n \in DOMAIN c THEN c[n] ELSE 0) + (IF n \in DOMAIN r THEN r[n] ELSE 0)
  <2>1. \A n \in DOMAIN c \cup DOMAIN r :
          h[n] = (IF n \in DOMAIN c THEN c[n] ELSE 0) + (IF n \in DOMAIN r THEN r[n] ELSE 0)
    BY <1>1, PlusFacts
  <2> QED  BY <1>1, <2>1
<1>6. \A n \in J : a[n] \in Int
  BY <1>1, <1>2, <1>3
<1>7. \A n \in J : h[n] = a[n] + IF n \in E THEN r[n] ELSE 0
  <2>1. ASSUME NEW n \in J PROVE h[n] = a[n] + IF n \in E THEN r[n] ELSE 0
    <3>1. (n \in DOMAIN c <=> n \in K) /\ (n \in DOMAIN r <=> n \in E)
      BY <1>1
    <3>2. a[n] = IF n \in DOMAIN c THEN c[n] ELSE 0
      BY <1>2, <3>1
    <3> QED  BY <1>5, <3>1, <3>2
  <2> QED  BY <2>1
<1>8. E \subseteq J /\ \A n \in E : r[n] \in Int
  BY <1>1, <1>3
<1>9. SumFunctionOnSet(h, J) = SumFunctionOnSet(a, J) + SumFunctionOnSet(r, E)
  BY <1>4, <1>6, <1>7, <1>8, SumSplit
<1>10. SumFunctionOnSet(a, J) = SumFunctionOnSet(c, K)
  <2>1. K \subseteq J /\ (\A n \in K : c[n] \in Int /\ a[n] = c[n]) /\ \A n \in J \ K : a[n] = 0
    BY <1>1, <1>2, <1>3
  <2> QED  BY <1>4, <2>1, SumSame
<1> QED  BY <1>1, <1>9, <1>10, Zenon

\* The nodes under a path.
Under(s, path) == {n \in Nodes(s) : GNID(s, n) = path}

\* A count is a sum over the nodes under a path.
LEMMA CountIs ==
  ASSUME NEW s, NEW c, Tally(c, Nodes(s)), NEW path
  PROVE  Count(s, c, path) = SumFunctionOnSet(c, DOMAIN c \cap Under(s, path))
<1>1. {n \in DOMAIN c : GNID(s, n) = path} = DOMAIN c \cap Under(s, path)
  BY DEF Tally, Under
<1> QED  BY <1>1 DEF Count

\* A count is a number, 0 if there are no nodes.
LEMMA CountFacts ==
  ASSUME shape \in [Sources -> Shapes], NEW s \in Sources, NEW c, Tally(c, Nodes(s)), NEW path
  PROVE  Count(s, c, path) \in Int /\ (DOMAIN c = {} => Count(s, c, path) = 0)
<1>1. PICK K : K = DOMAIN c \cap Under(s, path)
  OBVIOUS
<1>2. IsFiniteSet(K) /\ \A n \in K : c[n] \in Int
  <2>1. K \subseteq Nodes(s)
    BY <1>1 DEF Under
  <2> QED  BY <1>1, <2>1, NodesFinite DEF Tally
<1>3. SumFunctionOnSet(c, K) \in Int /\ (K = {} => SumFunctionOnSet(c, K) = 0)
  BY <1>2, SumFacts
<1>4. Count(s, c, path) = SumFunctionOnSet(c, K)
  BY <1>1, CountIs
<1> QED  BY <1>1, <1>3, <1>4

\* The count of what is added is added.
LEMMA CountPlus ==
  ASSUME shape \in [Sources -> Shapes], NEW s \in Sources,
         NEW c, NEW r, Tally(c, Nodes(s)), Tally(r, Nodes(s)), NEW path
  PROVE  Count(s, Plus(c, r), path) = Count(s, c, path) + Count(s, r, path)
<1>1. PICK S, T, h : S = Nodes(s) /\ T = Under(s, path) /\ h = Plus(c, r)
  OBVIOUS
<1>2. Tally(h, S) /\ DOMAIN h = DOMAIN c \cup DOMAIN r
  BY <1>1, PlusFacts
<1>3. IsFiniteSet(S)
  BY <1>1, NodesFinite
<1>4. SumFunctionOnSet(h, DOMAIN h \cap T)
        = SumFunctionOnSet(c, DOMAIN c \cap T) + SumFunctionOnSet(r, DOMAIN r \cap T)
  <2>1. SumFunctionOnSet(Plus(c, r), (DOMAIN c \cup DOMAIN r) \cap T)
           = SumFunctionOnSet(c, DOMAIN c \cap T) + SumFunctionOnSet(r, DOMAIN r \cap T)
    BY <1>1, <1>3, SumPlus
  <2> QED  BY <1>1, <1>2, <2>1
<1>5. Count(s, h, path) = SumFunctionOnSet(h, DOMAIN h \cap T)
  BY <1>1, <1>2, CountIs
<1>6. Count(s, c, path) = SumFunctionOnSet(c, DOMAIN c \cap T)
  BY <1>1, CountIs
<1>7. Count(s, r, path) = SumFunctionOnSet(r, DOMAIN r \cap T)
  BY <1>1, CountIs
<1> QED  BY <1>1, <1>4, <1>5, <1>6, <1>7, Zenon

\* The calls under a path in the slices of a vector.
PendingOf(s, v, path) == SumFunction([k \in DOMAIN v |-> Count(s, v[k], path)])

\* The sum is that of the one slice with any calls.
LEMMA PendingFacts ==
  ASSUME shape \in [Sources -> Shapes], NEW s \in Sources, NEW v, Slices(s, v), NEW path
  PROVE  /\ PendingOf(s, v, path) \in Int
         /\ (\A k \in DOMAIN v : DOMAIN v[k] = {}) => PendingOf(s, v, path) = 0
         /\ \A x \in DOMAIN v : (\A k \in DOMAIN v \ {x} : DOMAIN v[k] = {})
                                  => PendingOf(s, v, path) = Count(s, v[x], path)
<1>1. PICK K : K = DOMAIN v
  OBVIOUS
<1>2. PICK f : f = [k \in K |-> Count(s, v[k], path)]
  OBVIOUS
<1>3. \A k \in K : /\ f[k] = Count(s, v[k], path) /\ f[k] \in Int
                   /\ DOMAIN v[k] = {} => f[k] = 0
  BY <1>1, <1>2, CountFacts DEF Slices
<1>4. Summable(f, K)
  <2>1. IsFiniteSet(K)
    BY <1>1, VectorFinite DEF Slices
  <2> QED  BY <1>3, <2>1 DEF Summable
<1>5. PendingOf(s, v, path) = SumFunctionOnSet(f, K)
  <2>1. DOMAIN f = K
    BY <1>2
  <2> QED  BY <1>1, <1>2, <2>1 DEF PendingOf, SumFunction
<1>6. SumFunctionOnSet(f, K) \in Int
  BY <1>4, SumFacts DEF Summable
<1>7. ASSUME \A k \in K : DOMAIN v[k] = {} PROVE SumFunctionOnSet(f, K) = 0
  <2>1. \A k \in K : f[k] = 0
    BY <1>3, <1>7
  <2> QED  BY <1>4, <2>1, SumZero DEF Summable
<1>8. ASSUME NEW x \in K, \A k \in K \ {x} : DOMAIN v[k] = {} PROVE SumFunctionOnSet(f, K) = f[x]
  <2>1. \A k \in K \ {x} : f[k] = 0
    BY <1>3, <1>8
  <2> QED  BY <1>4, <2>1, SumOnly
<1> QED  BY <1>1, <1>3, <1>5, <1>6, <1>7, <1>8

\* Empty slices do not count.
LEMMA PendingGrown ==
  ASSUME shape \in [Sources -> Shapes], NEW s \in Sources, NEW v, Slices(s, v),
         NEW w, Vector(w), Grown(w, v), NEW path
  PROVE  Slices(s, w) /\ PendingOf(s, w, path) = PendingOf(s, v, path)
<1>1. PICK K, E : K = DOMAIN w /\ E = DOMAIN v
  OBVIOUS
<1>2. PICK f, g : f = [k \in K |-> Count(s, w[k], path)] /\ g = [k \in E |-> Count(s, v[k], path)]
  OBVIOUS
<1>3. E \subseteq K /\ \A k \in K : w[k] = IF k \in E THEN v[k] ELSE NoNodes
  BY <1>1 DEF Grown
<1>4. Tally(NoNodes, Nodes(s)) /\ DOMAIN NoNodes = {}
  <2>1. PICK none : none = NoNodes
    OBVIOUS
  <2>2. DOMAIN none = {} /\ none = [n \in {} |-> 0]
    BY <2>1 DEF NoNodes
  <2> QED  BY <2>1, <2>2 DEF Tally
<1>5. Slices(s, w)
  <2>1. ASSUME NEW k \in K PROVE Tally(w[k], Nodes(s))
    BY <1>1, <1>3, <1>4 DEF Slices
  <2> QED  BY <1>1, <2>1 DEF Slices
<1>6. \A k \in E : g[k] \in Int /\ f[k] = g[k]
  <2>1. ASSUME NEW k \in E PROVE g[k] \in Int /\ f[k] = g[k]
    <3>1. w[k] = v[k] /\ k \in K
      BY <1>3
    <3>2. f[k] = Count(s, w[k], path) /\ g[k] = Count(s, v[k], path)
      BY <1>2, <3>1
    <3>3. Count(s, v[k], path) \in Int
      BY <1>1, CountFacts DEF Slices
    <3> QED  BY <3>1, <3>2, <3>3
  <2> QED  BY <2>1
<1>7. \A k \in K \ E : f[k] = 0
  <2>1. ASSUME NEW k \in K \ E PROVE f[k] = 0
    <3>1. w[k] = NoNodes
      BY <1>3
    <3>2. f[k] = Count(s, NoNodes, path)
      BY <1>2, <3>1
    <3>3. Count(s, NoNodes, path) = 0
      BY <1>4, CountFacts
    <3> QED  BY <3>2, <3>3
  <2> QED  BY <2>1
<1>8. IsFiniteSet(K)
  BY <1>1, VectorFinite
<1>9. SumFunctionOnSet(f, K) = SumFunctionOnSet(g, E)
  BY <1>3, <1>6, <1>7, <1>8, SumSame
<1>10. PendingOf(s, w, path) = SumFunctionOnSet(f, K)
  <2>1. DOMAIN f = K
    BY <1>2
  <2> QED  BY <1>1, <1>2, <2>1 DEF PendingOf, SumFunction
<1>11. PendingOf(s, v, path) = SumFunctionOnSet(g, E)
  <2>1. DOMAIN g = E
    BY <1>2
  <2> QED  BY <1>1, <1>2, <2>1 DEF PendingOf, SumFunction
<1> QED  BY <1>5, <1>9, <1>10, <1>11, Zenon

(***************************************************************************)
(* The global tree.                                                        *)
(***************************************************************************)

\* The numbers of the paths, the root's too, are those from 1 on.
LEMMA Seq0Facts ==
  ASSUME NEW f, IsNumbering(f)
  PROVE  /\ Cardinality(DOMAIN f) \in Nat
         /\ \A p \in Numbers(f) : Seq0(f, p) \in 1 .. Cardinality(DOMAIN f) + 1
         /\ \A p, q \in Numbers(f) : Seq0(f, p) = Seq0(f, q) => p = q
         /\ \A d \in 1 .. Cardinality(DOMAIN f) + 1 : \E p \in Numbers(f) : Seq0(f, p) = d
<1>1. PICK c : c = Cardinality(DOMAIN f)
  OBVIOUS
<1>2. /\ c \in Nat /\ << >> \notin DOMAIN f /\ f \in [DOMAIN f -> 2 .. c + 1]
      /\ (\A p, q \in DOMAIN f : f[p] = f[q] => p = q)
      /\ \A d \in 2 .. c + 1 : \E p \in DOMAIN f : f[p] = d
  BY <1>1, FS_CardinalityType DEF IsNumbering
<1>3. Seq0(f, << >>) = 1 /\ \A p \in DOMAIN f : Seq0(f, p) = f[p] /\ f[p] \in 2 .. c + 1
  BY <1>2 DEF Seq0
<1>4. ASSUME NEW p \in Numbers(f) PROVE Seq0(f, p) \in 1 .. c + 1
  BY <1>2, <1>3 DEF Numbers
<1>5. ASSUME NEW p \in Numbers(f), NEW q \in Numbers(f), Seq0(f, p) = Seq0(f, q) PROVE p = q
  <2>1. \A r \in DOMAIN f : Seq0(f, r) # 1
    BY <1>2, <1>3
  <2>2. CASE p \in DOMAIN f /\ q \in DOMAIN f
    BY <1>2, <1>3, <1>5, <2>2
  <2>3. CASE ~(p \in DOMAIN f /\ q \in DOMAIN f)
    BY <1>3, <1>5, <2>1, <2>3 DEF Numbers
  <2> QED  BY <2>2, <2>3
<1>6. ASSUME NEW d \in 1 .. c + 1 PROVE \E p \in Numbers(f) : Seq0(f, p) = d
  <2>1. CASE d = 1
    BY <1>3, <2>1 DEF Numbers
  <2>2. CASE d # 1
    <3>1. d \in 2 .. c + 1
      BY <1>2, <2>2
    <3>2. PICK p \in DOMAIN f : f[p] = d
      BY <1>2, <3>1
    <3> QED  BY <1>3, <3>2 DEF Numbers
  <2> QED  BY <2>1, <2>2
<1> QED  BY <1>1, <1>2, <1>4, <1>5, <1>6

\* More numbers leave the old ones.
LEMMA Seq0Extends ==
  ASSUME NEW f, IsNumbering(f), NEW g, IsNumbering(g), NEW P, Extends(g, f, P)
  PROVE  /\ Numbers(f) \subseteq Numbers(g)
         /\ \A p \in Numbers(f) : Seq0(g, p) = Seq0(f, p)
         /\ Cardinality(DOMAIN f) <= Cardinality(DOMAIN g)
<1>1. DOMAIN f \subseteq DOMAIN g /\ \A p \in DOMAIN f : g[p] = f[p]
  BY DEF Extends
<1>2. Cardinality(DOMAIN f) <= Cardinality(DOMAIN g)
  BY <1>1, FS_Subset DEF IsNumbering
<1> QED  BY <1>1, <1>2 DEF Numbers, Seq0

\* Where an integration adds, and what.
Targets(s, g, N) == {Seq0(g, GNID(s, n)) : n \in N}
Added(s, g, src) ==
  [d \in Targets(s, g, DOMAIN src) |->
     SumFunctionOnSet(src, {n \in DOMAIN src : Seq0(g, GNID(s, n)) = d})]

\* Numbers for all nodes of a slice.
Covers(s, g, N) == \A n \in N : GNID(s, n) \in Numbers(g)

\* An integration adds to each node what is counted under its path.
LEMMA AddedFacts ==
  ASSUME shape \in [Sources -> Shapes], NEW s \in Sources, NEW g, IsNumbering(g),
         NEW src, Tally(src, Nodes(s)), Covers(s, g, DOMAIN src)
  PROVE  /\ Tally(Added(s, g, src), 1 .. Cardinality(DOMAIN g) + 1)
         /\ \A path \in Numbers(g) :
              Count(s, src, path) = IF Seq0(g, path) \in DOMAIN Added(s, g, src)
                                    THEN Added(s, g, src)[Seq0(g, path)] ELSE 0
         /\ \A path : path \notin Numbers(g) => Count(s, src, path) = 0
<1>1. PICK c, N, a : c = Cardinality(DOMAIN g) /\ N = DOMAIN src /\ a = Added(s, g, src)
  OBVIOUS
<1>2. DOMAIN a = Targets(s, g, N)
  BY <1>1 DEF Added
<1>3. \A d \in DOMAIN a : a[d] = SumFunctionOnSet(src, {n \in N : Seq0(g, GNID(s, n)) = d})
  BY <1>1, <1>2 DEF Added
<1>4. \A n \in N : GNID(s, n) \in Numbers(g) /\ Seq0(g, GNID(s, n)) \in 1 .. c + 1
  BY <1>1, Seq0Facts DEF Covers
<1>5. Targets(s, g, N) \subseteq 1 .. c + 1
  BY <1>4 DEF Targets
<1>6. N \subseteq Nodes(s) /\ \A n \in N : src[n] \in Int
  BY <1>1 DEF Tally
<1>7. \A M : M \subseteq N => IsFiniteSet(M) /\ SumFunctionOnSet(src, M) \in Int
  <2>1. ASSUME NEW M, M \subseteq N PROVE IsFiniteSet(M) /\ SumFunctionOnSet(src, M) \in Int
    <3>1. IsFiniteSet(M) /\ \A n \in M : src[n] \in Int
      BY <1>6, <2>1, NodesFinite
    <3> QED  BY <3>1, SumFacts
  <2> QED  BY <2>1
<1>8. Tally(a, 1 .. c + 1)
  <2>1. ASSUME NEW d \in DOMAIN a PROVE a[d] \in Int
    <3>1. PICK M : M = {n \in N : Seq0(g, GNID(s, n)) = d}
      OBVIOUS
    <3>2. M \subseteq N
      BY <3>1
    <3> QED  BY <1>3, <1>7, <3>1, <3>2
  <2>2. a = [d \in DOMAIN a |-> a[d]]
    BY <1>1, <1>2 DEF Added
  <2> QED  BY <1>2, <1>5, <2>1, <2>2 DEF Tally
<1>9. \A path : Count(s, src, path) = SumFunctionOnSet(src, {n \in N : GNID(s, n) = path})
  BY <1>1 DEF Count
<1>10. ASSUME NEW path \in Numbers(g)
       PROVE  Count(s, src, path) = IF Seq0(g, path) \in DOMAIN a THEN a[Seq0(g, path)] ELSE 0
  <2>1. PICK d : d = Seq0(g, path)
    OBVIOUS
  <2>2. \A n \in N : Seq0(g, GNID(s, n)) = d <=> GNID(s, n) = path
    BY <1>4, <2>1, Seq0Facts
  <2>3. PICK M : M = {n \in N : GNID(s, n) = path}
    OBVIOUS
  <2>4. M = {n \in N : Seq0(g, GNID(s, n)) = d}
    BY <2>2, <2>3
  <2>5. Count(s, src, path) = SumFunctionOnSet(src, M)
    BY <1>9, <2>3
  <2>6. CASE d \in DOMAIN a
    BY <1>3, <2>1, <2>4, <2>5, <2>6
  <2>7. CASE d \notin DOMAIN a
    <3>1. M = {}
      BY <1>2, <2>4, <2>7 DEF Targets
    <3>2. SumFunctionOnSet(src, M) = 0
      BY <3>1, FS_EmptySet, SumFacts
    <3> QED  BY <2>1, <2>5, <2>7, <3>2
  <2> QED  BY <2>6, <2>7
<1>11. ASSUME NEW path, path \notin Numbers(g) PROVE Count(s, src, path) = 0
  <2>1. PICK M : M = {n \in N : GNID(s, n) = path}
    OBVIOUS
  <2>2. M = {}
    BY <1>4, <1>11, <2>1
  <2>3. SumFunctionOnSet(src, M) = 0
    BY <2>2, FS_EmptySet, SumFacts
  <2> QED  BY <1>9, <2>1, <2>3
<1> QED  BY <1>1, <1>8, <1>10, <1>11

\* What the global tree counts under a path.
IntegratedIn(f, t, path) ==
  IF path = << >> THEN t[1] ELSE IF path \in DOMAIN f THEN t[f[path]] ELSE 0

\* The root is a node with a number like the others.
LEMMA IntegratedIs ==
  ASSUME NEW f, NEW t, NEW path
  PROVE  IntegratedIn(f, t, path) = IF path \in Numbers(f) THEN t[Seq0(f, path)] ELSE 0
BY DEF IntegratedIn, Numbers, Seq0

\* The source whose slice is integrated gives its calls to the global tree.
Integrates(s, f, g, src) ==
  /\ IsNumbering(f) /\ IsNumbering(g) /\ Tally(src, Nodes(s))
  /\ Extends(g, f, PathsOf(s, DOMAIN src)) /\ Covers(s, g, DOMAIN src)

\* The source whose slice is integrated gives its calls to the global tree.
LEMMA IntegratedTree ==
  ASSUME shape \in [Sources -> Shapes], NEW s \in Sources, NEW f, NEW g, NEW src,
         Integrates(s, f, g, src), NEW t, NodeEach(f, t)
  PROVE  /\ NodeEach(g, Plus(t, Added(s, g, src)))
         /\ DOMAIN Plus(t, Added(s, g, src)) = DOMAIN t \cup DOMAIN Added(s, g, src)
         /\ \A path : IntegratedIn(g, Plus(t, Added(s, g, src)), path)
                        = IntegratedIn(f, t, path) + Count(s, src, path)
<1>1. PICK c, k, a, u : /\ c = Cardinality(DOMAIN f) /\ k = Cardinality(DOMAIN g)
                        /\ a = Added(s, g, src) /\ u = Plus(t, a)
  OBVIOUS
<1>2. /\ IsNumbering(f) /\ IsNumbering(g) /\ Tally(src, Nodes(s))
      /\ Extends(g, f, PathsOf(s, DOMAIN src)) /\ Covers(s, g, DOMAIN src)
  BY DEF Integrates
<1>3. c \in Nat /\ k \in Nat /\ c <= k /\ Numbers(f) \subseteq Numbers(g)
      /\ \A p \in Numbers(f) : Seq0(g, p) = Seq0(f, p) /\ Seq0(f, p) \in 1 .. c + 1
  BY <1>1, <1>2, Seq0Facts, Seq0Extends
<1>4. /\ Tally(a, 1 .. k + 1)
      /\ \A path \in Numbers(g) :
           Count(s, src, path) = IF Seq0(g, path) \in DOMAIN a THEN a[Seq0(g, path)] ELSE 0
      /\ \A path : path \notin Numbers(g) => Count(s, src, path) = 0
  BY <1>1, <1>2, AddedFacts
<1>5. t \in [1 .. c + 1 -> Int] /\ DOMAIN t = 1 .. c + 1 /\ Tally(t, 1 .. k + 1)
  <2>1. t \in [1 .. c + 1 -> Int] /\ DOMAIN t = 1 .. c + 1
    BY <1>1 DEF NodeEach
  <2>2. 1 .. c + 1 \subseteq 1 .. k + 1
    BY <1>3
  <2> QED  BY <2>1, <2>2 DEF Tally
<1>6. /\ Tally(u, 1 .. k + 1) /\ DOMAIN u = DOMAIN t \cup DOMAIN a
      /\ \A d \in DOMAIN t \cup DOMAIN a :
           u[d] = (IF d \in DOMAIN t THEN t[d] ELSE 0) + (IF d \in DOMAIN a THEN a[d] ELSE 0)
  BY <1>1, <1>4, <1>5, PlusFacts
<1>7. ASSUME NEW d \in 1 .. k + 1 PROVE d \in DOMAIN u
  <2>1. PICK p \in Numbers(g) : Seq0(g, p) = d
    BY <1>1, <1>2, Seq0Facts
  <2>2. CASE p \in Numbers(f)
    BY <1>3, <1>5, <1>6, <2>1, <2>2
  <2>3. CASE p \notin Numbers(f)
    <3>1. p \in PathsOf(s, DOMAIN src)
      BY <1>2, <2>3 DEF Numbers, Extends
    <3>2. d \in Targets(s, g, DOMAIN src)
      BY <2>1, <3>1 DEF PathsOf, Targets
    <3>3. DOMAIN a = Targets(s, g, DOMAIN src)
      BY <1>1 DEF Added
    <3> QED  BY <1>6, <3>2, <3>3
  <2> QED  BY <2>2, <2>3
<1>8. NodeEach(g, u)
  <2>1. DOMAIN u = 1 .. k + 1 /\ u \in [DOMAIN u -> Int]
    BY <1>6, <1>7 DEF Tally
  <2> QED  BY <1>1, <2>1 DEF NodeEach
<1>9. ASSUME NEW path
      PROVE  IntegratedIn(g, u, path) = IntegratedIn(f, t, path) + Count(s, src, path)
  <2>1. IntegratedIn(g, u, path) = IF path \in Numbers(g) THEN u[Seq0(g, path)] ELSE 0
    BY IntegratedIs
  <2>2. IntegratedIn(f, t, path) = IF path \in Numbers(f) THEN t[Seq0(f, path)] ELSE 0
    BY IntegratedIs
  <2>3. CASE path \notin Numbers(g)
    BY <1>3, <1>4, <2>1, <2>2, <2>3
  <2>4. CASE path \in Numbers(g)
    <3>1. PICK d : d = Seq0(g, path)
      OBVIOUS
    <3>2. d \in 1 .. k + 1 /\ d \in DOMAIN u
      BY <1>1, <1>2, <1>7, <2>4, <3>1, Seq0Facts
    <3>3. u[d] = (IF d \in DOMAIN t THEN t[d] ELSE 0) + Count(s, src, path)
      BY <1>4, <1>6, <2>4, <3>1, <3>2
    <3>4. IntegratedIn(f, t, path) = IF d \in DOMAIN t THEN t[d] ELSE 0
      <4>1. CASE path \in Numbers(f)
        BY <1>3, <1>5, <2>2, <3>1, <4>1
      <4>2. CASE path \notin Numbers(f)
        <5>1. ASSUME d \in DOMAIN t PROVE FALSE
          <6>1. PICK q \in Numbers(f) : Seq0(f, q) = d
            BY <1>1, <1>2, <1>5, <5>1, Seq0Facts
          <6>2. q \in Numbers(g) /\ Seq0(g, q) = Seq0(g, path)
            BY <1>3, <3>1, <6>1
          <6>3. q = path
            BY <1>2, <2>4, <6>2, Seq0Facts
          <6> QED  BY <4>2, <6>3
        <5> QED  BY <2>2, <4>2, <5>1
      <4> QED  BY <4>1, <4>2
    <3> QED  BY <2>1, <2>4, <3>1, <3>3, <3>4
  <2> QED  BY <2>3, <2>4
<1> QED  BY <1>1, <1>6, <1>8, <1>9

NewParents(gp, s, g, N) ==
  [d \in DOMAIN gp \cup Targets(s, g, N) |-> IF d \in DOMAIN gp THEN gp[d]
     ELSE LET n == CHOOSE m \in N : Seq0(g, GNID(s, m)) = d IN Seq0(g, Front(GNID(s, n)))]

\* The nodes that are new get the right parents.
LEMMA ParentsStayRight ==
  ASSUME shape \in [Sources -> Shapes], NEW s \in Sources, NEW f, NEW g, NEW src,
         Integrates(s, f, g, src), Closed(s, DOMAIN src),
         NEW gp, DOMAIN gp = 1 .. Cardinality(DOMAIN f) + 1, ParentsRight(f, gp)
  PROVE  ParentsRight(g, NewParents(gp, s, g, DOMAIN src))
<1>1. PICK c, N, np : c = Cardinality(DOMAIN f) /\ N = DOMAIN src /\ np = NewParents(gp, s, g, N)
  OBVIOUS
<1>2. /\ IsNumbering(f) /\ IsNumbering(g) /\ Extends(g, f, PathsOf(s, N)) /\ Covers(s, g, N)
  BY <1>1 DEF Integrates
<1>3. /\ c \in Nat /\ Numbers(f) \subseteq Numbers(g)
      /\ \A p \in Numbers(f) : Seq0(g, p) = Seq0(f, p) /\ Seq0(f, p) \in 1 .. c + 1
  BY <1>1, <1>2, Seq0Facts, Seq0Extends
<1>4. /\ << >> \notin DOMAIN f /\ << >> \notin DOMAIN g
      /\ (\A p \in DOMAIN f : p \in DOMAIN g /\ g[p] = f[p] /\ p \in Numbers(f) /\ Seq0(f, p) = f[p])
      /\ (\A p \in DOMAIN g : p \in Numbers(g) /\ Seq0(g, p) = g[p])
  BY <1>2 DEF IsNumbering, Extends, Numbers, Seq0
<1>5. DOMAIN np = DOMAIN gp \cup Targets(s, g, N)
      /\ \A d \in DOMAIN np : np[d] = IF d \in DOMAIN gp THEN gp[d]
           ELSE Seq0(g, Front(GNID(s, CHOOSE m \in N : Seq0(g, GNID(s, m)) = d)))
  BY <1>1 DEF NewParents
<1>6. ASSUME NEW p \in DOMAIN g
      PROVE  Front(p) \in Numbers(g) /\ np[g[p]] = Seq0(g, Front(p))
  <2>1. CASE p \in DOMAIN f
    <3>1. g[p] = f[p] /\ f[p] \in DOMAIN gp
      BY <1>1, <1>3, <1>4, <2>1
    <3>2. np[g[p]] = gp[f[p]]
      BY <1>5, <3>1
    <3>3. Front(p) \in Numbers(f) /\ gp[f[p]] = Seq0(f, Front(p))
      BY <2>1 DEF ParentsRight
    <3> QED  BY <1>3, <3>2, <3>3
  <2>2. CASE p \notin DOMAIN f
    <3>1. PICK d : d = g[p]
      OBVIOUS
    <3>2. p \in PathsOf(s, N) /\ p # << >>
      BY <1>2, <1>4, <2>2 DEF Extends
    <3>3. d \notin DOMAIN gp
      <4>1. SUFFICES ASSUME d \in DOMAIN gp PROVE FALSE
        OBVIOUS
      <4>2. PICK q \in Numbers(f) : Seq0(f, q) = d
        BY <1>1, <1>2, <4>1, Seq0Facts
      <4>3. q \in Numbers(g) /\ Seq0(g, q) = Seq0(g, p) /\ p \in Numbers(g)
        BY <1>3, <1>4, <3>1, <4>2
      <4>4. q = p
        BY <1>2, <4>3, Seq0Facts
      <4> QED  BY <2>2, <3>2, <4>2, <4>4 DEF Numbers
    <3>4. PICK n : n = CHOOSE m \in N : Seq0(g, GNID(s, m)) = d
      OBVIOUS
    <3>5. n \in N /\ Seq0(g, GNID(s, n)) = d
      <4>1. PICK m \in N : GNID(s, m) = p
        BY <3>2 DEF PathsOf
      <4>2. Seq0(g, GNID(s, m)) = d
        BY <1>4, <3>1, <4>1
      <4>3. \E m2 \in N : Seq0(g, GNID(s, m2)) = d
        BY <4>2
      <4> QED  BY <3>4, <4>3
    <3>6. GNID(s, n) = p
      <4>1. GNID(s, n) \in Numbers(g) /\ p \in Numbers(g) /\ Seq0(g, p) = d
        BY <1>2, <1>4, <3>1, <3>5 DEF Covers
      <4> QED  BY <1>2, <3>5, <4>1, Seq0Facts
    <3>7. n # 1 /\ n \in Nodes(s) /\ Parent(s, n) \in N
      <4>1. n # 1
        BY <3>2, <3>6, GNIDFacts
      <4> QED  BY <1>1, <3>5, <4>1 DEF Closed
    <3>8. Front(p) = GNID(s, Parent(s, n))
      BY <3>6, <3>7, GNIDFacts
    <3>9. Front(p) \in Numbers(g)
      BY <1>2, <3>7, <3>8 DEF Covers
    <3>10. d \in DOMAIN np
      BY <1>5, <3>5 DEF Targets
    <3>11. np[d] = Seq0(g, Front(GNID(s, n)))
      BY <1>5, <3>3, <3>4, <3>10
    <3> QED  BY <3>1, <3>6, <3>9, <3>11
  <2> QED  BY <2>1, <2>2
<1> QED  BY <1>1, <1>6 DEF ParentsRight

(***************************************************************************)
(* Totals.                                                                 *)
(***************************************************************************)

\* There are finitely many sources.
LEMMA SourcesFinite == IsFiniteSet(Sources)
BY SingleTreeConstants, FS_Product DEF Sources

\* The sums are over a set M of sources.
PendingSum(M, sl, path) == SumFunction([s \in M |-> PendingOf(s, sl[s], path)])
CountSum(M, tr, path) == SumFunction([s \in M |-> Count(s, tr[s], path)])
Totals(M, f, t, sl, tr, path) ==
  IntegratedIn(f, t, path) + PendingSum(M, sl, path) = CountSum(M, tr, path)

AllSlices(sl) == \A s \in Sources : Slices(s, sl[s])
AllTrees(tr) == \A s \in Sources : Tally(tr[s], Nodes(s))

\* What is received of the sources, filed in their slices and in their trees.
LEMMA FiledTotals ==
  ASSUME shape \in [Sources -> Shapes], NEW path, NEW M, M \subseteq Sources,
         NEW x \in Int, NEW sl, AllSlices(sl), NEW tr, AllTrees(tr),
         x + PendingSum(M, sl, path) = CountSum(M, tr, path),
         NEW sm, NEW tn, NEW delta, \A s \in M : delta[s] \in Int,
         \A s \in M : PendingOf(s, sm[s], path) = PendingOf(s, sl[s], path) + delta[s],
         \A s \in M : Count(s, tn[s], path) = Count(s, tr[s], path) + delta[s]
  PROVE  x + PendingSum(M, sm, path) = CountSum(M, tn, path)
<1>M. IsFiniteSet(M)
  BY SourcesFinite, FS_Subset
<1>1. PICK p, q, c, d : /\ p = [s \in M |-> PendingOf(s, sl[s], path)]
                        /\ q = [s \in M |-> PendingOf(s, sm[s], path)]
                        /\ c = [s \in M |-> Count(s, tr[s], path)]
                        /\ d = [s \in M |-> Count(s, tn[s], path)]
  OBVIOUS
<1>2. \A s \in M : p[s] \in Int /\ c[s] \in Int
  <2>1. ASSUME NEW s \in M PROVE p[s] \in Int /\ c[s] \in Int
    <3>1. s \in Sources /\ p[s] = PendingOf(s, sl[s], path) /\ c[s] = Count(s, tr[s], path)
      BY <1>1
    <3> QED  BY <3>1, PendingFacts, CountFacts DEF AllSlices, AllTrees
  <2> QED  BY <2>1
<1>3. /\ \A s \in M : q[s] = p[s] + IF s \in M THEN delta[s] ELSE 0
      /\ \A s \in M : d[s] = c[s] + IF s \in M THEN delta[s] ELSE 0
  BY <1>1
<1>4. PICK e : e = SumFunctionOnSet(delta, M)
  OBVIOUS
<1>5. SumFunctionOnSet(q, M) = SumFunctionOnSet(p, M) + e
  BY <1>M, <1>2, <1>3, <1>4, SumSplit
<1>6. SumFunctionOnSet(d, M) = SumFunctionOnSet(c, M) + e
  BY <1>M, <1>2, <1>3, <1>4, SumSplit
<1>7. e \in Int /\ SumFunctionOnSet(p, M) \in Int /\ SumFunctionOnSet(c, M) \in Int
  BY <1>M, <1>2, <1>4, SumFacts
<1>8. DOMAIN p = M /\ DOMAIN q = M /\ DOMAIN c = M /\ DOMAIN d = M
  BY <1>1
<1>9. /\ PendingSum(M, sl, path) = SumFunctionOnSet(p, M)
      /\ PendingSum(M, sm, path) = SumFunctionOnSet(q, M)
      /\ CountSum(M, tr, path) = SumFunctionOnSet(c, M)
      /\ CountSum(M, tn, path) = SumFunctionOnSet(d, M)
  BY <1>1, <1>8 DEF PendingSum, CountSum, SumFunction
<1> QED  BY <1>5, <1>6, <1>7, <1>9

\* The slices of a source are taken away.
LEMMA TakenTotals ==
  ASSUME shape \in [Sources -> Shapes], NEW path, NEW M, M \subseteq Sources,
         NEW sl, AllSlices(sl), NEW s \in Sources,
         NEW sm, AllSlices(sm), \A r \in Sources \ {s} : sm[r] = sl[r], sm[s] = << >>
  PROVE  /\ PendingSum(M, sl, path) \in Int
         /\ PendingSum(M, sm, path)
              = PendingSum(M, sl, path) - IF s \in M THEN PendingOf(s, sl[s], path) ELSE 0
<1>1. PICK p, q : /\ p = [r \in M |-> PendingOf(r, sl[r], path)]
                  /\ q = [r \in M |-> PendingOf(r, sm[r], path)]
  OBVIOUS
<1>2. Summable(p, M) /\ Summable(q, M)
  <2>1. ASSUME NEW r \in M PROVE p[r] \in Int /\ q[r] \in Int
    <3>1. r \in Sources /\ p[r] = PendingOf(r, sl[r], path) /\ q[r] = PendingOf(r, sm[r], path)
      BY <1>1
    <3> QED  BY <3>1, PendingFacts DEF AllSlices
  <2> QED  BY <2>1, SourcesFinite, FS_Subset DEF Summable
<1>3. \A r \in M \ {s} : p[r] = q[r]
  BY <1>1
<1>6. SumFunctionOnSet(p, M) \in Int
  BY <1>2, SumFacts DEF Summable
<1>7. DOMAIN p = M /\ DOMAIN q = M
  BY <1>1
<1>8. /\ PendingSum(M, sl, path) = SumFunctionOnSet(p, M)
      /\ PendingSum(M, sm, path) = SumFunctionOnSet(q, M)
  BY <1>1, <1>7 DEF PendingSum, SumFunction
<1>9. CASE s \in M
  <2>1. p[s] = PendingOf(s, sl[s], path) /\ q[s] = 0
    <3>1. \A k \in DOMAIN sm[s] : DOMAIN sm[s][k] = {}
      <4>1. PICK v : v = sm[s]
        OBVIOUS
      <4>2. DOMAIN v = {}
        BY <4>1
      <4> QED  BY <4>1, <4>2
    <3>2. PendingOf(s, sm[s], path) = 0
      BY <3>1, PendingFacts DEF AllSlices
    <3> QED  BY <1>1, <1>9, <3>2
  <2>2. SumFunctionOnSet(q, M) = SumFunctionOnSet(p, M) + (q[s] - p[s])
    BY <1>2, <1>3, <1>9, SumChange
  <2>3. p[s] \in Int
    BY <1>2, <1>9 DEF Summable
  <2>4. SumFunctionOnSet(q, M) = SumFunctionOnSet(p, M) - p[s]
    BY <1>6, <2>1, <2>2, <2>3
  <2> QED  BY <1>6, <1>8, <1>9, <2>1, <2>4
<1>10. CASE s \notin M
  <2>1. q = p
    BY <1>1, <1>10
  <2> QED  BY <1>6, <1>8, <1>10, <2>1
<1> QED  BY <1>9, <1>10

(***************************************************************************)
(* The slices of the global store.                                         *)
(***************************************************************************)

SliceSum(gs, d) == SumFunction([k \in DOMAIN gs |-> IF d \in DOMAIN gs[k] THEN gs[k][d] ELSE 0])
AddUp(t, gs) == \A d \in DOMAIN t : t[d] = SliceSum(gs, d)

\* What the slices count of a node.
Terms(gs, d, f) ==
  /\ DOMAIN f = DOMAIN gs /\ Summable(f, DOMAIN gs)
  /\ \A k \in DOMAIN gs : f[k] = IF d \in DOMAIN gs[k] THEN gs[k][d] ELSE 0
  /\ SliceSum(gs, d) = SumFunctionOnSet(f, DOMAIN gs)

\* A sum over slices is a sum of whole numbers.
LEMMA SliceSumIs ==
  ASSUME NEW S, NEW gs, GlobalSlices(S, gs), NEW d
  PROVE  (\E f : Terms(gs, d, f)) /\ (d \notin S => SliceSum(gs, d) = 0)
<1>1. PICK K : K = DOMAIN gs
  OBVIOUS
<1>2. PICK f : f = [k \in K |-> IF d \in DOMAIN gs[k] THEN gs[k][d] ELSE 0]
  OBVIOUS
<1>3. DOMAIN f = K /\ \A k \in K : f[k] = IF d \in DOMAIN gs[k] THEN gs[k][d] ELSE 0
  BY <1>2
<1>4. \A k \in K : f[k] \in Int /\ (d \notin S => f[k] = 0)
  <2>1. ASSUME NEW k \in K PROVE f[k] \in Int /\ (d \notin S => f[k] = 0)
    <3>1. Tally(gs[k], S)
      BY <1>1 DEF GlobalSlices
    <3>2. DOMAIN gs[k] \subseteq S /\ \A x \in DOMAIN gs[k] : gs[k][x] \in Int
      BY <3>1 DEF Tally
    <3> QED  BY <1>3, <3>2
  <2> QED  BY <2>1
<1>5. IsFiniteSet(K)
  BY <1>1, VectorFinite DEF GlobalSlices
<1>6. SliceSum(gs, d) = SumFunctionOnSet(f, K)
  BY <1>1, <1>2, <1>3 DEF SliceSum, SumFunction
<1>7. ASSUME d \notin S PROVE SliceSum(gs, d) = 0
  BY <1>4, <1>5, <1>6, <1>7, SumZero
<1>8. Summable(f, K)
  BY <1>4, <1>5 DEF Summable
<1> QED  BY <1>1, <1>3, <1>6, <1>7, <1>8 DEF Terms

\* Empty slices change nothing.
LEMMA SliceSumGrown ==
  ASSUME NEW S, NEW gs, GlobalSlices(S, gs), NEW w, Vector(w), Grown(w, gs)
  PROVE  GlobalSlices(S, w) /\ \A d : SliceSum(w, d) = SliceSum(gs, d)
<1>1. DOMAIN gs \subseteq DOMAIN w
      /\ \A k \in DOMAIN w : w[k] = IF k \in DOMAIN gs THEN gs[k] ELSE NoNodes
  BY DEF Grown
<1>2. Tally(NoNodes, S) /\ DOMAIN NoNodes = {}
  <2>1. PICK none : none = NoNodes
    OBVIOUS
  <2>2. DOMAIN none = {} /\ none = [n \in {} |-> 0]
    BY <2>1 DEF NoNodes
  <2> QED  BY <2>1, <2>2 DEF Tally
<1>3. GlobalSlices(S, w)
  <2>1. ASSUME NEW k \in DOMAIN w PROVE Tally(w[k], S)
    BY <1>1, <1>2 DEF GlobalSlices
  <2> QED  BY <2>1 DEF GlobalSlices
<1>4. ASSUME NEW d PROVE SliceSum(w, d) = SliceSum(gs, d)
  <2>f. PICK f : Terms(gs, d, f)
    BY SliceSumIs
  <2>1. /\ DOMAIN f = DOMAIN gs /\ Summable(f, DOMAIN gs)
        /\ \A k \in DOMAIN gs : f[k] = IF d \in DOMAIN gs[k] THEN gs[k][d] ELSE 0
        /\ SliceSum(gs, d) = SumFunctionOnSet(f, DOMAIN gs)
    BY <2>f DEF Terms
  <2>h. PICK h : Terms(w, d, h)
    BY <1>3, SliceSumIs
  <2>2. /\ DOMAIN h = DOMAIN w /\ Summable(h, DOMAIN w)
        /\ \A k \in DOMAIN w : h[k] = IF d \in DOMAIN w[k] THEN w[k][d] ELSE 0
        /\ SliceSum(w, d) = SumFunctionOnSet(h, DOMAIN w)
    BY <2>h DEF Terms
  <2>3. \A k \in DOMAIN gs : f[k] \in Int /\ h[k] = f[k]
    <3>1. ASSUME NEW k \in DOMAIN gs PROVE f[k] \in Int /\ h[k] = f[k]
      <4>1. w[k] = gs[k] /\ k \in DOMAIN w
        BY <1>1
      <4>2. h[k] = IF d \in DOMAIN w[k] THEN w[k][d] ELSE 0
        BY <2>2, <4>1
      <4>3. h[k] = IF d \in DOMAIN gs[k] THEN gs[k][d] ELSE 0
        BY <4>1, <4>2
      <4> QED  BY <2>1, <4>3 DEF Summable
    <3> QED  BY <3>1
  <2>4. \A k \in DOMAIN w \ DOMAIN gs : h[k] = 0
    <3>1. ASSUME NEW k \in DOMAIN w, k \notin DOMAIN gs PROVE h[k] = 0
      <4>1. w[k] = NoNodes
        BY <1>1, <3>1
      <4>2. d \notin DOMAIN w[k]
        BY <1>2, <4>1
      <4> QED  BY <2>2, <4>2
    <3> QED  BY <3>1
  <2>5. IsFiniteSet(DOMAIN w)
    BY <2>2 DEF Summable
  <2>6. SumFunctionOnSet(h, DOMAIN w) = SumFunctionOnSet(f, DOMAIN gs)
    BY <1>1, <2>3, <2>4, <2>5, SumSame
  <2> QED  BY <2>1, <2>2, <2>6
<1> QED  BY <1>3, <1>4

\* An integration adds a to the slice being written and to the tree t.
Adds(S, R, t, a, gs, now, gt, u) ==
  /\ S \subseteq R /\ t \in [S -> Int] /\ Tally(a, R) /\ DOMAIN a \subseteq R
  /\ GlobalSlices(S, gs) /\ gt = [gs EXCEPT ![now] = Plus(@, a)]
  /\ u = Plus(t, a) /\ R = DOMAIN t \cup DOMAIN a

\* Then the slices still add up to the tree.
LEMMA AddedUp ==
  ASSUME NEW S, NEW R, NEW t, NEW a, NEW gs, NEW now, NEW gt, NEW u, Adds(S, R, t, a, gs, now, gt, u)
  PROVE  /\ GlobalSlices(R, gt)
         /\ now \in DOMAIN gs /\ AddUp(t, gs) => AddUp(u, gt)
<1> USE DEF Adds
<1>1. DOMAIN gt = DOMAIN gs /\ (\A k \in DOMAIN gs \ {now} : gt[k] = gs[k])
      /\ (now \in DOMAIN gs => gt[now] = Plus(gs[now], a))
  OBVIOUS
<1>2. ASSUME NEW k \in DOMAIN gs PROVE Tally(gs[k], R)
  <2>1. Tally(gs[k], S)
    BY DEF GlobalSlices
  <2> QED  BY <2>1 DEF Tally
<1>3. ASSUME NEW k \in DOMAIN gs PROVE Tally(gt[k], R)
  <2>1. CASE k = now
    <3>1. Tally(Plus(gs[k], a), R)
      BY <1>2, PlusFacts
    <3> QED  BY <1>1, <2>1, <3>1
  <2>2. CASE k # now
    BY <1>1, <1>2, <2>2
  <2> QED  BY <2>1, <2>2
<1>4. GlobalSlices(R, gt)
  <2>1. Vector(gt)
    <3>1. CASE gs = << >>
      <4>1. gt = gs
        BY <1>1, <3>1
      <4> QED  BY <3>1, <4>1 DEF Vector
    <3>2. CASE gs # << >>
      BY <1>1, <3>2 DEF GlobalSlices, Vector
    <3> QED  BY <3>1, <3>2
  <2> QED  BY <1>1, <1>3, <2>1 DEF GlobalSlices
<1>5. Tally(t, R) /\ DOMAIN t = S
  BY DEF Tally
<1>6. /\ DOMAIN u = R
      /\ \A d \in R : u[d] = (IF d \in DOMAIN t THEN t[d] ELSE 0) + (IF d \in DOMAIN a THEN a[d] ELSE 0)
  BY <1>5, PlusFacts
<1>7. ASSUME now \in DOMAIN gs, AddUp(t, gs), NEW d \in R PROVE u[d] = SliceSum(gt, d)
  <2>f. PICK f : Terms(gs, d, f)
    BY SliceSumIs
  <2>1. /\ DOMAIN f = DOMAIN gs /\ Summable(f, DOMAIN gs)
        /\ \A k \in DOMAIN gs : f[k] = IF d \in DOMAIN gs[k] THEN gs[k][d] ELSE 0
        /\ SliceSum(gs, d) = SumFunctionOnSet(f, DOMAIN gs)
        /\ d \notin S => SliceSum(gs, d) = 0
    BY <2>f, SliceSumIs DEF Terms
  <2>h. PICK h : Terms(gt, d, h)
    BY <1>4, SliceSumIs
  <2>2. /\ DOMAIN h = DOMAIN gt /\ Summable(h, DOMAIN gt)
        /\ \A k \in DOMAIN gt : h[k] = IF d \in DOMAIN gt[k] THEN gt[k][d] ELSE 0
        /\ SliceSum(gt, d) = SumFunctionOnSet(h, DOMAIN gt)
    BY <2>h DEF Terms
  <2>3. PICK more : more = IF d \in DOMAIN a THEN a[d] ELSE 0
    OBVIOUS
  <2>4. more \in Int
    BY <2>3 DEF Tally
  <2>5. ASSUME NEW k \in DOMAIN gs \ {now} PROVE f[k] = h[k]
    <3>1. gt[k] = gs[k] /\ k \in DOMAIN gt
      BY <1>1
    <3>2. h[k] = IF d \in DOMAIN gt[k] THEN gt[k][d] ELSE 0
      BY <2>2, <3>1
    <3>3. h[k] = IF d \in DOMAIN gs[k] THEN gs[k][d] ELSE 0
      BY <3>1, <3>2
    <3> QED  BY <2>1, <3>3
  <2>6. h[now] = f[now] + more
    <3>1. PICK p, q : p = gs[now] /\ q = gt[now]
      OBVIOUS
    <3>2. q = Plus(p, a) /\ Tally(p, R)
      BY <1>1, <1>2, <1>7, <3>1
    <3>3. DOMAIN q = DOMAIN p \cup DOMAIN a
          /\ \A n \in DOMAIN p \cup DOMAIN a :
               q[n] = (IF n \in DOMAIN p THEN p[n] ELSE 0) + (IF n \in DOMAIN a THEN a[n] ELSE 0)
      <4>1. Tally(a, R)
        OBVIOUS
      <4>2. DOMAIN Plus(p, a) = DOMAIN p \cup DOMAIN a
            /\ \A n \in DOMAIN p \cup DOMAIN a :
                 Plus(p, a)[n] = (IF n \in DOMAIN p THEN p[n] ELSE 0) + (IF n \in DOMAIN a THEN a[n] ELSE 0)
        BY <3>2, <4>1, PlusFacts
      <4> QED  BY <3>2, <4>2
    <3>4. f[now] = IF d \in DOMAIN p THEN p[d] ELSE 0
      BY <1>7, <2>1, <3>1
    <3>5. h[now] = IF d \in DOMAIN q THEN q[d] ELSE 0
      BY <1>1, <1>7, <2>2, <3>1
    <3>6. f[now] \in Int
      BY <1>7, <2>1 DEF Summable
    <3> QED  BY <2>3, <2>4, <3>3, <3>4, <3>5, <3>6
  <2>7. SumFunctionOnSet(h, DOMAIN gs) = SumFunctionOnSet(f, DOMAIN gs) + (h[now] - f[now])
    <3>1. Summable(h, DOMAIN gs)
      BY <1>1, <2>2
    <3> QED  BY <1>7, <2>1, <2>5, <3>1, SumChange
  <2>8. SliceSum(gt, d) = SliceSum(gs, d) + more
    <3>1. f[now] \in Int /\ SumFunctionOnSet(f, DOMAIN gs) \in Int
      BY <1>7, <2>1, SumFacts DEF Summable
    <3>2. h[now] - f[now] = more
      BY <2>4, <2>6, <3>1
    <3>3. SumFunctionOnSet(h, DOMAIN gs) = SumFunctionOnSet(f, DOMAIN gs) + more
      BY <2>7, <3>2
    <3>4. SliceSum(gt, d) = SumFunctionOnSet(h, DOMAIN gs)
      BY <1>1, <2>2
    <3> QED  BY <2>1, <3>3, <3>4
  <2>9. SliceSum(gs, d) = IF d \in DOMAIN t THEN t[d] ELSE 0
    BY <1>5, <1>7, <2>1 DEF AddUp
  <2>10. u[d] = (IF d \in DOMAIN t THEN t[d] ELSE 0) + more
    BY <1>6, <2>3
  <2> QED  BY <2>8, <2>9, <2>10
<1> QED  BY <1>4, <1>6, <1>7 DEF AddUp

(***************************************************************************)
(* Parts that steps leave as they are.                                     *)
(***************************************************************************)

\* The call trees never change.
LEMMA ShapeStays ==
  ASSUME shape' = shape, NEW s
  PROVE  /\ Nodes(s)' = Nodes(s) /\ \A n : Parent(s, n)' = Parent(s, n) /\ GNID(s, n)' = GNID(s, n)
         /\ \A c, path : Count(s, c, path)' = Count(s, c, path)
<1>1. Nodes(s)' = Nodes(s)
  BY DEF Nodes
<1>2. \A n : Parent(s, n)' = Parent(s, n)
  BY DEF Parent
<1>3. \A n : GNID(s, n)' = GNID(s, n)
  BY DEF GNID, Parent
<1>4. ASSUME NEW c, NEW path PROVE Count(s, c, path)' = Count(s, c, path)
  BY <1>3 DEF Count
<1> QED  BY <1>1, <1>2, <1>3, <1>4

\* Nor does what is said of a source by them.
LEMMA SourceStays ==
  ASSUME shape' = shape, NEW s, NEW tr, NEW v, NEW me, SourceOK(s, tr, v, me)
  PROVE  SourceOK(s, tr, v, me)'
<1>1. Nodes(s)' = Nodes(s) /\ \A n : Parent(s, n)' = Parent(s, n)
  BY ShapeStays
<1>2. Tally(tr, Nodes(s))' /\ Slices(s, v)'
  BY <1>1 DEF SourceOK, Slices, Tally, Vector
<1>3. ASSUME NEW N, Closed(s, N) PROVE Closed(s, N)'
  BY <1>1, <1>3 DEF Closed
<1> QED  BY <1>2, <1>3 DEF SourceOK

\* All is well with every source in the next state.
LEMMA SourcesNext ==
  ASSUME shape' = shape, DOMAIN tree' = Sources, DOMAIN slices' = Sources,
         \A s \in Sources : SourceOK(s, tree'[s], slices'[s], meta')
  PROVE  SourcesInv'
<1>1. ASSUME NEW s \in Sources PROVE SourceOK(s, tree[s], slices[s], meta)'
  <2>1. PICK tr, v, me : tr = tree'[s] /\ v = slices'[s] /\ me = meta'
    OBVIOUS
  <2>2. SourceOK(s, tr, v, me)'
    BY <2>1, SourceStays
  <2> QED  BY <2>1, <2>2
<1> QED  BY <1>1 DEF SourcesInv, Sources

Paths == UNION {{GNID(s, n) : n \in Nodes(s)} : s \in Sources}

\* The same, with names for the sums.
LEMMA TotalsAre ==
  GlobalTotals <=>
    (pc # "crashed" => \A path \in Paths : Totals(Measured, ids, gtree, slices, tree, path))
BY DEF GlobalTotals, Paths, Totals, Integrated, IntegratedIn, Pending, PendingOf, PendingSum, CountSum

\* The totals are right in the next state.
LEMMA TotalsNext ==
  ASSUME shape' = shape, records' = records,
         pc' # "crashed" =>
           \A path \in Paths : Totals(Measured, ids', gtree', slices', tree', path)
  PROVE  GlobalTotals'
<1>1. Paths' = Paths
  <2>1. \A s : Nodes(s)' = Nodes(s) /\ \A n : GNID(s, n)' = GNID(s, n)
    BY ShapeStays
  <2> QED  BY <2>1 DEF Paths, Sources
<1>2. \A s, c, path : Count(s, c, path)' = Count(s, c, path)
  BY ShapeStays
<1>3. PICK f, t, sl, tr, M :
        f = ids' /\ t = gtree' /\ sl = slices' /\ tr = tree' /\ M = Measured
  OBVIOUS
<1>M. Measured' = M
  BY <1>3 DEF Measured, Sources
<1>4. ASSUME NEW path, Totals(M, f, t, sl, tr, path) PROVE Totals(M, f, t, sl, tr, path)'
  <2>1. \A s, v : PendingOf(s, v, path)' = PendingOf(s, v, path)
    BY <1>2 DEF PendingOf
  <2>2. PendingSum(M, sl, path)' = PendingSum(M, sl, path)
    BY <2>1 DEF PendingSum
  <2>3. CountSum(M, tr, path)' = CountSum(M, tr, path)
    BY <1>2 DEF CountSum
  <2>4. IntegratedIn(f, t, path)' = IntegratedIn(f, t, path)
    BY DEF IntegratedIn
  <2> QED  BY <1>4, <2>2, <2>3, <2>4 DEF Totals
<1>5. (pc # "crashed" => \A path \in Paths : Totals(Measured, ids, gtree, slices, tree, path))'
  BY <1>1, <1>3, <1>4, <1>M
<1>6. (GlobalTotals <=>
         (pc # "crashed" => \A path \in Paths : Totals(Measured, ids, gtree, slices, tree, path)))'
  BY TotalsAre, PTL
<1> QED  BY <1>5, <1>6

\* Steps that leave the trees and the slices of the sources as they are.
LEMMA SourcesFrame ==
  ASSUME SourcesInv, FreshInv, GlobalTotals, UNCHANGED <<shape, records, tree, slices, ids, gtree>>,
         meta \subseteq meta', pc' # "crashed" => pc # "crashed",
         pc' \notin {"stopped", "crashed"} =>
           /\ pc \notin {"stopped", "crashed"}
           /\ \A s \in Measured : Fetched(s) /\ tree[s] # NoNodes =>
                Fetched(s)' /\ time'[s[1]] = time[s[1]]
  PROVE  SourcesInv' /\ FreshInv' /\ GlobalTotals'
<1>1. SourcesInv'
  <2>1. ASSUME NEW s \in Sources PROVE SourceOK(s, tree'[s], slices'[s], meta')
    BY DEF SourcesInv, SourceOK
  <2> QED  BY <2>1, SourcesNext DEF SourcesInv
<1>2. FreshInv'
  <2>1. Measured' = Measured
    BY DEF Measured, Sources
  <2> QED  BY <2>1 DEF FreshInv
<1>3. GlobalTotals'
  <2>1. pc # "crashed" => \A path \in Paths : Totals(Measured, ids, gtree, slices, tree, path)
    BY TotalsAre
  <2> QED  BY <2>1, TotalsNext
<1> QED  BY <1>1, <1>2, <1>3

\* The same, with names for the sums.
LEMMA AddUpIs == GlobalSlicesAddUp <=> (~future => AddUp(gtree, gslices))
BY DEF GlobalSlicesAddUp, AddUp, SliceSum

\* Steps that leave the global store as it is.
LEMMA GlobalFrame ==
  ASSUME NodesInv, GlobalInv, GlobalSlicesAddUp,
         UNCHANGED <<ids, gparent, gtree, gslices, lent, dest, gtime>>, future => future'
  PROVE  NodesInv' /\ GlobalInv' /\ GlobalSlicesAddUp'
<1>1. NodesInv'
  BY DEF NodesInv, IsNumbering, NodeEach, ParentsRight, Numbers, Seq0
<1>2. GlobalInv'
  BY DEF GlobalInv, GlobalSlices, Vector, Tally
<1>3. GlobalSlicesAddUp'
  BY DEF GlobalSlicesAddUp
<1> QED  BY <1>1, <1>2, <1>3

(***************************************************************************)
(* The steps of the second invariant.                                      *)
(***************************************************************************)

\* Nothing is counted in an empty slice.
LEMMA NoNodesFacts == DOMAIN NoNodes = {} /\ \A S : Tally(NoNodes, S)
<1>1. PICK none : none = NoNodes
  OBVIOUS
<1>2. DOMAIN none = {} /\ none = [n \in {} |-> 0]
  BY <1>1 DEF NoNodes
<1> QED  BY <1>1, <1>2 DEF Tally

\* The invariant holds at first.
LEMMA TInit == Init => TInv
<1> SUFFICES ASSUME Init PROVE TInv
  OBVIOUS
<1>1. RoundInv
  <2>1. MaxTime \in Nat /\ MaxQueries \in Nat
    BY SingleTreeConstants
  <2>2. /\ state \in [Stores -> States] /\ meta \subseteq Stores /\ shape \in [Sources -> Shapes]
        /\ pc = "sleep" /\ dest \in BOOLEAN /\ future \in BOOLEAN
        /\ records \in [Stores -> 0 .. MaxRecords]
    BY DEF Init, States
  <2>3. time \in [Stores -> 0 .. MaxTime] /\ gtime \in 0 .. MaxTime /\ queries \in 0 .. MaxQueries
    BY <2>1 DEF Init
  <2>4. lent \in 0 .. Blank
    BY SingleTreeConstants DEF Init, Blank
  <2> QED  BY <2>2, <2>3, <2>4 DEF RoundInv
<1>2. PICK none : none = << >>
  OBVIOUS
<1>3. DOMAIN none = {} /\ IsFiniteSet(DOMAIN none) /\ Cardinality(DOMAIN none) = 0
  <2>1. DOMAIN none = {}
    BY <1>2
  <2> QED  BY <2>1, FS_EmptySet
<1>4. ids = none /\ gslices = none /\ gtree = <<0>> /\ gparent = <<0>>
      /\ tree = [s \in Sources |-> none] /\ slices = [s \in Sources |-> none]
      /\ shape \in [Sources -> Shapes]
  BY <1>2 DEF Init, NoNodes
<1>5. SourcesInv
  <2>1. ASSUME NEW s \in Sources PROVE SourceOK(s, none, none, meta)
    BY <1>2, <1>3, NoNodesFacts DEF SourceOK, Slices, Vector, NoNodes
  <2> QED  BY <1>4, <2>1 DEF SourcesInv
<1>6. FreshInv
  BY <1>3, <1>4 DEF FreshInv, Measured
<1>7. NodesInv
  <2>1. IsNumbering(none)
    <3>1. none \in [DOMAIN none -> 2 .. Cardinality(DOMAIN none) + 1]
      <4>1. none = [p \in DOMAIN none |-> none[p]]
        BY <1>2
      <4> QED  BY <1>3, <4>1
    <3>2. 2 .. Cardinality(DOMAIN none) + 1 = {}
      BY <1>3
    <3> QED  BY <1>3, <3>1, <3>2 DEF IsNumbering
  <2>2. DOMAIN gtree = 1 .. 1 /\ gtree \in [1 .. 1 -> Int] /\ DOMAIN gparent = DOMAIN gtree
    BY <1>4
  <2>3. NodeEach(none, gtree)
    BY <1>3, <2>2 DEF NodeEach
  <2> QED  BY <1>3, <1>4, <2>1, <2>2, <2>3 DEF NodesInv, ParentsRight
<1>8. GlobalInv
  BY <1>2, <1>3, <1>4 DEF Init, GlobalInv, GlobalSlices, Vector
<1>9. GlobalSlicesAddUp
  <2>1. ASSUME NEW d \in DOMAIN gtree PROVE gtree[d] = SliceSum(none, d)
    <3>1. GlobalSlices({}, none)
      BY <1>2, <1>3 DEF GlobalSlices, Vector
    <3>2. SliceSum(none, d) = 0
      BY <3>1, SliceSumIs
    <3>3. gtree[d] = 0
      BY <1>4
    <3> QED  BY <3>2, <3>3
  <2> QED  BY <1>4, <2>1, AddUpIs DEF AddUp
<1>10. GlobalTotals
  <2>M. PICK M : M = Measured
    OBVIOUS
  <2>F. M \subseteq Sources /\ IsFiniteSet(M)
    BY <2>M, SourcesFinite, FS_Subset DEF Measured
  <2>1. ASSUME NEW path PROVE Totals(M, ids, gtree, slices, tree, path)
    <3>1. PICK p, c : /\ p = [s \in M |-> PendingOf(s, slices[s], path)]
                      /\ c = [s \in M |-> Count(s, tree[s], path)]
      OBVIOUS
    <3>2. \A s \in M : p[s] = 0 /\ c[s] = 0
      <4>1. ASSUME NEW s \in Sources PROVE PendingOf(s, none, path) = 0 /\ Count(s, none, path) = 0
        <5>1. Slices(s, none) /\ Tally(none, Nodes(s))
          BY <1>2, <1>3, NoNodesFacts DEF Slices, Vector, NoNodes
        <5>2. \A k \in DOMAIN none : DOMAIN none[k] = {}
          BY <1>3
        <5> QED  BY <1>3, <1>4, <5>1, <5>2, PendingFacts, CountFacts
      <4> QED  BY <1>4, <2>F, <3>1, <4>1
    <3>3. SumFunctionOnSet(p, M) = 0 /\ SumFunctionOnSet(c, M) = 0
      BY <2>F, <3>2, SumZero
    <3>4. PendingSum(M, slices, path) = 0 /\ CountSum(M, tree, path) = 0
      <4>1. DOMAIN p = M /\ DOMAIN c = M
        BY <3>1
      <4> QED  BY <3>1, <3>3, <4>1 DEF PendingSum, CountSum, SumFunction
    <3>5. IntegratedIn(ids, gtree, path) = 0
      <4>1. gtree[1] = 0 /\ DOMAIN ids = {}
        BY <1>3, <1>4
      <4> QED  BY <4>1 DEF IntegratedIn
    <3> QED  BY <3>4, <3>5 DEF Totals
  <2> QED  BY <2>M, <2>1, TotalsAre
<1> QED  BY <1>1, <1>5, <1>6, <1>7, <1>8, <1>9, <1>10 DEF TInv

\* A store is created.
LEMMA TCreate == ASSUME TInv, NEW i \in Stores, Create(i) PROVE TInv'
<1>1. /\ UNCHANGED <<shape, records, meta, time, tree, slices>>
      /\ UNCHANGED <<pc, todo, queries, future>>
      /\ UNCHANGED <<gtime, ids, gparent, gtree, gslices, lent, dest>>
      /\ state' = [state EXCEPT ![i] = "new"]
  BY DEF Create, globalVars
<1>2. RoundInv'
  BY <1>1 DEF TInv, RoundInv, States
<1>3. SourcesInv' /\ FreshInv' /\ GlobalTotals'
  <2>1. \A s \in Measured : Fetched(s) /\ tree[s] # NoNodes =>
          Fetched(s)' /\ time'[s[1]] = time[s[1]]
    BY <1>1 DEF Fetched
  <2>2. /\ meta \subseteq meta' /\ (pc' # "crashed" => pc # "crashed")
        /\ pc' \notin {"stopped", "crashed"} => pc \notin {"stopped", "crashed"}
    BY <1>1
  <2> QED  BY <1>1, <2>1, <2>2, SourcesFrame DEF TInv
<1>4. NodesInv' /\ GlobalInv' /\ GlobalSlicesAddUp'
  BY <1>1, GlobalFrame DEF TInv
<1> QED  BY <1>2, <1>3, <1>4 DEF TInv

\* A round begins.
LEMMA TWake == ASSUME TInv, Wake PROVE TInv'
<1>1. /\ UNCHANGED <<shape, records, meta, time, tree, slices>>
      /\ UNCHANGED <<state, queries, future>>
      /\ UNCHANGED <<gtime, ids, gparent, gtree, gslices, lent, dest>>
      /\ pc = "sleep" /\ pc' = "fetch" /\ todo' = Stores
      /\ gtime < MaxTime /\ \A i \in Stores : time[i] < MaxTime
  BY DEF Wake, sourceVars, globalVars
<1>2. RoundInv'
  BY <1>1, SingleTreeConstants DEF TInv, RoundInv
<1>3. SourcesInv' /\ FreshInv' /\ GlobalTotals'
  <2>1. \A s \in Measured : ~Fetched(s)
    BY <1>1 DEF Fetched
  <2>2. meta \subseteq meta' /\ pc \notin {"stopped", "crashed"}
    BY <1>1
  <2> QED  BY <1>1, <2>1, <2>2, SourcesFrame DEF TInv
<1>4. NodesInv' /\ GlobalInv' /\ GlobalSlicesAddUp'
  BY <1>1, GlobalFrame DEF TInv
<1> QED  BY <1>2, <1>3, <1>4 DEF TInv

\* A store that is not fetched in this round.
LEMMA TMiss ==
  ASSUME TInv, pc = "fetch", NEW i \in todo, FetchFails(i) \/ Skip(i),
         UNCHANGED globalVars, UNCHANGED queries, UNCHANGED future
  PROVE  TInv'
<1>1. /\ NextStore(i) /\ UNCHANGED <<shape, records, tree, slices>>
      /\ meta \subseteq meta' /\ meta' \subseteq Stores
      /\ state' \in [Stores -> States]
      /\ time' = time \/ time' = [time EXCEPT ![i] = time[i] + 1]
  <2>0. /\ state \in [Stores -> States] /\ time \in [Stores -> 0 .. MaxTime] /\ i \in Stores
        /\ meta \subseteq Stores
    BY DEF TInv, RoundInv
  <2>1. CASE FetchFails(i)
    BY <2>0, <2>1 DEF FetchFails, States
  <2>2. CASE Skip(i)
    BY <2>0, <2>2 DEF Skip, sourceVars
  <2> QED  BY <2>1, <2>2
<1>2. /\ UNCHANGED <<gtime, ids, gparent, gtree, gslices, lent, dest>> /\ todo' = todo \ {i}
      /\ pc' = IF todo = {i} THEN "choose" ELSE "fetch"
  BY <1>1 DEF globalVars, NextStore
<1>3. i \in Stores /\ time \in [Stores -> 0 .. MaxTime] /\ time[i] < MaxTime /\ MaxTime \in Nat
      /\ todo \subseteq Stores /\ \A j \in todo : time[j] < MaxTime
  BY SingleTreeConstants DEF TInv, RoundInv
<1>4. time' \in [Stores -> 0 .. MaxTime] /\ \A j \in Stores \ {i} : time'[j] = time[j]
  <2>1. time[i] + 1 \in 0 .. MaxTime
    BY <1>3
  <2> QED  BY <1>1, <1>3, <2>1
<1>5. RoundInv'
  <2>1. pc' = "fetch" => todo' # {} /\ todo' \subseteq Stores /\ \A j \in todo' : time'[j] < MaxTime
    BY <1>2, <1>3, <1>4
  <2>2. pc' \in {"fetch", "choose"} /\ gtime' < MaxTime
    BY <1>2 DEF TInv, RoundInv
  <2> QED  BY <1>1, <1>2, <1>4, <2>1, <2>2 DEF TInv, RoundInv
<1>6. SourcesInv' /\ FreshInv' /\ GlobalTotals'
  <2>1. ASSUME NEW s \in Sources, Fetched(s) PROVE Fetched(s)' /\ time'[s[1]] = time[s[1]]
    <3>1. s[1] \notin todo /\ s[1] \in Stores
      BY <2>1 DEF Fetched, Sources
    <3> QED  BY <1>2, <1>4, <3>1 DEF Fetched
  <2>2. pc' \notin {"stopped", "crashed"}
    BY <1>2
  <2>3. Measured \subseteq Sources
    BY DEF Measured
  <2> QED  BY <1>1, <1>2, <2>1, <2>2, <2>3, SourcesFrame DEF TInv
<1>7. NodesInv' /\ GlobalInv' /\ GlobalSlicesAddUp'
  BY <1>2, GlobalFrame DEF TInv
<1> QED  BY <1>5, <1>6, <1>7 DEF TInv

\* The receive thread comes to its end.
LEMMA TStop ==
  ASSUME TInv, pc = "fetch", NEW i, BadAnswer(i),
         UNCHANGED globalVars, UNCHANGED queries, UNCHANGED future
  PROVE  TInv'
<1>1. /\ UNCHANGED <<shape, records, state, meta, time, tree, slices>> /\ pc' = "stopped"
      /\ UNCHANGED <<gtime, ids, gparent, gtree, gslices, lent, dest>>
  BY DEF BadAnswer, sourceVars, globalVars
<1>2. RoundInv'
  BY <1>1 DEF TInv, RoundInv
<1>3. SourcesInv' /\ FreshInv' /\ GlobalTotals'
  BY <1>1, SourcesFrame DEF TInv
<1>4. NodesInv' /\ GlobalInv' /\ GlobalSlicesAddUp'
  BY <1>1, GlobalFrame DEF TInv
<1> QED  BY <1>2, <1>3, <1>4 DEF TInv

\* A diff request for a source.
LEMMA TQuerySource ==
  ASSUME TInv, NEW i \in Stores, NEW from \in Nat, NEW to \in Nat, QuerySource(i, from, to)
  PROVE  TInv'
<1>1. /\ UNCHANGED <<shape, records, state, meta, time, tree>> /\ UNCHANGED <<pc, todo>>
      /\ UNCHANGED <<gtime, ids, gparent, gtree, gslices, lent, dest>>
      /\ pc \notin {"stopped", "crashed"} /\ queries < MaxQueries /\ queries' = queries + 1
      /\ future' = (future \/ to > time[i])
      /\ slices' = [s \in Sources |-> IF s[1] = i /\ tree[s] # NoNodes
                      THEN Queried(slices[s], from, to) ELSE slices[s]]
  BY DEF QuerySource, Query, globalVars
<1>2. RoundInv'
  <2>1. queries' \in 0 .. MaxQueries
    <3>1. queries \in 0 .. MaxQueries /\ MaxQueries \in Nat
      BY SingleTreeConstants DEF TInv, RoundInv
    <3> QED  BY <1>1, <3>1
  <2>2. future' \in BOOLEAN /\ (future => future')
    BY <1>1 DEF TInv, RoundInv
  <2> QED  BY <1>1, <2>1, <2>2 DEF TInv, RoundInv
<1>3. NodesInv' /\ GlobalInv' /\ GlobalSlicesAddUp'
  BY <1>1, GlobalFrame DEF TInv
<1>S. shape \in [Sources -> Shapes] /\ \A s \in Sources : SourceOK(s, tree[s], slices[s], meta)
  BY DEF TInv, RoundInv, SourcesInv
<1>4. ASSUME NEW s \in Sources
      PROVE  Vector(slices'[s]) /\ Grown(slices'[s], slices[s])
  <2>1. Vector(slices[s]) /\ Grown(slices[s], slices[s])
    BY <1>S DEF SourceOK, Slices, Grown
  <2>2. PICK v, w : v = slices[s] /\ w = slices'[s]
    OBVIOUS
  <2>3. w = Queried(v, from, to) \/ w = v
    BY <1>1, <2>2
  <2>4. Vector(Queried(v, from, to)) /\ Grown(Queried(v, from, to), v)
    BY <2>1, <2>2, QueriedGrows
  <2> QED  BY <2>1, <2>2, <2>3, <2>4
<1>5. ASSUME NEW s \in Sources PROVE SourceOK(s, tree'[s], slices'[s], meta')
  <2>1. PICK v, w : v = slices[s] /\ w = slices'[s]
    OBVIOUS
  <2>2. Slices(s, v) /\ \A k \in DOMAIN v : Closed(s, DOMAIN v[k])
    BY <1>S, <2>1 DEF SourceOK
  <2>3. Vector(w) /\ Grown(w, v)
    BY <1>4, <2>1
  <2>4. Slices(s, w)
    BY <1>S, <2>2, <2>3, PendingGrown
  <2>5. \A k \in DOMAIN w : Closed(s, DOMAIN w[k])
    BY <2>2, <2>3, NoNodesFacts DEF Grown, Closed
  <2> QED  BY <1>1, <1>S, <2>1, <2>4, <2>5 DEF SourceOK
<1>6. SourcesInv'
  <2>1. DOMAIN slices' = Sources /\ DOMAIN tree' = Sources
    BY <1>1 DEF TInv, SourcesInv
  <2> QED  BY <1>1, <1>5, <2>1, SourcesNext
<1>7. FreshInv'
  <2>M. Measured \subseteq Sources /\ Measured' = Measured
    BY <1>1 DEF Measured, Sources
  <2>1. ASSUME NEW s \in Measured, NEW k \in DOMAIN slices'[s], DOMAIN slices'[s][k] # {}
        PROVE  k = time[s[1]] /\ tree[s] # NoNodes /\ Fetched(s)
    <3>1. slices'[s][k] = IF k \in DOMAIN slices[s] THEN slices[s][k] ELSE NoNodes
      BY <1>4, <2>M, <2>1 DEF Grown
    <3>2. k \in DOMAIN slices[s] /\ DOMAIN slices[s][k] # {}
      BY <2>1, <3>1, NoNodesFacts
    <3> QED  BY <1>1, <3>2 DEF TInv, FreshInv
  <2>2. \A s \in Measured : Fetched(s)' <=> Fetched(s)
    BY <1>1 DEF Fetched
  <2> QED  BY <1>1, <2>M, <2>1, <2>2 DEF FreshInv
<1>8. GlobalTotals'
  <2>M. PICK M : M = Measured
    OBVIOUS
  <2>S. M \subseteq Sources
    BY <2>M DEF Measured
  <2>1. ASSUME NEW path \in Paths PROVE Totals(M, ids', gtree', slices', tree', path)
    <3>1. Totals(M, ids, gtree, slices, tree, path)
      BY <1>1, <2>M, TotalsAre DEF TInv
    <3>2. \A s \in Sources : PendingOf(s, slices'[s], path) = PendingOf(s, slices[s], path)
      BY <1>4, <1>S, PendingGrown DEF SourceOK
    <3>3. [s \in M |-> PendingOf(s, slices'[s], path)] = [s \in M |-> PendingOf(s, slices[s], path)]
      BY <2>S, <3>2
    <3>4. PendingSum(M, slices', path) = PendingSum(M, slices, path)
      BY <3>3 DEF PendingSum
    <3> QED  BY <1>1, <3>1, <3>4 DEF Totals
  <2> QED  BY <1>1, <2>M, <2>1, TotalsNext
<1> QED  BY <1>2, <1>3, <1>6, <1>7, <1>8 DEF TInv

\* A lookup of a time that is there, or before all that are.
LEMMA LookupWithin ==
  ASSUME NEW v, NEW a \in Nat, NEW b \in Nat, a <= b, DOMAIN v = a .. b, NEW ts \in Nat, ts <= b
  PROVE  DOMAIN GetTimeSlice(v, ts) = a .. b
<1>1. PICK w : w = GetTimeSlice(v, ts)
  OBVIOUS
<1>2. \/ ts < a /\ w = v
      \/ a <= ts /\ Filling(w, v, a, IF ts <= b THEN b ELSE ts)
  BY <1>1, LookupShape
<1>3. CASE w = v
  BY <1>1, <1>3
<1>4. CASE Filling(w, v, a, IF ts <= b THEN b ELSE ts)
  <2>1. Filling(w, v, a, b)
    BY <1>4
  <2>2. DOMAIN w = a .. b
    BY <2>1 DEF Filling
  <2> QED  BY <1>1, <2>2
<1> QED  BY <1>2, <1>3, <1>4

\* A request of times that are there grows nothing.
LEMMA QueriedWithin ==
  ASSUME NEW v, NEW a \in Nat, NEW b \in Nat, a <= b, DOMAIN v = a .. b,
         NEW from \in Nat, NEW to \in Nat, to <= b
  PROVE  DOMAIN Queried(v, from, to) = a .. b
<1>1. CASE from <= to
  <2>1. PICK w : w = GetTimeSlice(v, from)
    OBVIOUS
  <2>2. from <= b
    BY <1>1
  <2>3. DOMAIN w = a .. b
    BY <2>1, <2>2, LookupWithin
  <2>4. DOMAIN GetTimeSlice(w, to) = a .. b
    BY <2>3, LookupWithin
  <2> QED  BY <1>1, <2>1, <2>4 DEF Queried
<1>2. CASE ~(from <= to)
  <2>1. DOMAIN GetTimeSlice(v, to) = a .. b
    BY LookupWithin
  <2> QED  BY <1>2, <2>1 DEF Queried
<1> QED  BY <1>1, <1>2

\* The slices of the global store grow by empty ones.
LEMMA GlobalGrows ==
  ASSUME TInv, UNCHANGED <<ids, gparent, gtree>>, Vector(gslices'), Grown(gslices', gslices),
         future => future', gslices' # << >>,
         ~future' => dest' /\ (gslices' # << >> =>
                       \E a \in Nat : a <= gtime' /\ DOMAIN gslices' = a .. gtime')
  PROVE  NodesInv' /\ GlobalInv' /\ GlobalSlicesAddUp'
<1>1. NodesInv'
  BY DEF TInv, NodesInv, IsNumbering, NodeEach, ParentsRight, Numbers, Seq0
<1>2. PICK S, gs, w : S = DOMAIN gtree /\ gs = gslices /\ w = gslices'
  OBVIOUS
<1>3. GlobalSlices(S, w) /\ \A d : SliceSum(w, d) = SliceSum(gs, d)
  <2>1. GlobalSlices(S, gs) /\ Vector(w) /\ Grown(w, gs)
    BY <1>2 DEF TInv, GlobalInv
  <2> QED  BY <2>1, SliceSumGrown
<1>4. GlobalSlices(DOMAIN gtree, gslices)'
  BY <1>2, <1>3 DEF GlobalSlices, Vector, Tally
<1>5. GlobalInv'
  BY <1>4 DEF GlobalInv
<1>6. GlobalSlicesAddUp'
  <2>1. ASSUME ~future' PROVE AddUp(gtree, gslices)'
    <3>1. AddUp(gtree, gs)
      BY <1>2, <2>1, AddUpIs DEF TInv
    <3>2. AddUp(gtree, w)
      BY <1>3, <3>1 DEF AddUp
    <3> QED  BY <1>2, <3>2 DEF AddUp, SliceSum
  <2>2. (GlobalSlicesAddUp <=> (~future => AddUp(gtree, gslices)))'
    BY AddUpIs, PTL
  <2> QED  BY <2>1, <2>2
<1> QED  BY <1>1, <1>5, <1>6

\* A diff request for the global tree.
LEMMA TQueryGlobal ==
  ASSUME TInv, NEW from \in Nat, NEW to \in Nat, QueryGlobal(from, to)
  PROVE  TInv'
<1>1. /\ UNCHANGED <<shape, records, state, meta, time, tree, slices>> /\ UNCHANGED <<pc, todo>>
      /\ UNCHANGED <<gtime, ids, gparent, gtree, lent>>
      /\ pc \notin {"stopped", "crashed"} /\ queries < MaxQueries /\ queries' = queries + 1
      /\ future' = (future \/ to > gtime)
      /\ lent # 0 /\ gslices' = Queried(gslices, from, to)
      /\ dest' = (dest /\ DOMAIN gslices' = DOMAIN gslices)
  BY DEF QueryGlobal, Query, sourceVars
<1>2. RoundInv'
  <2>1. queries' \in 0 .. MaxQueries
    BY <1>1, SingleTreeConstants DEF TInv, RoundInv
  <2>2. future' \in BOOLEAN /\ dest' \in BOOLEAN
    BY <1>1 DEF TInv, RoundInv
  <2> QED  BY <1>1, <2>1, <2>2 DEF TInv, RoundInv
<1>3. SourcesInv' /\ FreshInv' /\ GlobalTotals'
  <2>1. \A s \in Measured : Fetched(s) /\ tree[s] # NoNodes =>
          Fetched(s)' /\ time'[s[1]] = time[s[1]]
    BY <1>1 DEF Fetched
  <2>2. /\ meta \subseteq meta' /\ (pc' # "crashed" => pc # "crashed")
        /\ pc' \notin {"stopped", "crashed"} => pc \notin {"stopped", "crashed"}
    BY <1>1
  <2> QED  BY <1>1, <2>1, <2>2, SourcesFrame DEF TInv
<1>4. PICK gs, w : gs = gslices /\ w = gslices'
  OBVIOUS
<1>5. Vector(gs) /\ gs # << >>
  BY <1>1, <1>4 DEF TInv, GlobalInv, GlobalSlices
<1>6. Vector(w) /\ Grown(w, gs)
  BY <1>1, <1>4, <1>5, QueriedGrows
<1>7. w # << >>
  <2>1. PICK a \in DOMAIN gs : TRUE
    <3>1. PICK a, b \in Nat : a <= b /\ DOMAIN gs = a .. b
      BY <1>5 DEF Vector
    <3> QED  BY <3>1
  <2>2. a \in DOMAIN w
    BY <1>6 DEF Grown
  <2> QED  BY <2>2
<1>8. ASSUME ~future'
      PROVE  dest' /\ \E a \in Nat : a <= gtime' /\ DOMAIN w = a .. gtime'
  <2>1. ~future /\ ~(to > gtime)
    BY <1>1, <1>8
  <2>2. PICK a \in Nat : a <= gtime /\ DOMAIN gs = a .. gtime
    BY <1>4, <1>5, <2>1 DEF TInv, GlobalInv
  <2>3. gtime \in Nat /\ to <= gtime
    BY <2>1, SingleTreeConstants DEF TInv, RoundInv
  <2>4. DOMAIN w = a .. gtime
    BY <1>1, <1>4, <2>2, <2>3, QueriedWithin
  <2>5. dest'
    BY <1>1, <1>4, <2>1, <2>2, <2>4 DEF TInv, GlobalInv
  <2> QED  BY <1>1, <2>2, <2>4, <2>5
<1>9. NodesInv' /\ GlobalInv' /\ GlobalSlicesAddUp'
  BY <1>1, <1>4, <1>6, <1>7, <1>8, GlobalGrows
<1> QED  BY <1>2, <1>3, <1>9 DEF TInv

\* The integration of a round begins.
LEMMA TBegin == ASSUME TInv, BeginIntegrate PROVE TInv'
<1>1. /\ UNCHANGED <<shape, records, state, meta, time, tree, slices>>
      /\ UNCHANGED <<queries, future>> /\ UNCHANGED <<ids, gparent, gtree>> /\ pc = "choose"
  BY DEF BeginIntegrate, sourceVars
<1>2. PICK nonzero \in SUBSET {i \in Stores \ meta : state[i] # "absent"} :
        LET lenders == {i \in meta : records[i] # 0} \cup nonzero
            lender  == Min(lenders)
        IN
        \/ /\ lenders = {}
           /\ pc' = "sleep" /\ UNCHANGED <<todo, gtime, gslices, lent, dest>>
        \/ pc' = "crashed" /\ UNCHANGED <<todo, gtime, gslices, lent, dest>>
        \/ /\ lent # 0 \/ lenders # {}
           /\ lent' = IF lent # 0 THEN lent ELSE IF lender \in meta THEN records[lender] ELSE Blank
           /\ gtime' = gtime + 1
           /\ gslices' = GetTimeSlice(gslices, gtime + 1)
           /\ dest' = TRUE
           /\ todo' = Existing
           /\ pc' = IF Existing = {} THEN "sleep" ELSE "integrate"
  BY DEF BeginIntegrate
<1>L. PICK lenders : lenders = {i \in meta : records[i] # 0} \cup nonzero
  OBVIOUS
<1>3. gtime \in 0 .. MaxTime /\ gtime < MaxTime /\ MaxTime \in Nat /\ gtime \in Nat
  BY <1>1, SingleTreeConstants DEF TInv, RoundInv
<1>4. CASE lenders = {} /\ pc' = "sleep" /\ UNCHANGED <<todo, gtime, gslices, lent, dest>>
  <2>1. RoundInv'
    BY <1>1, <1>4 DEF TInv, RoundInv
  <2>2. SourcesInv' /\ FreshInv' /\ GlobalTotals'
    <3>1. \A s \in Measured : tree[s] = NoNodes
      BY <1>4, <1>L DEF TInv, SourcesInv, SourceOK, Measured
    <3> QED  BY <1>1, <1>4, <3>1, SourcesFrame DEF TInv
  <2>3. NodesInv' /\ GlobalInv' /\ GlobalSlicesAddUp'
    BY <1>1, <1>4, GlobalFrame DEF TInv
  <2> QED  BY <2>1, <2>2, <2>3 DEF TInv
<1>5. CASE pc' = "crashed" /\ UNCHANGED <<todo, gtime, gslices, lent, dest>>
  <2>1. RoundInv'
    BY <1>1, <1>5 DEF TInv, RoundInv
  <2>2. SourcesInv' /\ FreshInv' /\ GlobalTotals'
    BY <1>1, <1>5, SourcesFrame DEF TInv
  <2>3. NodesInv' /\ GlobalInv' /\ GlobalSlicesAddUp'
    BY <1>1, <1>5, GlobalFrame DEF TInv
  <2> QED  BY <2>1, <2>2, <2>3 DEF TInv
<1>6. CASE /\ lent # 0 \/ lenders # {}
           /\ lent' = IF lent # 0 THEN lent
                      ELSE IF Min(lenders) \in meta THEN records[Min(lenders)] ELSE Blank
           /\ gtime' = gtime + 1
           /\ gslices' = GetTimeSlice(gslices, gtime + 1)
           /\ dest' = TRUE
           /\ todo' = Existing
           /\ pc' = IF Existing = {} THEN "sleep" ELSE "integrate"
  <2>L. lent' \in 0 .. Blank /\ lent' # 0
    <3>1. lent \in 0 .. Blank /\ records \in [Stores -> 0 .. MaxRecords] /\ meta \subseteq Stores
      BY DEF TInv, RoundInv
    <3>2. MaxRecords \in Nat /\ Blank = MaxRecords + 1
      BY SingleTreeConstants DEF Blank
    <3>3. CASE lent # 0
      BY <1>6, <3>1, <3>3
    <3>4. CASE lent = 0 /\ Min(lenders) \notin meta
      BY <1>6, <3>2, <3>4
    <3>5. CASE lent = 0 /\ Min(lenders) \in meta
      <4>1. lenders \subseteq Nat /\ lenders # {}
        BY <1>6, <1>L, <3>1, <3>5, SingleTreeConstants
      <4>2. Min(lenders) \in lenders
        BY <4>1, MinFacts
      <4>3. records[Min(lenders)] \in 0 .. MaxRecords /\ records[Min(lenders)] # 0
        BY <1>L, <3>1, <3>5, <4>2
      <4> QED  BY <1>6, <3>2, <3>5, <4>3
    <3> QED  BY <3>3, <3>4, <3>5
  <2>1. RoundInv'
    <3>1. gtime' \in 0 .. MaxTime /\ dest' \in BOOLEAN
      BY <1>3, <1>6
    <3>2. pc' = "integrate" => todo' # {} /\ todo' \subseteq Sources
      BY <1>6 DEF Existing
    <3>3. pc' \in {"sleep", "integrate"}
      BY <1>6
    <3>4. (0 .. Blank)' = 0 .. Blank
      BY DEF Blank
    <3> QED  BY <1>1, <2>L, <3>1, <3>2, <3>3, <3>4 DEF TInv, RoundInv
  <2>2. SourcesInv' /\ FreshInv' /\ GlobalTotals'
    <3>1. \A s \in Sources : tree[s] # NoNodes => Fetched(s)'
      BY <1>6 DEF Fetched, Existing
    <3>2. pc \notin {"stopped", "crashed"} /\ Measured \subseteq Sources
      BY <1>1 DEF Measured
    <3> QED  BY <1>1, <3>1, <3>2, SourcesFrame DEF TInv
  <2>3. PICK gs, w, now : gs = gslices /\ w = gslices' /\ now = gtime + 1
    OBVIOUS
  <2>4. now \in Nat /\ w = GetTimeSlice(gs, now) /\ Vector(gs)
    BY <1>3, <1>6, <2>3 DEF TInv, GlobalInv, GlobalSlices
  <2>5. Vector(w) /\ Grown(w, gs)
    BY <2>4, LookupGrows
  <2>6. w # << >> /\ (~future => \E a \in Nat : a <= now /\ DOMAIN w = a .. now)
    <3>1. CASE gs = << >>
      <4>1. w = [k \in now .. now |-> NoNodes]
        BY <2>4, <3>1, LookupFirst
      <4>2. DOMAIN w = now .. now /\ now \in DOMAIN w
        BY <2>4, <4>1
      <4> QED  BY <2>4, <4>2
    <3>2. CASE gs # << >>
      <4>1. PICK a, b \in Nat : a <= b /\ DOMAIN gs = a .. b
        BY <2>4, <3>2 DEF Vector
      <4>2. a \in DOMAIN w
        BY <2>5, <4>1 DEF Grown
      <4>3. ASSUME ~future PROVE \E c \in Nat : c <= now /\ DOMAIN w = c .. now
        <5>1. PICK c \in Nat : c <= gtime /\ DOMAIN gs = c .. gtime
          BY <2>3, <3>2, <4>3 DEF TInv, GlobalInv
        <5>2. ~(now < c) /\ ~(now <= gtime) /\ c <= now
          BY <1>3, <2>3, <5>1
        <5>3. \/ now < c /\ w = gs
              \/ c <= now /\ Filling(w, gs, c, IF now <= gtime THEN gtime ELSE now)
          BY <1>3, <2>4, <5>1, LookupShape
        <5>4. Filling(w, gs, c, now)
          BY <5>2, <5>3
        <5>5. DOMAIN w = c .. now
          BY <5>4 DEF Filling
        <5> QED  BY <5>2, <5>5
      <4> QED  BY <4>2, <4>3
    <3> QED  BY <3>1, <3>2
  <2>7. NodesInv' /\ GlobalInv' /\ GlobalSlicesAddUp'
    BY <1>1, <1>6, <2>3, <2>5, <2>6, GlobalGrows
  <2> QED  BY <2>1, <2>2, <2>7 DEF TInv
<1> QED  BY <1>2, <1>4, <1>5, <1>6, <1>L

\* A slice as it is filed: the nodes called, the running one and their ancestors.
LEMMA FiledFacts ==
  ASSUME shape \in [Sources -> Shapes], NEW s \in Sources,
         NEW C, C \subseteq Nodes(s), NEW U, U \subseteq Nodes(s)
  PROVE  Tally(Filed(s, C, U), Nodes(s)) /\ Closed(s, DOMAIN Filed(s, C, U))
<1>R. PICK R : R = C \cup U
  OBVIOUS
<1>1. PICK r, N : r = Filed(s, C, U) /\ N = UNION {Above(s, m) : m \in R}
  OBVIOUS
<1>2. r = [n \in N |-> IF n \in C THEN 1 ELSE 0]
  BY <1>1, <1>R DEF Filed
<1>3. \A m \in R : Closed(s, Above(s, m))
  BY <1>R, AboveFacts
<1>4. Closed(s, N)
  <2>1. N \subseteq Nodes(s)
    BY <1>1, <1>3 DEF Closed
  <2>2. ASSUME NEW n \in N \ {1} PROVE Parent(s, n) \in N
    <3>1. PICK m \in R : n \in Above(s, m)
      BY <1>1, <2>2
    <3>2. Parent(s, n) \in Above(s, m)
      BY <1>3, <2>2, <3>1 DEF Closed
    <3> QED  BY <1>1, <3>1, <3>2
  <2> QED  BY <2>1, <2>2 DEF Closed
<1>5. DOMAIN r = N /\ r \in [N -> Int]
  BY <1>2
<1>6. N \subseteq Nodes(s)
  BY <1>4 DEF Closed
<1> QED  BY <1>1, <1>4, <1>5, <1>6 DEF Tally

\* What a fetch does to a source.
Received(tr, r) == Plus(Plus(tr, <<0>>), r)
FiledAt(v, now, r) == [GetTimeSlice(v, now) EXCEPT ![now] = r]

ClosedSlices(s, v) == \A k \in DOMAIN v : Closed(s, DOMAIN v[k])
HoldsOnly(v, now) == \A k \in DOMAIN v : DOMAIN v[k] # {} => k = now
HoldsNone(v) == \A k \in DOMAIN v : DOMAIN v[k] = {}

\* A fetch adds what it receives to the tree of the source.
LEMMA ReceivedFacts ==
  ASSUME shape \in [Sources -> Shapes], NEW s \in Sources, NEW tr, Tally(tr, Nodes(s)),
         NEW r, Tally(r, Nodes(s)), NEW path
  PROVE  /\ Tally(Received(tr, r), Nodes(s)) /\ Received(tr, r) # NoNodes
         /\ Count(s, Received(tr, r), path) = Count(s, tr, path) + Count(s, r, path)
<1>1. PICK root, u, w : root = <<0>> /\ u = Plus(tr, root) /\ w = Plus(u, r)
  OBVIOUS
<1>2. DOMAIN root = {1} /\ root[1] = 0 /\ root \in [{1} -> Int]
  BY <1>1
<1>3. 1 \in Nodes(s)
  BY ShapeFacts DEF Nodes
<1>4. Tally(root, Nodes(s))
  BY <1>2, <1>3 DEF Tally
<1>5. Tally(u, Nodes(s)) /\ DOMAIN u = DOMAIN tr \cup DOMAIN root
  <2>1. Tally(Plus(tr, root), Nodes(s)) /\ DOMAIN Plus(tr, root) = DOMAIN tr \cup DOMAIN root
    BY <1>4, PlusFacts
  <2> QED  BY <1>1, <2>1
<1>6. Tally(w, Nodes(s)) /\ DOMAIN w = DOMAIN u \cup DOMAIN r
  <2>1. Tally(Plus(u, r), Nodes(s)) /\ DOMAIN Plus(u, r) = DOMAIN u \cup DOMAIN r
    BY <1>5, PlusFacts
  <2> QED  BY <1>1, <2>1
<1>7. w # NoNodes
  BY <1>2, <1>5, <1>6, NoNodesFacts
<1>8. Count(s, root, path) = 0
  <2>1. PICK K : K = DOMAIN root \cap Under(s, path)
    OBVIOUS
  <2>2. IsFiniteSet(K) /\ \A n \in K : root[n] = 0
    <3>1. K \subseteq Nodes(s)
      BY <2>1 DEF Under
    <3> QED  BY <1>2, <2>1, <3>1, NodesFinite
  <2>3. SumFunctionOnSet(root, K) = 0
    BY <2>2, SumZero
  <2>4. Count(s, root, path) = SumFunctionOnSet(root, DOMAIN root \cap Under(s, path))
    BY <1>4, CountIs
  <2> QED  BY <2>1, <2>3, <2>4
<1>9. Count(s, u, path) = Count(s, tr, path) + Count(s, root, path)
  BY <1>1, <1>4, CountPlus
<1>10. Count(s, w, path) = Count(s, u, path) + Count(s, r, path)
  BY <1>1, <1>5, CountPlus
<1>11. Count(s, tr, path) \in Int
  BY CountFacts
<1>12. Count(s, w, path) = Count(s, tr, path) + Count(s, r, path)
  BY <1>8, <1>9, <1>10, <1>11
<1>13. Received(tr, r) = w
  BY <1>1 DEF Received
<1> QED  BY <1>6, <1>7, <1>12, <1>13

\* It files the same in the newest slice; if the others hold nothing, this is
\* what is pending.
LEMMA FiledAtFacts ==
  ASSUME shape \in [Sources -> Shapes], NEW s \in Sources, NEW v, Slices(s, v),
         ClosedSlices(s, v),
         NEW now \in Nat, now \in DOMAIN GetTimeSlice(v, now),
         NEW r, Tally(r, Nodes(s)), Closed(s, DOMAIN r), NEW path,
         NEW x, x = FiledAt(v, now, r)
  PROVE  /\ Slices(s, x) /\ ClosedSlices(s, x)
         /\ HoldsNone(v) =>
              /\ HoldsOnly(x, now)
              /\ PendingOf(s, x, path) = PendingOf(s, v, path) + Count(s, r, path)
<1>1. PICK w : w = GetTimeSlice(v, now)
  OBVIOUS
<1>2. Vector(w) /\ Grown(w, v)
  BY <1>1, LookupGrows DEF Slices
<1>3. \A k \in DOMAIN w : Closed(s, DOMAIN w[k])
  <2>1. Closed(s, {})
    BY DEF Closed
  <2> QED  BY <1>2, <2>1, NoNodesFacts DEF Grown, ClosedSlices
<1>4. x = [w EXCEPT ![now] = r]
  BY <1>1 DEF FiledAt
<1>5. DOMAIN x = DOMAIN w /\ x[now] = r /\ now \in DOMAIN w /\ \A k \in DOMAIN x \ {now} : x[k] = w[k]
  BY <1>1, <1>4
<1>6. Vector(x)
  <2>1. w # << >>
    BY <1>5
  <2> QED  BY <1>2, <1>5, <2>1 DEF Vector
<1>7. Slices(s, w)
  BY <1>2, PendingGrown
<1>8. Slices(s, x)
  <2>1. ASSUME NEW k \in DOMAIN x PROVE Tally(x[k], Nodes(s))
    <3>1. CASE k = now
      BY <1>5, <3>1
    <3>2. CASE k # now
      BY <1>5, <1>7, <3>2 DEF Slices
    <3> QED  BY <3>1, <3>2
  <2> QED  BY <1>6, <2>1 DEF Slices
<1>9. ClosedSlices(s, x)
  BY <1>3, <1>5 DEF ClosedSlices
<1>10. ASSUME HoldsNone(v)
       PROVE  /\ HoldsOnly(x, now)
              /\ PendingOf(s, x, path) = PendingOf(s, v, path) + Count(s, r, path)
  <2>1. \A k \in DOMAIN x \ {now} : DOMAIN x[k] = {}
    BY <1>2, <1>5, <1>10, NoNodesFacts DEF Grown, HoldsNone
  <2>2. now \in DOMAIN x
    BY <1>5
  <2>3. PendingOf(s, x, path) = Count(s, x[now], path)
    BY <1>8, <2>1, <2>2, PendingFacts
  <2>4. PendingOf(s, x, path) = Count(s, r, path)
    BY <1>5, <2>3
  <2>5. PendingOf(s, v, path) = 0
    BY <1>10, PendingFacts DEF HoldsNone
  <2>6. Count(s, r, path) \in Int
    BY CountFacts
  <2> QED  BY <2>1, <2>4, <2>5, <2>6 DEF HoldsOnly
<1> QED  BY <1>1, <1>8, <1>9, <1>10

\* A fetch.
LEMMA TFetch ==
  ASSUME TInv, pc = "fetch", NEW i \in todo, Fetch(i),
         UNCHANGED globalVars, UNCHANGED queries, UNCHANGED future
  PROVE  TInv'
<1>1. /\ state' = [state EXCEPT ![i] = "live"] /\ meta' = meta \cup {i}
      /\ time' = [time EXCEPT ![i] = time[i] + 1] /\ shape' = shape
      /\ records' = records
  <2>1. time' = [time EXCEPT ![i] = @ + 1]
    BY DEF Fetch
  <2> QED  BY <2>1 DEF Fetch
<1>2. UNCHANGED <<gtime, ids, gparent, gtree, gslices, lent, dest>>
  BY DEF globalVars
<1>3. i \in Stores /\ time \in [Stores -> 0 .. MaxTime] /\ time[i] < MaxTime /\ MaxTime \in Nat
      /\ todo \subseteq Stores /\ (\A j \in todo : time[j] < MaxTime)
      /\ state \in [Stores -> States] /\ meta \subseteq Stores /\ gtime < MaxTime
      /\ shape \in [Sources -> Shapes]
  BY SingleTreeConstants DEF TInv, RoundInv
<1>4. PICK now \in Nat : now = time[i] + 1
  BY <1>3
<1>5. now \in 0 .. MaxTime /\ time' \in [Stores -> 0 .. MaxTime] /\ time'[i] = now
      /\ \A j \in Stores \ {i} : time'[j] = time[j]
  <2>1. now \in 0 .. MaxTime
    BY <1>3, <1>4
  <2> QED  BY <1>1, <1>3, <1>4, <2>1
<1>6. PICK batch, run :
        /\ \A t \in ThreadIds : batch[t] \in Sendable(<<i, t>>) /\ run[t] \in Running(<<i, t>>)
        /\ Store(i, batch, run)
  BY DEF Fetch
<1>7. NodesInv' /\ GlobalInv' /\ GlobalSlicesAddUp'
  BY <1>2, GlobalFrame DEF TInv
<1>8. state' \in [Stores -> States] /\ meta' \subseteq Stores
  BY <1>1, <1>3 DEF States
<1>9. CASE \E t \in ThreadIds : time'[i] \notin DOMAIN GetTimeSlice(slices[i, t], time'[i])
  <2>1. pc' = "crashed" /\ UNCHANGED <<tree, slices, todo>>
    BY <1>6, <1>9 DEF Store
  <2>2. RoundInv'
    BY <1>1, <1>2, <1>5, <1>8, <2>1 DEF TInv, RoundInv
  <2>3. SourcesInv'
    <3>1. ASSUME NEW s \in Sources PROVE SourceOK(s, tree'[s], slices'[s], meta')
      <4>1. SourceOK(s, tree[s], slices[s], meta)
        BY DEF TInv, SourcesInv
      <4> QED  BY <1>1, <2>1, <4>1 DEF SourceOK
    <3>2. DOMAIN tree' = Sources /\ DOMAIN slices' = Sources
      BY <2>1 DEF TInv, SourcesInv
    <3> QED  BY <1>1, <3>1, <3>2, SourcesNext
  <2>4. FreshInv'
    BY <2>1 DEF FreshInv
  <2>5. GlobalTotals'
    BY <2>1 DEF GlobalTotals
  <2> QED  BY <1>7, <2>2, <2>3, <2>4, <2>5 DEF TInv
<1>10. CASE ~ \E t \in ThreadIds : time'[i] \notin DOMAIN GetTimeSlice(slices[i, t], time'[i])
  <2>1. /\ slices' = [s \in Sources |-> IF s[1] # i THEN slices[s]
                        ELSE [GetTimeSlice(slices[i, s[2]], time'[i])
                                  EXCEPT ![time'[i]] = Filed(<<i, s[2]>>, batch[s[2]], run[s[2]])]]
        /\ tree' = [s \in Sources |-> IF s[1] # i THEN tree[s]
                        ELSE Plus(Plus(tree[s], <<0>>), Filed(<<i, s[2]>>, batch[s[2]], run[s[2]]))]
        /\ NextStore(i)
    BY <1>6, <1>10 DEF Store
  <2>2. todo' = todo \ {i} /\ pc' = IF todo = {i} THEN "choose" ELSE "fetch"
    BY <2>1 DEF NextStore
  <2>3. RoundInv'
    <3>1. pc' = "fetch" => todo' # {} /\ todo' \subseteq Stores /\ \A j \in todo' : time'[j] < MaxTime
      BY <1>3, <1>5, <2>2
    <3>2. pc' \in {"fetch", "choose"} /\ gtime' < MaxTime
      BY <1>2, <1>3, <2>2
    <3> QED  BY <1>1, <1>2, <1>5, <1>8, <3>1, <3>2 DEF TInv, RoundInv
  <2>4. PICK r : r = [s \in Sources |-> IF s[1] = i THEN Filed(s, batch[s[2]], run[s[2]]) ELSE NoNodes]
    OBVIOUS
  <2>5. ASSUME NEW s \in Sources, s[1] = i
        PROVE  /\ s = <<i, s[2]>> /\ s[2] \in ThreadIds /\ slices[i, s[2]] = slices[s]
               /\ now \in DOMAIN GetTimeSlice(slices[s], now)
               /\ batch[s[2]] \subseteq Nodes(s) /\ run[s[2]] \subseteq Nodes(s)
    <3>1. s = <<i, s[2]>> /\ s[2] \in ThreadIds
      BY <2>5 DEF Sources
    <3>2. slices[i, s[2]] = slices[s]
      BY <3>1
    <3>3. now \in DOMAIN GetTimeSlice(slices[s], now)
      BY <1>5, <1>10, <3>1, <3>2
    <3>4. batch[s[2]] \in Sendable(s)
      BY <1>6, <3>1
    <3>5. run[s[2]] \subseteq Nodes(s)
      <4>1. run[s[2]] \in Running(s)
        BY <1>6, <3>1
      <4>2. 1 \in Nodes(s) /\ DOMAIN tree[s] \subseteq Nodes(s)
        BY <1>3, ShapeFacts DEF TInv, SourcesInv, SourceOK, Tally, Nodes
      <4> QED  BY <4>1, <4>2 DEF Running
    <3> QED  BY <3>1, <3>2, <3>3, <3>4, <3>5 DEF Sendable
  <2>6. \A s \in Sources : Tally(r[s], Nodes(s)) /\ Closed(s, DOMAIN r[s])
    <3>1. ASSUME NEW s \in Sources PROVE Tally(r[s], Nodes(s)) /\ Closed(s, DOMAIN r[s])
      <4>1. CASE s[1] = i
        <5>1. PICK C, U : C = batch[s[2]] /\ U = run[s[2]]
          OBVIOUS
        <5>2. r[s] = Filed(s, C, U)
          BY <2>4, <4>1, <5>1
        <5>3. C \subseteq Nodes(s) /\ U \subseteq Nodes(s)
          BY <2>5, <4>1, <5>1
        <5> QED  BY <1>3, <5>2, <5>3, FiledFacts
      <4>2. CASE s[1] # i
        <5>1. r[s] = NoNodes
          BY <2>4, <4>2
        <5> QED  BY <5>1, NoNodesFacts DEF Closed
      <4> QED  BY <4>1, <4>2
    <3> QED  BY <3>1
  <2>7. ASSUME NEW s \in Sources
        PROVE  IF s[1] = i THEN slices'[s] = FiledAt(slices[s], now, r[s]) /\ tree'[s] = Received(tree[s], r[s])
               ELSE slices'[s] = slices[s] /\ tree'[s] = tree[s]
    <3>1. CASE s[1] = i
      <4>1. r[s] = Filed(<<i, s[2]>>, batch[s[2]], run[s[2]])
        BY <2>4, <2>5, <3>1
      <4>2. slices'[s] = FiledAt(slices[s], now, r[s])
        BY <1>5, <2>1, <2>5, <3>1, <4>1 DEF FiledAt
      <4>3. tree'[s] = Received(tree[s], r[s])
        BY <2>1, <3>1, <4>1 DEF Received
      <4> QED  BY <3>1, <4>2, <4>3
    <3>2. CASE s[1] # i
      BY <2>1, <3>2
    <3> QED  BY <3>1, <3>2
  <2>8. ASSUME NEW s \in Sources
        PROVE  Tally(tree[s], Nodes(s)) /\ Slices(s, slices[s]) /\ SourceOK(s, tree[s], slices[s], meta)
               /\ \A k \in DOMAIN slices[s] : Closed(s, DOMAIN slices[s][k])
    BY DEF TInv, SourcesInv, SourceOK
  <2>M. PICK M : M = Measured
    OBVIOUS
  <2>S. M \subseteq Sources /\ Measured' = M
    BY <1>1, <2>M DEF Measured, Sources
  <2>9. ASSUME NEW s \in M, s[1] = i, NEW k \in DOMAIN slices[s] PROVE DOMAIN slices[s][k] = {}
    <3>1. ~Fetched(s) /\ pc \notin {"stopped", "crashed"}
      BY <2>9 DEF Fetched
    <3> QED  BY <2>M, <2>9, <3>1 DEF TInv, FreshInv
  <2>10. ASSUME NEW s \in Sources, s[1] = i, NEW path
         PROVE  /\ Slices(s, slices'[s])
                /\ \A k \in DOMAIN slices'[s] : Closed(s, DOMAIN slices'[s][k])
                /\ s \in M =>
                     /\ \A k \in DOMAIN slices'[s] : DOMAIN slices'[s][k] # {} => k = now
                     /\ PendingOf(s, slices'[s], path) = PendingOf(s, slices[s], path) + Count(s, r[s], path)
    <3>1. PICK v, x : v = slices[s] /\ x = FiledAt(v, now, r[s])
      OBVIOUS
    <3>2. /\ Slices(s, x) /\ ClosedSlices(s, x)
          /\ s \in M =>
               /\ HoldsOnly(x, now)
               /\ PendingOf(s, x, path) = PendingOf(s, v, path) + Count(s, r[s], path)
      <4>1. Slices(s, v) /\ ClosedSlices(s, v)
        BY <2>8, <3>1 DEF ClosedSlices
      <4>2. s \in M => HoldsNone(v)
        BY <2>9, <2>10, <3>1 DEF HoldsNone
      <4>3. now \in DOMAIN GetTimeSlice(v, now)
        BY <2>5, <2>10, <3>1
      <4>4. PICK rs : rs = r[s]
        OBVIOUS
      <4>5. Tally(rs, Nodes(s)) /\ Closed(s, DOMAIN rs)
        BY <2>6, <4>4
      <4>6. x = FiledAt(v, now, rs)
        BY <3>1, <4>4
      <4>7. shape \in [Sources -> Shapes]
        BY <1>3
      <4>8. /\ Slices(s, x) /\ ClosedSlices(s, x)
            /\ HoldsNone(v) =>
                 /\ HoldsOnly(x, now)
                 /\ PendingOf(s, x, path) = PendingOf(s, v, path) + Count(s, rs, path)
        BY <4>1, <4>3, <4>5, <4>6, <4>7, FiledAtFacts
      <4> QED  BY <4>2, <4>4, <4>8
    <3>3. slices'[s] = x
      BY <2>7, <2>10, <3>1
    <3> QED  BY <3>1, <3>2, <3>3 DEF ClosedSlices, HoldsOnly
  <2>11. ASSUME NEW s \in Sources, s[1] = i, NEW path
         PROVE  /\ Tally(tree'[s], Nodes(s)) /\ tree'[s] # NoNodes
                /\ Count(s, tree'[s], path) = Count(s, tree[s], path) + Count(s, r[s], path)
    <3>1. tree'[s] = Received(tree[s], r[s])
      BY <2>7, <2>11
    <3> QED  BY <1>3, <2>6, <2>8, <3>1, ReceivedFacts
  <2>12. SourcesInv'
    <3>1. ASSUME NEW s \in Sources PROVE SourceOK(s, tree'[s], slices'[s], meta')
      <4>1. CASE s[1] = i
        BY <1>1, <2>10, <2>11, <4>1 DEF SourceOK
      <4>2. CASE s[1] # i
        <5>1. slices'[s] = slices[s] /\ tree'[s] = tree[s]
          BY <2>7, <4>2
        <5> QED  BY <1>1, <2>8, <5>1 DEF SourceOK
      <4> QED  BY <4>1, <4>2
    <3>2. DOMAIN tree' = Sources /\ DOMAIN slices' = Sources
      BY <2>1
    <3> QED  BY <1>1, <3>1, <3>2, SourcesNext
  <2>13. FreshInv'
    <3>1. ASSUME NEW s \in M, NEW k \in DOMAIN slices'[s], DOMAIN slices'[s][k] # {}
          PROVE  k = time'[s[1]] /\ tree'[s] # NoNodes /\ Fetched(s)'
      <4>S. s \in Sources
        BY <2>S
      <4>1. CASE s[1] = i
        <5>1. Fetched(s)'
          BY <2>2, <4>1 DEF Fetched
        <5>2. k = now
          BY <2>10, <3>1, <4>S, <4>1
        <5> QED  BY <1>5, <2>11, <4>S, <4>1, <5>1, <5>2
      <4>2. CASE s[1] # i
        <5>1. slices'[s] = slices[s] /\ tree'[s] = tree[s]
          BY <2>7, <4>S, <4>2
        <5>2. s[1] \in Stores
          BY <4>S DEF Sources
        <5>3. time'[s[1]] = time[s[1]]
          BY <1>5, <4>2, <5>2
        <5>4. k = time[s[1]] /\ tree[s] # NoNodes /\ Fetched(s)
          BY <2>M, <3>1, <5>1 DEF TInv, FreshInv
        <5>5. Fetched(s)'
          BY <2>2, <5>4 DEF Fetched
        <5> QED  BY <5>1, <5>3, <5>4, <5>5
      <4> QED  BY <4>1, <4>2
    <3> QED  BY <2>S, <3>1 DEF FreshInv
  <2>14. GlobalTotals'
    <3>1. ASSUME NEW path \in Paths PROVE Totals(M, ids', gtree', slices', tree', path)
      <4>1. Totals(M, ids, gtree, slices, tree, path)
        BY <2>M, TotalsAre DEF TInv
      <4>2. PICK delta : delta = [s \in M |-> IF s[1] = i THEN Count(s, r[s], path) ELSE 0]
        OBVIOUS
      <4>3. \A s \in M : delta[s] \in Int
        <5>1. \A s \in Sources : Count(s, r[s], path) \in Int
          BY <1>3, <2>6, CountFacts
        <5> QED  BY <2>S, <4>2, <5>1
      <4>4. PICK sm, tn : sm = slices' /\ tn = tree'
        OBVIOUS
      <4>5. ASSUME NEW s \in M
            PROVE  /\ PendingOf(s, sm[s], path) = PendingOf(s, slices[s], path) + delta[s]
                   /\ Count(s, tn[s], path) = Count(s, tree[s], path) + delta[s]
        <5>S. s \in Sources
          BY <2>S
        <5>1. PendingOf(s, slices[s], path) \in Int /\ Count(s, tree[s], path) \in Int
          BY <1>3, <2>8, <5>S, PendingFacts, CountFacts
        <5>2. CASE s[1] = i
          BY <2>10, <2>11, <4>2, <4>4, <5>S, <5>2
        <5>3. CASE s[1] # i
          <6>1. sm[s] = slices[s] /\ tn[s] = tree[s] /\ delta[s] = 0
            BY <2>7, <4>2, <4>4, <5>S, <5>3
          <6> QED  BY <5>1, <6>1
        <5> QED  BY <5>2, <5>3
      <4>6. PICK x : x = IntegratedIn(ids, gtree, path)
        OBVIOUS
      <4>7. x \in Int
        <5>1. IntegratedIn(ids, gtree, path)
                = IF path \in Numbers(ids) THEN gtree[Seq0(ids, path)] ELSE 0
          BY IntegratedIs
        <5>2. path \in Numbers(ids) => Seq0(ids, path) \in 1 .. Cardinality(DOMAIN ids) + 1
          BY Seq0Facts DEF TInv, NodesInv
        <5>3. gtree \in [1 .. Cardinality(DOMAIN ids) + 1 -> Int]
          BY DEF TInv, NodesInv, NodeEach
        <5> QED  BY <4>6, <5>1, <5>2, <5>3
      <4>8. AllSlices(slices) /\ AllTrees(tree)
        BY <2>8 DEF AllSlices, AllTrees
      <4>9. x + PendingSum(M, slices, path) = CountSum(M, tree, path)
        BY <4>1, <4>6 DEF Totals
      <4>10. x + PendingSum(M, sm, path) = CountSum(M, tn, path)
        BY <1>3, <2>S, <4>3, <4>5, <4>7, <4>8, <4>9, FiledTotals
      <4> QED  BY <1>2, <4>4, <4>6, <4>10 DEF Totals
    <3> QED  BY <1>1, <2>M, <3>1, TotalsNext
  <2> QED  BY <1>7, <2>3, <2>12, <2>13, <2>14 DEF TInv
<1> QED  BY <1>9, <1>10

\* The outcome of an integration, the source and its slice given.
IntegrateOutcome(s, now, v, src, g) ==
  \/ pc' = "crashed" /\ UNCHANGED <<slices, ids, gparent, gtree, gslices, todo>>
  \/ /\ now \in DOMAIN v /\ (Short(s, src) => ~Fatal(s)) /\ ids' = g
     /\ gparent' = NewParents(gparent, s, g, DOMAIN src)
     /\ gtree' = Plus(gtree, Added(s, g, src))
     /\ gslices' = IF dest THEN [gslices EXCEPT ![gtime] = Plus(@, Added(s, g, src))] ELSE gslices
     /\ slices' = [slices EXCEPT ![s] = << >>]
     /\ todo' = todo \ {s}
     /\ pc' = IF todo = {s} THEN "sleep" ELSE pc

\* The source's newest slice after the lookup, and what it has pending.
LEMMA Newest ==
  ASSUME shape \in [Sources -> Shapes], NEW s \in Sources, NEW u, Slices(s, u),
         \A k \in DOMAIN u : Closed(s, DOMAIN u[k]),
         NEW now \in Nat, NEW v, v = GetTimeSlice(u, now), now \in DOMAIN v
  PROVE  /\ Tally(v[now], Nodes(s)) /\ Closed(s, DOMAIN v[now])
         /\ (\A k \in DOMAIN u : DOMAIN u[k] # {} => k = now) =>
              \A path : PendingOf(s, u, path) = Count(s, v[now], path)
<1>1. Vector(v) /\ Grown(v, u)
  BY LookupGrows DEF Slices
<1>2. DOMAIN NoNodes = {}
  BY NoNodesFacts
<1>4. Closed(s, DOMAIN v[now])
  <2>1. Closed(s, {})
    BY DEF Closed
  <2> QED  BY <1>1, <1>2, <2>1 DEF Grown
<1>5. ASSUME \A k \in DOMAIN u : DOMAIN u[k] # {} => k = now, NEW path
      PROVE  PendingOf(s, u, path) = Count(s, v[now], path)
  <2>0. \A k \in DOMAIN v \ {now} : DOMAIN v[k] = {}
    BY <1>1, <1>2, <1>5 DEF Grown
  <2>1. Slices(s, v) /\ PendingOf(s, v, path) = PendingOf(s, u, path)
    BY <1>1, PendingGrown
  <2>2. PendingOf(s, v, path) = Count(s, v[now], path)
    BY <2>0, <2>1, PendingFacts
  <2> QED  BY <2>1, <2>2
<1>6. Slices(s, v)
  BY <1>1, PendingGrown
<1>7. Tally(v[now], Nodes(s))
  BY <1>6 DEF Slices
<1> QED  BY <1>4, <1>5, <1>7

\* The newest slice of a source is integrated, and its slices are removed.
LEMMA TIntegrate == ASSUME TInv, Integrate PROVE TInv'
<1>1. /\ pc = "integrate" /\ UNCHANGED <<shape, records, state, meta, time, tree>>
      /\ UNCHANGED <<gtime, lent, dest, queries, future>>
  BY DEF Integrate
<1>2. todo # {} /\ todo \subseteq Sources /\ shape \in [Sources -> Shapes]
      /\ time \in [Stores -> 0 .. MaxTime] /\ gtime \in 0 .. MaxTime /\ MaxTime \in Nat
      /\ lent \in Nat /\ lent # 0
  BY <1>1, SingleTreeConstants DEF TInv, RoundInv
<1>3. PICK s \in todo : s = NextSource
  BY <1>2, NextSourceFacts
<1>4. s \in Sources /\ s[1] \in Stores
  BY <1>2, <1>3 DEF Sources
<1>5. PICK now \in Nat : now = time[s[1]]
  BY <1>2, <1>4
<1>6. PICK v : v = GetTimeSlice(slices[s], now)
  OBVIOUS
<1>7. PICK src : src = v[now]
  OBVIOUS
<1>8. PICK g : g = AllNumbered(s, ids, DOMAIN src)
  OBVIOUS
<1>9. IntegrateOutcome(s, now, v, src, g)
  <2>1. pc' = "crashed" => UNCHANGED <<slices, ids, gparent, gtree, gslices, todo>>
    BY <1>1, <1>3, <1>5, <1>6 DEF Integrate
  <2>2. pc' # "crashed" => /\ now \in DOMAIN v /\ (Short(s, src) => ~Fatal(s))
                           /\ IntegrateSlice(s, src)
                           /\ slices' = [slices EXCEPT ![s] = RemoveTimeSlice(v)]
                           /\ todo' = todo \ {s}
                           /\ pc' = IF todo = {s} THEN "sleep" ELSE pc
    BY <1>3, <1>5, <1>6, <1>7 DEF Integrate
  <2>3. IntegrateSlice(s, src) => ids' = g /\ gparent' = NewParents(gparent, s, g, DOMAIN src)
    BY <1>8 DEF IntegrateSlice, NewParents, Targets
  <2>4. IntegrateSlice(s, src) => gtree' = Plus(gtree, Added(s, g, src))
    BY <1>8 DEF IntegrateSlice, Added, Targets
  <2>5. IntegrateSlice(s, src) =>
          gslices' = IF dest THEN [gslices EXCEPT ![gtime] = Plus(@, Added(s, g, src))] ELSE gslices
    BY <1>8 DEF IntegrateSlice, Added, Targets
  <2> QED  BY <2>1, <2>2, <2>3, <2>4, <2>5 DEF IntegrateOutcome, RemoveTimeSlice
<1>10. CASE pc' = "crashed" /\ UNCHANGED <<slices, ids, gparent, gtree, gslices, todo>>
  <2>1. RoundInv'
    BY <1>1, <1>10 DEF TInv, RoundInv
  <2>2. SourcesInv' /\ FreshInv' /\ GlobalTotals'
    BY <1>1, <1>10, SourcesFrame DEF TInv
  <2>3. NodesInv' /\ GlobalInv' /\ GlobalSlicesAddUp'
    BY <1>1, <1>10, GlobalFrame DEF TInv
  <2> QED  BY <2>1, <2>2, <2>3 DEF TInv
<1>11. CASE /\ now \in DOMAIN v /\ (Short(s, src) => ~Fatal(s)) /\ ids' = g
            /\ gparent' = NewParents(gparent, s, g, DOMAIN src)
            /\ gtree' = Plus(gtree, Added(s, g, src))
            /\ gslices' = IF dest THEN [gslices EXCEPT ![gtime] = Plus(@, Added(s, g, src))] ELSE gslices
            /\ slices' = [slices EXCEPT ![s] = << >>]
            /\ todo' = todo \ {s}
            /\ pc' = IF todo = {s} THEN "sleep" ELSE pc
  <2>1. \A r \in Sources : /\ Tally(tree[r], Nodes(r)) /\ Slices(r, slices[r])
                           /\ SourceOK(r, tree[r], slices[r], meta)
                           /\ \A k \in DOMAIN slices[r] : Closed(r, DOMAIN slices[r][k])
    BY DEF TInv, SourcesInv, SourceOK
  <2>M. PICK M : M = Measured
    OBVIOUS
  <2>S. M \subseteq Sources /\ Measured' = M
    BY <1>1, <2>M DEF Measured, Sources
  <2>2. \A r \in M : \A k \in DOMAIN slices[r] :
          DOMAIN slices[r][k] # {} => k = time[r[1]] /\ tree[r] # NoNodes /\ r \in todo
    BY <1>1, <2>M DEF TInv, FreshInv, Fetched
  <2>U. s \notin M => DOMAIN src = {}
    <3>1. s \notin M => records[s[1]] = 0
      BY <1>4, <2>M DEF Measured
    <3>2. s \notin M => records[s[1]] < lent
      BY <1>2, <3>1
    <3> QED  BY <1>11, <3>1, <3>2 DEF Short, Fatal
  <2>3. /\ Tally(src, Nodes(s)) /\ Closed(s, DOMAIN src)
        /\ s \in M => \A path : PendingOf(s, slices[s], path) = Count(s, src, path)
    <3>1. PICK u : u = slices[s]
      OBVIOUS
    <3>2. Slices(s, u) /\ (\A k \in DOMAIN u : Closed(s, DOMAIN u[k]))
          /\ (s \in M => \A k \in DOMAIN u : DOMAIN u[k] # {} => k = now)
      BY <1>4, <1>5, <2>1, <2>2, <3>1
    <3>3. v = GetTimeSlice(u, now) /\ now \in DOMAIN v
      BY <1>6, <1>11, <3>1
    <3>4. /\ Tally(v[now], Nodes(s)) /\ Closed(s, DOMAIN v[now])
          /\ (\A k \in DOMAIN u : DOMAIN u[k] # {} => k = now) =>
               \A path : PendingOf(s, u, path) = Count(s, v[now], path)
      BY <1>2, <1>4, <3>2, <3>3, Newest
    <3> QED  BY <1>7, <3>1, <3>2, <3>4
  <2>4. IsNumbering(ids) /\ NodeEach(ids, gtree) /\ DOMAIN gparent = DOMAIN gtree /\ ParentsRight(ids, gparent)
    BY DEF TInv, NodesInv
  <2>5. Integrates(s, ids, g, src)
    <3>1. PICK N : N = DOMAIN src
      OBVIOUS
    <3>2. /\ IsNumbering(AllNumbered(s, ids, N))
          /\ Extends(AllNumbered(s, ids, N), ids, PathsOf(s, N))
          /\ \A n \in N : GNID(s, n) \in DOMAIN AllNumbered(s, ids, N) \cup {<< >>}
      BY <1>2, <1>4, <2>3, <2>4, <3>1, AllNumberedFacts
    <3>3. Covers(s, g, N)
      BY <1>8, <3>1, <3>2 DEF Covers, Numbers
    <3> QED  BY <1>8, <2>3, <2>4, <3>1, <3>2, <3>3 DEF Integrates
  <2>6. PICK a : a = Added(s, g, src)
    OBVIOUS
  <2>7. PICK gt2 : gt2 = Plus(gtree, a)
    OBVIOUS
  <2>8. /\ NodeEach(g, gt2) /\ DOMAIN gt2 = DOMAIN gtree \cup DOMAIN a
        /\ \A path : IntegratedIn(g, gt2, path) = IntegratedIn(ids, gtree, path) + Count(s, src, path)
    <3>1. /\ NodeEach(g, Plus(gtree, Added(s, g, src)))
          /\ DOMAIN Plus(gtree, Added(s, g, src)) = DOMAIN gtree \cup DOMAIN Added(s, g, src)
          /\ \A path : IntegratedIn(g, Plus(gtree, Added(s, g, src)), path)
                         = IntegratedIn(ids, gtree, path) + Count(s, src, path)
      <4>1. PICK f, t : f = ids /\ t = gtree
        OBVIOUS
      <4>2. Integrates(s, f, g, src) /\ NodeEach(f, t)
        BY <2>4, <2>5, <4>1
      <4>3. /\ NodeEach(g, Plus(t, Added(s, g, src)))
            /\ DOMAIN Plus(t, Added(s, g, src)) = DOMAIN t \cup DOMAIN Added(s, g, src)
            /\ \A path : IntegratedIn(g, Plus(t, Added(s, g, src)), path)
                           = IntegratedIn(f, t, path) + Count(s, src, path)
        <5>1. shape \in [Sources -> Shapes]
          BY <1>2
        <5> QED  BY <1>4, <4>2, <5>1, IntegratedTree
      <4> QED  BY <4>1, <4>3
    <3> QED  BY <2>6, <2>7, <3>1
  <2>9. gtree' = gt2
    BY <1>11, <2>6, <2>7
  <2>10. DOMAIN gtree = 1 .. Cardinality(DOMAIN ids) + 1 /\ gtree \in [DOMAIN gtree -> Int]
    BY <2>4 DEF NodeEach
  <2>11. NodesInv'
    <3>1. PICK gp : gp = NewParents(gparent, s, g, DOMAIN src)
      OBVIOUS
    <3>2. ParentsRight(g, gp)
      BY <1>2, <1>4, <2>3, <2>4, <2>5, <2>10, <3>1, ParentsStayRight
    <3>3. DOMAIN gp = DOMAIN gt2
      <4>1. DOMAIN a = Targets(s, g, DOMAIN src)
        BY <2>6 DEF Added
      <4>2. DOMAIN gp = DOMAIN gparent \cup Targets(s, g, DOMAIN src)
        BY <3>1 DEF NewParents
      <4> QED  BY <2>4, <2>8, <4>1, <4>2
    <3>4. ids' = g /\ gparent' = gp /\ gtree' = gt2
      BY <1>11, <2>9, <3>1
    <3>5. IsNumbering(g)
      BY <2>5 DEF Integrates
    <3> QED  BY <2>8, <3>2, <3>3, <3>4, <3>5
             DEF NodesInv, IsNumbering, NodeEach, ParentsRight, Numbers, Seq0
  <2>12. GlobalInv' /\ GlobalSlicesAddUp'
    <3>1. PICK gs, gn : gs = gslices /\ gn = gslices'
      OBVIOUS
    <3>2. GlobalSlices(DOMAIN gtree, gs) /\ gs # << >>
          /\ (~future => dest /\ \E b \in Nat : b <= gtime /\ DOMAIN gs = b .. gtime)
          /\ (~future => AddUp(gtree, gs))
      BY <1>1, <1>2, <3>1, AddUpIs DEF TInv, GlobalInv
    <3>3. DOMAIN gtree \subseteq DOMAIN gt2 /\ Tally(a, DOMAIN gt2) /\ DOMAIN a \subseteq DOMAIN gt2
      <4>1. Tally(a, 1 .. Cardinality(DOMAIN g) + 1)
        <5>1. IsNumbering(g) /\ Tally(src, Nodes(s)) /\ Covers(s, g, DOMAIN src)
          BY <2>5 DEF Integrates
        <5>2. Tally(Added(s, g, src), 1 .. Cardinality(DOMAIN g) + 1)
          BY <1>2, <1>4, <5>1, AddedFacts
        <5> QED  BY <2>6, <5>2
      <4> QED  BY <2>8, <4>1 DEF Tally
    <3>4. PICK gt : gt = [gs EXCEPT ![gtime] = Plus(@, a)]
      OBVIOUS
    <3>5. GlobalSlices(DOMAIN gt2, gt) /\ (gtime \in DOMAIN gs /\ AddUp(gtree, gs) => AddUp(gt2, gt))
      <4>1. PICK now2, t, S, R : now2 = gtime /\ t = gtree /\ S = DOMAIN gtree /\ R = DOMAIN gt2
        OBVIOUS
      <4>2. gt = [gs EXCEPT ![now2] = Plus(@, a)] /\ gt2 = Plus(t, a)
        BY <2>7, <3>4, <4>1
      <4>3. GlobalSlices(S, gs) /\ t \in [S -> Int] /\ R = DOMAIN t \cup DOMAIN a /\ S \subseteq R
        BY <2>8, <2>10, <3>2, <3>3, <4>1
      <4>4. Tally(a, R) /\ DOMAIN a \subseteq R
        BY <3>3, <4>1
      <4>6. Adds(S, R, t, a, gs, now2, gt, gt2)
        BY <4>2, <4>3, <4>4 DEF Adds
      <4>5. GlobalSlices(R, gt) /\ (now2 \in DOMAIN gs /\ AddUp(t, gs) => AddUp(gt2, gt))
        BY <4>6, AddedUp
      <4> QED  BY <4>1, <4>5
    <3>6. DOMAIN gt = DOMAIN gs
      BY <3>4
    <3>7. gn = IF dest THEN gt ELSE gs
      BY <1>11, <2>6, <3>1, <3>4
    <3>8. GlobalSlices(DOMAIN gt2, gs)
      BY <3>2, <3>3 DEF GlobalSlices, Tally
    <3>9. GlobalSlices(DOMAIN gt2, gn) /\ gn # << >> /\ DOMAIN gn = DOMAIN gs
      <4>1. gt # << >>
        <5>1. PICK k : k \in DOMAIN gs
          <6>1. \E b, c \in Nat : b <= c /\ DOMAIN gs = b .. c
            BY <3>2 DEF GlobalSlices, Vector
          <6> QED  BY <6>1
        <5> QED  BY <3>6, <5>1
      <4> QED  BY <3>2, <3>5, <3>6, <3>7, <3>8, <4>1
    <3>10. GlobalInv'
      BY <1>1, <2>9, <3>1, <3>2, <3>9 DEF GlobalInv, GlobalSlices, Vector, Tally
    <3>11. ~future => AddUp(gt2, gn)
      <4> SUFFICES ASSUME ~future PROVE AddUp(gt2, gn)
        OBVIOUS
      <4>1. dest /\ gtime \in DOMAIN gs /\ AddUp(gtree, gs)
        <5>1. PICK b \in Nat : b <= gtime /\ DOMAIN gs = b .. gtime
          BY <3>2
        <5> QED  BY <1>2, <3>2, <5>1
      <4> QED  BY <3>5, <3>7, <4>1
    <3>12. GlobalSlicesAddUp'
      <4>1. (~future => AddUp(gtree, gslices))'
        BY <1>1, <2>9, <3>1, <3>11 DEF AddUp, SliceSum
      <4>2. (GlobalSlicesAddUp <=> (~future => AddUp(gtree, gslices)))'
        BY AddUpIs, PTL
      <4> QED  BY <4>1, <4>2
    <3> QED  BY <3>10, <3>12
  <2>13. RoundInv'
    <3>1. pc' \in {"sleep", "integrate"} /\ (pc' = "integrate" => todo' # {} /\ todo' \subseteq Sources)
      BY <1>1, <1>2, <1>11
    <3> QED  BY <1>1, <3>1 DEF TInv, RoundInv
  <2>14. /\ DOMAIN slices' = Sources /\ slices'[s] = << >>
         /\ \A r \in Sources \ {s} : slices'[r] = slices[r]
    BY <1>4, <1>11 DEF TInv, SourcesInv
  <2>15. \A q : Slices(q, << >>)
    BY DEF Slices, Vector
  <2>16. SourcesInv'
    <3>1. ASSUME NEW r \in Sources PROVE SourceOK(r, tree'[r], slices'[r], meta')
      <4>1. CASE r = s
        <5>1. tree'[r] = tree[r] /\ meta' = meta /\ slices'[r] = << >>
          BY <1>1, <2>14, <4>1
        <5>2. Tally(tree[r], Nodes(r)) /\ (tree[r] # NoNodes => r[1] \in meta)
          BY <2>1 DEF SourceOK
        <5> QED  BY <2>15, <5>1, <5>2 DEF SourceOK
      <4>2. CASE r # s
        BY <1>1, <2>1, <2>14, <4>2
      <4> QED  BY <4>1, <4>2
    <3>2. DOMAIN tree' = Sources
      BY <1>1 DEF TInv, SourcesInv
    <3> QED  BY <1>1, <2>14, <3>1, <3>2, SourcesNext
  <2>17. FreshInv'
    <3>1. ASSUME NEW r \in M, NEW k \in DOMAIN slices'[r], DOMAIN slices'[r][k] # {}
          PROVE  k = time'[r[1]] /\ tree'[r] # NoNodes /\ Fetched(r)'
      <4>0. r \in Sources
        BY <2>S
      <4>1. r # s
        BY <2>14, <3>1
      <4>2. slices'[r] = slices[r]
        BY <2>14, <4>0, <4>1
      <4>3. k = time[r[1]] /\ tree[r] # NoNodes /\ r \in todo
        BY <2>2, <3>1, <4>2
      <4>4. r \in todo' /\ pc' = "integrate"
        BY <1>1, <1>11, <4>1, <4>3
      <4> QED  BY <1>1, <4>3, <4>4 DEF Fetched
    <3> QED  BY <2>S, <3>1 DEF FreshInv
  <2>18. GlobalTotals'
    <3>1. PICK sm : sm = slices'
      OBVIOUS
    <3>2. AllSlices(slices) /\ AllSlices(sm) /\ sm[s] = << >> /\ \A r \in Sources \ {s} : sm[r] = slices[r]
      <4>1. \A r \in Sources : Slices(r, sm[r])
        BY <2>1, <2>14, <2>15, <3>1
      <4> QED  BY <2>1, <2>14, <3>1, <4>1 DEF AllSlices
    <3>3. ASSUME NEW path \in Paths PROVE Totals(M, ids', gtree', slices', tree', path)
      <4>1. Totals(M, ids, gtree, slices, tree, path)
        BY <1>1, <2>M, TotalsAre DEF TInv
      <4>2. /\ PendingSum(M, slices, path) \in Int
            /\ PendingSum(M, sm, path)
                 = PendingSum(M, slices, path) - IF s \in M THEN PendingOf(s, slices[s], path) ELSE 0
        <5>1. shape \in [Sources -> Shapes] /\ M \subseteq Sources
          BY <1>2, <2>S
        <5>2. PICK sl : sl = slices
          OBVIOUS
        <5>3. /\ PendingSum(M, sl, path) \in Int
              /\ PendingSum(M, sm, path)
                   = PendingSum(M, sl, path) - IF s \in M THEN PendingOf(s, sl[s], path) ELSE 0
          <6>1. AllSlices(sl) /\ AllSlices(sm) /\ sm[s] = << >> /\ \A r \in Sources \ {s} : sm[r] = sl[r]
            BY <3>2, <5>2
          <6> QED  BY <1>4, <5>1, <6>1, TakenTotals
        <5> QED  BY <5>2, <5>3
      <4>3. PICK x, c : x = IntegratedIn(ids, gtree, path) /\ c = Count(s, src, path)
        OBVIOUS
      <4>4. c \in Int
        BY <1>2, <1>4, <2>3, <4>3, CountFacts
      <4>5. x \in Int
        <5>1. IntegratedIn(ids, gtree, path)
                = IF path \in Numbers(ids) THEN gtree[Seq0(ids, path)] ELSE 0
          BY IntegratedIs
        <5>2. path \in Numbers(ids) => Seq0(ids, path) \in 1 .. Cardinality(DOMAIN ids) + 1
          BY <2>4, Seq0Facts
        <5>3. gtree \in [1 .. Cardinality(DOMAIN ids) + 1 -> Int]
          BY <2>4 DEF NodeEach
        <5> QED  BY <4>3, <5>1, <5>2, <5>3
      <4>6. IntegratedIn(g, gt2, path) = x + c
        BY <2>8, <4>3
      <4>7. PendingSum(M, sm, path) = PendingSum(M, slices, path) - c
        <5>1. CASE s \in M
          BY <2>3, <4>2, <4>3, <5>1
        <5>2. CASE s \notin M
          <6>1. c = 0
            BY <1>2, <1>4, <2>3, <2>U, <4>3, <5>2, CountFacts
          <6> QED  BY <4>2, <5>2, <6>1
        <5> QED  BY <5>1, <5>2
      <4>8. x + PendingSum(M, slices, path) = CountSum(M, tree, path)
        BY <4>1, <4>3 DEF Totals
      <4>9. IntegratedIn(g, gt2, path) + PendingSum(M, sm, path) = CountSum(M, tree, path)
        BY <4>2, <4>4, <4>5, <4>6, <4>7, <4>8
      <4>10. ids' = g /\ gtree' = gt2 /\ tree' = tree /\ slices' = sm
        BY <1>1, <1>11, <2>9, <3>1
      <4> QED  BY <4>9, <4>10 DEF Totals
    <3> QED  BY <1>1, <2>M, <3>3, TotalsNext
  <2> QED  BY <2>11, <2>12, <2>13, <2>16, <2>17, <2>18 DEF TInv
<1> QED  BY <1>9, <1>10, <1>11 DEF IntegrateOutcome

\* Every step keeps the invariant.
LEMMA TStep == TInv /\ [Next]_vars => TInv'
<1> SUFFICES ASSUME TInv, [Next]_vars PROVE TInv'
  OBVIOUS
<1>1. ASSUME NEW i \in Stores, Create(i) PROVE TInv'
  BY <1>1, TCreate
<1>2. CASE Wake
  BY <1>2, TWake
<1>3. CASE Receive
  <2>1. PICK i : i = Min(todo)
    OBVIOUS
  <2>2. /\ pc = "fetch" /\ (Fetch(i) \/ FetchFails(i) \/ BadAnswer(i) \/ Skip(i))
        /\ UNCHANGED globalVars /\ UNCHANGED queries /\ UNCHANGED future
    BY <1>3, <2>1 DEF Receive
  <2>3. todo # {} /\ todo \subseteq Nat
    BY <2>2, SingleTreeConstants DEF TInv, RoundInv
  <2>4. i \in todo
    BY <2>1, <2>3, MinFacts
  <2> QED  BY <2>2, <2>4, TFetch, TMiss, TStop
<1>4. CASE BeginIntegrate
  BY <1>4, TBegin
<1>5. CASE Integrate
  BY <1>5, TIntegrate
<1>6. ASSUME NEW from \in 1 .. MaxTime + 1, NEW to \in 1 .. MaxTime + 1,
             QueryGlobal(from, to) \/ \E i \in Stores : QuerySource(i, from, to)
      PROVE  TInv'
  <2>1. from \in Nat /\ to \in Nat
    BY SingleTreeConstants
  <2> QED  BY <1>6, <2>1, TQuerySource, TQueryGlobal
<1>7. CASE UNCHANGED vars
  <2>1. /\ UNCHANGED <<shape, records, state, meta, time, tree, slices>>
        /\ UNCHANGED <<pc, todo, queries, future>>
        /\ UNCHANGED <<gtime, ids, gparent, gtree, gslices, lent, dest>>
    BY <1>7 DEF vars, sourceVars, globalVars
  <2>2. RoundInv'
    BY <2>1 DEF TInv, RoundInv
  <2>3. SourcesInv' /\ FreshInv' /\ GlobalTotals'
    <3>1. \A s \in Measured : Fetched(s) => Fetched(s)' /\ time'[s[1]] = time[s[1]]
      BY <2>1 DEF Fetched
    <3>2. /\ meta \subseteq meta' /\ (pc' # "crashed" => pc # "crashed")
          /\ pc' \notin {"stopped", "crashed"} => pc \notin {"stopped", "crashed"}
      BY <2>1
    <3> QED  BY <2>1, <3>1, <3>2, SourcesFrame DEF TInv
  <2>4. NodesInv' /\ GlobalInv' /\ GlobalSlicesAddUp'
    BY <2>1, GlobalFrame DEF TInv
  <2> QED  BY <2>2, <2>3, <2>4 DEF TInv
<1> QED  BY <1>1, <1>2, <1>3, <1>4, <1>5, <1>6, <1>7 DEF Next

\* A slice of a source that records anything holds nothing but the last fetch of
\* this round, a node of the global tree stands for one path, and the totals are
\* right, whatever the sources, their call trees and the requests are.
THEOREM TreeInvariance == Spec => []TInv
<1>1. Init => TInv
  BY TInit
<1>2. TInv /\ [Next]_vars => TInv'
  BY TStep
<1> QED  BY <1>1, <1>2, PTL DEF Spec

\* The state is of the expected kind, and the parent of a node of the global
\* tree stands for its path without the last name.
THEOREM SingleTreeType == Spec => []TypeOK
<1>1. TInv => TypeOK
  <2> SUFFICES ASSUME TInv PROVE TypeOK
    OBVIOUS
  <2>1. /\ state \in [Stores -> {"absent", "new", "live", "dead"}] /\ meta \subseteq Stores
        /\ time \in [Stores -> 0 .. MaxTime] /\ gtime \in 0 .. MaxTime
        /\ pc \in {"sleep", "fetch", "choose", "integrate", "stopped", "crashed"}
        /\ lent \in 0 .. Blank /\ queries \in 0 .. MaxQueries /\ {dest, future} \subseteq BOOLEAN
    BY DEF TInv, RoundInv, States
  <2>2. \A s \in Sources : DOMAIN tree[s] \subseteq Nodes(s)
    BY DEF TInv, SourcesInv, SourceOK, Tally
  <2>3. /\ DOMAIN gparent = DOMAIN gtree /\ DOMAIN gtree = 1 .. Cardinality(DOMAIN ids) + 1
        /\ \A p \in DOMAIN ids : gparent[ids[p]] = Seq0(ids, Front(p))
    BY DEF TInv, NodesInv, NodeEach, ParentsRight
  <2> QED  BY <2>1, <2>2, <2>3 DEF TypeOK
<1> QED  BY <1>1, TreeInvariance, PTL

\* Every call in the tree of a source that records anything is in the global
\* tree once, under its path, or in a slice that is still to be integrated, and
\* no call of another source is in the global tree.
THEOREM TotalsKept == Spec => []GlobalTotals
<1>1. TInv => GlobalTotals
  BY DEF TInv
<1> QED  BY <1>1, TreeInvariance, PTL

\* The slices of the global store add up to its tree until a request names a
\* time to come.
THEOREM SlicesAddUp == Spec => []GlobalSlicesAddUp
<1>1. TInv => GlobalSlicesAddUp
  BY DEF TInv
<1> QED  BY <1>1, TreeInvariance, PTL
=============================================================================
