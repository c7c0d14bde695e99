--------------------------- MODULE MonitorProofs ---------------------------
(***************************************************************************)
(* The safety of the monitor's threads for any number of requests and of   *)
(* connections: although the counter of ids and the map of stores have no  *)
(* lock, what goes wrong is confined to stores created at the same time.   *)
(***************************************************************************)
EXTENDS Monitor, FiniteSetTheorems, TLAPS

(***************************************************************************)
(* The inductive invariant.                                                *)
(***************************************************************************)

Stored == Cardinality(DOMAIN store)
StoreRecord == [id : Nat, target : BOOLEAN, recv : BOOLEAN, first : BOOLEAN]

Pcs == {"accept", "load", "increment", "construct", "insert", "configure",
        "target", "start", "sleep", "next", "first", "lock", "fetch", "head",
        "split", "body", "list", "find", "wait", "read", "done", "left",
        "refused"}

ThreadTypes ==
  /\ pc \in [Workers -> Pcs] /\ ds \in [Workers -> Nat]
  /\ reg \in [Creators -> Nat] /\ met \in [Creators -> BOOLEAN]
  /\ accepts \in 0 .. MaxAccepts /\ silent \in BOOLEAN

\* Stores are numbered as they are allocated.
StoreTypes ==
  /\ seq \in Nat /\ Stored \in Nat /\ DOMAIN store = 1 .. Stored
  /\ \A o \in DOMAIN store : store[o] \in StoreRecord
  /\ clash \subseteq DOMAIN store

LockTypes == lock \in [Pointers -> Workers \cup {Nobody}]

\* The map only knows stores that are there.
MapInv == \A i \in DOMAIN all : i \in Nat /\ all[i] \in DOMAIN store

\* So do the threads that work on one.
AtStore == {"insert", "configure", "target", "start", "first", "lock", "fetch",
            "wait", "read"}
HoldInv ==
  \A t \in Workers :
    /\ ds[t] = 0 \/ ds[t] \in DOMAIN store
    /\ pc[t] \in AtStore => ds[t] \in DOMAIN store

ShapeInv == ThreadTypes /\ StoreTypes /\ LockTypes /\ MapInv /\ HoldInv

\* The creators that may still allocate a store, and those about to.
Pending      == {c \in Creators : pc[c] \in {"head", "body", "load", "increment", "construct"}}
Constructing == {c \in Creators : pc[c] = "construct"}

\* Every store has a connection or a request of its own, and every id too.
Room  == Stored + Cardinality(Pending) <= accepts + Cardinality(Openers)
Limit == Stored + Cardinality(Constructing)
IdInv ==
  /\ seq <= Limit
  /\ \A c \in Creators : pc[c] = "increment" => reg[c] <= Limit
  /\ \A o \in DOMAIN store : store[o].id <= MaxStores
  /\ \A i \in DOMAIN all : i <= MaxStores
CountInv == Room /\ IdInv

\* A store is worked on by the thread that created it until it is configured.
Making == {"insert", "configure", "target", "start"}
OwnInv ==
  /\ \A c, d \in Creators :
       pc[c] \in Making /\ pc[d] \in Making /\ ds[c] = ds[d] => c = d
  /\ \A c \in Creators : pc[c] \in {"insert", "configure"} => ~store[ds[c]].target

\* A store in the map whose creation overlapped with no other.
Settled(o) ==
  /\ o \in DOMAIN store \ clash
  /\ \A c \in Creators : ~(pc[c] = "insert" /\ ds[c] = o)

\* A creation that met no other is alone, and its store has the counter as id.
AloneInv ==
  /\ \A c \in Creators : c \in Creating /\ ~met[c] => Creating = {c}
  /\ \A c \in Creators : pc[c] = "insert" /\ ~met[c] => store[ds[c]].id = seq

\* A settled store is in its place, and every later one gets a greater id.
PlacedInv ==
  \A o \in DOMAIN store : Settled(o) =>
    LET id == store[o].id IN
    /\ id \in DOMAIN all /\ all[id] = o
    /\ id <= seq
    /\ \A c \in Creators : pc[c] = "increment" => id <= reg[c]
    /\ \A c \in Creators : pc[c] \in {"construct", "insert"} => id < seq

\* A thread that configures, fetches or formats has the lock.
LockInv ==
  \A t \in Workers :
    pc[t] \in {"target", "start", "fetch", "read"} => lock[ds[t]] = t

\* A store receives only when it has its target.
ReadyInv ==
  /\ \A o \in DOMAIN store : store[o].recv \/ store[o].first => store[o].target
  /\ \A c \in Creators : pc[c] = "start" => store[ds[c]].target

RunInv ==
  /\ ShapeInv /\ CountInv /\ OwnInv
  /\ AloneInv /\ PlacedInv /\ LockInv /\ ReadyInv

\* When the monitor has died nothing moves any more: the threads may be in the
\* middle of a creation, and only what the theorems say still holds.
Promised == TypeOK /\ LostNeedsOverlap /\ StartedWithTarget /\ FetchExcludesReaders
Ended == (\A t \in Workers : pc[t] = "killed") /\ Promised

IInv == RunInv \/ Ended

(***************************************************************************)
(* The constants, and what an allocation does.                             *)
(***************************************************************************)

LEMMA Constants ==
  /\ MaxAccepts \in Nat /\ MaxStores \in Nat /\ Pointers = 1 .. MaxStores
  /\ Acceptor \in Creators /\ Receiver \in Workers
  /\ Creators \subseteq Workers /\ Readers \subseteq Workers /\ Handlers \subseteq Workers
  /\ Receiver \notin Creators /\ Receiver \notin Readers /\ Readers \cap Creators = {}
  /\ Nobody \notin Workers
  /\ MaxStores = MaxAccepts + Cardinality(Openers) /\ Cardinality(Openers) \in Nat
  BY MonitorConstants, FS_CardinalityType
  DEF MonitorConstants, MaxStores, Pointers, Creators, Workers, Handlers

\* The sets of creators that are counted are finite.
LEMMA Finite ==
  ASSUME NEW S \in SUBSET Creators
  PROVE  IsFiniteSet(S) /\ Cardinality(S) \in Nat
<1>1. IsFiniteSet(Creators)
  BY MonitorConstants, FS_AddElement DEF MonitorConstants, Creators
<1> QED  BY <1>1, FS_Subset, FS_CardinalityType

\* NewDataStore adds one store behind the others.
LEMMA Allocate ==
  ASSUME StoreTypes, NEW c \in Creators, Construct(c)
  PROVE  /\ Stored' = Stored + 1
         /\ DOMAIN store' = 1 .. Stored + 1
         /\ \A o \in DOMAIN store : store'[o] = store[o]
         /\ store'[Stored + 1] = [id |-> seq, target |-> FALSE, recv |-> FALSE, first |-> FALSE]
         /\ ds' = [ds EXCEPT ![c] = Stored + 1]
         /\ pc[c] = "construct" /\ pc' = [pc EXCEPT ![c] = "insert"]
         /\ UNCHANGED <<seq, all, reg, met, clash, lock, silent, accepts>>
<1>1. DOMAIN store' = 1 .. Stored + 1
  BY DEF Construct, StoreTypes, Stored
<1>2. Stored' = Stored + 1
  BY <1>1, FS_Interval DEF StoreTypes, Stored
<1> QED  BY <1>1, <1>2 DEF Construct, Stored, StoreTypes, CreatorRest, Go

\* ReceiveLoop ends a round, or comes to a store of the map.
LEMMA VisitFacts ==
  ASSUME MapInv, Visit
  PROVE  /\ pc[Receiver] = "next" /\ UNCHANGED lock /\ ReceiverRest
         /\ \/ /\ pc' = [pc EXCEPT ![Receiver] = "sleep"]
               /\ ds' = [ds EXCEPT ![Receiver] = 0]
               /\ store' = store
            \/ \E o \in DOMAIN store :
                 /\ ds' = [ds EXCEPT ![Receiver] = o]
                 /\ ~store[o].recv
                 /\ pc' = [pc EXCEPT ![Receiver] = "next"] /\ store' = store
            \/ \E o \in DOMAIN store, to \in {"lock", "first"} :
                 /\ ds' = [ds EXCEPT ![Receiver] = o]
                 /\ store[o].recv
                 /\ pc' = [pc EXCEPT ![Receiver] = to]
                 /\ store' = [store EXCEPT ![o].first = TRUE]
<1>0. pc[Receiver] = "next" /\ UNCHANGED lock /\ ReceiverRest
  BY DEF Visit
<1>1. CASE NextKey(key[Receiver]) = {}
  BY <1>0, <1>1 DEF Visit, Go
<1>2. CASE NextKey(key[Receiver]) # {}
  <2>1. PICK i \in NextKey(key[Receiver]) :
          /\ ds' = [ds EXCEPT ![Receiver] = all[i]]
          /\ pc' = [pc EXCEPT ![Receiver] = IF ~store[all[i]].recv THEN "next"
                      ELSE IF store[all[i]].first THEN "lock" ELSE "first"]
          /\ store' = IF store[all[i]].recv THEN [store EXCEPT ![all[i]].first = TRUE] ELSE store
    BY <1>2 DEF Visit, Go
  <2>2. all[i] \in DOMAIN store
    BY DEF MapInv, NextKey
  <2>3. CASE store[all[i]].recv
    BY <1>0, <2>1, <2>2, <2>3
  <2>4. CASE ~store[all[i]].recv
    BY <1>0, <2>1, <2>2, <2>4
  <2> QED  BY <2>3, <2>4
<1> QED  BY <1>1, <1>2

\* One field of one store changes.
LEMMA StoreExcept ==
  ASSUME StoreTypes, NEW o \in DOMAIN store, NEW b \in BOOLEAN,
         \/ store' = [store EXCEPT ![o].first = b]
         \/ store' = [store EXCEPT ![o].recv = b]
         \/ store' = [store EXCEPT ![o].target = b]
  PROVE  /\ DOMAIN store' = DOMAIN store /\ Stored' = Stored
         /\ \A p \in DOMAIN store : store'[p] \in StoreRecord
         /\ \A p \in DOMAIN store : store'[p].id = store[p].id
         /\ \A p \in DOMAIN store : p # o => store'[p] = store[p]
<1>1. DOMAIN store' = DOMAIN store
  OBVIOUS
<1>2. store[o] \in StoreRecord
  BY DEF StoreTypes
<1>3. CASE store' = [store EXCEPT ![o].first = b]
  BY <1>1, <1>2, <1>3 DEF StoreTypes, StoreRecord, Stored
<1>4. CASE store' = [store EXCEPT ![o].recv = b]
  BY <1>1, <1>2, <1>4 DEF StoreTypes, StoreRecord, Stored
<1>5. CASE store' = [store EXCEPT ![o].target = b]
  BY <1>1, <1>2, <1>5 DEF StoreTypes, StoreRecord, Stored
<1> QED  BY <1>3, <1>4, <1>5

\* Stopping a store changes nothing else of it.
LEMMA StoppedFacts ==
  ASSUME StoreTypes, Current \in DOMAIN store, store' \in {store, Stopped}
  PROVE  /\ DOMAIN store' = DOMAIN store /\ Stored' = Stored
         /\ \A p \in DOMAIN store :
              /\ store'[p] \in StoreRecord
              /\ store'[p].id = store[p].id /\ store'[p].target = store[p].target
              /\ store'[p].first = store[p].first
              /\ store'[p].recv => store[p].recv
<1>1. CASE store' = store
  BY <1>1 DEF StoreTypes, Stored
<1>2. CASE store' = Stopped
  <2>1. store' = [store EXCEPT ![Current].recv = FALSE]
    BY <1>2 DEF Stopped
  <2>2. /\ DOMAIN store' = DOMAIN store /\ Stored' = Stored
        /\ \A p \in DOMAIN store : store'[p] \in StoreRecord
        /\ \A p \in DOMAIN store : store'[p].id = store[p].id
        /\ \A p \in DOMAIN store : p # Current => store'[p] = store[p]
    BY <2>1, StoreExcept
  <2>3. /\ store'[Current].target = store[Current].target
        /\ store'[Current].first = store[Current].first
        /\ store'[Current].recv = FALSE
    BY <2>1 DEF StoreTypes, StoreRecord
  <2> QED  BY <2>2, <2>3 DEF StoreTypes, StoreRecord
<1> QED  BY <1>1, <1>2

(***************************************************************************)
(* One lemma for each part of the invariant, with one step per action.     *)
(***************************************************************************)

LEMMA ShapeStep ==
  ASSUME ShapeInv, Work \/ UNCHANGED vars
  PROVE  ShapeInv'
<1> USE Constants
<1>0. ThreadTypes /\ StoreTypes /\ LockTypes /\ MapInv /\ HoldInv
  BY DEF ShapeInv
<1>1. ASSUME Accept  PROVE  ShapeInv'
  <2>1. ThreadTypes'
    BY <1>1, <1>0 DEF Accept, creation, requests, Go, ThreadTypes, StoreTypes,
       MapInv, Pcs
  <2>2. StoreTypes'
    BY <1>1, <1>0 DEF Accept, creation, requests, Go, StoreTypes, StoreRecord,
       Stored, MapInv, HoldInv, AtStore, ThreadTypes
  <2>3. LockTypes'
    BY <1>1, <1>0 DEF Accept, creation, requests, Go, LockTypes, ThreadTypes
  <2>4. MapInv'
    BY <1>1, <1>0 DEF Accept, creation, requests, Go, MapInv, HoldInv,
       AtStore, ThreadTypes, StoreTypes
  <2>5. HoldInv'
    BY <1>1, <1>0 DEF Accept, creation, requests, Go, HoldInv, AtStore,
       ThreadTypes, MapInv, StoreTypes
  <2> QED  BY <2>1, <2>2, <2>3, <2>4, <2>5 DEF ShapeInv
<1>2. ASSUME NEW c \in Creators, Load(c)  PROVE  ShapeInv'
  <2>1. ThreadTypes'
    BY <1>2, <1>0 DEF Load, CreatorRest, requests, Go, ThreadTypes,
       StoreTypes, MapInv, Pcs
  <2>2. StoreTypes'
    BY <1>2, <1>0 DEF Load, CreatorRest, requests, Go, StoreTypes,
       StoreRecord, Stored, MapInv, HoldInv, AtStore, ThreadTypes
  <2>3. LockTypes'
    BY <1>2, <1>0 DEF Load, CreatorRest, requests, Go, LockTypes, ThreadTypes
  <2>4. MapInv'
    BY <1>2, <1>0 DEF Load, CreatorRest, requests, Go, MapInv, HoldInv,
       AtStore, ThreadTypes, StoreTypes
  <2>5. HoldInv'
    BY <1>2, <1>0 DEF Load, CreatorRest, requests, Go, HoldInv, AtStore,
       ThreadTypes, MapInv, StoreTypes
  <2> QED  BY <2>1, <2>2, <2>3, <2>4, <2>5 DEF ShapeInv
<1>3. ASSUME NEW c \in Creators, Increment(c)  PROVE  ShapeInv'
  <2>1. ThreadTypes'
    BY <1>3, <1>0 DEF Increment, CreatorRest, requests, Go, ThreadTypes,
       StoreTypes, MapInv, Pcs
  <2>2. StoreTypes'
    BY <1>3, <1>0 DEF Increment, CreatorRest, requests, Go, StoreTypes,
       StoreRecord, Stored, MapInv, HoldInv, AtStore, ThreadTypes
  <2>3. LockTypes'
    BY <1>3, <1>0 DEF Increment, CreatorRest, requests, Go, LockTypes,
       ThreadTypes
  <2>4. MapInv'
    BY <1>3, <1>0 DEF Increment, CreatorRest, requests, Go, MapInv, HoldInv,
       AtStore, ThreadTypes, StoreTypes
  <2>5. HoldInv'
    BY <1>3, <1>0 DEF Increment, CreatorRest, requests, Go, HoldInv, AtStore,
       ThreadTypes, MapInv, StoreTypes
  <2> QED  BY <2>1, <2>2, <2>3, <2>4, <2>5 DEF ShapeInv
<1>4. ASSUME NEW c \in Creators, Construct(c)  PROVE  ShapeInv'
  <2>1. pc \in [Workers -> Pcs] => pc' \in [Workers -> Pcs]
    BY <1>0, <1>4, Allocate DEF Pcs
  <2>2. ds \in [Workers -> Nat] => ds' \in [Workers -> Nat]
    BY <1>0, <1>4, Allocate DEF StoreTypes
  <2>3. ThreadTypes'
    BY <1>0, <2>1, <2>2, <1>4, Allocate DEF ThreadTypes
  <2>4. \A o \in DOMAIN store' : o \in DOMAIN store \/ o = Stored + 1
    BY <1>0, <1>4, Allocate DEF StoreTypes
  <2>5. StoreTypes'
    <3>1. [id |-> seq, target |-> FALSE, recv |-> FALSE, first |-> FALSE] \in StoreRecord
      BY <1>0 DEF StoreTypes, StoreRecord
    <3>2. \A o \in DOMAIN store' : store'[o] \in StoreRecord
      BY <1>0, <2>4, <3>1, <1>4, Allocate DEF StoreTypes
    <3> QED  BY <1>0, <2>4, <3>2, <1>4, Allocate DEF StoreTypes
  <2>6. LockTypes'
    BY <1>0, <1>4, Allocate DEF LockTypes
  <2>7. MapInv'
    BY <1>0, <1>4, Allocate DEF MapInv, StoreTypes
  <2>8. HoldInv'
    BY <1>0, <1>4, Allocate DEF HoldInv, AtStore, ThreadTypes, StoreTypes
  <2> QED  BY <2>3, <2>5, <2>6, <2>7, <2>8 DEF ShapeInv
<1>5. ASSUME NEW c \in Creators, Insert(c)  PROVE  ShapeInv'
  <2>1. ThreadTypes'
    BY <1>5, <1>0 DEF Insert, Filed, CreatorRest, requests, Go, ThreadTypes,
       StoreTypes, MapInv, Pcs
  <2>2. StoreTypes'
    BY <1>5, <1>0 DEF Insert, Filed, CreatorRest, requests, Go, StoreTypes,
       StoreRecord, Stored, MapInv, HoldInv, AtStore, ThreadTypes
  <2>3. LockTypes'
    BY <1>5, <1>0 DEF Insert, Filed, CreatorRest, requests, Go, LockTypes,
       ThreadTypes
  <2>4. MapInv'
    BY <1>5, <1>0 DEF Insert, Filed, CreatorRest, requests, Go, MapInv,
       HoldInv, AtStore, ThreadTypes, StoreTypes
  <2>5. HoldInv'
    BY <1>5, <1>0 DEF Insert, Filed, CreatorRest, requests, Go, HoldInv,
       AtStore, ThreadTypes, MapInv, StoreTypes
  <2> QED  BY <2>1, <2>2, <2>3, <2>4, <2>5 DEF ShapeInv
<1>6. ASSUME NEW c \in Creators, LockNew(c)  PROVE  ShapeInv'
  <2>1. ThreadTypes'
    BY <1>6, <1>0 DEF LockNew, Acquire, CreatorRest, creation, requests, Go,
       ThreadTypes, StoreTypes, MapInv, Pcs
  <2>2. StoreTypes'
    BY <1>6, <1>0 DEF LockNew, Acquire, CreatorRest, creation, requests, Go,
       StoreTypes, StoreRecord, Stored, MapInv, HoldInv, AtStore, ThreadTypes
  <2>3. LockTypes'
    BY <1>6, <1>0 DEF LockNew, Acquire, CreatorRest, creation, requests, Go,
       LockTypes, ThreadTypes
  <2>4. MapInv'
    BY <1>6, <1>0 DEF LockNew, Acquire, CreatorRest, creation, requests, Go,
       MapInv, HoldInv, AtStore, ThreadTypes, StoreTypes
  <2>5. HoldInv'
    BY <1>6, <1>0 DEF LockNew, Acquire, CreatorRest, creation, requests, Go,
       HoldInv, AtStore, ThreadTypes, MapInv, StoreTypes
  <2> QED  BY <2>1, <2>2, <2>3, <2>4, <2>5 DEF ShapeInv
<1>7. ASSUME NEW c \in Creators, SetTarget(c)  PROVE  ShapeInv'
  <2>1. ThreadTypes'
    BY <1>7, <1>0 DEF SetTarget, Configured, CreatorRest, requests, Go,
       ThreadTypes, StoreTypes, MapInv, Pcs
  <2>2. StoreTypes'
    <3>1. /\ store' = [store EXCEPT ![ds[c]].target = TRUE] /\ ds[c] \in DOMAIN store
          /\ UNCHANGED <<seq, clash>>
      BY <1>0, <1>7 DEF SetTarget, Configured, HoldInv, AtStore
    <3>2. DOMAIN store' = DOMAIN store /\ Stored' = Stored
      BY <3>1 DEF Stored
    <3>3. \A o \in DOMAIN store : store'[o] \in StoreRecord
      BY <1>0, <3>1 DEF StoreTypes, StoreRecord
    <3> QED  BY <1>0, <3>1, <3>2, <3>3 DEF StoreTypes
  <2>3. LockTypes'
    BY <1>7, <1>0 DEF SetTarget, Configured, CreatorRest, requests, Go,
       LockTypes, ThreadTypes
  <2>4. MapInv'
    BY <1>7, <1>0 DEF SetTarget, Configured, CreatorRest, requests, Go,
       MapInv, HoldInv, AtStore, ThreadTypes, StoreTypes
  <2>5. HoldInv'
    BY <1>7, <1>0 DEF SetTarget, Configured, CreatorRest, requests, Go,
       HoldInv, AtStore, ThreadTypes, MapInv, StoreTypes
  <2> QED  BY <2>1, <2>2, <2>3, <2>4, <2>5 DEF ShapeInv
<1>8. ASSUME NEW c \in Creators, StartReceive(c)  PROVE  ShapeInv'
  <2>1. ThreadTypes'
    BY <1>8, <1>0 DEF StartReceive, Configured, Release, CreatorRest,
       requests, Go, ThreadTypes, StoreTypes, MapInv, Pcs
  <2>2. StoreTypes'
    BY <1>8, <1>0, ZenonT(40) DEF StartReceive, Configured, Release, CreatorRest,
       requests, Go, StoreTypes, StoreRecord, Stored, MapInv, HoldInv,
       AtStore, ThreadTypes
  <2>3. LockTypes'
    BY <1>8, <1>0 DEF StartReceive, Configured, Release, CreatorRest,
       requests, Go, LockTypes, ThreadTypes
  <2>4. MapInv'
    BY <1>8, <1>0 DEF StartReceive, Configured, Release, CreatorRest,
       requests, Go, MapInv, HoldInv, AtStore, ThreadTypes, StoreTypes
  <2>5. HoldInv'
    BY <1>8, <1>0 DEF StartReceive, Configured, Release, CreatorRest,
       requests, Go, HoldInv, AtStore, ThreadTypes, MapInv, StoreTypes
  <2> QED  BY <2>1, <2>2, <2>3, <2>4, <2>5 DEF ShapeInv
<1>9. ASSUME Wake  PROVE  ShapeInv'
  <2>1. ThreadTypes'
    BY <1>9, <1>0 DEF Wake, ReceiverRest, requests, Go, ThreadTypes,
       StoreTypes, MapInv, Pcs
  <2>2. StoreTypes'
    BY <1>9, <1>0 DEF Wake, ReceiverRest, requests, Go, StoreTypes,
       StoreRecord, Stored, MapInv, HoldInv, AtStore, ThreadTypes
  <2>3. LockTypes'
    BY <1>9, <1>0 DEF Wake, ReceiverRest, requests, Go, LockTypes, ThreadTypes
  <2>4. MapInv'
    BY <1>9, <1>0 DEF Wake, ReceiverRest, requests, Go, MapInv, HoldInv,
       AtStore, ThreadTypes, StoreTypes
  <2>5. HoldInv'
    BY <1>9, <1>0 DEF Wake, ReceiverRest, requests, Go, HoldInv, AtStore,
       ThreadTypes, MapInv, StoreTypes
  <2> QED  BY <2>1, <2>2, <2>3, <2>4, <2>5 DEF ShapeInv
<1>10. ASSUME Visit  PROVE  ShapeInv'
  <2>1. CASE /\ pc' = [pc EXCEPT ![Receiver] = "sleep"]
             /\ ds' = [ds EXCEPT ![Receiver] = 0]
             /\ store' = store
    <3>1. ThreadTypes' /\ LockTypes'
      BY <1>0, <1>10, <2>1, VisitFacts DEF ThreadTypes, LockTypes, Pcs, ReceiverRest
    <3>2. StoreTypes' /\ MapInv' /\ HoldInv'
      BY <1>0, <1>10, <2>1, VisitFacts
      DEF StoreTypes, Stored, MapInv, HoldInv, AtStore, ReceiverRest, ThreadTypes
    <3> QED  BY <3>1, <3>2 DEF ShapeInv
  <2>2. ASSUME NEW o \in DOMAIN store, ds' = [ds EXCEPT ![Receiver] = o],
               pc' = [pc EXCEPT ![Receiver] = "next"], store' = store
        PROVE  ShapeInv'
    <3>1. ThreadTypes' /\ LockTypes'
      BY <1>0, <1>10, <2>2, VisitFacts DEF ThreadTypes, LockTypes, Pcs, ReceiverRest, StoreTypes
    <3>2. StoreTypes' /\ MapInv' /\ HoldInv'
      BY <1>0, <1>10, <2>2, VisitFacts
      DEF StoreTypes, Stored, MapInv, HoldInv, AtStore, ReceiverRest, ThreadTypes
    <3> QED  BY <3>1, <3>2 DEF ShapeInv
  <2>3. ASSUME NEW o \in DOMAIN store, NEW to \in {"lock", "first"},
               ds' = [ds EXCEPT ![Receiver] = o],
               pc' = [pc EXCEPT ![Receiver] = to],
               store' = [store EXCEPT ![o].first = TRUE]
        PROVE  ShapeInv'
    <3>1. ThreadTypes' /\ LockTypes'
      BY <1>0, <1>10, <2>3, VisitFacts DEF ThreadTypes, LockTypes, Pcs, ReceiverRest, StoreTypes
    <3>2. StoreTypes'
      BY <1>0, <1>10, <2>3, VisitFacts, StoreExcept DEF StoreTypes, ReceiverRest
    <3>3. MapInv' /\ HoldInv'
      BY <1>0, <1>10, <2>3, VisitFacts, StoreExcept
      DEF StoreTypes, MapInv, HoldInv, AtStore, ReceiverRest, ThreadTypes
    <3> QED  BY <3>1, <3>2, <3>3 DEF ShapeInv
  <2> QED  BY <1>0, <1>10, <2>1, <2>2, <2>3, VisitFacts
<1>11. ASSUME FirstExchange  PROVE  ShapeInv'
  <2>1. Current \in DOMAIN store
    BY <1>0, <1>11 DEF FirstExchange, Current, HoldInv, AtStore
  <2>2. store' \in {store, Stopped}
    BY <1>11 DEF FirstExchange
  <2>3. /\ \E to \in {"lock", "next"} : pc' = [pc EXCEPT ![Receiver] = to]
        /\ UNCHANGED <<ds, seq, all, reg, met, clash, silent, accepts>>
    BY <1>11 DEF FirstExchange, Go, ReceiverRest
  <2>4. ThreadTypes'
    BY <1>0, <2>3 DEF ThreadTypes, Pcs
  <2>5. StoreTypes'
    BY <1>0, <2>1, <2>2, <2>3, StoppedFacts DEF StoreTypes
  <2>6. LockTypes'
    BY <1>0, <1>11 DEF FirstExchange, Release, LockTypes
  <2>7. MapInv'
    BY <1>0, <2>1, <2>2, <2>3, StoppedFacts DEF MapInv
  <2>8. HoldInv'
    BY <1>0, <1>11, <2>1, <2>2, <2>3, StoppedFacts
    DEF HoldInv, AtStore, Current, ThreadTypes, FirstExchange
  <2> QED  BY <2>4, <2>5, <2>6, <2>7, <2>8 DEF ShapeInv
<1>12. ASSUME BeginFetch  PROVE  ShapeInv'
  <2>1. ThreadTypes'
    BY <1>12, <1>0 DEF BeginFetch, Guarded, Acquire, Current, ReceiverRest,
       requests, Go, ThreadTypes, StoreTypes, MapInv, Pcs
  <2>2. StoreTypes'
    BY <1>12, <1>0 DEF BeginFetch, Guarded, Acquire, Current, ReceiverRest,
       requests, Go, StoreTypes, StoreRecord, Stored, MapInv, HoldInv,
       AtStore, ThreadTypes
  <2>3. LockTypes'
    BY <1>12, <1>0 DEF BeginFetch, Guarded, Acquire, Current, ReceiverRest,
       requests, Go, LockTypes, ThreadTypes
  <2>4. MapInv'
    BY <1>12, <1>0 DEF BeginFetch, Guarded, Acquire, Current, ReceiverRest,
       requests, Go, MapInv, HoldInv, AtStore, ThreadTypes, StoreTypes
  <2>5. HoldInv'
    BY <1>12, <1>0 DEF BeginFetch, Guarded, Acquire, Current, ReceiverRest,
       requests, Go, HoldInv, AtStore, ThreadTypes, MapInv, StoreTypes
  <2> QED  BY <2>1, <2>2, <2>3, <2>4, <2>5 DEF ShapeInv
<1>13. ASSUME EndFetch  PROVE  ShapeInv'
  <2>1. Current \in DOMAIN store
    BY <1>0, <1>13 DEF EndFetch, Current, HoldInv, AtStore
  <2>2. store' \in {store, Stopped}
    BY <1>13 DEF EndFetch
  <2>3. /\ \E to \in {"lock", "next"} : pc' = [pc EXCEPT ![Receiver] = to]
        /\ UNCHANGED <<ds, seq, all, reg, met, clash, silent, accepts>>
    BY <1>13 DEF EndFetch, Go, ReceiverRest
  <2>4. ThreadTypes'
    BY <1>0, <2>3 DEF ThreadTypes, Pcs
  <2>5. StoreTypes'
    BY <1>0, <2>1, <2>2, <2>3, StoppedFacts DEF StoreTypes
  <2>6. LockTypes'
    BY <1>0, <1>13 DEF EndFetch, Release, LockTypes
  <2>7. MapInv'
    BY <1>0, <2>1, <2>2, <2>3, StoppedFacts DEF MapInv
  <2>8. HoldInv'
    BY <1>0, <1>13, <2>1, <2>2, <2>3, StoppedFacts
    DEF HoldInv, AtStore, Current, ThreadTypes, EndFetch
  <2> QED  BY <2>4, <2>5, <2>6, <2>7, <2>8 DEF ShapeInv
<1>14. ASSUME FallSilent  PROVE  ShapeInv'
  <2>1. ThreadTypes'
    BY <1>14, <1>0 DEF FallSilent, creation, requests, Go, ThreadTypes,
       StoreTypes, MapInv, Pcs
  <2>2. StoreTypes'
    BY <1>14, <1>0 DEF FallSilent, creation, requests, Go, StoreTypes,
       StoreRecord, Stored, MapInv, HoldInv, AtStore, ThreadTypes
  <2>3. LockTypes'
    BY <1>14, <1>0 DEF FallSilent, creation, requests, Go, LockTypes,
       ThreadTypes
  <2>4. MapInv'
    BY <1>14, <1>0 DEF FallSilent, creation, requests, Go, MapInv, HoldInv,
       AtStore, ThreadTypes, StoreTypes
  <2>5. HoldInv'
    BY <1>14, <1>0 DEF FallSilent, creation, requests, Go, HoldInv, AtStore,
       ThreadTypes, MapInv, StoreTypes
  <2> QED  BY <2>1, <2>2, <2>3, <2>4, <2>5 DEF ShapeInv
<1>15. ASSUME NEW h \in Handlers, RecvHead(h)  PROVE  ShapeInv'
  <2>1. ThreadTypes'
    BY <1>15, <1>0 DEF RecvHead, Route, HandlerRest, creation, requests, Go,
       ThreadTypes, StoreTypes, MapInv, Pcs
  <2>2. StoreTypes'
    BY <1>15, <1>0 DEF RecvHead, Route, HandlerRest, creation, requests, Go,
       StoreTypes, StoreRecord, Stored, MapInv, HoldInv, AtStore, ThreadTypes
  <2>3. LockTypes'
    BY <1>15, <1>0 DEF RecvHead, Route, HandlerRest, creation, requests, Go,
       LockTypes, ThreadTypes
  <2>4. MapInv'
    BY <1>15, <1>0 DEF RecvHead, Route, HandlerRest, creation, requests, Go,
       MapInv, HoldInv, AtStore, ThreadTypes, StoreTypes
  <2>5. HoldInv'
    BY <1>15, <1>0 DEF RecvHead, Route, HandlerRest, creation, requests, Go,
       HoldInv, AtStore, ThreadTypes, MapInv, StoreTypes
  <2> QED  BY <2>1, <2>2, <2>3, <2>4, <2>5 DEF ShapeInv
<1>16. ASSUME NEW h \in Handlers, RecvBody(h)  PROVE  ShapeInv'
  <2>1. ThreadTypes'
    BY <1>16, <1>0 DEF RecvBody, Route, HandlerRest, creation, requests, Go,
       ThreadTypes, StoreTypes, MapInv, Pcs
  <2>2. StoreTypes'
    BY <1>16, <1>0 DEF RecvBody, Route, HandlerRest, creation, requests, Go,
       StoreTypes, StoreRecord, Stored, MapInv, HoldInv, AtStore, ThreadTypes
  <2>3. LockTypes'
    BY <1>16, <1>0 DEF RecvBody, Route, HandlerRest, creation, requests, Go,
       LockTypes, ThreadTypes
  <2>4. MapInv'
    BY <1>16, <1>0 DEF RecvBody, Route, HandlerRest, creation, requests, Go,
       MapInv, HoldInv, AtStore, ThreadTypes, StoreTypes
  <2>5. HoldInv'
    BY <1>16, <1>0 DEF RecvBody, Route, HandlerRest, creation, requests, Go,
       HoldInv, AtStore, ThreadTypes, MapInv, StoreTypes
  <2> QED  BY <2>1, <2>2, <2>3, <2>4, <2>5 DEF ShapeInv
<1>17. ASSUME NEW h \in Handlers, ClientCloses(h)  PROVE  ShapeInv'
  <2>1. ThreadTypes'
    BY <1>17, <1>0 DEF ClientCloses, HandlerRest, creation, requests, Go,
       ThreadTypes, StoreTypes, MapInv, Pcs
  <2>2. StoreTypes'
    BY <1>17, <1>0 DEF ClientCloses, HandlerRest, creation, requests, Go,
       StoreTypes, StoreRecord, Stored, MapInv, HoldInv, AtStore, ThreadTypes
  <2>3. LockTypes'
    BY <1>17, <1>0 DEF ClientCloses, HandlerRest, creation, requests, Go,
       LockTypes, ThreadTypes
  <2>4. MapInv'
    BY <1>17, <1>0 DEF ClientCloses, HandlerRest, creation, requests, Go,
       MapInv, HoldInv, AtStore, ThreadTypes, StoreTypes
  <2>5. HoldInv'
    BY <1>17, <1>0 DEF ClientCloses, HandlerRest, creation, requests, Go,
       HoldInv, AtStore, ThreadTypes, MapInv, StoreTypes
  <2> QED  BY <2>1, <2>2, <2>3, <2>4, <2>5 DEF ShapeInv
<1>18. ASSUME NEW h \in Readers, ListNext(h)  PROVE  ShapeInv'
  <2>1. /\ UNCHANGED <<creation, lock, silent, accepts>>
        /\ \E to \in {"done", "wait"} : pc' = [pc EXCEPT ![h] = to]
        /\ \/ UNCHANGED ds /\ pc'[h] # "wait"
           \/ \E i \in DOMAIN all : ds' = [ds EXCEPT ![h] = all[i]]
    <3>1. h \in DOMAIN pc
      BY <1>0 DEF ThreadTypes
    <3> QED  BY <1>18, <3>1 DEF ListNext, Go, HandlerRest, NextKey
  <2>2. ThreadTypes'
    BY <1>0, <2>1 DEF ThreadTypes, Pcs, creation, MapInv, StoreTypes
  <2>3. StoreTypes' /\ LockTypes' /\ MapInv'
    BY <1>0, <2>1 DEF StoreTypes, Stored, LockTypes, MapInv, creation
  <2>4. HoldInv'
    BY <1>0, <2>1 DEF HoldInv, AtStore, MapInv, creation, ThreadTypes
  <2> QED  BY <2>2, <2>3, <2>4 DEF ShapeInv
<1>19. ASSUME NEW h \in Readers, Find(h)  PROVE  ShapeInv'
  <2>1. /\ UNCHANGED <<creation, lock, silent, accepts>>
        /\ \E to \in {"done", "wait"} : pc' = [pc EXCEPT ![h] = to]
        /\ \/ UNCHANGED ds /\ pc'[h] # "wait"
           \/ \E i \in DOMAIN all : ds' = [ds EXCEPT ![h] = all[i]]
    <3>1. h \in DOMAIN pc
      BY <1>0 DEF ThreadTypes
    <3> QED  BY <1>19, <3>1 DEF Find, Go, HandlerRest
  <2>2. ThreadTypes'
    BY <1>0, <2>1 DEF ThreadTypes, Pcs, creation, MapInv, StoreTypes
  <2>3. StoreTypes' /\ LockTypes' /\ MapInv'
    BY <1>0, <2>1 DEF StoreTypes, Stored, LockTypes, MapInv, creation
  <2>4. HoldInv'
    BY <1>0, <2>1 DEF HoldInv, AtStore, MapInv, creation, ThreadTypes
  <2> QED  BY <2>2, <2>3, <2>4 DEF ShapeInv
<1>20. ASSUME NEW h \in Readers, BeginRead(h)  PROVE  ShapeInv'
  <2>1. ThreadTypes'
    BY <1>20, <1>0 DEF BeginRead, Acquire, HandlerRest, creation, requests,
       Go, ThreadTypes, StoreTypes, MapInv, Pcs
  <2>2. StoreTypes'
    BY <1>20, <1>0 DEF BeginRead, Acquire, HandlerRest, creation, requests,
       Go, StoreTypes, StoreRecord, Stored, MapInv, HoldInv, AtStore,
       ThreadTypes
  <2>3. LockTypes'
    BY <1>20, <1>0 DEF BeginRead, Acquire, HandlerRest, creation, requests,
       Go, LockTypes, ThreadTypes
  <2>4. MapInv'
    BY <1>20, <1>0 DEF BeginRead, Acquire, HandlerRest, creation, requests,
       Go, MapInv, HoldInv, AtStore, ThreadTypes, StoreTypes
  <2>5. HoldInv'
    BY <1>20, <1>0 DEF BeginRead, Acquire, HandlerRest, creation, requests,
       Go, HoldInv, AtStore, ThreadTypes, MapInv, StoreTypes
  <2> QED  BY <2>1, <2>2, <2>3, <2>4, <2>5 DEF ShapeInv
<1>21. ASSUME NEW h \in Readers, EndRead(h)  PROVE  ShapeInv'
  <2>1. ThreadTypes'
    BY <1>21, <1>0 DEF EndRead, Unlocked, Release, HandlerRest, creation,
       requests, Go, ThreadTypes, StoreTypes, MapInv, Pcs
  <2>2. StoreTypes'
    BY <1>21, <1>0 DEF EndRead, Unlocked, Release, HandlerRest, creation,
       requests, Go, StoreTypes, StoreRecord, Stored, MapInv, HoldInv,
       AtStore, ThreadTypes
  <2>3. LockTypes'
    BY <1>21, <1>0 DEF EndRead, Unlocked, Release, HandlerRest, creation,
       requests, Go, LockTypes, ThreadTypes
  <2>4. MapInv'
    BY <1>21, <1>0 DEF EndRead, Unlocked, Release, HandlerRest, creation,
       requests, Go, MapInv, HoldInv, AtStore, ThreadTypes, StoreTypes
  <2>5. HoldInv'
    BY <1>21, <1>0 DEF EndRead, Unlocked, Release, HandlerRest, creation,
       requests, Go, HoldInv, AtStore, ThreadTypes, MapInv, StoreTypes
  <2> QED  BY <2>1, <2>2, <2>3, <2>4, <2>5 DEF ShapeInv
<1>22. ASSUME UNCHANGED vars  PROVE  ShapeInv'
  BY <1>22 DEF vars, creation, requests, ShapeInv, AtStore, HoldInv,
     LockTypes, MapInv, Pcs, StoreRecord, StoreTypes, Stored, ThreadTypes
<1> QED
  BY <1>1, <1>2, <1>3, <1>4, <1>5, <1>6, <1>7, <1>8, <1>9, <1>10, <1>11,
     <1>12, <1>13, <1>14, <1>15, <1>16, <1>17, <1>18, <1>19, <1>20, <1>21,
     <1>22
  DEF Work, Create, Receive, Handle, Read, Handlers

\* A creator that is pending leaves room for the store it will allocate.
LEMMA RoomFacts ==
  ASSUME ShapeInv, CountInv
  PROVE  /\ Limit \in Nat /\ Limit <= MaxStores /\ Stored <= MaxStores
         /\ Cardinality(Constructing) \in Nat /\ Cardinality(Pending) \in Nat
         /\ DOMAIN store \subseteq Pointers
<1>1. Constructing \subseteq Pending /\ Pending \subseteq Creators
  BY DEF Constructing, Pending
<1>2. /\ Cardinality(Constructing) <= Cardinality(Pending)
      /\ Cardinality(Constructing) \in Nat /\ Cardinality(Pending) \in Nat
  BY <1>1, Finite, FS_Subset
<1>3. Stored \in Nat /\ DOMAIN store = 1 .. Stored /\ accepts \in 0 .. MaxAccepts
  BY DEF ShapeInv, StoreTypes, ThreadTypes
<1>4. Limit \in Nat /\ Limit <= MaxStores /\ Stored <= MaxStores
  BY <1>2, <1>3, Constants DEF CountInv, Room, Limit
<1> QED  BY <1>2, <1>3, <1>4, Constants

\* A step that adds no creator, no store and no id.
LEMMA CountFrame ==
  ASSUME ShapeInv, CountInv,
         Pending' \subseteq Pending, Constructing' = Constructing,
         \A c \in Creators : pc'[c] = "increment" => pc[c] = "increment" /\ reg'[c] = reg[c],
         DOMAIN store' = DOMAIN store, \A o \in DOMAIN store : store'[o].id = store[o].id,
         UNCHANGED <<accepts, seq, all>>
  PROVE  CountInv'
<1>1. Pending \subseteq Creators
  BY DEF Pending
<1>2. Cardinality(Pending') <= Cardinality(Pending) /\ Cardinality(Pending') \in Nat
  BY <1>1, Finite, FS_Subset
<1>3. Stored' = Stored /\ Limit' = Limit
  BY DEF Stored, Limit
<1>4. Room'
  BY <1>2, <1>3, RoomFacts, Constants, SMTT(40) DEF CountInv, Room, ShapeInv, StoreTypes, ThreadTypes
<1>5. IdInv'
  BY <1>3 DEF CountInv, IdInv
<1> QED  BY <1>4, <1>5 DEF CountInv

LEMMA CountStep ==
  ASSUME ShapeInv, CountInv, Work \/ UNCHANGED vars
  PROVE  CountInv'
<1> USE Constants
<1>0. ThreadTypes /\ StoreTypes /\ MapInv /\ HoldInv /\ Room /\ IdInv
  BY DEF ShapeInv, CountInv
<1>1. ASSUME Accept  PROVE  CountInv'
  <2>1. Pending' = Pending \cup {Acceptor} /\ Acceptor \notin Pending
    BY <1>0, <1>1 DEF Accept, Go, Pending, ThreadTypes
  <2>2. Constructing' = Constructing
    BY <1>0, <1>1 DEF Accept, Go, Constructing, ThreadTypes
  <2>3. Cardinality(Pending') = Cardinality(Pending) + 1
    <3>1. IsFiniteSet(Pending)
      BY Finite DEF Pending
    <3> QED  BY <2>1, <3>1, FS_AddElement
  <2>4. /\ Stored' = Stored /\ Limit' = Limit /\ accepts' = accepts + 1
        /\ UNCHANGED <<seq, all, reg, store>>
    BY <2>2, <1>1 DEF Accept, creation, Stored, Limit
  <2>5. Room'
    BY <1>0, <2>3, <2>4, RoomFacts, SMTT(40) DEF Room, ThreadTypes, StoreTypes
  <2>6. IdInv'
    BY <1>0, <2>4, <1>1 DEF IdInv, Accept, Go, ThreadTypes
  <2> QED  BY <2>5, <2>6 DEF CountInv
<1>2. ASSUME NEW c \in Creators, Load(c)  PROVE  CountInv'
  <2>1. Pending' = Pending /\ Constructing' = Constructing
    BY <1>0, <1>2 DEF Load, Go, Pending, Constructing, ThreadTypes
  <2>2. Stored' = Stored /\ Limit' = Limit /\ UNCHANGED <<accepts, seq, all, store>>
    BY <2>1, <1>2 DEF Load, CreatorRest, Stored, Limit
  <2>3. Room'
    BY <1>0, <2>1, <2>2 DEF Room
  <2>4. IdInv'
    BY <1>0, <2>2, <1>2 DEF IdInv, Load, Go, ThreadTypes
  <2> QED  BY <2>3, <2>4 DEF CountInv
<1>3. ASSUME NEW c \in Creators, Increment(c)  PROVE  CountInv'
  <2>1. /\ Pending' = Pending
        /\ Constructing' = Constructing \cup {c} /\ c \notin Constructing
    BY <1>0, <1>3 DEF Increment, Go, Pending, Constructing, ThreadTypes
  <2>2. Cardinality(Constructing') = Cardinality(Constructing) + 1
    <3>1. IsFiniteSet(Constructing)
      BY Finite DEF Constructing
    <3> QED  BY <2>1, <3>1, FS_AddElement
  <2>3. Stored' = Stored /\ UNCHANGED <<accepts, all, store, reg>> /\ seq' = reg[c] + 1
    BY <1>3 DEF Increment, CreatorRest, Stored
  <2>4. Limit' = Limit + 1 /\ reg[c] <= Limit
    <3>1. Limit' = Limit + 1
      BY <1>0, <2>2, <2>3, RoomFacts DEF Limit, StoreTypes
    <3>2. reg[c] <= Limit
      BY <1>0, <1>3 DEF IdInv, Increment
    <3> QED  BY <3>1, <3>2
  <2>5. Room'
    BY <1>0, <2>1, <2>3 DEF Room
  <2>6. \A d \in Creators : pc'[d] = "increment" => pc[d] = "increment"
    BY <1>0, <1>3 DEF Increment, Go, ThreadTypes
  <2>7. IdInv'
    BY <1>0, <2>3, <2>4, <2>6, RoomFacts, SMTT(40) DEF IdInv, ThreadTypes
  <2> QED  BY <2>5, <2>7 DEF CountInv
<1>4. ASSUME NEW c \in Creators, Construct(c)  PROVE  CountInv'
  <2>1. /\ Pending' = Pending \ {c} /\ c \in Pending
        /\ Constructing' = Constructing \ {c} /\ c \in Constructing
    BY <1>0, <1>4 DEF Construct, Go, Pending, Constructing, ThreadTypes
  <2>2. /\ Cardinality(Constructing') = Cardinality(Constructing) - 1
        /\ Cardinality(Pending') = Cardinality(Pending) - 1
    <3>1. IsFiniteSet(Constructing) /\ IsFiniteSet(Pending)
      BY Finite DEF Constructing, Pending
    <3> QED  BY <2>1, <3>1, FS_RemoveElement
  <2>3. Stored' = Stored + 1 /\ UNCHANGED <<accepts, seq, all, reg>>
    BY <1>0, <1>4, Allocate
  <2>4. Limit' = Limit
    BY <1>0, <2>2, <2>3, RoomFacts DEF Limit, StoreTypes
  <2>5. Room'
    BY <1>0, <2>2, <2>3, RoomFacts DEF Room, ThreadTypes, StoreTypes
  <2>6. \A d \in Creators : pc'[d] = "increment" => pc[d] = "increment"
    BY <1>0, <1>4 DEF Construct, Go, ThreadTypes
  <2>7. \A o \in DOMAIN store' : store'[o].id <= MaxStores
    <3>1. \A o \in DOMAIN store' : o \in DOMAIN store \/ o = Stored + 1
      BY <1>0, <1>4, Allocate DEF StoreTypes
    <3>2. seq <= MaxStores
      BY <1>0, RoomFacts DEF IdInv, StoreTypes
    <3> QED  BY <1>0, <3>1, <3>2, <1>4, Allocate DEF IdInv
  <2>8. IdInv'
    BY <1>0, <2>3, <2>4, <2>6, <2>7 DEF IdInv
  <2> QED  BY <2>5, <2>8 DEF CountInv
<1>5. ASSUME NEW c \in Creators, Insert(c)  PROVE  CountInv'
  <2>1. Pending' = Pending /\ Constructing' = Constructing
    BY <1>0, <1>5 DEF Insert, Go, Pending, Constructing, ThreadTypes
  <2>2. Stored' = Stored /\ Limit' = Limit /\ UNCHANGED <<accepts, seq, reg, store>>
    BY <2>1, <1>5 DEF Insert, CreatorRest, Stored, Limit
  <2>3. Room'
    BY <1>0, <2>1, <2>2 DEF Room
  <2>4. seq <= MaxStores
    BY <1>0, RoomFacts DEF IdInv, StoreTypes
  <2>5. \A i \in DOMAIN all' : i <= MaxStores
    BY <1>0, <2>4, <1>5 DEF IdInv, Insert, Filed
  <2>6. \A d \in Creators : pc'[d] = "increment" => pc[d] = "increment"
    BY <1>0, <1>5 DEF Insert, Go, ThreadTypes
  <2>7. IdInv'
    BY <1>0, <2>2, <2>5, <2>6 DEF IdInv
  <2> QED  BY <2>3, <2>7 DEF CountInv
<1>6. ASSUME NEW c \in Creators, LockNew(c)  PROVE  CountInv'
  <2>1. DOMAIN store' = DOMAIN store /\ \A o \in DOMAIN store : store'[o].id = store[o].id
    BY <1>0, <1>6 DEF LockNew, Acquire, CreatorRest, creation, requests
  <2>2. UNCHANGED <<accepts, seq, all>>
    BY <1>6 DEF LockNew, Acquire, CreatorRest, creation, requests
  <2>3. \A d \in Creators : \/ pc'[d] = pc[d] /\ reg'[d] = reg[d]
                           \/ /\ pc'[d] \notin {"increment", "construct"}
                              /\ pc[d] # "construct"
                              /\ pc'[d] \in {"head", "body", "load"} => d \in Pending
    BY <1>0, <1>6 DEF LockNew, Acquire, CreatorRest, creation, requests, Go,
       Pending, ThreadTypes
  <2>4. Pending' \subseteq Pending /\ Constructing' = Constructing
    BY <2>3 DEF Pending, Constructing
  <2> QED  BY <2>1, <2>2, <2>3, <2>4, CountFrame
<1>7. ASSUME NEW c \in Creators, SetTarget(c)  PROVE  CountInv'
  <2>1. DOMAIN store' = DOMAIN store /\ \A o \in DOMAIN store : store'[o].id = store[o].id
    <3>1. store' = [store EXCEPT ![ds[c]].target = TRUE] /\ ds[c] \in DOMAIN store
      BY <1>0, <1>7 DEF SetTarget, Configured, HoldInv, AtStore
    <3> QED  BY <1>0, <3>1, StoreExcept
  <2>2. UNCHANGED <<accepts, seq, all>>
    BY <1>7 DEF SetTarget, Configured, CreatorRest, requests
  <2>3. \A d \in Creators : \/ pc'[d] = pc[d] /\ reg'[d] = reg[d]
                           \/ /\ pc'[d] \notin {"increment", "construct"}
                              /\ pc[d] # "construct"
                              /\ pc'[d] \in {"head", "body", "load"} => d \in Pending
    BY <1>0, <1>7 DEF SetTarget, Configured, CreatorRest, requests, Go, Pending,
       ThreadTypes
  <2>4. Pending' \subseteq Pending /\ Constructing' = Constructing
    BY <2>3 DEF Pending, Constructing
  <2> QED  BY <2>1, <2>2, <2>3, <2>4, CountFrame
<1>8. ASSUME NEW c \in Creators, StartReceive(c)  PROVE  CountInv'
  <2>1. DOMAIN store' = DOMAIN store /\ \A o \in DOMAIN store : store'[o].id = store[o].id
    <3>1. store' = [store EXCEPT ![ds[c]].recv = TRUE] /\ ds[c] \in DOMAIN store
      BY <1>0, <1>8 DEF StartReceive, Configured, HoldInv, AtStore
    <3> QED  BY <1>0, <3>1, StoreExcept
  <2>2. UNCHANGED <<accepts, seq, all>>
    BY <1>8 DEF StartReceive, Configured, Release, CreatorRest, requests
  <2>3. \A d \in Creators : \/ pc'[d] = pc[d] /\ reg'[d] = reg[d]
                           \/ /\ pc'[d] \notin {"increment", "construct"}
                              /\ pc[d] # "construct"
                              /\ pc'[d] \in {"head", "body", "load"} => d \in Pending
    BY <1>0, <1>8 DEF StartReceive, Configured, Release, CreatorRest, requests,
       Go, Pending, ThreadTypes
  <2>4. Pending' \subseteq Pending /\ Constructing' = Constructing
    BY <2>3 DEF Pending, Constructing
  <2> QED  BY <2>1, <2>2, <2>3, <2>4, CountFrame
<1>9. ASSUME Wake  PROVE  CountInv'
  <2>1. DOMAIN store' = DOMAIN store /\ \A o \in DOMAIN store : store'[o].id = store[o].id
    BY <1>0, <1>9 DEF Wake, ReceiverRest, requests
  <2>2. UNCHANGED <<accepts, seq, all>>
    BY <1>9 DEF Wake, ReceiverRest, requests
  <2>3. \A d \in Creators : \/ pc'[d] = pc[d] /\ reg'[d] = reg[d]
                           \/ /\ pc'[d] \notin {"increment", "construct"}
                              /\ pc[d] # "construct"
                              /\ pc'[d] \in {"head", "body", "load"} => d \in Pending
    BY <1>0, <1>9 DEF Wake, ReceiverRest, requests, Go, Pending, ThreadTypes
  <2>4. Pending' \subseteq Pending /\ Constructing' = Constructing
    BY <2>3 DEF Pending, Constructing
  <2> QED  BY <2>1, <2>2, <2>3, <2>4, CountFrame
<1>10. ASSUME Visit  PROVE  CountInv'
  <2>1. DOMAIN store' = DOMAIN store /\ \A o \in DOMAIN store : store'[o].id = store[o].id
    BY <1>0, <1>10, VisitFacts, StoreExcept
  <2>2. UNCHANGED <<accepts, seq, all>>
    BY <1>10 DEF Visit, NextKey, ReceiverRest, requests
  <2>3. \A d \in Creators : \/ pc'[d] = pc[d] /\ reg'[d] = reg[d]
                           \/ /\ pc'[d] \notin {"increment", "construct"}
                              /\ pc[d] # "construct"
                              /\ pc'[d] \in {"head", "body", "load"} => d \in Pending
    BY <1>0, <1>10, VisitFacts DEF Visit, NextKey, ReceiverRest, requests, Go,
       Pending, ThreadTypes
  <2>4. Pending' \subseteq Pending /\ Constructing' = Constructing
    BY <2>3 DEF Pending, Constructing
  <2> QED  BY <2>1, <2>2, <2>3, <2>4, CountFrame
<1>11. ASSUME FirstExchange  PROVE  CountInv'
  <2>1. DOMAIN store' = DOMAIN store /\ \A o \in DOMAIN store : store'[o].id = store[o].id
    <3>1. Current \in DOMAIN store /\ store' \in {store, Stopped}
      BY <1>0, <1>11 DEF FirstExchange, Current, HoldInv, AtStore
    <3> QED  BY <1>0, <3>1, StoppedFacts
  <2>2. UNCHANGED <<accepts, seq, all>>
    BY <1>11 DEF FirstExchange, Stopped, Current, ReceiverRest, requests
  <2>3. \A d \in Creators : \/ pc'[d] = pc[d] /\ reg'[d] = reg[d]
                           \/ /\ pc'[d] \notin {"increment", "construct"}
                              /\ pc[d] # "construct"
                              /\ pc'[d] \in {"head", "body", "load"} => d \in Pending
    BY <1>0, <1>11 DEF FirstExchange, Stopped, Current, ReceiverRest, requests,
       Go, Pending, ThreadTypes
  <2>4. Pending' \subseteq Pending /\ Constructing' = Constructing
    BY <2>3 DEF Pending, Constructing
  <2> QED  BY <2>1, <2>2, <2>3, <2>4, CountFrame
<1>12. ASSUME BeginFetch  PROVE  CountInv'
  <2>1. DOMAIN store' = DOMAIN store /\ \A o \in DOMAIN store : store'[o].id = store[o].id
    BY <1>0, <1>12 DEF BeginFetch, Guarded, Acquire, Current, ReceiverRest,
       requests
  <2>2. UNCHANGED <<accepts, seq, all>>
    BY <1>12 DEF BeginFetch, Guarded, Acquire, Current, ReceiverRest, requests
  <2>3. \A d \in Creators : \/ pc'[d] = pc[d] /\ reg'[d] = reg[d]
                           \/ /\ pc'[d] \notin {"increment", "construct"}
                              /\ pc[d] # "construct"
                              /\ pc'[d] \in {"head", "body", "load"} => d \in Pending
    BY <1>0, <1>12 DEF BeginFetch, Guarded, Acquire, Current, ReceiverRest,
       requests, Go, Pending, ThreadTypes
  <2>4. Pending' \subseteq Pending /\ Constructing' = Constructing
    BY <2>3 DEF Pending, Constructing
  <2> QED  BY <2>1, <2>2, <2>3, <2>4, CountFrame
<1>13. ASSUME EndFetch  PROVE  CountInv'
  <2>1. DOMAIN store' = DOMAIN store /\ \A o \in DOMAIN store : store'[o].id = store[o].id
    <3>1. Current \in DOMAIN store /\ store' \in {store, Stopped}
      BY <1>0, <1>13 DEF EndFetch, Current, HoldInv, AtStore
    <3> QED  BY <1>0, <3>1, StoppedFacts
  <2>2. UNCHANGED <<accepts, seq, all>>
    BY <1>13 DEF EndFetch, Stopped, Current, Release, ReceiverRest, requests
  <2>3. \A d \in Creators : \/ pc'[d] = pc[d] /\ reg'[d] = reg[d]
                           \/ /\ pc'[d] \notin {"increment", "construct"}
                              /\ pc[d] # "construct"
                              /\ pc'[d] \in {"head", "body", "load"} => d \in Pending
    BY <1>0, <1>13 DEF EndFetch, Stopped, Current, Release, ReceiverRest,
       requests, Go, Pending, ThreadTypes
  <2>4. Pending' \subseteq Pending /\ Constructing' = Constructing
    BY <2>3 DEF Pending, Constructing
  <2> QED  BY <2>1, <2>2, <2>3, <2>4, CountFrame
<1>14. ASSUME FallSilent  PROVE  CountInv'
  <2>1. DOMAIN store' = DOMAIN store /\ \A o \in DOMAIN store : store'[o].id = store[o].id
    BY <1>0, <1>14 DEF FallSilent, creation, requests
  <2>2. UNCHANGED <<accepts, seq, all>>
    BY <1>14 DEF FallSilent, creation, requests
  <2>3. \A d \in Creators : \/ pc'[d] = pc[d] /\ reg'[d] = reg[d]
                           \/ /\ pc'[d] \notin {"increment", "construct"}
                              /\ pc[d] # "construct"
                              /\ pc'[d] \in {"head", "body", "load"} => d \in Pending
    BY <1>0, <1>14 DEF FallSilent, creation, requests, Go, Pending, ThreadTypes
  <2>4. Pending' \subseteq Pending /\ Constructing' = Constructing
    BY <2>3 DEF Pending, Constructing
  <2> QED  BY <2>1, <2>2, <2>3, <2>4, CountFrame
<1>15. ASSUME NEW h \in Handlers, RecvHead(h)  PROVE  CountInv'
  <2>1. DOMAIN store' = DOMAIN store /\ \A o \in DOMAIN store : store'[o].id = store[o].id
    BY <1>0, <1>15 DEF RecvHead, Route, HandlerRest, creation, requests
  <2>2. UNCHANGED <<accepts, seq, all>>
    BY <1>15 DEF RecvHead, Route, HandlerRest, creation, requests
  <2>3. \A d \in Creators : \/ pc'[d] = pc[d] /\ reg'[d] = reg[d]
                           \/ /\ pc'[d] \notin {"increment", "construct"}
                              /\ pc[d] # "construct"
                              /\ pc'[d] \in {"head", "body", "load"} => d \in Pending
    BY <1>0, <1>15 DEF RecvHead, Route, HandlerRest, creation, requests, Go,
       Pending, ThreadTypes
  <2>4. Pending' \subseteq Pending /\ Constructing' = Constructing
    BY <2>3 DEF Pending, Constructing
  <2> QED  BY <2>1, <2>2, <2>3, <2>4, CountFrame
<1>16. ASSUME NEW h \in Handlers, RecvBody(h)  PROVE  CountInv'
  <2>1. DOMAIN store' = DOMAIN store /\ \A o \in DOMAIN store : store'[o].id = store[o].id
    BY <1>0, <1>16 DEF RecvBody, Route, HandlerRest, creation, requests
  <2>2. UNCHANGED <<accepts, seq, all>>
    BY <1>16 DEF RecvBody, Route, HandlerRest, creation, requests
  <2>3. \A d \in Creators : \/ pc'[d] = pc[d] /\ reg'[d] = reg[d]
                           \/ /\ pc'[d] \notin {"increment", "construct"}
                              /\ pc[d] # "construct"
                              /\ pc'[d] \in {"head", "body", "load"} => d \in Pending
    BY <1>0, <1>16 DEF RecvBody, Route, HandlerRest, creation, requests, Go,
       Pending, ThreadTypes
  <2>4. Pending' \subseteq Pending /\ Constructing' = Constructing
    BY <2>3 DEF Pending, Constructing
  <2> QED  BY <2>1, <2>2, <2>3, <2>4, CountFrame
<1>17. ASSUME NEW h \in Handlers, ClientCloses(h)  PROVE  CountInv'
  <2>1. DOMAIN store' = DOMAIN store /\ \A o \in DOMAIN store : store'[o].id = store[o].id
    BY <1>0, <1>17 DEF ClientCloses, HandlerRest, creation, requests
  <2>2. UNCHANGED <<accepts, seq, all>>
    BY <1>17 DEF ClientCloses, HandlerRest, creation, requests
  <2>3. \A d \in Creators : \/ pc'[d] = pc[d] /\ reg'[d] = reg[d]
                           \/ /\ pc'[d] \notin {"increment", "construct"}
                              /\ pc[d] # "construct"
                              /\ pc'[d] \in {"head", "body", "load"} => d \in Pending
    BY <1>0, <1>17 DEF ClientCloses, HandlerRest, creation, requests, Go, Pending,
       ThreadTypes
  <2>4. Pending' \subseteq Pending /\ Constructing' = Constructing
    BY <2>3 DEF Pending, Constructing
  <2> QED  BY <2>1, <2>2, <2>3, <2>4, CountFrame
<1>18. ASSUME NEW h \in Readers, ListNext(h)  PROVE  CountInv'
  <2>1. DOMAIN store' = DOMAIN store /\ \A o \in DOMAIN store : store'[o].id = store[o].id
    BY <1>0, <1>18 DEF ListNext, NextKey, HandlerRest, creation, requests
  <2>2. UNCHANGED <<accepts, seq, all>>
    BY <1>18 DEF ListNext, NextKey, HandlerRest, creation, requests
  <2>3. \A d \in Creators : \/ pc'[d] = pc[d] /\ reg'[d] = reg[d]
                           \/ /\ pc'[d] \notin {"increment", "construct"}
                              /\ pc[d] # "construct"
                              /\ pc'[d] \in {"head", "body", "load"} => d \in Pending
    BY <1>0, <1>18 DEF ListNext, NextKey, HandlerRest, creation, requests, Go,
       Pending, ThreadTypes
  <2>4. Pending' \subseteq Pending /\ Constructing' = Constructing
    BY <2>3 DEF Pending, Constructing
  <2> QED  BY <2>1, <2>2, <2>3, <2>4, CountFrame
<1>19. ASSUME NEW h \in Readers, Find(h)  PROVE  CountInv'
  <2>1. DOMAIN store' = DOMAIN store /\ \A o \in DOMAIN store : store'[o].id = store[o].id
    BY <1>0, <1>19 DEF Find, HandlerRest, creation, requests
  <2>2. UNCHANGED <<accepts, seq, all>>
    BY <1>19 DEF Find, HandlerRest, creation, requests
  <2>3. \A d \in Creators : \/ pc'[d] = pc[d] /\ reg'[d] = reg[d]
                           \/ /\ pc'[d] \notin {"increment", "construct"}
                              /\ pc[d] # "construct"
                              /\ pc'[d] \in {"head", "body", "load"} => d \in Pending
    BY <1>0, <1>19 DEF Find, HandlerRest, creation, requests, Go, Pending,
       ThreadTypes
  <2>4. Pending' \subseteq Pending /\ Constructing' = Constructing
    BY <2>3 DEF Pending, Constructing
  <2> QED  BY <2>1, <2>2, <2>3, <2>4, CountFrame
<1>20. ASSUME NEW h \in Readers, BeginRead(h)  PROVE  CountInv'
  <2>1. DOMAIN store' = DOMAIN store /\ \A o \in DOMAIN store : store'[o].id = store[o].id
    BY <1>0, <1>20 DEF BeginRead, Acquire, HandlerRest, creation, requests
  <2>2. UNCHANGED <<accepts, seq, all>>
    BY <1>20 DEF BeginRead, Acquire, HandlerRest, creation, requests
  <2>3. \A d \in Creators : \/ pc'[d] = pc[d] /\ reg'[d] = reg[d]
                           \/ /\ pc'[d] \notin {"increment", "construct"}
                              /\ pc[d] # "construct"
                              /\ pc'[d] \in {"head", "body", "load"} => d \in Pending
    BY <1>0, <1>20 DEF BeginRead, Acquire, HandlerRest, creation, requests, Go,
       Pending, ThreadTypes
  <2>4. Pending' \subseteq Pending /\ Constructing' = Constructing
    BY <2>3 DEF Pending, Constructing
  <2> QED  BY <2>1, <2>2, <2>3, <2>4, CountFrame
<1>21. ASSUME NEW h \in Readers, EndRead(h)  PROVE  CountInv'
  <2>1. DOMAIN store' = DOMAIN store /\ \A o \in DOMAIN store : store'[o].id = store[o].id
    BY <1>0, <1>21 DEF EndRead, Unlocked, Release, HandlerRest, creation, requests
  <2>2. UNCHANGED <<accepts, seq, all>>
    BY <1>21 DEF EndRead, Unlocked, Release, HandlerRest, creation, requests
  <2>3. \A d \in Creators : \/ pc'[d] = pc[d] /\ reg'[d] = reg[d]
                           \/ /\ pc'[d] \notin {"increment", "construct"}
                              /\ pc[d] # "construct"
                              /\ pc'[d] \in {"head", "body", "load"} => d \in Pending
    BY <1>0, <1>21 DEF EndRead, Unlocked, Release, HandlerRest, creation,
       requests, Go, Pending, ThreadTypes
  <2>4. Pending' \subseteq Pending /\ Constructing' = Constructing
    BY <2>3 DEF Pending, Constructing
  <2> QED  BY <2>1, <2>2, <2>3, <2>4, CountFrame
<1>22. ASSUME UNCHANGED vars  PROVE  CountInv'
  BY <1>22, CountFrame DEF vars, creation, requests, Pending, Constructing
<1> QED
  BY <1>1, <1>2, <1>3, <1>4, <1>5, <1>6, <1>7, <1>8, <1>9, <1>10, <1>11,
     <1>12, <1>13, <1>14, <1>15, <1>16, <1>17, <1>18, <1>19, <1>20, <1>21,
     <1>22
  DEF Work, Create, Receive, Handle, Read, Handlers

LEMMA LockStep ==
  ASSUME ShapeInv, CountInv, LockInv, Work \/ UNCHANGED vars
  PROVE  LockInv'
<1> USE Constants
<1>0. ThreadTypes /\ StoreTypes /\ LockTypes /\ HoldInv /\ LockInv
  BY DEF ShapeInv, CountInv
<1>1. ASSUME Accept  PROVE  LockInv'
  BY <1>1, <1>0 DEF Accept, creation, requests, Go, LockInv, ThreadTypes
<1>2. ASSUME NEW c \in Creators, Load(c)  PROVE  LockInv'
  BY <1>2, <1>0 DEF Load, CreatorRest, requests, Go, LockInv, ThreadTypes
<1>3. ASSUME NEW c \in Creators, Increment(c)  PROVE  LockInv'
  BY <1>3, <1>0 DEF Increment, CreatorRest, requests, Go, LockInv, ThreadTypes
<1>4. ASSUME NEW c \in Creators, Construct(c)  PROVE  LockInv'
  BY <1>0, <1>4, Allocate DEF LockInv, ThreadTypes
<1>5. ASSUME NEW c \in Creators, Insert(c)  PROVE  LockInv'
  BY <1>5, <1>0 DEF Insert, Filed, CreatorRest, requests, Go, LockInv,
     ThreadTypes
<1>6. ASSUME NEW c \in Creators, LockNew(c)  PROVE  LockInv'
  <2>1. /\ lock[ds[c]] = Nobody /\ lock' = [lock EXCEPT ![ds[c]] = c]
        /\ pc' = [pc EXCEPT ![c] = "target"] /\ UNCHANGED ds
    BY <1>6 DEF LockNew, Acquire, Go
  <2>2. ds[c] \in DOMAIN lock
    BY <1>0, <1>6, RoomFacts DEF LockNew, HoldInv, AtStore, LockTypes
  <2> QED  BY <1>0, <2>1, <2>2 DEF LockInv, ThreadTypes
<1>7. ASSUME NEW c \in Creators, SetTarget(c)  PROVE  LockInv'
  BY <1>7, <1>0 DEF SetTarget, Configured, CreatorRest, requests, Go, LockInv,
     ThreadTypes
<1>8. ASSUME NEW c \in Creators, StartReceive(c)  PROVE  LockInv'
  <2>1. /\ lock' = [lock EXCEPT ![ds[c]] = Nobody] /\ lock[ds[c]] = c /\ c \in Workers
        /\ \E to \in {"accept", "done"} : pc' = [pc EXCEPT ![c] = to]
        /\ ds' = [ds EXCEPT ![c] = 0]
    BY <1>0, <1>8 DEF StartReceive, Release, Go, LockInv
  <2> QED  BY <1>0, <2>1 DEF LockInv, ThreadTypes, LockTypes
<1>9. ASSUME Wake  PROVE  LockInv'
  BY <1>9, <1>0 DEF Wake, ReceiverRest, requests, Go, LockInv, ThreadTypes
<1>10. ASSUME Visit  PROVE  LockInv'
  <2>1. /\ \E o : ds' = [ds EXCEPT ![Receiver] = o]
        /\ \E to \in {"sleep", "next", "lock", "first"} : pc' = [pc EXCEPT ![Receiver] = to]
        /\ UNCHANGED lock
    BY <1>0, <1>10, VisitFacts DEF ShapeInv
  <2> QED  BY <1>0, <2>1 DEF LockInv, ThreadTypes
<1>11. ASSUME FirstExchange  PROVE  LockInv'
  BY <1>11, <1>0 DEF FirstExchange, Stopped, Current, ReceiverRest, requests,
     Go, LockInv, ThreadTypes
<1>12. ASSUME BeginFetch  PROVE  LockInv'
  <2>1. /\ lock[ds[Receiver]] = Nobody /\ lock' = [lock EXCEPT ![ds[Receiver]] = Receiver]
        /\ pc' = [pc EXCEPT ![Receiver] = "fetch"] /\ UNCHANGED ds
    BY <1>12 DEF BeginFetch, Acquire, Go, Guarded, Current
  <2>2. ds[Receiver] \in DOMAIN lock
    BY <1>0, <1>12, RoomFacts DEF BeginFetch, HoldInv, AtStore, LockTypes, Guarded, Current
  <2> QED  BY <1>0, <2>1, <2>2 DEF LockInv, ThreadTypes
<1>13. ASSUME EndFetch  PROVE  LockInv'
  <2>1. /\ lock' = [lock EXCEPT ![ds[Receiver]] = Nobody] /\ lock[ds[Receiver]] = Receiver /\ Receiver \in Workers
        /\ \E to \in {"next"} : pc' = [pc EXCEPT ![Receiver] = to]
        /\ UNCHANGED ds
    BY <1>0, <1>13 DEF EndFetch, Release, Go, LockInv, Current
  <2> QED  BY <1>0, <2>1 DEF LockInv, ThreadTypes, LockTypes
<1>14. ASSUME FallSilent  PROVE  LockInv'
  BY <1>14, <1>0 DEF FallSilent, creation, requests, Go, LockInv, ThreadTypes
<1>15. ASSUME NEW h \in Handlers, RecvHead(h)  PROVE  LockInv'
  BY <1>15, <1>0 DEF RecvHead, Route, HandlerRest, creation, requests, Go,
     LockInv, ThreadTypes
<1>16. ASSUME NEW h \in Handlers, RecvBody(h)  PROVE  LockInv'
  BY <1>16, <1>0 DEF RecvBody, Route, HandlerRest, creation, requests, Go,
     LockInv, ThreadTypes
<1>17. ASSUME NEW h \in Handlers, ClientCloses(h)  PROVE  LockInv'
  BY <1>17, <1>0 DEF ClientCloses, HandlerRest, creation, requests, Go,
     LockInv, ThreadTypes
<1>18. ASSUME NEW h \in Readers, ListNext(h)  PROVE  LockInv'
  BY <1>18, <1>0 DEF ListNext, NextKey, HandlerRest, creation, requests, Go,
     LockInv, ThreadTypes
<1>19. ASSUME NEW h \in Readers, Find(h)  PROVE  LockInv'
  BY <1>19, <1>0 DEF Find, HandlerRest, creation, requests, Go, LockInv,
     ThreadTypes
<1>20. ASSUME NEW h \in Readers, BeginRead(h)  PROVE  LockInv'
  <2>1. /\ lock[ds[h]] = Nobody /\ lock' = [lock EXCEPT ![ds[h]] = h]
        /\ pc' = [pc EXCEPT ![h] = "read"] /\ UNCHANGED ds
    BY <1>20 DEF BeginRead, Acquire, Go
  <2>2. ds[h] \in DOMAIN lock
    BY <1>0, <1>20, RoomFacts DEF BeginRead, HoldInv, AtStore, LockTypes
  <2> QED  BY <1>0, <2>1, <2>2 DEF LockInv, ThreadTypes
<1>21. ASSUME NEW h \in Readers, EndRead(h)  PROVE  LockInv'
  <2>1. /\ lock' = [lock EXCEPT ![ds[h]] = Nobody] /\ lock[ds[h]] = h /\ h \in Workers
        /\ \E to \in {"list", "done"} : pc' = [pc EXCEPT ![h] = to]
        /\ UNCHANGED ds
    BY <1>0, <1>21 DEF EndRead, Release, Go, LockInv, Unlocked
  <2> QED  BY <1>0, <2>1 DEF LockInv, ThreadTypes, LockTypes
<1>22. ASSUME UNCHANGED vars  PROVE  LockInv'
  BY <1>22 DEF vars, creation, requests, LockInv, ThreadTypes
<1> QED
  BY <1>1, <1>2, <1>3, <1>4, <1>5, <1>6, <1>7, <1>8, <1>9, <1>10, <1>11,
     <1>12, <1>13, <1>14, <1>15, <1>16, <1>17, <1>18, <1>19, <1>20, <1>21,
     <1>22
  DEF Work, Create, Receive, Handle, Read, Handlers

LEMMA OwnStep ==
  ASSUME ShapeInv, OwnInv, Work \/ UNCHANGED vars
  PROVE  OwnInv'
<1> USE Constants
<1>0. ThreadTypes /\ StoreTypes /\ MapInv /\ HoldInv /\ OwnInv
  BY DEF ShapeInv, CountInv
<1>1. ASSUME Accept  PROVE  OwnInv'
  BY <1>1, <1>0 DEF Accept, creation, requests, Go, OwnInv, Making,
     ThreadTypes, HoldInv, AtStore
<1>2. ASSUME NEW c \in Creators, Load(c)  PROVE  OwnInv'
  BY <1>2, <1>0 DEF Load, CreatorRest, requests, Go, OwnInv, Making,
     ThreadTypes, HoldInv, AtStore
<1>3. ASSUME NEW c \in Creators, Increment(c)  PROVE  OwnInv'
  BY <1>3, <1>0 DEF Increment, CreatorRest, requests, Go, OwnInv, Making,
     ThreadTypes, HoldInv, AtStore
<1>4. ASSUME NEW c \in Creators, Construct(c)  PROVE  OwnInv'
  <2>1. \A d \in Creators : pc[d] \in Making => ds[d] \in DOMAIN store /\ ds[d] # Stored + 1
    BY <1>0 DEF HoldInv, AtStore, Making, StoreTypes
  <2>2. c \in DOMAIN pc /\ c \in DOMAIN ds
    BY <1>0 DEF ThreadTypes
  <2>3. /\ pc'[c] = "insert" /\ ds'[c] = Stored + 1
        /\ \A d \in Creators : d # c => pc'[d] = pc[d] /\ ds'[d] = ds[d]
    BY <1>0, <2>2, <1>4, Allocate DEF ThreadTypes
  <2>4. ~store'[Stored + 1].target /\ \A o \in DOMAIN store : store'[o] = store[o]
    BY <1>0, <1>4, Allocate
  <2> QED  BY <1>0, <2>1, <2>3, <2>4 DEF OwnInv, Making
<1>5. ASSUME NEW c \in Creators, Insert(c)  PROVE  OwnInv'
  BY <1>5, <1>0 DEF Insert, Filed, CreatorRest, requests, Go, OwnInv, Making,
     ThreadTypes, HoldInv, AtStore
<1>6. ASSUME NEW c \in Creators, LockNew(c)  PROVE  OwnInv'
  BY <1>6, <1>0 DEF LockNew, Acquire, CreatorRest, creation, requests, Go,
     OwnInv, Making, ThreadTypes, HoldInv, AtStore
<1>7. ASSUME NEW c \in Creators, SetTarget(c)  PROVE  OwnInv'
  <2>1. store' = [store EXCEPT ![ds[c]].target = TRUE] /\ ds[c] \in DOMAIN store
    BY <1>0, <1>7 DEF SetTarget, Configured, HoldInv, AtStore
  <2>2. \A o \in DOMAIN store : o # ds[c] => store'[o] = store[o]
    BY <2>1
  <2>3. /\ pc[c] = "target" /\ pc'[c] = "start" /\ UNCHANGED ds
        /\ \A d \in Creators : d # c => pc'[d] = pc[d]
    BY <1>0, <1>7 DEF SetTarget, Go, ThreadTypes
  <2> QED  BY <1>0, <2>2, <2>3 DEF OwnInv, Making, HoldInv, AtStore
<1>8. ASSUME NEW c \in Creators, StartReceive(c)  PROVE  OwnInv'
  <2>1. store' = [store EXCEPT ![ds[c]].recv = TRUE] /\ ds[c] \in DOMAIN store
    BY <1>0, <1>8 DEF StartReceive, Configured, HoldInv, AtStore
  <2>2. \A o \in DOMAIN store : store'[o].target = store[o].target
    BY <1>0, <2>1 DEF StoreTypes, StoreRecord
  <2>3. /\ pc'[c] \notin Making
        /\ \A d \in Creators : d # c => pc'[d] = pc[d] /\ ds'[d] = ds[d]
    BY <1>0, <1>8 DEF StartReceive, Go, ThreadTypes, Making
  <2> QED  BY <1>0, <2>2, <2>3, ZenonT(40) DEF OwnInv, Making, HoldInv, AtStore
<1>9. ASSUME Wake  PROVE  OwnInv'
  BY <1>9, <1>0 DEF Wake, ReceiverRest, requests, Go, OwnInv, Making,
     ThreadTypes, HoldInv, AtStore
<1>10. ASSUME Visit  PROVE  OwnInv'
  <2>1. /\ \E o : ds' = [ds EXCEPT ![Receiver] = o]
        /\ \E to : pc' = [pc EXCEPT ![Receiver] = to]
        /\ \/ store' = store
           \/ \E o \in DOMAIN store : store' = [store EXCEPT ![o].first = TRUE]
    BY <1>0, <1>10, VisitFacts
  <2>2. \A o \in DOMAIN store : store'[o].target = store[o].target
    BY <1>0, <2>1 DEF StoreTypes, StoreRecord
  <2>3. \A c \in Creators : pc'[c] = pc[c] /\ ds'[c] = ds[c]
    BY <1>0, <2>1 DEF ThreadTypes
  <2> QED  BY <1>0, <2>2, <2>3 DEF OwnInv, HoldInv, AtStore, Making
<1>11. ASSUME FirstExchange  PROVE  OwnInv'
  <2>1. Current \in DOMAIN store /\ store' \in {store, Stopped}
    BY <1>0, <1>11 DEF FirstExchange, Current, HoldInv, AtStore
  <2>2. \A o \in DOMAIN store : store'[o].target = store[o].target
    BY <1>0, <2>1, StoppedFacts
  <2>3. \A c \in Creators : pc'[c] = pc[c] /\ ds'[c] = ds[c]
    BY <1>0, <1>11 DEF FirstExchange, Go, ReceiverRest, ThreadTypes
  <2> QED  BY <1>0, <2>2, <2>3 DEF OwnInv, HoldInv, AtStore, Making
<1>12. ASSUME BeginFetch  PROVE  OwnInv'
  BY <1>12, <1>0 DEF BeginFetch, Guarded, Acquire, Current, ReceiverRest,
     requests, Go, OwnInv, Making, ThreadTypes, HoldInv, AtStore
<1>13. ASSUME EndFetch  PROVE  OwnInv'
  <2>1. Current \in DOMAIN store /\ store' \in {store, Stopped}
    BY <1>0, <1>13 DEF EndFetch, Current, HoldInv, AtStore
  <2>2. \A o \in DOMAIN store : store'[o].target = store[o].target
    BY <1>0, <2>1, StoppedFacts
  <2>3. \A c \in Creators : pc'[c] = pc[c] /\ ds'[c] = ds[c]
    BY <1>0, <1>13 DEF EndFetch, Go, ReceiverRest, ThreadTypes
  <2> QED  BY <1>0, <2>2, <2>3 DEF OwnInv, HoldInv, AtStore, Making
<1>14. ASSUME FallSilent  PROVE  OwnInv'
  BY <1>14, <1>0 DEF FallSilent, creation, requests, Go, OwnInv, Making,
     ThreadTypes, HoldInv, AtStore
<1>15. ASSUME NEW h \in Handlers, RecvHead(h)  PROVE  OwnInv'
  <2>1. UNCHANGED <<store, ds>>
    BY <1>15 DEF RecvHead, HandlerRest, creation
  <2>2. PICK n : Go(h, IF n = 2 THEN "split" ELSE IF n = 1 THEN "head"
                       ELSE IF n < Parts(h) THEN "body" ELSE Route(h)) \/ Go(h, "refused")
    BY <1>15 DEF RecvHead
  <2>3. Route(h) \notin Making
    BY DEF Route, Making
  <2>4. PICK to : Go(h, to) /\ to \notin Making
    <3>1. CASE Go(h, "refused")
      BY <3>1 DEF Making
    <3>2. CASE ~Go(h, "refused")
      <4>1. PICK to : to = IF n = 2 THEN "split" ELSE IF n = 1 THEN "head"
                           ELSE IF n < Parts(h) THEN "body" ELSE Route(h)
        OBVIOUS
      <4>2. to \notin Making
        BY <2>3, <4>1 DEF Making
      <4> QED  BY <2>2, <3>2, <4>1, <4>2
    <3> QED  BY <3>1, <3>2
  <2>5. \A c \in Creators : pc'[c] \in Making => pc'[c] = pc[c]
    BY <1>0, <2>4 DEF Go, ThreadTypes
  <2> QED  BY <2>1, <2>5 DEF OwnInv, Making
<1>16. ASSUME NEW h \in Handlers, RecvBody(h)  PROVE  OwnInv'
  BY <1>16, <1>0 DEF RecvBody, Route, HandlerRest, creation, requests, Go,
     OwnInv, Making, ThreadTypes, HoldInv, AtStore
<1>17. ASSUME NEW h \in Handlers, ClientCloses(h)  PROVE  OwnInv'
  BY <1>17, <1>0 DEF ClientCloses, HandlerRest, creation, requests, Go,
     OwnInv, Making, ThreadTypes, HoldInv, AtStore
<1>18. ASSUME NEW h \in Readers, ListNext(h)  PROVE  OwnInv'
  BY <1>18, <1>0, SMTT(40) DEF ListNext, NextKey, HandlerRest, creation, requests, Go,
     OwnInv, Making, ThreadTypes, HoldInv, AtStore
<1>19. ASSUME NEW h \in Readers, Find(h)  PROVE  OwnInv'
  BY <1>19, <1>0 DEF Find, HandlerRest, creation, requests, Go, OwnInv,
     Making, ThreadTypes, HoldInv, AtStore
<1>20. ASSUME NEW h \in Readers, BeginRead(h)  PROVE  OwnInv'
  BY <1>20, <1>0 DEF BeginRead, Acquire, HandlerRest, creation, requests, Go,
     OwnInv, Making, ThreadTypes, HoldInv, AtStore
<1>21. ASSUME NEW h \in Readers, EndRead(h)  PROVE  OwnInv'
  BY <1>21, <1>0 DEF EndRead, Unlocked, Release, HandlerRest, creation,
     requests, Go, OwnInv, Making, ThreadTypes, HoldInv, AtStore
<1>22. ASSUME UNCHANGED vars  PROVE  OwnInv'
  BY <1>22 DEF vars, creation, requests, OwnInv, Making, ThreadTypes, HoldInv,
     AtStore
<1> QED
  BY <1>1, <1>2, <1>3, <1>4, <1>5, <1>6, <1>7, <1>8, <1>9, <1>10, <1>11,
     <1>12, <1>13, <1>14, <1>15, <1>16, <1>17, <1>18, <1>19, <1>20, <1>21,
     <1>22
  DEF Work, Create, Receive, Handle, Read, Handlers

LEMMA ReadyStep ==
  ASSUME ShapeInv, OwnInv, ReadyInv, Work \/ UNCHANGED vars
  PROVE  ReadyInv'
<1> USE Constants
<1>0. ThreadTypes /\ StoreTypes /\ MapInv /\ HoldInv /\ OwnInv /\ ReadyInv
  BY DEF ShapeInv, CountInv
<1>1. ASSUME Accept  PROVE  ReadyInv'
  BY <1>1, <1>0 DEF Accept, creation, requests, Go, ReadyInv, ThreadTypes,
     HoldInv, AtStore
<1>2. ASSUME NEW c \in Creators, Load(c)  PROVE  ReadyInv'
  BY <1>2, <1>0 DEF Load, CreatorRest, requests, Go, ReadyInv, ThreadTypes,
     HoldInv, AtStore
<1>3. ASSUME NEW c \in Creators, Increment(c)  PROVE  ReadyInv'
  BY <1>3, <1>0 DEF Increment, CreatorRest, requests, Go, ReadyInv,
     ThreadTypes, HoldInv, AtStore
<1>4. ASSUME NEW c \in Creators, Construct(c)  PROVE  ReadyInv'
  <2>1. \A o \in DOMAIN store' : o \in DOMAIN store \/ o = Stored + 1
    BY <1>0, <1>4, Allocate DEF StoreTypes
  <2>2. /\ ~store'[Stored + 1].recv /\ ~store'[Stored + 1].first
        /\ \A o \in DOMAIN store : store'[o] = store[o]
    BY <1>0, <1>4, Allocate
  <2>3. \A d \in Creators : pc'[d] = "start" => pc[d] = "start" /\ ds'[d] = ds[d]
    BY <1>0, <1>4, Allocate DEF ThreadTypes
  <2> QED  BY <1>0, <2>1, <2>2, <2>3 DEF ReadyInv, HoldInv, AtStore
<1>5. ASSUME NEW c \in Creators, Insert(c)  PROVE  ReadyInv'
  BY <1>5, <1>0 DEF Insert, Filed, CreatorRest, requests, Go, ReadyInv,
     ThreadTypes, HoldInv, AtStore
<1>6. ASSUME NEW c \in Creators, LockNew(c)  PROVE  ReadyInv'
  BY <1>6, <1>0 DEF LockNew, Acquire, CreatorRest, creation, requests, Go,
     ReadyInv, ThreadTypes, HoldInv, AtStore
<1>7. ASSUME NEW c \in Creators, SetTarget(c)  PROVE  ReadyInv'
  <2>1. store' = [store EXCEPT ![ds[c]].target = TRUE] /\ ds[c] \in DOMAIN store
    BY <1>0, <1>7 DEF SetTarget, Configured, HoldInv, AtStore
  <2>2. /\ DOMAIN store' = DOMAIN store
        /\ \A o \in DOMAIN store : o # ds[c] => store'[o] = store[o]
        /\ store'[ds[c]].target = TRUE
    BY <1>0, <2>1 DEF StoreTypes, StoreRecord
  <2>3. UNCHANGED ds /\ \A d \in Creators : d # c => pc'[d] = pc[d]
    BY <1>0, <1>7 DEF SetTarget, Go, ThreadTypes
  <2>4. \A o \in DOMAIN store' : store'[o].recv \/ store'[o].first => store'[o].target
    BY <1>0, <2>2 DEF ReadyInv
  <2>5. \A d \in Creators : pc'[d] = "start" => store'[ds'[d]].target
    BY <1>0, <2>2, <2>3 DEF ReadyInv, HoldInv, AtStore
  <2> QED  BY <2>4, <2>5 DEF ReadyInv
<1>8. ASSUME NEW c \in Creators, StartReceive(c)  PROVE  ReadyInv'
  <2>1. /\ store' = [store EXCEPT ![ds[c]].recv = TRUE] /\ ds[c] \in DOMAIN store
        /\ pc[c] = "start"
    BY <1>0, <1>8 DEF StartReceive, Configured, HoldInv, AtStore
  <2>2. /\ DOMAIN store' = DOMAIN store
        /\ \A o \in DOMAIN store :
             /\ store'[o].target <=> store[o].target
             /\ store'[o].first <=> store[o].first
             /\ o # ds[c] => store'[o].recv <=> store[o].recv
    BY <1>0, <2>1 DEF StoreTypes, StoreRecord
  <2>3. /\ pc'[c] # "start"
        /\ \A d \in Creators : d # c => pc'[d] = pc[d] /\ ds'[d] = ds[d]
    BY <1>0, <1>8 DEF StartReceive, Go, ThreadTypes
  <2> QED  BY <1>0, <2>1, <2>2, <2>3 DEF ReadyInv, HoldInv, AtStore
<1>9. ASSUME Wake  PROVE  ReadyInv'
  BY <1>9, <1>0 DEF Wake, ReceiverRest, requests, Go, ReadyInv, ThreadTypes,
     HoldInv, AtStore
<1>10. ASSUME Visit  PROVE  ReadyInv'
  <2>1. /\ \E to \in {"sleep", "next", "lock", "first"} : pc' = [pc EXCEPT ![Receiver] = to]
        /\ \E o : ds' = [ds EXCEPT ![Receiver] = o]
        /\ \/ store' = store
           \/ \E o \in DOMAIN store :
                store[o].recv /\ store' = [store EXCEPT ![o].first = TRUE]
    BY <1>0, <1>10, VisitFacts
  <2>2. /\ DOMAIN store' = DOMAIN store
        /\ \A o \in DOMAIN store :
             /\ store'[o].target <=> store[o].target
             /\ store'[o].recv <=> store[o].recv
             /\ store'[o].first => store[o].first \/ store[o].recv
    BY <1>0, <2>1, SMTT(40) DEF StoreTypes, StoreRecord
  <2>3. \A c \in Creators : pc'[c] = pc[c] /\ ds'[c] = ds[c]
    BY <1>0, <2>1 DEF ThreadTypes
  <2>4. \A o \in DOMAIN store' : store'[o].recv \/ store'[o].first => store'[o].target
    BY <1>0, <2>2 DEF ReadyInv
  <2>5. \A c \in Creators : pc'[c] = "start" => store'[ds'[c]].target
    BY <1>0, <2>2, <2>3 DEF ReadyInv, HoldInv, AtStore
  <2> QED  BY <2>4, <2>5 DEF ReadyInv
<1>11. ASSUME FirstExchange  PROVE  ReadyInv'
  <2>1. Current \in DOMAIN store /\ store' \in {store, Stopped}
    BY <1>0, <1>11 DEF FirstExchange, Current, HoldInv, AtStore
  <2>2. /\ DOMAIN store' = DOMAIN store
        /\ \A o \in DOMAIN store :
             /\ store'[o].target <=> store[o].target
             /\ store'[o].first <=> store[o].first
             /\ store'[o].recv => store[o].recv
    BY <1>0, <2>1, StoppedFacts
  <2>3. \A c \in Creators : pc'[c] = pc[c] /\ ds'[c] = ds[c]
    BY <1>0, <1>11 DEF FirstExchange, Go, ReceiverRest, ThreadTypes
  <2>4. \A o \in DOMAIN store' : store'[o].recv \/ store'[o].first => store'[o].target
    BY <1>0, <2>2 DEF ReadyInv
  <2>5. \A c \in Creators : pc'[c] = "start" => store'[ds'[c]].target
    BY <1>0, <2>2, <2>3 DEF ReadyInv, HoldInv, AtStore
  <2> QED  BY <2>4, <2>5 DEF ReadyInv
<1>12. ASSUME BeginFetch  PROVE  ReadyInv'
  BY <1>12, <1>0 DEF BeginFetch, Guarded, Acquire, Current, ReceiverRest,
     requests, Go, ReadyInv, ThreadTypes, HoldInv, AtStore
<1>13. ASSUME EndFetch  PROVE  ReadyInv'
  <2>1. Current \in DOMAIN store /\ store' \in {store, Stopped}
    BY <1>0, <1>13 DEF EndFetch, Current, HoldInv, AtStore
  <2>2. /\ DOMAIN store' = DOMAIN store
        /\ \A o \in DOMAIN store :
             /\ store'[o].target <=> store[o].target
             /\ store'[o].first <=> store[o].first
             /\ store'[o].recv => store[o].recv
    BY <1>0, <2>1, StoppedFacts
  <2>3. \A c \in Creators : pc'[c] = pc[c] /\ ds'[c] = ds[c]
    BY <1>0, <1>13 DEF EndFetch, Go, ReceiverRest, ThreadTypes
  <2>4. \A o \in DOMAIN store' : store'[o].recv \/ store'[o].first => store'[o].target
    BY <1>0, <2>2 DEF ReadyInv
  <2>5. \A c \in Creators : pc'[c] = "start" => store'[ds'[c]].target
    BY <1>0, <2>2, <2>3 DEF ReadyInv, HoldInv, AtStore
  <2> QED  BY <2>4, <2>5 DEF ReadyInv
<1>14. ASSUME FallSilent  PROVE  ReadyInv'
  BY <1>14, <1>0 DEF FallSilent, creation, requests, Go, ReadyInv,
     ThreadTypes, HoldInv, AtStore
<1>15. ASSUME NEW h \in Handlers, RecvHead(h)  PROVE  ReadyInv'
  BY <1>15, <1>0 DEF RecvHead, Route, HandlerRest, creation, requests, Go,
     ReadyInv, ThreadTypes, HoldInv, AtStore
<1>16. ASSUME NEW h \in Handlers, RecvBody(h)  PROVE  ReadyInv'
  BY <1>16, <1>0 DEF RecvBody, Route, HandlerRest, creation, requests, Go,
     ReadyInv, ThreadTypes, HoldInv, AtStore
<1>17. ASSUME NEW h \in Handlers, ClientCloses(h)  PROVE  ReadyInv'
  BY <1>17, <1>0 DEF ClientCloses, HandlerRest, creation, requests, Go,
     ReadyInv, ThreadTypes, HoldInv, AtStore
<1>18. ASSUME NEW h \in Readers, ListNext(h)  PROVE  ReadyInv'
  BY <1>18, <1>0 DEF ListNext, NextKey, HandlerRest, creation, requests, Go,
     ReadyInv, ThreadTypes, HoldInv, AtStore
<1>19. ASSUME NEW h \in Readers, Find(h)  PROVE  ReadyInv'
  BY <1>19, <1>0 DEF Find, HandlerRest, creation, requests, Go, ReadyInv,
     ThreadTypes, HoldInv, AtStore
<1>20. ASSUME NEW h \in Readers, BeginRead(h)  PROVE  ReadyInv'
  BY <1>20, <1>0 DEF BeginRead, Acquire, HandlerRest, creation, requests, Go,
     ReadyInv, ThreadTypes, HoldInv, AtStore
<1>21. ASSUME NEW h \in Readers, EndRead(h)  PROVE  ReadyInv'
  BY <1>21, <1>0 DEF EndRead, Unlocked, Release, HandlerRest, creation,
     requests, Go, ReadyInv, ThreadTypes, HoldInv, AtStore
<1>22. ASSUME UNCHANGED vars  PROVE  ReadyInv'
  BY <1>22 DEF vars, creation, requests, ReadyInv, ThreadTypes, HoldInv,
     AtStore
<1> QED
  BY <1>1, <1>2, <1>3, <1>4, <1>5, <1>6, <1>7, <1>8, <1>9, <1>10, <1>11,
     <1>12, <1>13, <1>14, <1>15, <1>16, <1>17, <1>18, <1>19, <1>20, <1>21,
     <1>22
  DEF Work, Create, Receive, Handle, Read, Handlers

\* A step of no creation, that changes no id.
LEMMA OrderFrame ==
  ASSUME ShapeInv, AloneInv, PlacedInv,
         DOMAIN store' = DOMAIN store, \A o \in DOMAIN store : store'[o].id = store[o].id,
         UNCHANGED <<seq, all, clash>>,
         \A d \in Creators :
           \/ pc'[d] = pc[d] /\ reg'[d] = reg[d] /\ met'[d] = met[d] /\ ds'[d] = ds[d]
           \/ {pc[d], pc'[d]} \cap {"increment", "construct", "insert"} = {}
  PROVE  AloneInv' /\ PlacedInv'
<1>1. Creating' = Creating
  BY DEF Creating
<1>2. AloneInv'
  <2>1. \A d \in Creators : pc[d] = "insert" => ds[d] \in DOMAIN store
    BY Constants DEF ShapeInv, HoldInv, AtStore
  <2>2. \A d \in Creators : d \in Creating => met'[d] = met[d] /\ ds'[d] = ds[d] /\ pc'[d] = pc[d]
    BY DEF Creating
  <2>3. \A d \in Creators : pc'[d] = "insert" => d \in Creating /\ pc[d] = "insert"
    BY DEF Creating
  <2> QED  BY <1>1, <2>1, <2>2, <2>3 DEF AloneInv
<1>3. \A o \in DOMAIN store : Settled(o)' => Settled(o)
  BY DEF Settled
<1>4. PlacedInv'
  BY <1>3 DEF PlacedInv
<1> QED  BY <1>2, <1>4

LEMMA OrderStep ==
  ASSUME ShapeInv, AloneInv, PlacedInv, Work \/ UNCHANGED vars
  PROVE  AloneInv' /\ PlacedInv'
<1> USE Constants
<1>0. ThreadTypes /\ StoreTypes /\ MapInv /\ HoldInv
  BY DEF ShapeInv
<1>1. ASSUME Accept  PROVE  AloneInv' /\ PlacedInv'
  <2>1. DOMAIN store' = DOMAIN store /\ \A o \in DOMAIN store : store'[o].id = store[o].id
    BY <1>0, <1>1 DEF Accept, creation, requests
  <2>2. UNCHANGED <<seq, all, clash>>
    BY <1>1 DEF Accept, creation, requests
  <2>3. \A d \in Creators :
          \/ pc'[d] = pc[d] /\ reg'[d] = reg[d] /\ met'[d] = met[d] /\ ds'[d] = ds[d]
          \/ {pc[d], pc'[d]} \cap {"increment", "construct", "insert"} = {}
    BY <1>0, <1>1 DEF Accept, creation, requests, Go, ThreadTypes
  <2> QED  BY <2>1, <2>2, <2>3, OrderFrame
<1>2. ASSUME NEW c \in Creators, Load(c)  PROVE  AloneInv' /\ PlacedInv'
  <2>1. /\ pc[c] = "load" /\ pc'[c] = "increment" /\ reg'[c] = seq
        /\ met'[c] = (Creating # {})
        /\ \A d \in Creators : d # c =>
             pc'[d] = pc[d] /\ reg'[d] = reg[d] /\ (d \in Creating => met'[d])
        /\ UNCHANGED <<seq, all, store, clash, ds>>
    BY <1>0, <1>2 DEF Load, Go, ThreadTypes
  <2>2. Creating' = Creating \cup {c} /\ c \notin Creating
    BY <2>1 DEF Creating
  <2>3. AloneInv'
    <3>1. \A d \in Creators : d \in Creating' /\ ~met'[d] => Creating' = {d}
      BY <2>1, <2>2
    <3>2. \A d \in Creators : pc'[d] = "insert" /\ ~met'[d] => d # c /\ pc[d] = "insert"
      BY <2>1
    <3>3. \A d \in Creators : ~(pc'[d] = "insert" /\ ~met'[d])
      BY <2>1, <3>2 DEF Creating
    <3> QED  BY <3>1, <3>3 DEF AloneInv
  <2>4. \A o \in DOMAIN store : Settled(o)' => Settled(o)
    BY <2>1 DEF Settled
  <2>5. PlacedInv'
    BY <2>1, <2>4 DEF PlacedInv
  <2> QED  BY <2>3, <2>5
<1>3. ASSUME NEW c \in Creators, Increment(c)  PROVE  AloneInv' /\ PlacedInv'
  <2>1. /\ pc[c] = "increment" /\ pc'[c] = "construct" /\ seq' = reg[c] + 1
        /\ \A d \in Creators : d # c => pc'[d] = pc[d]
        /\ UNCHANGED <<all, store, clash, ds, reg, met>>
    BY <1>0, <1>3 DEF Increment, Go, ThreadTypes
  <2>2. Creating' = Creating /\ c \in Creating
    BY <2>1 DEF Creating
  <2>3. AloneInv'
    <3>1. \A d \in Creators : ~(pc'[d] = "insert" /\ ~met'[d])
      BY <2>1, <2>2 DEF AloneInv, Creating
    <3> QED  BY <2>1, <2>2, <3>1 DEF AloneInv
  <2>4. \A o \in DOMAIN store : Settled(o)' => Settled(o)
    BY <2>1 DEF Settled
  <2>5. ASSUME NEW o \in DOMAIN store, Settled(o)
        PROVE  /\ store[o].id < seq'
               /\ \A d \in Creators : pc'[d] = "increment" => store[o].id <= reg[d]
               /\ store[o].id \in DOMAIN all /\ all[store[o].id] = o
    <3>1. store[o].id \in Nat /\ reg[c] \in Nat
      BY <1>0 DEF StoreTypes, StoreRecord, ThreadTypes
    <3>2. store[o].id <= reg[c]
      BY <2>1, <2>5 DEF PlacedInv
    <3>3. \A d \in Creators : pc'[d] = "increment" => pc[d] = "increment"
      BY <2>1
    <3> QED  BY <2>1, <2>5, <3>1, <3>2, <3>3 DEF PlacedInv
  <2>6. seq' \in Nat /\ \A o \in DOMAIN store : store[o].id \in Nat
    BY <1>0, <2>1 DEF ThreadTypes, StoreTypes, StoreRecord
  <2>7. PlacedInv'
    BY <2>1, <2>4, <2>5, <2>6 DEF PlacedInv
  <2> QED  BY <2>3, <2>7
<1>4. ASSUME NEW c \in Creators, Construct(c)  PROVE  AloneInv' /\ PlacedInv'
  <2>1. /\ pc[c] = "construct" /\ pc'[c] = "insert" /\ ds'[c] = Stored + 1
        /\ \A d \in Creators : d # c => pc'[d] = pc[d] /\ ds'[d] = ds[d]
        /\ UNCHANGED <<seq, all, clash, reg, met>>
    BY <1>0, <1>4, Allocate DEF ThreadTypes
  <2>2. /\ store'[Stored + 1].id = seq /\ Stored + 1 \notin DOMAIN store
        /\ \A o \in DOMAIN store : store'[o] = store[o]
        /\ \A o \in DOMAIN store' : o \in DOMAIN store \/ o = Stored + 1
    BY <1>0, <1>4, Allocate DEF StoreTypes
  <2>3. Creating' = Creating /\ c \in Creating
    BY <2>1 DEF Creating
  <2>4. AloneInv'
    <3>1. \A d \in Creators : pc'[d] = "insert" /\ ~met'[d] => d = c
      BY <2>1, <2>3 DEF AloneInv, Creating
    <3> QED  BY <2>1, <2>2, <2>3, <3>1 DEF AloneInv
  <2>5. ASSUME NEW o \in DOMAIN store', Settled(o)'
        PROVE  o \in DOMAIN store /\ Settled(o)
    <3>1. o # Stored + 1
      BY <2>1, <2>5 DEF Settled
    <3> QED  BY <2>1, <2>2, <2>5, <3>1 DEF Settled
  <2>6. \A d \in Creators : /\ pc'[d] = "increment" => pc[d] = "increment"
                            /\ pc'[d] \in {"construct", "insert"} => pc[d] \in {"construct", "insert"}
    BY <2>1
  <2>7. PlacedInv'
    BY <2>1, <2>2, <2>5, <2>6 DEF PlacedInv
  <2> QED  BY <2>4, <2>7
<1>5. ASSUME NEW c \in Creators, Insert(c)  PROVE  AloneInv' /\ PlacedInv'
  <2>1. /\ pc[c] = "insert" /\ pc'[c] = "configure"
        /\ \A d \in Creators : d # c => pc'[d] = pc[d]
        /\ UNCHANGED <<seq, store, ds, reg, met>>
        /\ clash' = IF met[c] THEN clash \cup {ds[c]} ELSE clash
        /\ all' = [i \in DOMAIN all \cup {seq} |-> IF i = seq THEN ds[c] ELSE all[i]]
    BY <1>0, <1>5 DEF Insert, Filed, Go, ThreadTypes
  <2>2. Creating' = Creating \ {c} /\ c \in Creating
    BY <2>1 DEF Creating
  <2>3. AloneInv'
    BY <2>1, <2>2 DEF AloneInv
  <2>4. ASSUME NEW o \in DOMAIN store, Settled(o)', o # ds[c]
        PROVE  /\ Settled(o) /\ store[o].id < seq
               /\ store[o].id \in DOMAIN all' /\ all'[store[o].id] = o
    <3>1. Settled(o)
      BY <2>1, <2>4 DEF Settled
    <3>2. store[o].id < seq /\ store[o].id \in DOMAIN all /\ all[store[o].id] = o
      BY <2>1, <3>1 DEF PlacedInv
    <3>3. store[o].id # seq
      BY <1>0, <3>2 DEF StoreTypes, StoreRecord
    <3> QED  BY <2>1, <3>1, <3>2, <3>3
  <2>5. ASSUME NEW o \in DOMAIN store, Settled(o)', o = ds[c]
        PROVE  /\ store[o].id = seq /\ seq \in DOMAIN all' /\ all'[seq] = o
               /\ Creating = {c}
    <3>1. ~met[c]
      BY <2>1, <2>5 DEF Settled
    <3>2. store[ds[c]].id = seq
      BY <2>1, <3>1 DEF AloneInv
    <3>3. Creating = {c}
      BY <2>2, <3>1 DEF AloneInv
    <3>4. seq \in DOMAIN all' /\ all'[seq] = ds[c]
      BY <2>1
    <3> QED  BY <2>5, <3>2, <3>3, <3>4
  <2>6. ASSUME NEW o \in DOMAIN store, Settled(o)'
        PROVE  LET id == store[o].id IN
               /\ id \in DOMAIN all' /\ all'[id] = o
               /\ id <= seq
               /\ \A d \in Creators : pc'[d] = "increment" => id <= reg[d]
               /\ \A d \in Creators : pc'[d] \in {"construct", "insert"} => id < seq
    <3>1. CASE o = ds[c]
      <4>1. \A d \in Creators : pc'[d] \notin {"increment", "construct", "insert"}
        BY <2>1, <2>5, <2>6, <3>1 DEF Creating
      <4> QED  BY <1>0, <2>5, <2>6, <3>1, <4>1 DEF StoreTypes
    <3>2. CASE o # ds[c]
      <4>1. /\ Settled(o) /\ store[o].id < seq
            /\ store[o].id \in DOMAIN all' /\ all'[store[o].id] = o
        BY <2>4, <2>6, <3>2
      <4>2. /\ store[o].id <= seq
            /\ \A d \in Creators : pc[d] = "increment" => store[o].id <= reg[d]
        BY <4>1 DEF PlacedInv
      <4>3. \A d \in Creators : pc'[d] = "increment" => pc[d] = "increment"
        BY <2>1
      <4> QED  BY <4>1, <4>2, <4>3
    <3> QED  BY <3>1, <3>2
  <2>7. PlacedInv'
    BY <2>1, <2>6 DEF PlacedInv
  <2> QED  BY <2>3, <2>7
<1>6. ASSUME NEW c \in Creators, LockNew(c)  PROVE  AloneInv' /\ PlacedInv'
  <2>1. DOMAIN store' = DOMAIN store /\ \A o \in DOMAIN store : store'[o].id = store[o].id
    BY <1>0, <1>6 DEF LockNew, Acquire, CreatorRest, creation, requests
  <2>2. UNCHANGED <<seq, all, clash>>
    BY <1>6 DEF LockNew, Acquire, CreatorRest, creation, requests
  <2>3. \A d \in Creators :
          \/ pc'[d] = pc[d] /\ reg'[d] = reg[d] /\ met'[d] = met[d] /\ ds'[d] = ds[d]
          \/ {pc[d], pc'[d]} \cap {"increment", "construct", "insert"} = {}
    BY <1>0, <1>6 DEF LockNew, Acquire, CreatorRest, creation, requests, Go,
       ThreadTypes
  <2> QED  BY <2>1, <2>2, <2>3, OrderFrame
<1>7. ASSUME NEW c \in Creators, SetTarget(c)  PROVE  AloneInv' /\ PlacedInv'
  <2>1. DOMAIN store' = DOMAIN store /\ \A o \in DOMAIN store : store'[o].id = store[o].id
    <3>1. store' = [store EXCEPT ![ds[c]].target = TRUE] /\ ds[c] \in DOMAIN store
      BY <1>0, <1>7 DEF SetTarget, Configured, HoldInv, AtStore
    <3> QED  BY <1>0, <3>1, StoreExcept
  <2>2. UNCHANGED <<seq, all, clash>>
    BY <1>7 DEF SetTarget, Configured, CreatorRest, requests
  <2>3. \A d \in Creators :
          \/ pc'[d] = pc[d] /\ reg'[d] = reg[d] /\ met'[d] = met[d] /\ ds'[d] = ds[d]
          \/ {pc[d], pc'[d]} \cap {"increment", "construct", "insert"} = {}
    BY <1>0, <1>7 DEF SetTarget, Configured, CreatorRest, requests, Go,
       ThreadTypes
  <2> QED  BY <2>1, <2>2, <2>3, OrderFrame
<1>8. ASSUME NEW c \in Creators, StartReceive(c)  PROVE  AloneInv' /\ PlacedInv'
  <2>1. DOMAIN store' = DOMAIN store /\ \A o \in DOMAIN store : store'[o].id = store[o].id
    <3>1. store' = [store EXCEPT ![ds[c]].recv = TRUE] /\ ds[c] \in DOMAIN store
      BY <1>0, <1>8 DEF StartReceive, Configured, HoldInv, AtStore
    <3> QED  BY <1>0, <3>1, StoreExcept
  <2>2. UNCHANGED <<seq, all, clash>>
    BY <1>8 DEF StartReceive, Configured, Release, CreatorRest, requests
  <2>3. \A d \in Creators :
          \/ pc'[d] = pc[d] /\ reg'[d] = reg[d] /\ met'[d] = met[d] /\ ds'[d] = ds[d]
          \/ {pc[d], pc'[d]} \cap {"increment", "construct", "insert"} = {}
    BY <1>0, <1>8 DEF StartReceive, Configured, Release, CreatorRest, requests,
       Go, ThreadTypes
  <2> QED  BY <2>1, <2>2, <2>3, OrderFrame
<1>9. ASSUME Wake  PROVE  AloneInv' /\ PlacedInv'
  <2>1. DOMAIN store' = DOMAIN store /\ \A o \in DOMAIN store : store'[o].id = store[o].id
    BY <1>0, <1>9 DEF Wake, ReceiverRest, requests
  <2>2. UNCHANGED <<seq, all, clash>>
    BY <1>9 DEF Wake, ReceiverRest, requests
  <2>3. \A d \in Creators :
          \/ pc'[d] = pc[d] /\ reg'[d] = reg[d] /\ met'[d] = met[d] /\ ds'[d] = ds[d]
          \/ {pc[d], pc'[d]} \cap {"increment", "construct", "insert"} = {}
    BY <1>0, <1>9 DEF Wake, ReceiverRest, requests, Go, ThreadTypes
  <2> QED  BY <2>1, <2>2, <2>3, OrderFrame
<1>10. ASSUME Visit  PROVE  AloneInv' /\ PlacedInv'
  <2>1. DOMAIN store' = DOMAIN store /\ \A o \in DOMAIN store : store'[o].id = store[o].id
    BY <1>0, <1>10, VisitFacts, StoreExcept
  <2>2. UNCHANGED <<seq, all, clash>>
    BY <1>10 DEF Visit, NextKey, ReceiverRest, requests
  <2>3. \A d \in Creators :
          \/ pc'[d] = pc[d] /\ reg'[d] = reg[d] /\ met'[d] = met[d] /\ ds'[d] = ds[d]
          \/ {pc[d], pc'[d]} \cap {"increment", "construct", "insert"} = {}
    BY <1>0, <1>10, VisitFacts DEF Visit, NextKey, ReceiverRest, requests, Go,
       ThreadTypes
  <2> QED  BY <2>1, <2>2, <2>3, OrderFrame
<1>11. ASSUME FirstExchange  PROVE  AloneInv' /\ PlacedInv'
  <2>1. DOMAIN store' = DOMAIN store /\ \A o \in DOMAIN store : store'[o].id = store[o].id
    <3>1. Current \in DOMAIN store /\ store' \in {store, Stopped}
      BY <1>0, <1>11 DEF FirstExchange, Current, HoldInv, AtStore
    <3> QED  BY <1>0, <3>1, StoppedFacts
  <2>2. UNCHANGED <<seq, all, clash>>
    BY <1>11 DEF FirstExchange, Stopped, Current, ReceiverRest, requests
  <2>3. \A d \in Creators :
          \/ pc'[d] = pc[d] /\ reg'[d] = reg[d] /\ met'[d] = met[d] /\ ds'[d] = ds[d]
          \/ {pc[d], pc'[d]} \cap {"increment", "construct", "insert"} = {}
    BY <1>0, <1>11 DEF FirstExchange, Stopped, Current, ReceiverRest, requests,
       Go, ThreadTypes
  <2> QED  BY <2>1, <2>2, <2>3, OrderFrame
<1>12. ASSUME BeginFetch  PROVE  AloneInv' /\ PlacedInv'
  <2>1. DOMAIN store' = DOMAIN store /\ \A o \in DOMAIN store : store'[o].id = store[o].id
    BY <1>0, <1>12 DEF BeginFetch, Guarded, Acquire, Current, ReceiverRest,
       requests
  <2>2. UNCHANGED <<seq, all, clash>>
    BY <1>12 DEF BeginFetch, Guarded, Acquire, Current, ReceiverRest, requests
  <2>3. \A d \in Creators :
          \/ pc'[d] = pc[d] /\ reg'[d] = reg[d] /\ met'[d] = met[d] /\ ds'[d] = ds[d]
          \/ {pc[d], pc'[d]} \cap {"increment", "construct", "insert"} = {}
    BY <1>0, <1>12 DEF BeginFetch, Guarded, Acquire, Current, ReceiverRest,
       requests, Go, ThreadTypes
  <2> QED  BY <2>1, <2>2, <2>3, OrderFrame
<1>13. ASSUME EndFetch  PROVE  AloneInv' /\ PlacedInv'
  <2>1. DOMAIN store' = DOMAIN store /\ \A o \in DOMAIN store : store'[o].id = store[o].id
    <3>1. Current \in DOMAIN store /\ store' \in {store, Stopped}
      BY <1>0, <1>13 DEF EndFetch, Current, HoldInv, AtStore
    <3> QED  BY <1>0, <3>1, StoppedFacts
  <2>2. UNCHANGED <<seq, all, clash>>
    BY <1>13 DEF EndFetch, Stopped, Current, Release, ReceiverRest, requests
  <2>3. \A d \in Creators :
          \/ pc'[d] = pc[d] /\ reg'[d] = reg[d] /\ met'[d] = met[d] /\ ds'[d] = ds[d]
          \/ {pc[d], pc'[d]} \cap {"increment", "construct", "insert"} = {}
    BY <1>0, <1>13 DEF EndFetch, Stopped, Current, Release, ReceiverRest,
       requests, Go, ThreadTypes
  <2> QED  BY <2>1, <2>2, <2>3, OrderFrame
<1>14. ASSUME FallSilent  PROVE  AloneInv' /\ PlacedInv'
  <2>1. DOMAIN store' = DOMAIN store /\ \A o \in DOMAIN store : store'[o].id = store[o].id
    BY <1>0, <1>14 DEF FallSilent, creation, requests
  <2>2. UNCHANGED <<seq, all, clash>>
    BY <1>14 DEF FallSilent, creation, requests
  <2>3. \A d \in Creators :
          \/ pc'[d] = pc[d] /\ reg'[d] = reg[d] /\ met'[d] = met[d] /\ ds'[d] = ds[d]
          \/ {pc[d], pc'[d]} \cap {"increment", "construct", "insert"} = {}
    BY <1>0, <1>14 DEF FallSilent, creation, requests, Go, ThreadTypes
  <2> QED  BY <2>1, <2>2, <2>3, OrderFrame
<1>15. ASSUME NEW h \in Handlers, RecvHead(h)  PROVE  AloneInv' /\ PlacedInv'
  <2>1. DOMAIN store' = DOMAIN store /\ \A o \in DOMAIN store : store'[o].id = store[o].id
    BY <1>0, <1>15 DEF RecvHead, Route, HandlerRest, creation, requests
  <2>2. UNCHANGED <<seq, all, clash>>
    BY <1>15 DEF RecvHead, Route, HandlerRest, creation, requests
  <2>3. \A d \in Creators :
          \/ pc'[d] = pc[d] /\ reg'[d] = reg[d] /\ met'[d] = met[d] /\ ds'[d] = ds[d]
          \/ {pc[d], pc'[d]} \cap {"increment", "construct", "insert"} = {}
    BY <1>0, <1>15 DEF RecvHead, Route, HandlerRest, creation, requests, Go,
       ThreadTypes
  <2> QED  BY <2>1, <2>2, <2>3, OrderFrame
<1>16. ASSUME NEW h \in Handlers, RecvBody(h)  PROVE  AloneInv' /\ PlacedInv'
  <2>1. DOMAIN store' = DOMAIN store /\ \A o \in DOMAIN store : store'[o].id = store[o].id
    BY <1>0, <1>16 DEF RecvBody, Route, HandlerRest, creation, requests
  <2>2. UNCHANGED <<seq, all, clash>>
    BY <1>16 DEF RecvBody, Route, HandlerRest, creation, requests
  <2>3. \A d \in Creators :
          \/ pc'[d] = pc[d] /\ reg'[d] = reg[d] /\ met'[d] = met[d] /\ ds'[d] = ds[d]
          \/ {pc[d], pc'[d]} \cap {"increment", "construct", "insert"} = {}
    BY <1>0, <1>16 DEF RecvBody, Route, HandlerRest, creation, requests, Go,
       ThreadTypes
  <2> QED  BY <2>1, <2>2, <2>3, OrderFrame
<1>17. ASSUME NEW h \in Handlers, ClientCloses(h)  PROVE  AloneInv' /\ PlacedInv'
  <2>1. DOMAIN store' = DOMAIN store /\ \A o \in DOMAIN store : store'[o].id = store[o].id
    BY <1>0, <1>17 DEF ClientCloses, HandlerRest, creation, requests
  <2>2. UNCHANGED <<seq, all, clash>>
    BY <1>17 DEF ClientCloses, HandlerRest, creation, requests
  <2>3. \A d \in Creators :
          \/ pc'[d] = pc[d] /\ reg'[d] = reg[d] /\ met'[d] = met[d] /\ ds'[d] = ds[d]
          \/ {pc[d], pc'[d]} \cap {"increment", "construct", "insert"} = {}
    BY <1>0, <1>17 DEF ClientCloses, HandlerRest, creation, requests, Go,
       ThreadTypes
  <2> QED  BY <2>1, <2>2, <2>3, OrderFrame
<1>18. ASSUME NEW h \in Readers, ListNext(h)  PROVE  AloneInv' /\ PlacedInv'
  <2>1. DOMAIN store' = DOMAIN store /\ \A o \in DOMAIN store : store'[o].id = store[o].id
    BY <1>0, <1>18 DEF ListNext, NextKey, HandlerRest, creation, requests
  <2>2. UNCHANGED <<seq, all, clash>>
    BY <1>18 DEF ListNext, NextKey, HandlerRest, creation, requests
  <2>3. \A d \in Creators :
          \/ pc'[d] = pc[d] /\ reg'[d] = reg[d] /\ met'[d] = met[d] /\ ds'[d] = ds[d]
          \/ {pc[d], pc'[d]} \cap {"increment", "construct", "insert"} = {}
    BY <1>0, <1>18 DEF ListNext, NextKey, HandlerRest, creation, requests, Go,
       ThreadTypes
  <2> QED  BY <2>1, <2>2, <2>3, OrderFrame
<1>19. ASSUME NEW h \in Readers, Find(h)  PROVE  AloneInv' /\ PlacedInv'
  <2>1. DOMAIN store' = DOMAIN store /\ \A o \in DOMAIN store : store'[o].id = store[o].id
    BY <1>0, <1>19 DEF Find, HandlerRest, creation, requests
  <2>2. UNCHANGED <<seq, all, clash>>
    BY <1>19 DEF Find, HandlerRest, creation, requests
  <2>3. \A d \in Creators :
          \/ pc'[d] = pc[d] /\ reg'[d] = reg[d] /\ met'[d] = met[d] /\ ds'[d] = ds[d]
          \/ {pc[d], pc'[d]} \cap {"increment", "construct", "insert"} = {}
    BY <1>0, <1>19 DEF Find, HandlerRest, creation, requests, Go, ThreadTypes
  <2> QED  BY <2>1, <2>2, <2>3, OrderFrame
<1>20. ASSUME NEW h \in Readers, BeginRead(h)  PROVE  AloneInv' /\ PlacedInv'
  <2>1. DOMAIN store' = DOMAIN store /\ \A o \in DOMAIN store : store'[o].id = store[o].id
    BY <1>0, <1>20 DEF BeginRead, Acquire, HandlerRest, creation, requests
  <2>2. UNCHANGED <<seq, all, clash>>
    BY <1>20 DEF BeginRead, Acquire, HandlerRest, creation, requests
  <2>3. \A d \in Creators :
          \/ pc'[d] = pc[d] /\ reg'[d] = reg[d] /\ met'[d] = met[d] /\ ds'[d] = ds[d]
          \/ {pc[d], pc'[d]} \cap {"increment", "construct", "insert"} = {}
    BY <1>0, <1>20 DEF BeginRead, Acquire, HandlerRest, creation, requests, Go,
       ThreadTypes
  <2> QED  BY <2>1, <2>2, <2>3, OrderFrame
<1>21. ASSUME NEW h \in Readers, EndRead(h)  PROVE  AloneInv' /\ PlacedInv'
  <2>1. DOMAIN store' = DOMAIN store /\ \A o \in DOMAIN store : store'[o].id = store[o].id
    BY <1>0, <1>21 DEF EndRead, Unlocked, Release, HandlerRest, creation, requests
  <2>2. UNCHANGED <<seq, all, clash>>
    BY <1>21 DEF EndRead, Unlocked, Release, HandlerRest, creation, requests
  <2>3. \A d \in Creators :
          \/ pc'[d] = pc[d] /\ reg'[d] = reg[d] /\ met'[d] = met[d] /\ ds'[d] = ds[d]
          \/ {pc[d], pc'[d]} \cap {"increment", "construct", "insert"} = {}
    BY <1>0, <1>21 DEF EndRead, Unlocked, Release, HandlerRest, creation,
       requests, Go, ThreadTypes
  <2> QED  BY <2>1, <2>2, <2>3, OrderFrame
<1>22. ASSUME UNCHANGED vars  PROVE  AloneInv' /\ PlacedInv'
  BY <1>22, OrderFrame DEF vars, creation, requests
<1> QED
  BY <1>1, <1>2, <1>3, <1>4, <1>5, <1>6, <1>7, <1>8, <1>9, <1>10, <1>11,
     <1>12, <1>13, <1>14, <1>15, <1>16, <1>17, <1>18, <1>19, <1>20, <1>21,
     <1>22
  DEF Work, Create, Receive, Handle, Read, Handlers

(***************************************************************************)
(* The theorems.                                                           *)
(***************************************************************************)

LEMMA InitInv == Init => RunInv
<1> SUFFICES ASSUME Init  PROVE RunInv
  OBVIOUS
<1> USE Constants
<1>1. /\ DOMAIN store = {} /\ DOMAIN all = {} /\ clash = {} /\ seq = 0 /\ accepts = 0
      /\ \A t \in Workers : /\ pc[t] \in {"accept", "sleep", "head"}
                            /\ ds[t] = 0
  BY DEF Init
<1>2. Stored = 0
  BY <1>1, FS_EmptySet DEF Stored
<1>3. ThreadTypes
  <2>1. pc \in [Workers -> Pcs]
    BY DEF Init, Pcs
  <2>2. ds \in [Workers -> Nat]
    BY DEF Init
  <2>3. reg \in [Creators -> Nat] /\ met \in [Creators -> BOOLEAN]
    BY DEF Init
  <2>4. accepts \in 0 .. MaxAccepts
    BY <1>1
  <2>5. silent \in BOOLEAN
    BY DEF Init
  <2> QED  BY <2>1, <2>2, <2>3, <2>4, <2>5 DEF ThreadTypes
<1>4. StoreTypes /\ MapInv /\ HoldInv /\ LockTypes
  BY <1>1, <1>2 DEF Init, StoreTypes, MapInv, HoldInv, AtStore, LockTypes
<1>5. CountInv
  <2>1. Pending \subseteq Openers /\ Constructing = {}
    BY <1>1 DEF Init, Pending, Constructing, Creators, Workers
  <2>2. Cardinality(Pending) <= Cardinality(Openers) /\ Cardinality(Pending) \in Nat
    BY <2>1, MonitorConstants, FS_Subset, FS_CardinalityType DEF MonitorConstants
  <2>3. Cardinality(Constructing) = 0
    BY <2>1, FS_EmptySet
  <2>4. Room
    BY <1>1, <1>2, <2>2 DEF Room
  <2>5. IdInv
    BY <1>1, <1>2, <2>3 DEF IdInv, Limit
  <2> QED  BY <2>4, <2>5 DEF CountInv
<1>6. OwnInv /\ AloneInv /\ PlacedInv /\ LockInv /\ ReadyInv
  BY <1>1 DEF OwnInv, Making, AloneInv, Creating, PlacedInv, LockInv, ReadyInv
<1> QED  BY <1>3, <1>4, <1>5, <1>6 DEF RunInv, ShapeInv

\* While it runs, what was promised follows from the invariant.
LEMMA PromiseKept == RunInv => Promised
<1> SUFFICES ASSUME RunInv  PROVE Promised
  OBVIOUS
<1>1. TypeOK
  <2>1. /\ ThreadTypes /\ StoreTypes /\ LockTypes /\ MapInv /\ HoldInv
        /\ Room /\ IdInv
    BY DEF RunInv, ShapeInv, CountInv
  <2>2. Limit \in Nat /\ Limit <= MaxStores /\ Stored <= MaxStores /\ DOMAIN store \subseteq Pointers
    BY RoomFacts DEF RunInv
  <2>3. seq \in 0 .. MaxStores /\ DOMAIN all \subseteq 0 .. MaxStores
    BY <2>1, <2>2, Constants DEF IdInv, StoreTypes, MapInv
  <2>4. \A o \in DOMAIN store :
          store[o] \in [id : 0 .. MaxStores, target : BOOLEAN, recv : BOOLEAN, first : BOOLEAN]
    BY <2>1, Constants DEF StoreTypes, StoreRecord, IdInv
  <2>5. ds \in [Workers -> 0 .. MaxStores]
    BY <2>1, <2>2, Constants DEF ThreadTypes, HoldInv, StoreTypes
  <2> QED  BY <2>1, <2>2, <2>3, <2>4, <2>5
    DEF TypeOK, StoreTypes, MapInv, LockTypes, ThreadTypes
<1>2. LostNeedsOverlap
  <2> SUFFICES ASSUME NEW o \in DOMAIN store, store[o].target, o \notin clash
               PROVE  store[o].id \in DOMAIN all /\ all[store[o].id] = o
    BY DEF LostNeedsOverlap
  <2>1. \A c \in Creators : ~(pc[c] = "insert" /\ ds[c] = o)
    BY DEF RunInv, OwnInv
  <2> QED  BY <2>1 DEF RunInv, PlacedInv, Settled
<1>3. StartedWithTarget
  BY DEF RunInv, ReadyInv, StartedWithTarget
<1>4. FetchExcludesReaders
  BY Constants DEF RunInv, LockInv, FetchExcludesReaders, Current
<1> QED  BY <1>1, <1>2, <1>3, <1>4 DEF Promised

\* Its end takes all threads along and changes nothing else.
LEMMA EndStep ==
  ASSUME RunInv, NullAnswer \/ \E h \in Handlers : BadNumber(h)
  PROVE  Ended'
<1>1. /\ pc' = [t \in Workers |-> "killed"]
      /\ UNCHANGED <<seq, all, store, lock, ds, clash, silent>>
  BY DEF NullAnswer, BadNumber, Die, HandlerRest, creation
<1>2. Promised
  BY PromiseKept
<1>3. TypeOK' /\ LostNeedsOverlap' /\ StartedWithTarget'
  BY <1>1, <1>2 DEF Promised, TypeOK, LostNeedsOverlap, StartedWithTarget
<1>4. FetchExcludesReaders'
  BY <1>1, Constants DEF FetchExcludesReaders
<1> QED  BY <1>1, <1>3, <1>4 DEF Ended, Promised

\* After it no thread takes a step.
LEMMA NothingAfter ==
  ASSUME \A t \in Workers : pc[t] = "killed", Next
  PROVE  FALSE
<1> USE Constants
<1>1. ASSUME NEW c \in Creators, Create(c)  PROVE FALSE
  <2>1. pc[c] = "killed"
    OBVIOUS
  <2> QED  BY <1>1, <2>1 DEF Create, Load, Increment, Construct, Insert, LockNew, SetTarget, StartReceive
<1>2. ~Accept
  BY DEF Accept
<1>3. ~Receive /\ ~FallSilent /\ ~NullAnswer
  BY DEF Receive, Wake, Visit, FirstExchange, BeginFetch, EndFetch, FallSilent, NullAnswer
<1>4. ASSUME NEW h \in Handlers, Handle(h) \/ ClientCloses(h) \/ BadNumber(h)  PROVE FALSE
  <2>1. pc[h] = "killed"
    OBVIOUS
  <2> QED  BY <1>4, <2>1 DEF Handle, RecvHead, RecvBody, Read, ListNext, Find, BeginRead,
             EndRead, ClientCloses, BadNumber
<1> QED  BY <1>1, <1>2, <1>3, <1>4 DEF Next, Work

LEMMA StepInv == IInv /\ [Next]_vars => IInv'
<1>1. ASSUME RunInv, Work \/ UNCHANGED vars  PROVE RunInv'
  BY <1>1, ShapeStep, CountStep, OwnStep, OrderStep, LockStep, ReadyStep DEF RunInv
<1>2. ASSUME Ended, UNCHANGED vars  PROVE Ended'
  BY <1>2 DEF Ended, Promised, TypeOK, LostNeedsOverlap, StartedWithTarget,
     FetchExcludesReaders, Current, vars, creation
<1>3. ASSUME Ended, Next  PROVE FALSE
  BY <1>3, NothingAfter DEF Ended
<1> QED  BY <1>1, <1>2, <1>3, EndStep DEF IInv, Next

\* The strengthened invariant holds in every state: threads, stores and the map
\* fit together whatever the requests and connections (NewDataStore,
\* ReceiveLoop, DataStoreRequest).
THEOREM Invariance == Spec => []IInv
<1>1. Init => IInv
  BY InitInv DEF IInv
<1> QED  BY <1>1, StepInv, PTL DEF Spec

\* The invariant has what was promised, dead or alive.
LEMMA AllPromised == IInv => Promised
  BY PromiseKept DEF IInv, Ended

\* The variables have their types; ids and stores stay within what was asked
\* for, although the counter of ids is used by several threads (NewDataStore).
THEOREM TypeCorrect == Spec => []TypeOK
<1>1. IInv => TypeOK
  BY AllPromised DEF Promised
<1> QED  BY <1>1, Invariance, PTL

\* A configured store that is not found under its id was created while another
\* one was: of two creations that do not overlap neither loses its store
\* (NewDataStore).
THEOREM LossNeedsOverlap == Spec => []LostNeedsOverlap
<1>1. IInv => LostNeedsOverlap
  BY AllPromised DEF Promised
<1> QED  BY <1>1, Invariance, PTL

\* The receive thread never starts with a store that has no target yet,
\* although it reads recv_ without the lock (ReceiveLoop).
THEOREM StartsWithTarget == Spec => []StartedWithTarget
<1>1. IInv => StartedWithTarget
  BY AllPromised DEF Promised
<1> QED  BY <1>1, Invariance, PTL

\* No request formats a store while a fetch changes it (DataStoreRequest,
\* GetProfileData).
THEOREM ReadersAreExcluded == Spec => []FetchExcludesReaders
<1>1. IInv => FetchExcludesReaders
  BY AllPromised DEF Promised
<1> QED  BY <1>1, Invariance, PTL

=============================================================================
