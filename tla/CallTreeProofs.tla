--------------------------- MODULE CallTreeProofs ---------------------------
(***************************************************************************)
(* The safety of the recorder with one dispatch thread, for any program    *)
(* threads, names and bounds.  (With two dispatch threads it fails: see    *)
(* MCCallTree_two_senders.cfg.)                                            *)
(***************************************************************************)
EXTENDS CallTree, SequenceTheorems, TLAPS

OneSender == \A r, s \in Senders : r = s

(***************************************************************************)
(* The inductive invariant.                                                *)
(***************************************************************************)

\* A thread inside a hook holds the interpreter lock, and a DataMutex is held
\* exactly while the dispatch thread is between lock and unlock of its target.
LockInv ==
  /\ \A t \in Threads : pc[t] # "run" <=> gil = t
  /\ Len(threads) \in Nat \ {0}
  /\ \A s \in Senders : it[s] \in 1 .. Len(threads)
  /\ \A t \in Threads, s \in Senders :
       mutex[t] = s <=> spc[s] \in {"swap", "take"} /\ Target(s) = t

\* Where the buffers are: every thread has its own, and the remaining one is
\* the back buffer or, halfway through a swap, in the dispatch thread's tmp.
BufferInv ==
  /\ FrontsDistinct
  /\ \A s \in Senders : spc[s] = "swap" =>
       /\ front[Target(s)] = back
       /\ \A t \in Threads : front[t] # tmp[s]
  /\ (\A s \in Senders : spc[s] # "swap") => \A t \in Threads : front[t] # back
  /\ \A s \in Senders : spc[s] \in {"take", "send"} => tmp[s] = back
  /\ \A s \in Senders : spc[s] = "send" => sbuf[s] = back

\* The nodes hang below the root, and the cursor is where the stack says.
TreeInv ==
  /\ CursorFollowsStack
  /\ \A t \in Threads :
       /\ Len(nodes[t]) \in 1 .. MaxNodes
       /\ nodes[t][Root].parent = 0

\* A hook that has its sinfo still has memory of the current node's record
\* behind it, even if the buffer was drained meanwhile.
LivePcs == {"count", "start", "accum", "pop"}
LiveInv ==
  \A t \in Threads :
    /\ pc[t] # "run" => cur[t] # Root
    /\ pc[t] \in LivePcs =>
         LET slots == bufs[ptr[t].buf].slots IN
           /\ ptr[t].slot \in 1 .. Len(slots)
           /\ slots[ptr[t].slot].node = cur[t]
           /\ slots[ptr[t].slot].parent = nodes[t][cur[t]].parent

\* The record a node of the current generation has, in buffer b.
Cached(t, n, b) ==
  /\ nodes[t][n].sidx \in 1 .. bufs[b].size
  /\ bufs[b].slots[nodes[t][n].sidx].node = n
  /\ bufs[b].slots[nodes[t][n].sidx].parent = nodes[t][n].parent

CacheInv ==
  /\ \A b \in Buffers : bufs[b].size <= Len(bufs[b].slots)
  /\ \A t \in Threads :
       /\ gen[t] >= 1
       /\ \A n \in 1 .. Len(nodes[t]) :
            /\ nodes[t][n].gen <= gen[t]
            /\ nodes[t][n].gen = gen[t] =>
                 /\ Swapping(t) = {} => Cached(t, n, front[t])
                 /\ \A s \in Swapping(t) : Cached(t, n, tmp[s])

\* Start times lie in the past, so no measured time is negative.
TimeInv ==
  \A t \in Threads :
    /\ \A n \in 1 .. Len(nodes[t]) : nodes[t][n].start <= clock
    /\ \A i \in 1 .. Len(stack[t]) : stack[t][i].at <= clock

IInv == TypeOK /\ LockInv /\ BufferInv /\ TreeInv /\ LiveInv /\ CacheInv /\ TimeInv

(***************************************************************************)
(* What the operators on buffers and nodes do.                             *)
(***************************************************************************)

\* new_tail_elem adds one element behind the first size ones.
LEMMA NewTailElemFacts ==
  ASSUME NEW buf \in RecordBuffer, buf.size <= Len(buf.slots), NEW rec \in Record
  PROVE  LET grown == NewTailElem(buf, rec) IN
           /\ grown \in RecordBuffer
           /\ grown.size = buf.size + 1
           /\ Len(grown.slots) = grown.size
           /\ \A i \in 1 .. buf.size : grown.slots[i] = buf.slots[i]
           /\ grown.slots[grown.size] = rec
<1> DEFINE kept == SubSeq(buf.slots, 1, buf.size)
<1>1. buf.slots \in Seq(Record) /\ buf.size \in Nat
  BY DEF RecordBuffer
<1>2. \A i \in 1 .. buf.size : buf.slots[i] \in Record
  BY <1>1, ElementOfSeq
<1>3. /\ kept \in Seq(Record)
      /\ Len(kept) = buf.size
      /\ \A i \in 1 .. buf.size : kept[i] = buf.slots[i]
  <2>1. 1 \in Int /\ buf.size \in Int
    BY <1>1
  <2>2. /\ kept \in Seq(Record)
        /\ Len(kept) = IF 1 <= buf.size THEN buf.size - 1 + 1 ELSE 0
        /\ \A i \in 1 .. buf.size - 1 + 1 : kept[i] = buf.slots[1 + i - 1]
    BY <1>2, <2>1, SubSeqProperties
  <2> QED  BY <1>1, <2>2
<1>4. /\ Append(kept, rec) \in Seq(Record)
      /\ Len(Append(kept, rec)) = Len(kept) + 1
      /\ \A i \in 1 .. Len(kept) : Append(kept, rec)[i] = kept[i]
      /\ Append(kept, rec)[Len(kept) + 1] = rec
  BY <1>3, AppendProperties
<1> QED  BY <1>1, <1>3, <1>4 DEF NewTailElem, RecordBuffer

\* Writing one element of a nested sequence.
LEMMA ExceptAt ==
  ASSUME NEW I, NEW S, NEW f \in [I -> Seq(S)], NEW i \in I,
         NEW k \in 1 .. Len(f[i]), NEW e \in S
  PROVE  LET g == [f EXCEPT ![i][k] = e] IN
           /\ g \in [I -> Seq(S)]
           /\ \A j \in I : Len(g[j]) = Len(f[j])
           /\ g[i][k] = e
           /\ \A j \in I : \A m \in 1 .. Len(f[j]) :
                ~(j = i /\ m = k) => g[j][m] = f[j][m]
<1>1. /\ [f[i] EXCEPT ![k] = e] \in Seq(S)
      /\ Len([f[i] EXCEPT ![k] = e]) = Len(f[i])
      /\ \A m \in 1 .. Len(f[i]) :
           [f[i] EXCEPT ![k] = e][m] = IF m = k THEN e ELSE f[i][m]
  BY ExceptSeq
<1> QED  BY <1>1

\* A write through sinfo changes one record and moves none.
LEMMA UpdateRecordFacts ==
  ASSUME bufs \in [Buffers -> RecordBuffer], ptr \in [Threads -> [buf : Buffers, slot : Nat]],
         NEW t \in Threads, NEW rec \in Record, UpdateRecord(t, rec),
         ptr[t].slot \in 1 .. Len(bufs[ptr[t].buf].slots),
         rec.node = Sinfo(t).node, rec.parent = Sinfo(t).parent
  PROVE  /\ bufs' \in [Buffers -> RecordBuffer]
         /\ \A b \in Buffers :
              /\ bufs'[b].size = bufs[b].size
              /\ Len(bufs'[b].slots) = Len(bufs[b].slots)
              /\ \A i \in 1 .. Len(bufs[b].slots) :
                   /\ bufs'[b].slots[i].node = bufs[b].slots[i].node
                   /\ bufs'[b].slots[i].parent = bufs[b].slots[i].parent
<1> DEFINE p == ptr[t].buf
           k == ptr[t].slot
           s == bufs[p].slots
<1>0. p \in Buffers
  OBVIOUS
<1>1. bufs[p] \in RecordBuffer
  BY <1>0
<1>2. s \in Seq(Record)
  BY <1>1 DEF RecordBuffer
<1>3. /\ [s EXCEPT ![k] = rec] \in Seq(Record)
      /\ Len([s EXCEPT ![k] = rec]) = Len(s)
      /\ \A i \in 1 .. Len(s) : [s EXCEPT ![k] = rec][i] = IF i = k THEN rec ELSE s[i]
  BY <1>2, ExceptSeq
<1>4. bufs' = [bufs EXCEPT ![p] = [bufs[p] EXCEPT !.slots = [s EXCEPT ![k] = rec]]]
  BY DEF UpdateRecord
<1>5. [bufs[p] EXCEPT !.slots = [s EXCEPT ![k] = rec]] \in RecordBuffer
  BY <1>1, <1>3 DEF RecordBuffer
<1>6. bufs'[p].slots = [s EXCEPT ![k] = rec] /\ bufs'[p].size = bufs[p].size
  BY <1>0, <1>1, <1>4 DEF RecordBuffer
<1>7. \A b \in Buffers : b # p => bufs'[b] = bufs[b]
  BY <1>4
<1>8. bufs' \in [Buffers -> RecordBuffer]
  BY <1>0, <1>4, <1>5
<1>9. ASSUME NEW b \in Buffers
      PROVE  /\ bufs'[b].size = bufs[b].size
             /\ Len(bufs'[b].slots) = Len(bufs[b].slots)
             /\ \A i \in 1 .. Len(bufs[b].slots) :
                  /\ bufs'[b].slots[i].node = bufs[b].slots[i].node
                  /\ bufs'[b].slots[i].parent = bufs[b].slots[i].parent
  <2>1. CASE b = p
    <3>1. Sinfo(t) = s[k]
      BY DEF Sinfo
    <3>2. Len(bufs'[p].slots) = Len(s)
      BY <1>3, <1>6
    <3>3. \A i \in 1 .. Len(s) : bufs'[p].slots[i] = IF i = k THEN rec ELSE s[i]
      BY <1>3, <1>6
    <3> QED  BY <1>6, <2>1, <3>1, <3>2, <3>3
  <2>2. CASE b # p
    BY <1>7, <2>2
  <2> QED  BY <2>1, <2>2
<1> QED  BY <1>8, <1>9

\* The sequence of one thread's nodes, written at one index.
LEMMA NodesExcept ==
  ASSUME nodes \in [Threads -> Seq(NodeInfo)], NEW t \in Threads,
         NEW n \in 1 .. Len(nodes[t]), NEW info \in NodeInfo,
         nodes' = [nodes EXCEPT ![t][n] = info],
         info.parent = nodes[t][n].parent
  PROVE  /\ nodes' \in [Threads -> Seq(NodeInfo)]
         /\ \A u \in Threads :
              /\ Len(nodes'[u]) = Len(nodes[u])
              /\ \A m \in 1 .. Len(nodes[u]) :
                   nodes'[u][m].parent = nodes[u][m].parent
         /\ \A u \in Threads : \A m \in 1 .. Len(nodes[u]) :
              ~(u = t /\ m = n) => nodes'[u][m] = nodes[u][m]
         /\ nodes'[t][n] = info
<1>1. /\ nodes' \in [Threads -> Seq(NodeInfo)]
      /\ \A u \in Threads : Len(nodes'[u]) = Len(nodes[u])
      /\ nodes'[t][n] = info
      /\ \A u \in Threads : \A m \in 1 .. Len(nodes[u]) :
           ~(u = t /\ m = n) => nodes'[u][m] = nodes[u][m]
  BY ExceptAt
<1> QED  BY <1>1

\* The current node exists.
LEMMA CursorInRange ==
  ASSUME TypeOK, TreeInv, NEW t \in Threads
  PROVE  cur[t] \in 1 .. Len(nodes[t])
<1>1. Len(nodes[t]) \in Nat /\ Len(stack[t]) \in Nat
  BY LenProperties DEF TypeOK
<1>2. stack[t] # << >> => Len(stack[t]) \in 1 .. Len(stack[t])
  BY EmptySeq DEF TypeOK
<1>3. CASE stack[t] = << >>
  BY <1>1, <1>3 DEF TreeInv, CursorFollowsStack, Root
<1>4. CASE stack[t] # << >>
  BY <1>1, <1>2, <1>4 DEF TreeInv, CursorFollowsStack, Root
<1> QED  BY <1>3, <1>4

\* What get_current_node_info_pair leaves alone, and what it establishes.
PairTypes ==
  /\ bufs' \in [Buffers -> RecordBuffer]
  /\ nodes' \in [Threads -> Seq(NodeInfo)]
  /\ ptr' \in [Threads -> [buf : Buffers, slot : Nat]]

PairNodes(t) ==
  \A u \in Threads :
    /\ Len(nodes'[u]) = Len(nodes[u])
    /\ \A m \in 1 .. Len(nodes[u]) :
         /\ nodes'[u][m].parent = nodes[u][m].parent
         /\ nodes'[u][m].start = nodes[u][m].start
         /\ u # t => nodes'[u][m] = nodes[u][m]

PairSinfo(t) ==
  LET slots == bufs'[ptr'[t].buf].slots IN
    /\ ptr'[t].slot \in 1 .. Len(slots)
    /\ slots[ptr'[t].slot].node = cur[t]
    /\ slots[ptr'[t].slot].parent = nodes[t][cur[t]].parent

PairBuffers(t) ==
  \A b \in Buffers :
    /\ bufs'[b].size <= Len(bufs'[b].slots)
    /\ b # front[t] => bufs'[b] = bufs[b]

PairCached(t) ==
  \A m \in 1 .. Len(nodes[t]) :
    /\ nodes'[t][m].gen <= gen[t]
    /\ nodes'[t][m].gen = gen[t] =>
         /\ nodes'[t][m].sidx \in 1 .. bufs'[front[t]].size
         /\ bufs'[front[t]].slots[nodes'[t][m].sidx].node = m
         /\ bufs'[front[t]].slots[nodes'[t][m].sidx].parent = nodes'[t][m].parent

\* get_current_node_info_pair: the hook gets the current node's record, and no
\* other record of a live buffer is touched.
LEMMA PairFacts ==
  ASSUME TypeOK, TreeInv, CacheInv, NEW t \in Threads, Swapping(t) = {},
         GetCurrentNodeInfoPair(t)
  PROVE  PairTypes /\ PairNodes(t) /\ PairSinfo(t) /\ PairBuffers(t) /\ PairCached(t)
<1> DEFINE n    == cur[t]
           b    == front[t]
           info == nodes[t][n]
<1>1. n \in 1 .. Len(nodes[t])
  BY CursorInRange
<1>2. info \in NodeInfo
  BY <1>1, ElementOfSeq DEF TypeOK
<1>3. b \in Buffers /\ bufs[b] \in RecordBuffer
  BY DEF TypeOK
<1>4. bufs[b].size <= Len(bufs[b].slots) /\ bufs[b].size \in Nat
      /\ Len(bufs[b].slots) \in Nat /\ gen[t] \in Nat
  BY <1>3, LenProperties DEF CacheInv, RecordBuffer, TypeOK
<1>5. \A m \in 1 .. Len(nodes[t]) :
        /\ nodes[t][m] \in NodeInfo
        /\ nodes[t][m].gen <= gen[t]
        /\ nodes[t][m].gen = gen[t] => Cached(t, m, b)
  BY ElementOfSeq DEF CacheInv, TypeOK
<1>6. CASE ~NeedsRecord(t, info)
  <2>1. /\ ptr' = [ptr EXCEPT ![t] = [buf |-> b, slot |-> info.sidx]]
        /\ bufs' = bufs /\ nodes' = nodes
    BY <1>6 DEF GetCurrentNodeInfoPair
  <2>2. Cached(t, n, b)
    BY <1>1, <1>5, <1>6 DEF NeedsRecord
  <2>3. [buf |-> b, slot |-> info.sidx] \in [buf : Buffers, slot : Nat]
    BY <1>2, <1>3 DEF NodeInfo
  <2>4. ptr'[t] = [buf |-> b, slot |-> info.sidx]
    BY <2>1 DEF TypeOK
  <2>5. info.sidx \in 1 .. Len(bufs[b].slots)
    <3>1. info.sidx \in 1 .. bufs[b].size /\ bufs[b].size <= Len(bufs[b].slots)
          /\ bufs[b].size \in Nat /\ Len(bufs[b].slots) \in Nat
      BY <2>2, <1>4 DEF Cached
    <3>2. \A x, y \in Nat : x <= y => 1 .. x \subseteq 1 .. y
      OBVIOUS
    <3> QED  BY <3>1, <3>2
  <2>6. PairTypes
    BY <2>1, <2>3 DEF TypeOK, PairTypes
  <2>7. PairNodes(t)
    BY <2>1 DEF PairNodes
  <2>8. PairSinfo(t)
    <3>1. /\ bufs[b].slots[info.sidx].node = cur[t]
          /\ bufs[b].slots[info.sidx].parent = nodes[t][cur[t]].parent
      BY <2>2 DEF Cached
    <3>2. ptr'[t].buf = b /\ ptr'[t].slot = info.sidx /\ bufs' = bufs
      BY <2>1, <2>4
    <3> QED  BY <2>5, <3>1, <3>2 DEF PairSinfo
  <2>9. PairBuffers(t)
    BY <2>1 DEF CacheInv, PairBuffers
  <2>10. PairCached(t)
    BY <2>1, <1>5 DEF Cached, PairCached
  <2> QED  BY <2>6, <2>7, <2>8, <2>9, <2>10
<1>7. CASE NeedsRecord(t, info)
  <2> DEFINE grown   == NewTailElem(bufs[b], NewRecord(n, info))
             updated == [info EXCEPT !.sidx = LastIndex(grown), !.gen = gen[t]]
  <2>1. /\ bufs' = [bufs EXCEPT ![b] = grown]
        /\ nodes' = [nodes EXCEPT ![t][n] = updated]
        /\ ptr' = [ptr EXCEPT ![t] = [buf |-> b, slot |-> LastIndex(grown)]]
    BY <1>7 DEF GetCurrentNodeInfoPair
  <2>2. NewRecord(n, info) \in Record
    <3>1. n \in Nat
      BY DEF TypeOK
    <3> QED  BY <3>1, <1>2 DEF NewRecord, Record, NodeInfo
  <2>3. /\ grown \in RecordBuffer
        /\ grown.size = bufs[b].size + 1
        /\ Len(grown.slots) = grown.size
        /\ \A i \in 1 .. bufs[b].size : grown.slots[i] = bufs[b].slots[i]
        /\ grown.slots[grown.size] = NewRecord(n, info)
    BY <1>3, <1>4, <2>2, NewTailElemFacts
  <2>4. LastIndex(grown) = bufs[b].size + 1 /\ LastIndex(grown) \in Nat
    BY <2>3, <1>4 DEF LastIndex
  <2>5. /\ updated \in NodeInfo
        /\ updated.parent = info.parent /\ updated.start = info.start
        /\ updated.sidx = LastIndex(grown) /\ updated.gen = gen[t]
    BY <1>2, <1>4, <2>4 DEF NodeInfo
  <2> HIDE DEF grown, updated
  <2>6. /\ nodes' \in [Threads -> Seq(NodeInfo)]
        /\ \A u \in Threads :
             /\ Len(nodes'[u]) = Len(nodes[u])
             /\ \A m \in 1 .. Len(nodes[u]) :
                  nodes'[u][m].parent = nodes[u][m].parent
        /\ \A u \in Threads : \A m \in 1 .. Len(nodes[u]) :
             ~(u = t /\ m = n) => nodes'[u][m] = nodes[u][m]
        /\ nodes'[t][n] = updated
    <3>1. nodes \in [Threads -> Seq(NodeInfo)]
      BY DEF TypeOK
    <3> QED  BY <1>1, <2>1, <2>5, <3>1, NodesExcept
  <2>7. bufs'[b] = grown /\ \A c \in Buffers : c # b => bufs'[c] = bufs[c]
    BY <2>1, <1>3 DEF TypeOK
  <2>8. bufs' \in [Buffers -> RecordBuffer]
    BY <2>1, <2>3, <1>3 DEF TypeOK
  <2>9. /\ ptr'[t] = [buf |-> b, slot |-> LastIndex(grown)]
        /\ \A u \in Threads \ {t} : ptr'[u] = ptr[u]
        /\ ptr' \in [Threads -> [buf : Buffers, slot : Nat]]
    BY <2>1, <2>4, <1>3 DEF TypeOK
  <2>10. NewRecord(n, info).node = n /\ NewRecord(n, info).parent = info.parent
    BY DEF NewRecord
  <2>11. PairCached(t)
    <3> SUFFICES ASSUME NEW m \in 1 .. Len(nodes[t])
                 PROVE  /\ nodes'[t][m].gen <= gen[t]
                        /\ nodes'[t][m].gen = gen[t] =>
                             /\ nodes'[t][m].sidx \in 1 .. bufs'[b].size
                             /\ bufs'[b].slots[nodes'[t][m].sidx].node = m
                             /\ bufs'[b].slots[nodes'[t][m].sidx].parent
                                  = nodes'[t][m].parent
      BY DEF PairCached
    <3>1. CASE m = n
      BY <3>1, <1>1, <1>4, <2>3, <2>4, <2>5, <2>6, <2>7, <2>10
    <3>2. CASE m # n
      <4>1. nodes'[t][m] = nodes[t][m]
        BY <3>2, <2>6
      <4>2. nodes[t][m].sidx \in Nat /\ nodes[t][m].gen <= gen[t]
        BY <1>5 DEF NodeInfo
      <4>3. ASSUME nodes[t][m].gen = gen[t]
            PROVE  /\ nodes[t][m].sidx \in 1 .. bufs[b].size
                   /\ bufs[b].slots[nodes[t][m].sidx].node = m
                   /\ bufs[b].slots[nodes[t][m].sidx].parent = nodes[t][m].parent
        BY <4>3, <1>5 DEF Cached
      <4>4. ASSUME nodes[t][m].gen = gen[t]
            PROVE  /\ nodes[t][m].sidx \in 1 .. bufs'[b].size
                   /\ bufs'[b].slots[nodes[t][m].sidx].node = m
                   /\ bufs'[b].slots[nodes[t][m].sidx].parent = nodes[t][m].parent
        <5>1. bufs'[b].size = bufs[b].size + 1
          BY <2>3, <2>7
        <5>2. bufs'[b].slots[nodes[t][m].sidx] = bufs[b].slots[nodes[t][m].sidx]
          BY <2>3, <2>7, <4>3, <4>4
        <5>3. nodes[t][m].sidx \in 1 .. bufs[b].size /\ bufs[b].size \in Nat
          BY <4>3, <4>4, <1>4
        <5>4. nodes[t][m].sidx \in 1 .. bufs'[b].size
          BY <5>1, <5>3
        <5> QED  BY <4>3, <4>4, <5>2, <5>4
      <4> QED  BY <4>1, <4>2, <4>4
    <3> QED  BY <3>1, <3>2
  <2>12. PairBuffers(t)
    <3>1. bufs'[b].size <= Len(bufs'[b].slots)
      BY <2>3, <2>4, <2>7, <1>4 DEF LastIndex
    <3> QED  BY <3>1, <2>7 DEF CacheInv, PairBuffers
  <2>13. PairSinfo(t)
    BY <2>3, <2>4, <2>7, <2>9, <2>10, <1>4 DEF PairSinfo
  <2>14. PairNodes(t)
    <3> SUFFICES ASSUME NEW u \in Threads, NEW m \in 1 .. Len(nodes[u])
                 PROVE  /\ nodes'[u][m].parent = nodes[u][m].parent
                        /\ nodes'[u][m].start = nodes[u][m].start
                        /\ u # t => nodes'[u][m] = nodes[u][m]
      BY <2>6 DEF PairNodes
    <3>1. CASE u = t /\ m = n
      BY <2>5, <2>6, <3>1
    <3>2. CASE ~(u = t /\ m = n)
      BY <2>6, <3>2
    <3> QED  BY <3>1, <3>2
  <2>15. PairTypes
    BY <2>6, <2>8, <2>9 DEF PairTypes
  <2> QED  BY <2>11, <2>12, <2>13, <2>14, <2>15
<1> QED  BY <1>6, <1>7

(***************************************************************************)
(* Every step preserves the invariant, one part after another.             *)
(***************************************************************************)

LEMMA InitInv == Init => IInv
<1> SUFFICES ASSUME Init PROVE IInv
  OBVIOUS
<1> USE DEF Init, Root, Zero
<1>0. /\ NewNode(0, NullName) \in NodeInfo
      /\ NewNode(0, NullName).parent = 0
      /\ NewNode(0, NullName).gen = 0
      /\ NewNode(0, NullName).start = 0
  BY DEF NewNode, NodeInfo
<1>1. TypeOK
  <2>1. EmptyBuffer \in RecordBuffer
    BY EmptySeq DEF EmptyBuffer, RecordBuffer
  <2>2. <<Main>> \in Seq(Threads) /\ <<NewNode(0, NullName)>> \in Seq(NodeInfo)
    BY <1>0, ConstantsAssumption
  <2>3. << >> \in Seq(Call)
    BY EmptySeq
  <2>4. Spare \in Buffers /\ Threads \subseteq Buffers
    BY DEF Buffers
  <2> QED  BY <2>1, <2>2, <2>3, <2>4 DEF TypeOK, HookPcs, SendPcs, Amount
<1>2. LockInv
  BY ConstantsAssumption DEF LockInv
<1>3. BufferInv
  BY ConstantsAssumption DEF BufferInv, FrontsDistinct
<1>4. TreeInv
  BY <1>0, ConstantsAssumption DEF TreeInv, CursorFollowsStack
<1>5. LiveInv
  BY DEF LiveInv, LivePcs
<1>6. CacheInv
  BY <1>0 DEF CacheInv, EmptyBuffer
<1>7. TimeInv
  <2>1. \A t \in Threads : nodes[t] = <<NewNode(0, NullName)>> /\ stack[t] = << >>
    OBVIOUS
  <2>2. Len(<<NewNode(0, NullName)>>) = 1 /\ clock = 1
    OBVIOUS
  <2>3. \A t \in Threads : Len(nodes[t]) = 1 /\ nodes[t][1].start = 0 /\ Len(stack[t]) = 0
    BY <1>0, <2>1, <2>2
  <2>4. \A n \in 1 .. 1 : n = 1
    OBVIOUS
  <2>5. \A t \in Threads : \A n \in 1 .. Len(nodes[t]) : nodes[t][n].start <= clock
    BY <2>2, <2>3, <2>4
  <2>6. \A t \in Threads : \A i \in 1 .. Len(stack[t]) : FALSE
    BY <2>3
  <2> QED  BY <2>5, <2>6 DEF TimeInv
<1> QED  BY <1>1, <1>2, <1>3, <1>4, <1>5, <1>6, <1>7 DEF IInv

\* Attaching a thread leaves every dispatch thread at its target.
LEMMA AttachFacts ==
  ASSUME TypeOK, LockInv, NEW t \in Threads, Attach(t)
  PROVE  /\ threads' \in Seq(Threads)
         /\ Len(threads') \in Nat \ {0}
         /\ \A s \in Senders : it[s] \in 1 .. Len(threads') /\ Target(s)' = Target(s)
         /\ \A u \in Threads : Swapping(u)' = Swapping(u)
<1>1. threads \in Seq(Threads)
  BY DEF TypeOK
<1>2. /\ Append(threads, t) \in Seq(Threads)
      /\ Len(Append(threads, t)) = Len(threads) + 1
      /\ \A i \in 1 .. Len(threads) : Append(threads, t)[i] = threads[i]
  BY <1>1, AppendProperties
<1>3. threads' = Append(threads, t) /\ it' = it /\ spc' = spc
  BY DEF Attach, sendVars
<1>4. \A s \in Senders : it[s] \in 1 .. Len(threads') /\ Target(s)' = Target(s)
  BY <1>2, <1>3 DEF LockInv, Target
<1> QED  BY <1>2, <1>3, <1>4 DEF LockInv, Swapping

\* The locks: who holds the interpreter lock and the DataMutexes.
LEMMA LockStep ==
  ASSUME OneSender, TypeOK, LockInv, [Next]_vars
  PROVE  LockInv'
<1> USE DEF listVars, treeVars, bufferVars, hookVars, sendVars, linkVars
<1>0. Nobody \notin Threads /\ Nobody \notin Senders
  BY ConstantsAssumption
<1>T. /\ pc \in [Threads -> HookPcs] /\ mutex \in [Threads -> Senders \cup {Nobody}]
      /\ spc \in [Senders -> SendPcs] /\ it \in [Senders -> Nat \ {0}]
  BY DEF TypeOK
<1>1. ASSUME NEW t \in Threads, Attach(t) PROVE LockInv'
  BY <1>1, AttachFacts DEF LockInv, Attach
<1>2. ASSUME NEW t \in Threads, NEW name \in Names, CallEnter(t, name)
      PROVE  LockInv'
  BY <1>0, <1>T, <1>2 DEF LockInv, CallEnter, EnterHook, Target
<1>3. ASSUME NEW t \in Threads,
             CallRecord(t) \/ CallCount(t) \/ ReturnRecord(t) \/ ReturnAccum(t)
      PROVE  LockInv'
  <2>1. pc[t] # "run" /\ UNCHANGED <<gil, threads, mutex, spc, it>>
    BY <1>3 DEF CallRecord, CallCount, ReturnRecord, ReturnAccum
  <2>2. pc' = [pc EXCEPT ![t] = pc'[t]] /\ pc'[t] # "run"
    BY <1>3, <1>T DEF CallRecord, CallCount, ReturnRecord, ReturnAccum
  <2>3. \A u \in Threads : pc'[u] # "run" <=> pc[u] # "run"
    BY <2>1, <2>2, <1>T
  <2>4. gil' = gil /\ threads' = threads /\ mutex' = mutex /\ spc' = spc /\ it' = it
    BY <2>1
  <2>5. \A u \in Threads : pc'[u] # "run" <=> gil' = u
    BY <2>3, <2>4 DEF LockInv
  <2> QED  BY <2>4, <2>5 DEF LockInv, Target
<1>4. ASSUME NEW t \in Threads, CallStart(t) \/ ReturnPop(t)
      PROVE  LockInv'
  <2>1. /\ pc[t] # "run" /\ gil' = Nobody /\ pc' = [pc EXCEPT ![t] = "run"]
        /\ threads' = threads /\ mutex' = mutex /\ spc' = spc /\ it' = it
    BY <1>4 DEF CallStart, ReturnPop, LeaveHook
  <2>2. gil = t
    BY <2>1 DEF LockInv
  <2>3. \A u \in Threads : pc'[u] = "run" /\ gil' # u
    BY <1>0, <1>T, <2>1, <2>2 DEF LockInv
  <2> QED  BY <2>1, <2>3 DEF LockInv, Target
<1>5. ASSUME NEW t \in Threads, ReturnEnter(t) PROVE LockInv'
  BY <1>0, <1>T, <1>5 DEF LockInv, ReturnEnter, EnterHook, Target
<1>6. ASSUME NEW s \in Senders, Connect(s) \/ Drop(s) PROVE LockInv'
  BY <1>0, <1>T, <1>6 DEF LockInv, Connect, Drop, Target
<1>7. ASSUME NEW s \in Senders, ReqProfileData(s) PROVE LockInv'
  BY <1>0, <1>T, <1>7 DEF LockInv, ReqProfileData, Target, OneSender
<1>8. ASSUME NEW s \in Senders, LockAndSwap(s) PROVE LockInv'
  BY <1>0, <1>T, <1>8 DEF LockInv, LockAndSwap, Target, OneSender
<1>9. ASSUME NEW s \in Senders, FinishSwap(s) PROVE LockInv'
  BY <1>0, <1>T, <1>9 DEF LockInv, FinishSwap, Target, OneSender
<1>10. ASSUME NEW s \in Senders, TakeBuffer(s) PROVE LockInv'
  BY <1>0, <1>T, <1>10 DEF LockInv, TakeBuffer, Unlock, Target, OneSender
<1>11. ASSUME NEW s \in Senders, SendProfileData(s) PROVE LockInv'
  BY <1>0, <1>T, <1>11 DEF LockInv, SendProfileData, Target, OneSender
<1>12. ASSUME NEW s \in Senders, SendNowInfo(s) PROVE LockInv'
  BY <1>0, <1>T, <1>12 DEF LockInv, SendNowInfo, LastThread, Target, OneSender
<1>13. CASE Tick
  BY <1>13 DEF LockInv, Tick, Target
<1>14. CASE UNCHANGED vars
  BY <1>14 DEF LockInv, vars, Target
<1> QED  BY <1>1, <1>2, <1>3, <1>4, <1>5, <1>6, <1>7, <1>8, <1>9, <1>10, <1>11,
            <1>12, <1>13, <1>14 DEF Next

\* The buffers: nobody's front is another's, nor the one being drained.
LEMMA BufferStep ==
  ASSUME OneSender, TypeOK, LockInv, BufferInv, [Next]_vars
  PROVE  BufferInv'
<1> USE DEF listVars, treeVars, bufferVars, hookVars, sendVars, linkVars
<1>1. ASSUME NEW t \in Threads, Attach(t) PROVE BufferInv'
  BY <1>1, AttachFacts DEF BufferInv, FrontsDistinct, Attach
<1>2. ASSUME NEW t \in Threads, Hook(t) \/ ReturnEnter(t) \/ \E name \in Names : CallEnter(t, name)
      PROVE  BufferInv'
  BY <1>2 DEF BufferInv, FrontsDistinct, Target, Hook, CallEnter, CallRecord,
              CallCount, CallStart, ReturnEnter, ReturnRecord, ReturnAccum, ReturnPop
<1>3. ASSUME NEW s \in Senders, Connect(s) \/ Drop(s) PROVE BufferInv'
  BY <1>3 DEF BufferInv, FrontsDistinct, Connect, Drop, Target
<1>4. ASSUME NEW s \in Senders, ReqProfileData(s) PROVE BufferInv'
  BY <1>4 DEF BufferInv, FrontsDistinct, TypeOK, ReqProfileData, OneSender
<1>5. ASSUME NEW s \in Senders, LockAndSwap(s) PROVE BufferInv'
  <2>1. Target(s) \in Threads /\ Target(s)' = Target(s)
    BY <1>5, ElementOfSeq DEF TypeOK, LockInv, LockAndSwap, Target
  <2>2. /\ spc \in [Senders -> SendPcs] /\ tmp \in [Senders -> Buffers]
        /\ front \in [Threads -> Buffers]
    BY DEF TypeOK
  <2>3. /\ \A t \in Threads : front[t] # back
        /\ \A t, u \in Threads : t # u => front[t] # front[u]
    BY <1>5 DEF BufferInv, FrontsDistinct, LockAndSwap, OneSender
  <2>4. /\ tmp' = [tmp EXCEPT ![s] = front[Target(s)]]
        /\ front' = [front EXCEPT ![Target(s)] = back]
        /\ spc' = [spc EXCEPT ![s] = "swap"]
        /\ back' = back
    BY <1>5 DEF LockAndSwap
  <2>5. \A r \in Senders : r = s
    BY DEF OneSender
  <2>6. FrontsDistinct'
    BY <2>1, <2>2, <2>3, <2>4 DEF FrontsDistinct
  <2>7. /\ front'[Target(s)] = back /\ tmp'[s] = front[Target(s)] /\ spc'[s] = "swap"
        /\ \A t \in Threads : t # Target(s) => front'[t] = front[t]
    BY <2>1, <2>2, <2>4
  <2> QED  BY <2>1, <2>3, <2>4, <2>5, <2>6, <2>7 DEF BufferInv
<1>6. ASSUME NEW s \in Senders, FinishSwap(s) PROVE BufferInv'
  BY <1>6 DEF BufferInv, FrontsDistinct, TypeOK, FinishSwap, SwappedOut, OneSender
<1>7. ASSUME NEW s \in Senders, TakeBuffer(s) PROVE BufferInv'
  BY <1>7 DEF BufferInv, FrontsDistinct, TypeOK, TakeBuffer, Drained, OneSender
<1>8. ASSUME NEW s \in Senders, SendProfileData(s) \/ SendNowInfo(s) PROVE BufferInv'
  BY <1>8 DEF BufferInv, FrontsDistinct, TypeOK, SendProfileData, SendNowInfo, OneSender
<1>9. CASE Tick
  BY <1>9 DEF BufferInv, FrontsDistinct, Tick, Target
<1>10. CASE UNCHANGED vars
  BY <1>10 DEF BufferInv, FrontsDistinct, vars, Target
<1> QED  BY <1>1, <1>2, <1>3, <1>4, <1>5, <1>6, <1>7, <1>8, <1>9, <1>10 DEF Next, Hook

\* llprof_call_handler up to the lookup: the cursor moves to a child, which is
\* there already or is added at the end.
LEMMA EnterFacts ==
  ASSUME TypeOK, TreeInv, NEW t \in Threads, NEW name \in Names, CallEnter(t, name)
  PROVE  /\ nodes' \in [Threads -> Seq(NodeInfo)]
         /\ cur' \in [Threads -> Nat]
         /\ stack' \in [Threads -> Seq(Call)]
         /\ \A u \in Threads \ {t} : nodes'[u] = nodes[u] /\ cur'[u] = cur[u]
                                     /\ stack'[u] = stack[u]
         /\ stack'[t] = Append(stack[t], [node |-> cur'[t], at |-> 0])
         /\ Len(nodes'[t]) \in 1 .. MaxNodes /\ Len(nodes'[t]) >= Len(nodes[t])
         /\ \A n \in 1 .. Len(nodes[t]) : nodes'[t][n] = nodes[t][n]
         /\ \A n \in 1 .. Len(nodes'[t]) :
              n \notin 1 .. Len(nodes[t]) => nodes'[t][n] = NewNode(cur[t], name)
         /\ cur'[t] \in (Root + 1) .. Len(nodes'[t])
         /\ nodes'[t][cur'[t]].parent = cur[t]
<1>1. /\ cur[t] \in 1 .. Len(nodes[t]) /\ cur \in [Threads -> Nat]
      /\ nodes \in [Threads -> Seq(NodeInfo)] /\ nodes[t] \in Seq(NodeInfo)
      /\ stack \in [Threads -> Seq(Call)] /\ stack[t] \in Seq(Call)
      /\ Len(nodes[t]) \in 1 .. MaxNodes /\ MaxNodes \in Nat
      /\ nodes[t][Root].parent = 0
  BY CursorInRange, ConstantsAssumption DEF TypeOK, TreeInv
<1>2. stack' = [stack EXCEPT ![t] = Append(stack[t], [node |-> cur'[t], at |-> 0])]
  BY DEF CallEnter
<1>3. CASE AddCallNode(t, name)
  <2> DEFINE new == NewNode(cur[t], name)
  <2>1. new \in NodeInfo /\ new.parent = cur[t]
    BY <1>1 DEF NewNode, NodeInfo
  <2>2. /\ Append(nodes[t], new) \in Seq(NodeInfo)
        /\ Len(Append(nodes[t], new)) = Len(nodes[t]) + 1
        /\ \A i \in 1 .. Len(nodes[t]) : Append(nodes[t], new)[i] = nodes[t][i]
        /\ Append(nodes[t], new)[Len(nodes[t]) + 1] = new
    BY <1>1, <2>1, AppendProperties
  <2>3. /\ nodes' = [nodes EXCEPT ![t] = Append(nodes[t], new)]
        /\ cur' = [cur EXCEPT ![t] = Len(nodes[t]) + 1]
        /\ Len(nodes[t]) < MaxNodes
    BY <1>3 DEF AddCallNode
  <2> HIDE DEF new
  <2>4. /\ nodes' \in [Threads -> Seq(NodeInfo)] /\ cur' \in [Threads -> Nat]
        /\ nodes'[t] = Append(nodes[t], new) /\ cur'[t] = Len(nodes[t]) + 1
        /\ \A u \in Threads \ {t} : nodes'[u] = nodes[u] /\ cur'[u] = cur[u]
    BY <1>1, <2>2, <2>3
  <2>5. [node |-> cur'[t], at |-> 0] \in Call
    BY <2>4, <1>1 DEF Call
  <2>6. Append(stack[t], [node |-> cur'[t], at |-> 0]) \in Seq(Call)
    BY <1>1, <2>5, AppendProperties
  <2>7. /\ stack' \in [Threads -> Seq(Call)]
        /\ stack'[t] = Append(stack[t], [node |-> cur'[t], at |-> 0])
        /\ \A u \in Threads \ {t} : stack'[u] = stack[u]
    BY <1>1, <1>2, <2>6
  <2>8. /\ Len(nodes'[t]) \in 1 .. MaxNodes /\ Len(nodes'[t]) >= Len(nodes[t])
        /\ \A n \in 1 .. Len(nodes[t]) : nodes'[t][n] = nodes[t][n]
        /\ \A n \in 1 .. Len(nodes'[t]) : n \notin 1 .. Len(nodes[t]) => nodes'[t][n] = new
        /\ cur'[t] \in (Root + 1) .. Len(nodes'[t])
        /\ nodes'[t][cur'[t]].parent = cur[t]
    BY <1>1, <2>1, <2>2, <2>3, <2>4 DEF Root
  <2> QED  BY <2>4, <2>7, <2>8 DEF new
<1>4. CASE \E c \in Children(t, cur[t], name) :
             cur' = [cur EXCEPT ![t] = c] /\ UNCHANGED <<nodes, nameTable>>
  <2>1. PICK c \in Children(t, cur[t], name) :
             cur' = [cur EXCEPT ![t] = c] /\ UNCHANGED <<nodes, nameTable>>
    BY <1>4
  <2>2. c \in 1 .. Len(nodes[t]) /\ nodes[t][c].parent = cur[t]
    BY DEF Children
  <2>3. c # Root
    BY <1>1, <2>2
  <2>4. /\ nodes' = nodes /\ cur' \in [Threads -> Nat] /\ cur'[t] = c
        /\ \A u \in Threads \ {t} : cur'[u] = cur[u]
    BY <1>1, <2>1, <2>2
  <2>5. [node |-> cur'[t], at |-> 0] \in Call
    BY <2>4, <1>1 DEF Call
  <2>6. Append(stack[t], [node |-> cur'[t], at |-> 0]) \in Seq(Call)
    BY <1>1, <2>5, AppendProperties
  <2>7. /\ stack' \in [Threads -> Seq(Call)]
        /\ stack'[t] = Append(stack[t], [node |-> cur'[t], at |-> 0])
        /\ \A u \in Threads \ {t} : stack'[u] = stack[u]
    BY <1>1, <1>2, <2>6
  <2>8. c \in (Root + 1) .. Len(nodes[t])
    BY <1>1, <2>2, <2>3 DEF Root
  <2> QED  BY <1>1, <2>2, <2>4, <2>7, <2>8
<1> QED  BY <1>3, <1>4 DEF CallEnter

\* CursorFollowsStack for one thread, of the values it reads.
Path(st, nd, c) ==
  /\ c = IF st = << >> THEN Root ELSE st[Len(st)].node
  /\ \A i \in 1 .. Len(st) :
       /\ st[i].node \in (Root + 1) .. Len(nd)
       /\ nd[st[i].node].parent = IF i = 1 THEN Root ELSE st[i - 1].node

\* Calling a child of the innermost node extends the path.
LEMMA PathPush ==
  ASSUME NEW st \in Seq(Call), NEW nd, NEW nd2, NEW c, NEW c2 \in Nat,
         Path(st, nd, c), Len(nd) \in Nat, Len(nd2) \in Nat, Len(nd) <= Len(nd2),
         \A n \in 1 .. Len(nd) : nd2[n] = nd[n],
         c2 \in (Root + 1) .. Len(nd2), nd2[c2].parent = c
  PROVE  Path(Append(st, [node |-> c2, at |-> 0]), nd2, c2)
<1> DEFINE e   == [node |-> c2, at |-> 0]
           st2 == Append(st, e)
<1>1. e \in Call /\ e.node = c2
  BY DEF Call
<1>2. /\ st2 \in Seq(Call) /\ st2 # << >> /\ Len(st2) = Len(st) + 1 /\ Len(st) \in Nat
      /\ \A i \in 1 .. Len(st) : st2[i] = st[i]
      /\ st2[Len(st) + 1] = e
  BY <1>1, AppendProperties, LenProperties
<1>3. Len(st) = 0 => st = << >>
  BY EmptySeq
<1>4. Len(st) # 0 => st # << >>
  BY EmptySeq
<1> HIDE DEF e, st2
<1>5. c2 = IF st2 = << >> THEN Root ELSE st2[Len(st2)].node
  BY <1>1, <1>2
<1>6. ASSUME NEW i \in 1 .. Len(st2)
      PROVE  /\ st2[i].node \in (Root + 1) .. Len(nd2)
             /\ nd2[st2[i].node].parent = IF i = 1 THEN Root ELSE st2[i - 1].node
  <2>1. CASE i = Len(st) + 1
    <3>1. st2[i].node = c2 /\ nd2[st2[i].node].parent = c
      BY <1>1, <1>2, <2>1
    <3>2. CASE Len(st) = 0
      BY <1>3, <2>1, <3>1, <3>2 DEF Path
    <3>3. CASE Len(st) # 0
      <4>1. c = st[Len(st)].node /\ i # 1 /\ st2[i - 1] = st[Len(st)]
        BY <1>2, <1>4, <2>1, <3>3 DEF Path
      <4> QED  BY <3>1, <4>1
    <3> QED  BY <3>2, <3>3
  <2>2. CASE i # Len(st) + 1
    <3>1. i \in 1 .. Len(st) /\ st2[i] = st[i] /\ (i # 1 => st2[i - 1] = st[i - 1])
      BY <1>2, <2>2
    <3>2. st[i].node \in (Root + 1) .. Len(nd)
          /\ nd[st[i].node].parent = IF i = 1 THEN Root ELSE st[i - 1].node
      BY <3>1 DEF Path
    <3>3. st[i].node \in 1 .. Len(nd) /\ st[i].node \in (Root + 1) .. Len(nd2)
      BY <3>2 DEF Root
    <3> QED  BY <3>1, <3>2, <3>3
  <2> QED  BY <2>1, <2>2
<1> QED  BY <1>5, <1>6 DEF Path, st2, e

\* Returning to the parent of the innermost node shortens it.
LEMMA PathPop ==
  ASSUME NEW st \in Seq(Call), NEW nd, NEW c, Path(st, nd, c), c # Root
  PROVE  /\ SubSeq(st, 1, Len(st) - 1) \in Seq(Call)
         /\ Path(SubSeq(st, 1, Len(st) - 1), nd, nd[c].parent)
<1>1. st # << >>
  BY DEF Path
<1>2. PICK k \in Nat \ {0} : k = Len(st)
  BY <1>1, EmptySeq, LenProperties
<1>3. \A i \in 1 .. k - 1 : st[i] \in Call
  BY <1>2, ElementOfSeq
<1>4. PICK st2 : st2 = SubSeq(st, 1, k - 1)
  OBVIOUS
<1>5. /\ st2 \in Seq(Call) /\ Len(st2) = k - 1
      /\ \A i \in 1 .. k - 1 : st2[i] = st[i]
  <2>1. 1 \in Int /\ k - 1 \in Int
    OBVIOUS
  <2>2. /\ st2 \in Seq(Call)
        /\ Len(st2) = IF 1 <= k - 1 THEN (k - 1) - 1 + 1 ELSE 0
        /\ \A i \in 1 .. (k - 1) - 1 + 1 : st2[i] = st[1 + i - 1]
    BY <2>1, <1>3, <1>4, SubSeqProperties
  <2>3. Len(st2) = k - 1
    BY <2>2
  <2>4. \A i \in 1 .. k - 1 : i \in 1 .. (k - 1) - 1 + 1 /\ 1 + i - 1 = i
    OBVIOUS
  <2> QED  BY <2>2, <2>3, <2>4
<1>6. c = st[k].node
  BY <1>1, <1>2 DEF Path
<1>7. nd[c].parent = IF k = 1 THEN Root ELSE st[k - 1].node
  BY <1>2, <1>6 DEF Path
<1>8. (st2 = << >>) <=> (k = 1)
  BY <1>5, EmptySeq
<1>9. nd[c].parent = IF st2 = << >> THEN Root ELSE st2[Len(st2)].node
  <2>1. CASE k = 1
    BY <1>7, <1>8, <2>1
  <2>2. CASE k # 1
    <3>1. k - 1 \in 1 .. k - 1
      BY <2>2
    <3> QED  BY <1>5, <1>7, <1>8, <2>2, <3>1
  <2> QED  BY <2>1, <2>2
<1>10. ASSUME NEW i \in 1 .. Len(st2)
      PROVE  /\ st2[i].node \in (Root + 1) .. Len(nd)
             /\ nd[st2[i].node].parent = IF i = 1 THEN Root ELSE st2[i - 1].node
  <2>1. i \in 1 .. k - 1 /\ st2[i] = st[i] /\ (i # 1 => st2[i - 1] = st[i - 1])
    BY <1>5
  <2>2. i \in 1 .. Len(st)
    BY <2>1, <1>2
  <2> QED  BY <2>1, <2>2 DEF Path
<1>11. Path(st2, nd, nd[c].parent)
  BY <1>9, <1>10 DEF Path
<1> QED  BY <1>2, <1>4, <1>5, <1>11

LEMMA UnlockedNotSwapping ==
  ASSUME LockInv, NEW t \in Threads, mutex[t] = Nobody
  PROVE  Swapping(t) = {}
<1>1. \A s \in Senders : s # Nobody
  BY ConstantsAssumption
<1> QED  BY <1>1 DEF LockInv, Swapping

\* The record behind sinfo, and the current node.
LEMMA SinfoFacts ==
  ASSUME TypeOK, TreeInv, LiveInv, NEW t \in Threads, pc[t] \in LivePcs
  PROVE  /\ Sinfo(t) \in Record
         /\ ptr[t].slot \in 1 .. Len(bufs[ptr[t].buf].slots)
         /\ Sinfo(t).node = cur[t]
         /\ Sinfo(t).parent = nodes[t][cur[t]].parent
         /\ cur[t] \in 1 .. Len(nodes[t])
         /\ nodes[t][cur[t]] \in NodeInfo
         /\ stack[t] # << >> /\ Len(stack[t]) \in 1 .. Len(stack[t])
<1>1. bufs[ptr[t].buf].slots \in Seq(Record)
  BY DEF TypeOK, RecordBuffer
<1>2. /\ ptr[t].slot \in 1 .. Len(bufs[ptr[t].buf].slots)
      /\ Sinfo(t).node = cur[t]
      /\ Sinfo(t).parent = nodes[t][cur[t]].parent
      /\ cur[t] # Root
  BY DEF LiveInv, LivePcs, Sinfo
<1>3. Sinfo(t) \in Record
  BY <1>1, <1>2, ElementOfSeq DEF Sinfo
<1>4. cur[t] \in 1 .. Len(nodes[t])
  BY CursorInRange
<1>5. nodes[t][cur[t]] \in NodeInfo
  BY <1>4, ElementOfSeq DEF TypeOK
<1>6. stack[t] # << >>
  BY <1>2 DEF TreeInv, CursorFollowsStack
<1>7. Len(stack[t]) \in 1 .. Len(stack[t])
  BY <1>6, EmptySeq, LenProperties DEF TypeOK
<1> QED  BY <1>2, <1>3, <1>4, <1>5, <1>6, <1>7

\* The three writes through sinfo keep every record where it is, and whose.
LEMMA WriteFacts ==
  ASSUME TypeOK, TreeInv, LiveInv, TimeInv, NEW t \in Threads,
         CallCount(t) \/ CallStart(t) \/ ReturnAccum(t)
  PROVE  /\ bufs' \in [Buffers -> RecordBuffer]
         /\ \A b \in Buffers :
              /\ bufs'[b].size = bufs[b].size
              /\ Len(bufs'[b].slots) = Len(bufs[b].slots)
              /\ \A i \in 1 .. Len(bufs[b].slots) :
                   /\ bufs'[b].slots[i].node = bufs[b].slots[i].node
                   /\ bufs'[b].slots[i].parent = bufs[b].slots[i].parent
<1> DEFINE Result ==
      /\ bufs' \in [Buffers -> RecordBuffer]
      /\ \A b \in Buffers :
           /\ bufs'[b].size = bufs[b].size
           /\ Len(bufs'[b].slots) = Len(bufs[b].slots)
           /\ \A i \in 1 .. Len(bufs[b].slots) :
                /\ bufs'[b].slots[i].node = bufs[b].slots[i].node
                /\ bufs'[b].slots[i].parent = bufs[b].slots[i].parent
<1>1. pc[t] \in LivePcs
  BY DEF CallCount, CallStart, ReturnAccum, LivePcs
<1>2. /\ Sinfo(t) \in Record
      /\ ptr[t].slot \in 1 .. Len(bufs[ptr[t].buf].slots)
      /\ cur[t] \in 1 .. Len(nodes[t])
      /\ nodes[t][cur[t]] \in NodeInfo
  BY <1>1, SinfoFacts
<1>3. /\ bufs \in [Buffers -> RecordBuffer] /\ clock \in Nat
      /\ ptr \in [Threads -> [buf : Buffers, slot : Nat]]
  BY DEF TypeOK
<1>4. ASSUME NEW rec \in Record, UpdateRecord(t, rec),
             rec.node = Sinfo(t).node, rec.parent = Sinfo(t).parent
      PROVE  Result
  BY <1>2, <1>3, <1>4, UpdateRecordFacts
<1> HIDE DEF Result
<1>5. PICK old \in Record : old = Sinfo(t)
  BY <1>2
<1>6. ASSUME CallCount(t) PROVE Result
  <2>1. UpdateRecord(t, [old EXCEPT !.count = @ + 1])
    BY <1>5, <1>6 DEF CallCount
  <2>2. [old EXCEPT !.count = @ + 1] \in Record
    BY DEF Record
  <2>3. /\ [old EXCEPT !.count = @ + 1].node = old.node
        /\ [old EXCEPT !.count = @ + 1].parent = old.parent
    BY DEF Record
  <2> QED  BY <1>4, <1>5, <2>1, <2>2, <2>3
<1>7. ASSUME CallStart(t) PROVE Result
  <2>1. UpdateRecord(t, [old EXCEPT !.start = clock])
    BY <1>5, <1>7 DEF CallStart
  <2>2. [old EXCEPT !.start = clock] \in Record
    BY <1>3 DEF Record
  <2>3. /\ [old EXCEPT !.start = clock].node = old.node
        /\ [old EXCEPT !.start = clock].parent = old.parent
    BY DEF Record
  <2> QED  BY <1>4, <1>5, <2>1, <2>2, <2>3
<1>8. ASSUME ReturnAccum(t) PROVE Result
  <2> DEFINE began == nodes[t][cur[t]].start
             total == (old.time + clock) - began
  <2>1. UpdateRecord(t, [old EXCEPT !.time = (@ + clock) - began])
    BY <1>5, <1>8 DEF ReturnAccum
  <2>2. began \in Nat /\ began <= clock
    BY <1>2 DEF TimeInv, NodeInfo
  <2>3. old.time \in Nat
    BY DEF Record
  <2> HIDE DEF began
  <2>4. total \in Nat
    BY <1>3, <2>2, <2>3
  <2> HIDE DEF total
  <2>5. [old EXCEPT !.time = total] \in Record
    BY <2>4 DEF Record
  <2>6. /\ [old EXCEPT !.time = total].node = old.node
        /\ [old EXCEPT !.time = total].parent = old.parent
    BY DEF Record
  <2>7. UpdateRecord(t, [old EXCEPT !.time = total])
    BY <2>1 DEF total
  <2> QED  BY <1>4, <1>5, <2>5, <2>6, <2>7
<1>9. Result
  BY <1>6, <1>7, <1>8
<1> QED  BY <1>9 DEF Result

\* CallStart writes the start value into the node and into the history.
LEMMA StartFacts ==
  ASSUME TypeOK, TreeInv, LiveInv, NEW t \in Threads, CallStart(t)
  PROVE  /\ nodes' \in [Threads -> Seq(NodeInfo)]
         /\ stack' \in [Threads -> Seq(Call)]
         /\ \A u \in Threads :
              /\ Len(nodes'[u]) = Len(nodes[u]) /\ Len(stack'[u]) = Len(stack[u])
              /\ \A m \in 1 .. Len(nodes[u]) :
                   /\ nodes'[u][m].parent = nodes[u][m].parent
                   /\ nodes'[u][m].gen = nodes[u][m].gen
                   /\ nodes'[u][m].sidx = nodes[u][m].sidx
                   /\ nodes'[u][m].start \in {nodes[u][m].start, clock}
              /\ \A i \in 1 .. Len(stack[u]) :
                   /\ stack'[u][i].node = stack[u][i].node
                   /\ stack'[u][i].at \in {stack[u][i].at, clock}
<1>1. pc[t] \in LivePcs
  BY DEF CallStart, LivePcs
<1>2. /\ cur[t] \in 1 .. Len(nodes[t]) /\ nodes[t][cur[t]] \in NodeInfo
      /\ Len(stack[t]) \in 1 .. Len(stack[t])
  BY <1>1, SinfoFacts
<1>3. /\ nodes \in [Threads -> Seq(NodeInfo)] /\ stack \in [Threads -> Seq(Call)]
      /\ clock \in Nat
  BY DEF TypeOK
<1>4. PICK n : n = cur[t]
  OBVIOUS
<1>5. PICK k : k = Len(stack[t])
  OBVIOUS
<1>6. PICK info : info = [nodes[t][n] EXCEPT !.start = clock]
  OBVIOUS
<1>7. PICK call : call = [stack[t][k] EXCEPT !.at = clock]
  OBVIOUS
<1>8. /\ info \in NodeInfo /\ info.parent = nodes[t][n].parent /\ info.start = clock
      /\ info.gen = nodes[t][n].gen /\ info.sidx = nodes[t][n].sidx
  BY <1>2, <1>3, <1>4, <1>6 DEF NodeInfo
<1>9. stack[t][k] \in Call
  BY <1>2, <1>3, <1>5, ElementOfSeq
<1>10. call \in Call /\ call.node = stack[t][k].node /\ call.at = clock
  BY <1>3, <1>7, <1>9 DEF Call
<1>11. nodes' = [nodes EXCEPT ![t][n] = info]
  BY <1>4, <1>6 DEF CallStart
<1>12. stack' = [stack EXCEPT ![t][k] = call]
  BY <1>5, <1>7 DEF CallStart
<1>13. /\ nodes' \in [Threads -> Seq(NodeInfo)]
       /\ \A u \in Threads : Len(nodes'[u]) = Len(nodes[u])
       /\ nodes'[t][n] = info
       /\ \A u \in Threads : \A m \in 1 .. Len(nodes[u]) :
            ~(u = t /\ m = n) => nodes'[u][m] = nodes[u][m]
  BY <1>2, <1>3, <1>4, <1>8, <1>11, ExceptAt
<1>14. /\ stack' \in [Threads -> Seq(Call)]
       /\ \A u \in Threads : Len(stack'[u]) = Len(stack[u])
       /\ stack'[t][k] = call
       /\ \A u \in Threads : \A m \in 1 .. Len(stack[u]) :
            ~(u = t /\ m = k) => stack'[u][m] = stack[u][m]
  BY <1>2, <1>3, <1>5, <1>10, <1>12, ExceptAt
<1>15. \A u \in Threads : \A m \in 1 .. Len(nodes[u]) :
         /\ nodes'[u][m].parent = nodes[u][m].parent
         /\ nodes'[u][m].gen = nodes[u][m].gen
         /\ nodes'[u][m].sidx = nodes[u][m].sidx
         /\ nodes'[u][m].start \in {nodes[u][m].start, clock}
  BY <1>8, <1>13
<1>16. \A u \in Threads : \A i \in 1 .. Len(stack[u]) :
         /\ stack'[u][i].node = stack[u][i].node
         /\ stack'[u][i].at \in {stack[u][i].at, clock}
  BY <1>10, <1>14
<1> QED  BY <1>13, <1>14, <1>15, <1>16

\* The tree of each thread and its cursor.
LEMMA TreeStep ==
  ASSUME TypeOK, LockInv, TreeInv, LiveInv, CacheInv, TimeInv, [Next]_vars
  PROVE  TreeInv'
<1> DEFINE Frame(u) ==
             /\ cur'[u] = cur[u]
             /\ Len(nodes'[u]) = Len(nodes[u]) /\ Len(stack'[u]) = Len(stack[u])
             /\ \A m \in 1 .. Len(nodes[u]) : nodes'[u][m].parent = nodes[u][m].parent
             /\ \A i \in 1 .. Len(stack[u]) : stack'[u][i].node = stack[u][i].node
           Good(u) == /\ Path(stack[u], nodes[u], cur[u])
                      /\ Len(nodes[u]) \in 1 .. MaxNodes
                      /\ nodes[u][Root].parent = 0
           Good2(u) == /\ Path(stack'[u], nodes'[u], cur'[u])
                       /\ Len(nodes'[u]) \in 1 .. MaxNodes
                       /\ nodes'[u][Root].parent = 0
<1> USE DEF listVars, treeVars, bufferVars, hookVars, sendVars, linkVars
<1>1. TreeInv <=> \A u \in Threads : Good(u)
  BY DEF TreeInv, CursorFollowsStack, Path
<1>2. TreeInv' <=> \A u \in Threads : Good2(u)
  BY DEF TreeInv, CursorFollowsStack, Path
<1>3. ASSUME NEW u \in Threads, stack[u] \in Seq(Call), stack'[u] \in Seq(Call), Frame(u)
      PROVE  Good2(u)
  <2>1. Good(u) /\ Len(stack[u]) \in Nat /\ Len(nodes[u]) \in Nat /\ MaxNodes \in Nat
    BY <1>1, <1>3, LenProperties, ConstantsAssumption
  <2>2. stack'[u] = << >> <=> stack[u] = << >>
    BY <1>3, EmptySeq
  <2>3. stack[u] # << >> => Len(stack[u]) \in 1 .. Len(stack[u])
    BY <1>3, <2>1, EmptySeq
  <2>4. cur'[u] = IF stack'[u] = << >> THEN Root ELSE stack'[u][Len(stack'[u])].node
    <3>1. CASE stack[u] = << >>
      BY <1>3, <2>1, <2>2, <3>1 DEF Path
    <3>2. CASE stack[u] # << >>
      <4>1. cur[u] = stack[u][Len(stack[u])].node
        BY <2>1, <3>2 DEF Path
      <4> QED  BY <1>3, <2>2, <2>3, <3>2, <4>1
    <3> QED  BY <3>1, <3>2
  <2>5. ASSUME NEW i \in 1 .. Len(stack'[u])
        PROVE  /\ stack'[u][i].node \in (Root + 1) .. Len(nodes'[u])
               /\ nodes'[u][stack'[u][i].node].parent =
                    IF i = 1 THEN Root ELSE stack'[u][i - 1].node
    <3>0. i \in 1 .. Len(stack[u]) /\ (i # 1 => i - 1 \in 1 .. Len(stack[u]))
      <4>1. Len(stack'[u]) = Len(stack[u])
        BY <1>3
      <4> QED  BY <2>1, <4>1
    <3>1. i \in 1 .. Len(stack[u]) /\ stack'[u][i].node = stack[u][i].node
          /\ (i # 1 => stack'[u][i - 1].node = stack[u][i - 1].node)
      BY <1>3, <3>0
    <3>2. /\ stack[u][i].node \in (Root + 1) .. Len(nodes[u])
          /\ nodes[u][stack[u][i].node].parent =
               IF i = 1 THEN Root ELSE stack[u][i - 1].node
      BY <2>1, <3>1 DEF Path
    <3>3. stack[u][i].node \in 1 .. Len(nodes[u])
      BY <2>1, <3>2 DEF Root
    <3>4. nodes'[u][stack'[u][i].node].parent = nodes[u][stack[u][i].node].parent
      BY <1>3, <3>1, <3>3
    <3> QED  BY <1>3, <3>1, <3>2, <3>4
  <2>6. Path(stack'[u], nodes'[u], cur'[u])
    BY <2>4, <2>5 DEF Path
  <2> QED  BY <1>3, <2>1, <2>6 DEF Root
<1> HIDE DEF Frame, Good, Good2
<1>T. /\ nodes \in [Threads -> Seq(NodeInfo)] /\ stack \in [Threads -> Seq(Call)]
      /\ cur \in [Threads -> Nat]
  BY DEF TypeOK
<1>4. ASSUME UNCHANGED <<nodes, cur, stack>> PROVE TreeInv'
  BY <1>4 DEF TreeInv, CursorFollowsStack
<1>5. ASSUME NEW t \in Threads, CallRecord(t) \/ ReturnRecord(t) PROVE TreeInv'
  <2>1. GetCurrentNodeInfoPair(t) /\ cur' = cur /\ stack' = stack
    BY <1>5 DEF CallRecord, ReturnRecord
  <2>2. Swapping(t) = {}
    BY <2>1, UnlockedNotSwapping DEF GetCurrentNodeInfoPair
  <2>3. \A u \in Threads : Len(nodes'[u]) = Len(nodes[u])
           /\ \A m \in 1 .. Len(nodes[u]) : nodes'[u][m].parent = nodes[u][m].parent
    <3>1. PairNodes(t)
      BY <2>1, <2>2, PairFacts
    <3> QED  BY <3>1 DEF PairNodes
  <2>4. \A u \in Threads : Frame(u) /\ stack'[u] \in Seq(Call) /\ stack[u] \in Seq(Call)
    BY <1>T, <2>1, <2>3 DEF Frame
  <2> QED  BY <1>2, <1>3, <2>4
<1>6. ASSUME NEW t \in Threads, CallStart(t) PROVE TreeInv'
  <2>1. cur' = cur
    BY <1>6 DEF CallStart
  <2>2. /\ stack' \in [Threads -> Seq(Call)]
        /\ \A u \in Threads :
              /\ Len(nodes'[u]) = Len(nodes[u]) /\ Len(stack'[u]) = Len(stack[u])
              /\ \A m \in 1 .. Len(nodes[u]) : nodes'[u][m].parent = nodes[u][m].parent
              /\ \A i \in 1 .. Len(stack[u]) : stack'[u][i].node = stack[u][i].node
    BY <1>6, StartFacts
  <2>3. \A u \in Threads : Frame(u) /\ stack'[u] \in Seq(Call) /\ stack[u] \in Seq(Call)
    BY <1>T, <2>1, <2>2 DEF Frame
  <2> QED  BY <1>2, <1>3, <2>3
<1>7. ASSUME NEW t \in Threads, NEW name \in Names, CallEnter(t, name) PROVE TreeInv'
  <2>1. /\ cur' \in [Threads -> Nat]
        /\ \A u \in Threads \ {t} : nodes'[u] = nodes[u] /\ cur'[u] = cur[u]
                                    /\ stack'[u] = stack[u]
        /\ stack'[t] = Append(stack[t], [node |-> cur'[t], at |-> 0])
        /\ Len(nodes'[t]) \in 1 .. MaxNodes /\ Len(nodes'[t]) >= Len(nodes[t])
        /\ \A n \in 1 .. Len(nodes[t]) : nodes'[t][n] = nodes[t][n]
        /\ cur'[t] \in (Root + 1) .. Len(nodes'[t])
        /\ nodes'[t][cur'[t]].parent = cur[t]
    BY <1>7, EnterFacts
  <2>2. Good(t) /\ Len(nodes[t]) \in Nat /\ Len(nodes'[t]) \in Nat /\ cur'[t] \in Nat
    BY <1>1, <1>T, <2>1, LenProperties, ConstantsAssumption
  <2>3. stack[t] \in Seq(Call) /\ Path(stack[t], nodes[t], cur[t]) /\ Len(nodes[t]) <= Len(nodes'[t])
    BY <1>T, <2>1, <2>2 DEF Good
  <2>4. Path(Append(stack[t], [node |-> cur'[t], at |-> 0]), nodes'[t], cur'[t])
    BY <2>1, <2>2, <2>3, PathPush
  <2>5. nodes'[t][Root].parent = 0
    <3>1. nodes[t][Root].parent = 0 /\ Root \in 1 .. Len(nodes[t])
      BY <2>2, ConstantsAssumption DEF Good, Root
    <3>2. nodes'[t][Root] = nodes[t][Root]
      BY <2>1, <3>1
    <3> QED  BY <3>1, <3>2
  <2>6. Good2(t)
    BY <2>1, <2>4, <2>5 DEF Good2
  <2>7. \A u \in Threads \ {t} : Good2(u)
    BY <1>1, <2>1 DEF Good, Good2
  <2> QED  BY <1>2, <2>6, <2>7
<1>8. ASSUME NEW t \in Threads, ReturnPop(t) PROVE TreeInv'
  <2>1. pc[t] \in LivePcs /\ nodes' = nodes
        /\ cur' = [cur EXCEPT ![t] = Sinfo(t).parent]
        /\ stack' = [stack EXCEPT ![t] = SubSeq(stack[t], 1, Len(stack[t]) - 1)]
    BY <1>8 DEF ReturnPop, LivePcs
  <2>2. Sinfo(t).parent = nodes[t][cur[t]].parent /\ cur[t] # Root
    BY <2>1, SinfoFacts DEF LiveInv, LivePcs
  <2>3. stack[t] \in Seq(Call) /\ Path(stack[t], nodes[t], cur[t])
    BY <1>1, <1>T DEF Good
  <2>4. Path(SubSeq(stack[t], 1, Len(stack[t]) - 1), nodes[t], nodes[t][cur[t]].parent)
    BY <2>2, <2>3, PathPop
  <2>5. cur'[t] = nodes[t][cur[t]].parent
        /\ stack'[t] = SubSeq(stack[t], 1, Len(stack[t]) - 1)
        /\ \A u \in Threads \ {t} : cur'[u] = cur[u] /\ stack'[u] = stack[u]
    BY <1>T, <2>1, <2>2
  <2> QED  BY <1>1, <1>2, <2>1, <2>4, <2>5 DEF Good, Good2
<1>9. ASSUME NEW t \in Threads,
             Attach(t) \/ CallCount(t) \/ ReturnEnter(t) \/ ReturnAccum(t)
      PROVE  TreeInv'
  BY <1>4, <1>9 DEF Attach, CallCount, ReturnEnter, EnterHook, ReturnAccum
<1>10. ASSUME NEW s \in Senders,
              Connect(s) \/ Drop(s) \/ ReqProfileData(s) \/ LockAndSwap(s) \/ FinishSwap(s)
              \/ TakeBuffer(s) \/ SendProfileData(s) \/ SendNowInfo(s)
       PROVE  TreeInv'
  BY <1>4, <1>10 DEF Connect, Drop, ReqProfileData, LockAndSwap, FinishSwap,
                     TakeBuffer, SendProfileData, SendNowInfo
<1>11. CASE Tick \/ UNCHANGED vars
  BY <1>4, <1>11 DEF Tick, vars
<1> QED  BY <1>5, <1>6, <1>7, <1>8, <1>9, <1>10, <1>11 DEF Next

\* Only the holder of the interpreter lock is inside a hook.
LEMMA OneInHook ==
  ASSUME LockInv, NEW t \in Threads, gil \in {t, Nobody}
  PROVE  \A u \in Threads \ {t} : pc[u] = "run"
<1>1. t # Nobody /\ Nobody \notin Threads
  BY ConstantsAssumption
<1> QED  BY <1>1 DEF LockInv

\* What every step inside a hook of thread t does to the other threads' pcs.
LEMMA HookPcFacts ==
  ASSUME TypeOK, LockInv, NEW t \in Threads,
         Hook(t) \/ ReturnEnter(t) \/ \E name \in Names : CallEnter(t, name)
  PROVE  /\ \A u \in Threads \ {t} : pc[u] = "run" /\ pc'[u] = "run"
         /\ pc' \in [Threads -> HookPcs]
         /\ gil' \in Threads \cup {Nobody}
<1>1. pc \in [Threads -> HookPcs]
  BY DEF TypeOK
<1>2. CASE Hook(t)
  <2>1. pc[t] # "run"
    BY <1>2 DEF Hook, CallRecord, CallCount, CallStart, ReturnRecord, ReturnAccum, ReturnPop
  <2>2. gil = t
    BY <2>1 DEF LockInv
  <2>3. \A u \in Threads \ {t} : pc[u] = "run"
    BY <2>2, OneInHook
  <2>4. \E x \in HookPcs : pc' = [pc EXCEPT ![t] = x]
    BY <1>2 DEF Hook, CallRecord, CallCount, CallStart, ReturnRecord, ReturnAccum,
                ReturnPop, LeaveHook, HookPcs
  <2>5. gil' \in {gil, Nobody}
    BY <1>2 DEF Hook, CallRecord, CallCount, CallStart, ReturnRecord, ReturnAccum,
                ReturnPop, LeaveHook
  <2> QED  BY <1>1, <2>2, <2>3, <2>4, <2>5
<1>3. CASE ReturnEnter(t) \/ \E name \in Names : CallEnter(t, name)
  <2>1. gil = Nobody /\ gil' = t
    BY <1>3 DEF ReturnEnter, CallEnter, EnterHook
  <2>2. \A u \in Threads \ {t} : pc[u] = "run"
    BY <2>1, OneInHook
  <2>3. \E x \in HookPcs : pc' = [pc EXCEPT ![t] = x]
    BY <1>3 DEF ReturnEnter, CallEnter, EnterHook, HookPcs
  <2> QED  BY <1>1, <2>1, <2>2, <2>3
<1> QED  BY <1>2, <1>3

\* The memory behind the sinfo of a hook.
LEMMA LiveStep ==
  ASSUME TypeOK, LockInv, TreeInv, LiveInv, CacheInv, TimeInv, [Next]_vars
  PROVE  LiveInv'
<1> DEFINE Live(u) ==
             LET slots == bufs[ptr[u].buf].slots IN
               /\ ptr[u].slot \in 1 .. Len(slots)
               /\ slots[ptr[u].slot].node = cur[u]
               /\ slots[ptr[u].slot].parent = nodes[u][cur[u]].parent
           Live2(u) ==
             LET slots == bufs'[ptr'[u].buf].slots IN
               /\ ptr'[u].slot \in 1 .. Len(slots)
               /\ slots[ptr'[u].slot].node = cur'[u]
               /\ slots[ptr'[u].slot].parent = nodes'[u][cur'[u]].parent
<1> USE DEF listVars, treeVars, bufferVars, hookVars, sendVars, linkVars
<1>1. LiveInv <=> \A u \in Threads : /\ pc[u] # "run" => cur[u] # Root
                                     /\ pc[u] \in LivePcs => Live(u)
  BY DEF LiveInv
<1>2. LiveInv' <=> \A u \in Threads : /\ pc'[u] # "run" => cur'[u] # Root
                                      /\ pc'[u] \in LivePcs => Live2(u)
  BY DEF LiveInv
<1>3. /\ "run" \notin LivePcs /\ "record" \notin LivePcs
      /\ "return" \notin LivePcs
  BY DEF LivePcs
<1>T. pc \in [Threads -> HookPcs] /\ bufs \in [Buffers -> RecordBuffer]
      /\ ptr \in [Threads -> [buf : Buffers, slot : Nat]]
  BY DEF TypeOK
<1>4. ASSUME NEW t \in Threads, \A u \in Threads \ {t} : pc'[u] = "run",
             pc'[t] # "run" => cur'[t] # Root, pc'[t] \in LivePcs => Live2(t)
      PROVE  LiveInv'
  <2> HIDE DEF Live2
  <2> QED  BY <1>2, <1>3, <1>4
<1>5. ASSUME NEW t \in Threads, NEW name \in Names, CallEnter(t, name) PROVE LiveInv'
  <2>1. \A u \in Threads \ {t} : pc'[u] = "run"
    BY <1>5, HookPcFacts
  <2>2. pc'[t] = "record"
    BY <1>5, <1>T DEF CallEnter, EnterHook
  <2>3. cur'[t] \in (Root + 1) .. Len(nodes'[t])
    BY <1>5, EnterFacts
  <2>4. cur'[t] # Root
    BY <2>3 DEF Root
  <2> QED  BY <1>3, <1>4, <2>1, <2>2, <2>4
<1>E. ASSUME NEW t \in Threads, ReturnEnter(t) PROVE LiveInv'
  <2>1. \A u \in Threads \ {t} : pc'[u] = "run"
    BY <1>E, HookPcFacts
  <2>2. pc'[t] = "return" /\ cur' = cur /\ cur[t] # Root
    BY <1>E, <1>T DEF ReturnEnter, EnterHook
  <2> QED  BY <1>3, <1>4, <2>1, <2>2
<1>6. ASSUME NEW t \in Threads, CallRecord(t) \/ ReturnRecord(t) PROVE LiveInv'
  <2>1. \A u \in Threads \ {t} : pc'[u] = "run"
    BY <1>6, HookPcFacts DEF Hook
  <2>2. cur[t] # Root /\ cur' = cur /\ GetCurrentNodeInfoPair(t)
    BY <1>6 DEF CallRecord, ReturnRecord, LiveInv
  <2>3. Swapping(t) = {}
    BY <2>2, UnlockedNotSwapping DEF GetCurrentNodeInfoPair
  <2>3a. PairSinfo(t) /\ PairNodes(t)
    BY <2>2, <2>3, PairFacts
  <2>5. nodes'[t][cur[t]].parent = nodes[t][cur[t]].parent
    BY <2>3a, CursorInRange DEF PairNodes
  <2>6. Live2(t)
    BY <2>2, <2>3a, <2>5 DEF PairSinfo
  <2> QED  BY <1>4, <2>1, <2>2, <2>6
<1>7. ASSUME NEW t \in Threads, CallCount(t) \/ ReturnAccum(t) PROVE LiveInv'
  <2>1. \A u \in Threads \ {t} : pc'[u] = "run"
    BY <1>7, HookPcFacts DEF Hook
  <2>2. pc[t] \in LivePcs /\ cur' = cur /\ nodes' = nodes /\ ptr' = ptr
    BY <1>7 DEF CallCount, ReturnAccum, LivePcs
  <2>3. cur[t] # Root /\ Live(t)
    BY <1>1, <1>3, <2>2
  <2>4. ptr[t].buf \in Buffers
    BY <1>T
  <2>5. \A b \in Buffers :
              /\ Len(bufs'[b].slots) = Len(bufs[b].slots)
              /\ \A i \in 1 .. Len(bufs[b].slots) :
                   /\ bufs'[b].slots[i].node = bufs[b].slots[i].node
                   /\ bufs'[b].slots[i].parent = bufs[b].slots[i].parent
    BY <1>7, WriteFacts
  <2>6. Live2(t)
    BY <2>2, <2>3, <2>4, <2>5
  <2> QED  BY <1>4, <2>1, <2>2, <2>3, <2>6
<1>8. ASSUME NEW t \in Threads, CallStart(t) \/ ReturnPop(t) PROVE LiveInv'
  <2>1. \A u \in Threads \ {t} : pc'[u] = "run"
    BY <1>8, HookPcFacts DEF Hook
  <2>2. pc'[t] = "run"
    BY <1>8, <1>T DEF CallStart, ReturnPop, LeaveHook
  <2> QED  BY <1>3, <1>4, <2>1, <2>2
<1>9. ASSUME NEW s \in Senders, FinishSwap(s) PROVE LiveInv'
  <2>1. /\ UNCHANGED <<pc, ptr, cur, nodes>>
        /\ bufs' = [bufs EXCEPT ![front[Target(s)]] = ResetBuffer(@)]
    BY <1>9 DEF FinishSwap
  <2>2. \A b \in Buffers : bufs'[b].slots = bufs[b].slots
    BY <1>T, <2>1 DEF ResetBuffer, RecordBuffer
  <2>3. \A u \in Threads : bufs'[ptr[u].buf].slots = bufs[ptr[u].buf].slots
    BY <1>T, <2>2
  <2>4. \A u \in Threads : Live(u) => Live2(u)
    BY <2>1, <2>3
  <2> HIDE DEF Live, Live2
  <2> QED  BY <1>1, <1>2, <2>1, <2>4
<1>10. ASSUME UNCHANGED <<pc, ptr, cur, nodes, bufs>> PROVE LiveInv'
  BY <1>10 DEF LiveInv
<1>11. ASSUME NEW t \in Threads, Attach(t) PROVE LiveInv'
  BY <1>10, <1>11 DEF Attach
<1>12. ASSUME NEW s \in Senders,
              Connect(s) \/ Drop(s) \/ ReqProfileData(s) \/ LockAndSwap(s)
              \/ TakeBuffer(s) \/ SendProfileData(s) \/ SendNowInfo(s)
       PROVE  LiveInv'
  BY <1>10, <1>12 DEF Connect, Drop, ReqProfileData, LockAndSwap, TakeBuffer,
                      SendProfileData, SendNowInfo
<1>13. CASE Tick \/ UNCHANGED vars
  BY <1>10, <1>13 DEF Tick, vars
<1> QED  BY <1>5, <1>E, <1>6, <1>7, <1>8, <1>9, <1>11, <1>12, <1>13 DEF Next

LEMMA TimesAreNat ==
  ASSUME TypeOK, NEW u \in Threads
  PROVE  /\ \A m \in 1 .. Len(nodes[u]) : nodes[u][m].start \in Nat
         /\ \A i \in 1 .. Len(stack[u]) : stack[u][i].at \in Nat
<1>1. nodes[u] \in Seq(NodeInfo) /\ stack[u] \in Seq(Call)
  BY DEF TypeOK
<1>2. \A m \in 1 .. Len(nodes[u]) : nodes[u][m] \in NodeInfo
  BY <1>1, ElementOfSeq
<1>3. \A i \in 1 .. Len(stack[u]) : stack[u][i] \in Call
  BY <1>1, ElementOfSeq
<1> QED  BY <1>2, <1>3 DEF NodeInfo, Call

\* Start times stay in the past.
LEMMA TimeStep ==
  ASSUME TypeOK, LockInv, TreeInv, LiveInv, CacheInv, TimeInv, [Next]_vars
  PROVE  TimeInv'
<1> USE DEF listVars, treeVars, bufferVars, hookVars, sendVars, linkVars
<1>T. /\ nodes \in [Threads -> Seq(NodeInfo)] /\ stack \in [Threads -> Seq(Call)]
      /\ clock \in Nat
  BY DEF TypeOK
<1>1. ASSUME NEW t \in Threads, NEW name \in Names, CallEnter(t, name) PROVE TimeInv'
  <2>1. clock' = clock
    BY <1>1 DEF CallEnter
  <2>2. /\ \A u \in Threads \ {t} : nodes'[u] = nodes[u] /\ stack'[u] = stack[u]
        /\ \A n \in 1 .. Len(nodes[t]) : nodes'[t][n] = nodes[t][n]
        /\ \A n \in 1 .. Len(nodes'[t]) :
              n \notin 1 .. Len(nodes[t]) => nodes'[t][n] = NewNode(cur[t], name)
        /\ stack'[t] = Append(stack[t], [node |-> cur'[t], at |-> 0])
        /\ cur' \in [Threads -> Nat]
    BY <1>1, EnterFacts
  <2>3. PICK e : e = [node |-> cur'[t], at |-> 0]
    OBVIOUS
  <2>4. e \in Call /\ e.at = 0
    BY <2>2, <2>3 DEF Call
  <2>5. stack[t] \in Seq(Call) /\ stack'[t] = Append(stack[t], e)
    BY <1>T, <2>2, <2>3
  <2>6. /\ Len(stack'[t]) = Len(stack[t]) + 1 /\ Len(stack[t]) \in Nat
        /\ \A i \in 1 .. Len(stack[t]) : stack'[t][i] = stack[t][i]
        /\ stack'[t][Len(stack[t]) + 1] = e
    BY <2>4, <2>5, AppendProperties, LenProperties
  <2>7. \A i \in 1 .. Len(stack'[t]) : stack'[t][i].at <= clock
    <3> SUFFICES ASSUME NEW i \in 1 .. Len(stack'[t]) PROVE stack'[t][i].at <= clock
      OBVIOUS
    <3>1. CASE i \in 1 .. Len(stack[t])
      BY <2>6, <3>1 DEF TimeInv
    <3>2. CASE i \notin 1 .. Len(stack[t])
      <4>1. i = Len(stack[t]) + 1
        BY <2>6, <3>2
      <4> QED  BY <1>T, <2>4, <2>6, <4>1
    <3> QED  BY <3>1, <3>2
  <2>8. \A n \in 1 .. Len(nodes'[t]) : nodes'[t][n].start <= clock
    <3> SUFFICES ASSUME NEW n \in 1 .. Len(nodes'[t]) PROVE nodes'[t][n].start <= clock
      OBVIOUS
    <3>1. CASE n \in 1 .. Len(nodes[t])
      BY <2>2, <3>1 DEF TimeInv
    <3>2. CASE n \notin 1 .. Len(nodes[t])
      <4>1. nodes'[t][n] = NewNode(cur[t], name) /\ NewNode(cur[t], name).start = 0
        BY <2>2, <3>2 DEF NewNode
      <4> QED  BY <1>T, <4>1
    <3> QED  BY <3>1, <3>2
  <2> QED  BY <2>1, <2>2, <2>7, <2>8 DEF TimeInv
<1>2. ASSUME NEW t \in Threads, CallRecord(t) \/ ReturnRecord(t) PROVE TimeInv'
  <2>1. clock' = clock /\ stack' = stack /\ GetCurrentNodeInfoPair(t)
    BY <1>2 DEF CallRecord, ReturnRecord
  <2>2. Swapping(t) = {}
    BY <2>1, UnlockedNotSwapping DEF GetCurrentNodeInfoPair
  <2>3. \A u \in Threads : Len(nodes'[u]) = Len(nodes[u])
           /\ \A m \in 1 .. Len(nodes[u]) : nodes'[u][m].start = nodes[u][m].start
    <3>1. PairNodes(t)
      BY <2>1, <2>2, PairFacts
    <3> QED  BY <3>1 DEF PairNodes
  <2> QED  BY <2>1, <2>3 DEF TimeInv
<1>3. ASSUME NEW t \in Threads, CallStart(t) PROVE TimeInv'
  <2>1. clock' = clock
    BY <1>3 DEF CallStart
  <2>2. \A u \in Threads :
              /\ Len(nodes'[u]) = Len(nodes[u]) /\ Len(stack'[u]) = Len(stack[u])
              /\ \A m \in 1 .. Len(nodes[u]) : nodes'[u][m].start \in {nodes[u][m].start, clock}
              /\ \A i \in 1 .. Len(stack[u]) : stack'[u][i].at \in {stack[u][i].at, clock}
    BY <1>3, StartFacts
  <2>3. ASSUME NEW u \in Threads
        PROVE  /\ \A m \in 1 .. Len(nodes'[u]) : nodes'[u][m].start <= clock
               /\ \A i \in 1 .. Len(stack'[u]) : stack'[u][i].at <= clock
    <3>1. clock <= clock
      BY <1>T
    <3> QED  BY <2>2, <3>1 DEF TimeInv
  <2> QED  BY <2>1, <2>3 DEF TimeInv
<1>4. ASSUME NEW t \in Threads, ReturnPop(t) PROVE TimeInv'
  <2>1. clock' = clock /\ nodes' = nodes
        /\ stack' = [stack EXCEPT ![t] = SubSeq(stack[t], 1, Len(stack[t]) - 1)]
    BY <1>4 DEF ReturnPop
  <2>2. pc[t] \in LivePcs
    BY <1>4 DEF ReturnPop, LivePcs
  <2>3. PICK k \in Nat \ {0} : k = Len(stack[t])
    BY <1>T, <2>2, SinfoFacts, LenProperties
  <2>4. \A i \in 1 .. k - 1 : stack[t][i] \in Call
    BY <1>T, <2>3, ElementOfSeq
  <2>5. 1 \in Int /\ k - 1 \in Int
    OBVIOUS
  <2>6. PICK st : st = SubSeq(stack[t], 1, k - 1)
    OBVIOUS
  <2>7. /\ Len(st) = IF 1 <= k - 1 THEN (k - 1) - 1 + 1 ELSE 0
        /\ \A i \in 1 .. (k - 1) - 1 + 1 : st[i] = stack[t][1 + i - 1]
    BY <2>4, <2>5, <2>6, SubSeqProperties
  <2>8. Len(st) = k - 1
    BY <2>7
  <2>9. \A i \in 1 .. Len(st) : st[i] = stack[t][i] /\ i \in 1 .. Len(stack[t])
    BY <2>3, <2>7, <2>8
  <2>10. stack'[t] = st /\ \A u \in Threads \ {t} : stack'[u] = stack[u]
    BY <1>T, <2>1, <2>3, <2>6
  <2> QED  BY <2>1, <2>9, <2>10 DEF TimeInv
<1>5. ASSUME UNCHANGED <<clock, nodes, stack>> PROVE TimeInv'
  BY <1>5 DEF TimeInv
<1>6. ASSUME NEW t \in Threads,
             Attach(t) \/ CallCount(t) \/ ReturnEnter(t) \/ ReturnAccum(t)
      PROVE  TimeInv'
  BY <1>5, <1>6 DEF Attach, CallCount, ReturnEnter, EnterHook, ReturnAccum
<1>7. ASSUME NEW s \in Senders,
              Connect(s) \/ Drop(s) \/ ReqProfileData(s) \/ LockAndSwap(s) \/ FinishSwap(s)
              \/ TakeBuffer(s) \/ SendProfileData(s) \/ SendNowInfo(s)
       PROVE  TimeInv'
  BY <1>5, <1>7 DEF Connect, Drop, ReqProfileData, LockAndSwap, FinishSwap,
                     TakeBuffer, SendProfileData, SendNowInfo
<1>8. CASE Tick
  <2>1. /\ clock' = clock + 1 /\ nodes' = nodes /\ stack' = stack
    BY <1>8 DEF Tick
  <2>2. \A x \in Nat : x <= clock => x <= clock + 1
    BY <1>T
  <2>3. ASSUME NEW u \in Threads
        PROVE  /\ \A m \in 1 .. Len(nodes[u]) : nodes[u][m].start <= clock + 1
               /\ \A i \in 1 .. Len(stack[u]) : stack[u][i].at <= clock + 1
    BY <2>2, TimesAreNat DEF TimeInv
  <2> QED  BY <2>1, <2>3 DEF TimeInv
<1>9. CASE UNCHANGED vars
  BY <1>5, <1>9 DEF vars
<1> QED  BY <1>1, <1>2, <1>3, <1>4, <1>6, <1>7, <1>8, <1>9 DEF Next

\* Where a home buffer is, when no swap is half done at its thread.
LEMMA CacheFrame ==
  ASSUME CacheInv, UNCHANGED <<nodes, gen, front, bufs, tmp>>,
         \A u \in Threads : Swapping(u)' = Swapping(u)
  PROVE  CacheInv'
<1> DEFINE At(u, n, b) ==
             /\ nodes'[u][n].sidx \in 1 .. bufs'[b].size
             /\ bufs'[b].slots[nodes'[u][n].sidx].node = n
             /\ bufs'[b].slots[nodes'[u][n].sidx].parent = nodes'[u][n].parent
<1>1. \A u \in Threads : \A n \in 1 .. Len(nodes[u]) : \A b : Cached(u, n, b) => At(u, n, b)
  BY DEF Cached
<1>2. ASSUME NEW u \in Threads
      PROVE  /\ gen'[u] >= 1
             /\ \A n \in 1 .. Len(nodes'[u]) :
                  /\ nodes'[u][n].gen <= gen'[u]
                  /\ nodes'[u][n].gen = gen'[u] =>
                       /\ Swapping(u)' = {} => At(u, n, front'[u])
                       /\ \A s \in Swapping(u)' : At(u, n, tmp'[s])
  <2> HIDE DEF At
  <2> QED  BY <1>1 DEF CacheInv
<1>3. \A b \in Buffers : bufs'[b].size <= Len(bufs'[b].slots)
  BY DEF CacheInv
<1> QED  BY <1>2, <1>3 DEF CacheInv, Cached

\* The indices cached in the nodes.
LEMMA CacheStep ==
  ASSUME OneSender, TypeOK, LockInv, BufferInv, TreeInv, LiveInv, CacheInv, TimeInv,
         [Next]_vars
  PROVE  CacheInv'
<1> DEFINE At(u, n, b) ==
             /\ nodes'[u][n].sidx \in 1 .. bufs'[b].size
             /\ bufs'[b].slots[nodes'[u][n].sidx].node = n
             /\ bufs'[b].slots[nodes'[u][n].sidx].parent = nodes'[u][n].parent
           Good(u) ==
             /\ gen'[u] >= 1
             /\ \A n \in 1 .. Len(nodes'[u]) :
                  /\ nodes'[u][n].gen <= gen'[u]
                  /\ nodes'[u][n].gen = gen'[u] =>
                       /\ Swapping(u)' = {} => At(u, n, front'[u])
                       /\ \A s \in Swapping(u)' : At(u, n, tmp'[s])
           Same(b) ==
             /\ bufs'[b].size = bufs[b].size
             /\ \A i \in 1 .. bufs[b].size :
                  /\ bufs'[b].slots[i].node = bufs[b].slots[i].node
                  /\ bufs'[b].slots[i].parent = bufs[b].slots[i].parent
<1> USE DEF listVars, treeVars, bufferVars, hookVars, sendVars, linkVars
<1>T. /\ nodes \in [Threads -> Seq(NodeInfo)] /\ bufs \in [Buffers -> RecordBuffer]
      /\ gen \in [Threads -> Nat] /\ front \in [Threads -> Buffers]
      /\ tmp \in [Senders -> Buffers] /\ spc \in [Senders -> SendPcs]
  BY DEF TypeOK
<1>1. ASSUME \A b \in Buffers : bufs'[b].size <= Len(bufs'[b].slots),
             \A u \in Threads : Good(u)
      PROVE  CacheInv'
  BY <1>1 DEF CacheInv, Cached
<1>2. ASSUME NEW u \in Threads, NEW n \in 1 .. Len(nodes[u])
      PROVE  nodes[u][n] \in NodeInfo
  BY <1>T, ElementOfSeq
<1>3. ASSUME NEW u \in Threads, gen'[u] = gen[u], Len(nodes'[u]) = Len(nodes[u]),
             \A n \in 1 .. Len(nodes[u]) :
                /\ nodes'[u][n].gen = nodes[u][n].gen
                /\ nodes'[u][n].sidx = nodes[u][n].sidx
                /\ nodes'[u][n].parent = nodes[u][n].parent,
             front'[u] = front[u], tmp' = tmp, Swapping(u)' = Swapping(u),
             \A b \in {front[u]} \cup {tmp[s] : s \in Swapping(u)} : Same(b)
      PROVE  Good(u)
  <2>1. ASSUME NEW n \in 1 .. Len(nodes[u]), NEW b, Same(b), Cached(u, n, b)
        PROVE  At(u, n, b)
    BY <1>3, <2>1 DEF Cached
  <2>2. gen[u] >= 1 /\ \A n \in 1 .. Len(nodes[u]) :
             /\ nodes[u][n].gen <= gen[u]
             /\ nodes[u][n].gen = gen[u] =>
                  /\ Swapping(u) = {} => Cached(u, n, front[u])
                  /\ \A s \in Swapping(u) : Cached(u, n, tmp[s])
    BY DEF CacheInv
  <2> HIDE DEF At, Same
  <2>3. Same(front[u]) /\ \A s \in Swapping(u) : Same(tmp[s])
    BY <1>3
  <2> QED  BY <1>3, <2>1, <2>2, <2>3
<1>4. ASSUME NEW u \in Threads, Same(front[u]), \A s \in Senders : Same(tmp[s])
      PROVE  \A b \in {front[u]} \cup {tmp[s] : s \in Swapping(u)} : Same(b)
  <2> HIDE DEF Same
  <2> QED  BY <1>4 DEF Swapping
<1>5. ASSUME UNCHANGED <<spc, it, threads>>
      PROVE  \A u \in Threads : Swapping(u)' = Swapping(u)
  BY <1>5 DEF Swapping, Target
<1>6. ASSUME UNCHANGED bufs
      PROVE  \A b : Same(b)
  BY <1>6
<1>S. ASSUME NEW b \in Buffers PROVE bufs[b].size \in Nat /\ Len(bufs[b].slots) \in Nat
  BY <1>T, LenProperties DEF RecordBuffer
<1> HIDE DEF Same
<1>7. ASSUME NEW t \in Threads, Attach(t) PROVE CacheInv'
  <2>1. UNCHANGED <<nodes, gen, front, bufs, tmp>>
    BY <1>7 DEF Attach
  <2>2. \A u \in Threads : Swapping(u)' = Swapping(u)
    BY <1>7, AttachFacts
  <2> QED  BY <2>1, <2>2, CacheFrame
<1>8. ASSUME UNCHANGED <<nodes, gen, front, bufs, tmp, spc, it, threads>>
      PROVE  CacheInv'
  BY <1>5, <1>8, CacheFrame
<1>9. ASSUME NEW t \in Threads, ReturnEnter(t) \/ ReturnPop(t) PROVE CacheInv'
  BY <1>8, <1>9 DEF ReturnEnter, ReturnPop
<1>10. ASSUME NEW s \in Senders, Connect(s) \/ Drop(s) PROVE CacheInv'
  BY <1>8, <1>10 DEF Connect, Drop
<1>11. CASE Tick \/ UNCHANGED vars
  BY <1>8, <1>11 DEF Tick, vars
<1>12. ASSUME NEW s \in Senders,
              ReqProfileData(s) \/ TakeBuffer(s) \/ SendProfileData(s) \/ SendNowInfo(s)
       PROVE  CacheInv'
  <2>1. spc[s] # "swap" /\ spc'[s] # "swap"
    BY <1>T, <1>12 DEF ReqProfileData, TakeBuffer, SendProfileData, SendNowInfo
  <2>2. \A u \in Threads : Swapping(u)' = Swapping(u)
    BY <2>1 DEF Swapping, OneSender
  <2>3. UNCHANGED <<nodes, gen, front, bufs, tmp>>
    BY <1>12 DEF ReqProfileData, TakeBuffer, SendProfileData, SendNowInfo
  <2> QED  BY <2>2, <2>3, CacheFrame
<1>13. ASSUME NEW s \in Senders, LockAndSwap(s) PROVE CacheInv'
  <2>1. Target(s) \in Threads /\ Target(s)' = Target(s)
    BY <1>13, ElementOfSeq DEF TypeOK, LockInv, LockAndSwap, Target
  <2>2. /\ UNCHANGED <<nodes, gen, bufs>> /\ spc[s] = "lock" /\ spc'[s] = "swap"
        /\ tmp'[s] = front[Target(s)]
        /\ \A u \in Threads : u # Target(s) => front'[u] = front[u]
    BY <1>T, <1>13, <2>1 DEF LockAndSwap
  <2>3. \A u \in Threads : Swapping(u) = {}
    BY <2>2 DEF Swapping, OneSender
  <2>4. \A u \in Threads : Swapping(u)' = IF u = Target(s) THEN {s} ELSE {}
    BY <2>1, <2>2 DEF Swapping, OneSender
  <2>5. ASSUME NEW u \in Threads PROVE Good(u)
    <3>1. gen[u] >= 1 /\ \A n \in 1 .. Len(nodes[u]) :
             /\ nodes[u][n].gen <= gen[u]
             /\ nodes[u][n].gen = gen[u] => Cached(u, n, front[u])
      BY <2>3 DEF CacheInv
    <3>2. \A n \in 1 .. Len(nodes[u]) : Cached(u, n, front[u]) => At(u, n, front[u])
      BY <2>2 DEF Cached
    <3> HIDE DEF At
    <3>3. CASE u = Target(s)
      BY <2>2, <2>4, <3>1, <3>2, <3>3
    <3>4. CASE u # Target(s)
      BY <2>2, <2>4, <3>1, <3>2, <3>4
    <3> QED  BY <3>3, <3>4
  <2>6. \A b \in Buffers : bufs'[b].size <= Len(bufs'[b].slots)
    BY <2>2 DEF CacheInv
  <2> HIDE DEF Good
  <2> QED  BY <1>1, <2>5, <2>6
<1>14. ASSUME NEW s \in Senders, FinishSwap(s) PROVE CacheInv'
  <2>1. Target(s) \in Threads
    BY ElementOfSeq DEF TypeOK, LockInv, Target
  <2>2. PICK t \in Threads : t = Target(s)
    BY <2>1
  <2>3. /\ UNCHANGED <<nodes, front, tmp, it, threads>> /\ spc[s] = "swap" /\ spc'[s] = "take"
        /\ gen' = [gen EXCEPT ![t] = gen[t] + 1]
        /\ bufs' = [bufs EXCEPT ![front[t]] = ResetBuffer(bufs[front[t]])]
    BY <1>T, <1>14, <2>2 DEF FinishSwap
  <2>4. /\ gen'[t] = gen[t] + 1 /\ gen[t] \in Nat
        /\ \A u \in Threads : u # t => gen'[u] = gen[u]
    BY <1>T, <2>3
  <2>5. \A b \in Buffers : /\ bufs'[b].slots = bufs[b].slots
                           /\ bufs'[b].size \in {0, bufs[b].size}
                           /\ b # front[t] => bufs'[b] = bufs[b]
    BY <1>T, <2>3 DEF ResetBuffer, RecordBuffer
  <2>6. \A u \in Threads : Swapping(u)' = {}
    BY <2>3 DEF Swapping, OneSender
  <2>7. \A u \in Threads : u # t => Swapping(u) = {}
    BY <2>2 DEF Swapping, OneSender
  <2>8. Good(t)
    <3>1. gen[t] >= 1 /\ \A n \in 1 .. Len(nodes[t]) : nodes[t][n].gen <= gen[t]
      BY DEF CacheInv
    <3>2. \A n \in 1 .. Len(nodes[t]) : nodes[t][n].gen \in Nat
      BY <1>2 DEF NodeInfo
    <3>3. gen'[t] >= 1
      BY <2>4, <3>1
    <3>4. ASSUME NEW n \in 1 .. Len(nodes'[t])
          PROVE  nodes'[t][n].gen <= gen'[t] /\ nodes'[t][n].gen # gen'[t]
      BY <2>3, <2>4, <3>1, <3>2
    <3> QED  BY <3>3, <3>4
  <2>9. ASSUME NEW u \in Threads, u # t PROVE Good(u)
    <3>1. front[u] # front[t] /\ front[u] \in Buffers
      BY <1>T, <2>9 DEF BufferInv, FrontsDistinct
    <3>2. bufs'[front[u]] = bufs[front[u]]
      BY <2>5, <3>1
    <3>3. Same(front[u])
      BY <3>2 DEF Same
    <3>4. \A b \in {front[u]} \cup {tmp[r] : r \in Swapping(u)} : Same(b)
      BY <2>7, <2>9, <3>3
    <3>5. Swapping(u)' = Swapping(u)
      BY <2>6, <2>7, <2>9
    <3>6. gen'[u] = gen[u] /\ nodes' = nodes /\ front' = front /\ tmp' = tmp
      BY <2>3, <2>4, <2>9
    <3> HIDE DEF Good
    <3> QED  BY <1>3, <3>4, <3>5, <3>6
  <2>10. \A b \in Buffers : bufs'[b].size <= Len(bufs'[b].slots)
    <3> SUFFICES ASSUME NEW b \in Buffers PROVE bufs'[b].size <= Len(bufs'[b].slots)
      OBVIOUS
    <3> QED  BY <1>S, <2>5 DEF CacheInv
  <2> HIDE DEF Good
  <2> QED  BY <1>1, <2>8, <2>9, <2>10
<1>15. ASSUME NEW t \in Threads, CallCount(t) \/ CallStart(t) \/ ReturnAccum(t)
       PROVE  CacheInv'
  <2>1. /\ UNCHANGED <<gen, front, tmp, spc, it, threads>>
    BY <1>15 DEF CallCount, CallStart, ReturnAccum
  <2>2. \A b \in Buffers :
              /\ bufs'[b].size = bufs[b].size
              /\ Len(bufs'[b].slots) = Len(bufs[b].slots)
              /\ \A i \in 1 .. Len(bufs[b].slots) :
                   /\ bufs'[b].slots[i].node = bufs[b].slots[i].node
                   /\ bufs'[b].slots[i].parent = bufs[b].slots[i].parent
    BY <1>15, WriteFacts
  <2>3. \A b \in Buffers : Same(b) /\ bufs'[b].size <= Len(bufs'[b].slots)
    <3> SUFFICES ASSUME NEW b \in Buffers
                 PROVE  Same(b) /\ bufs'[b].size <= Len(bufs'[b].slots)
      OBVIOUS
    <3>1. bufs[b].size <= Len(bufs[b].slots) /\ bufs[b].size \in Nat
          /\ Len(bufs[b].slots) \in Nat
      BY <1>S DEF CacheInv
    <3>2. \A i \in 1 .. bufs[b].size : i \in 1 .. Len(bufs[b].slots)
      BY <3>1
    <3> QED  BY <2>2, <3>1, <3>2 DEF Same
  <2>4. \A u \in Threads : Len(nodes'[u]) = Len(nodes[u])
           /\ \A m \in 1 .. Len(nodes[u]) :
                /\ nodes'[u][m].gen = nodes[u][m].gen
                /\ nodes'[u][m].sidx = nodes[u][m].sidx
                /\ nodes'[u][m].parent = nodes[u][m].parent
    <3>1. CASE CallStart(t)
      BY <3>1, StartFacts
    <3>2. CASE CallCount(t) \/ ReturnAccum(t)
      BY <3>2 DEF CallCount, ReturnAccum
    <3> QED  BY <1>15, <3>1, <3>2
  <2>5. ASSUME NEW u \in Threads PROVE Good(u)
    <3>1. Same(front[u]) /\ \A s \in Senders : Same(tmp[s])
      BY <1>T, <2>3
    <3>2. \A b \in {front[u]} \cup {tmp[r] : r \in Swapping(u)} : Same(b)
      BY <1>4, <3>1
    <3>3. Swapping(u)' = Swapping(u)
      BY <1>5, <2>1
    <3> HIDE DEF Good
    <3> QED  BY <1>3, <2>1, <2>4, <3>2, <3>3
  <2> HIDE DEF Good
  <2> QED  BY <1>1, <2>3, <2>5
<1>16. ASSUME NEW t \in Threads, CallRecord(t) \/ ReturnRecord(t) PROVE CacheInv'
  <2>1. UNCHANGED <<gen, front, tmp, spc, it, threads>> /\ GetCurrentNodeInfoPair(t)
    BY <1>16 DEF CallRecord, ReturnRecord
  <2>2. Swapping(t) = {}
    BY <2>1, UnlockedNotSwapping DEF GetCurrentNodeInfoPair
  <2>3. /\ \A u \in Threads :
             /\ Len(nodes'[u]) = Len(nodes[u])
             /\ \A m \in 1 .. Len(nodes[u]) : u # t => nodes'[u][m] = nodes[u][m]
        /\ \A b \in Buffers :
             /\ bufs'[b].size <= Len(bufs'[b].slots)
             /\ b # front[t] => bufs'[b] = bufs[b]
        /\ \A m \in 1 .. Len(nodes[t]) :
             /\ nodes'[t][m].gen <= gen[t]
             /\ nodes'[t][m].gen = gen[t] => At(t, m, front[t])
    <3>1. PairNodes(t) /\ PairBuffers(t) /\ PairCached(t)
      BY <2>1, <2>2, PairFacts
    <3>2. \A m \in 1 .. Len(nodes[t]) :
             /\ nodes'[t][m].gen <= gen[t]
             /\ nodes'[t][m].gen = gen[t] => At(t, m, front[t])
      BY <3>1 DEF PairCached
    <3> HIDE DEF At
    <3> QED  BY <3>1, <3>2 DEF PairNodes, PairBuffers
  <2>4. Good(t)
    <3>1. Swapping(t)' = {} /\ gen[t] >= 1
      BY <1>5, <2>1, <2>2 DEF CacheInv
    <3>2. gen' = gen /\ front' = front /\ Len(nodes'[t]) = Len(nodes[t])
      BY <2>1, <2>3
    <3> SUFFICES ASSUME NEW n \in 1 .. Len(nodes[t])
                 PROVE  /\ nodes'[t][n].gen <= gen[t]
                        /\ nodes'[t][n].gen = gen[t] => At(t, n, front[t])
      BY <3>1, <3>2
    <3> QED  BY <2>3
  <2>5. ASSUME NEW u \in Threads, u # t PROVE Good(u)
    <3>1. front[u] # front[t] /\ front[u] \in Buffers
      BY <1>T, <2>5 DEF BufferInv, FrontsDistinct
    <3>2. \A s \in Swapping(u) : tmp[s] # front[t] /\ tmp[s] \in Buffers
      BY <1>T DEF BufferInv, Swapping
    <3>3. Same(front[u]) /\ \A s \in Swapping(u) : Same(tmp[s])
      BY <2>3, <3>1, <3>2 DEF Same
    <3>4. \A b \in {front[u]} \cup {tmp[r] : r \in Swapping(u)} : Same(b)
      BY <3>3
    <3>5. Swapping(u)' = Swapping(u)
      BY <1>5, <2>1
    <3>6. Len(nodes'[u]) = Len(nodes[u]) /\ \A n \in 1 .. Len(nodes[u]) :
                /\ nodes'[u][n].gen = nodes[u][n].gen
                /\ nodes'[u][n].sidx = nodes[u][n].sidx
                /\ nodes'[u][n].parent = nodes[u][n].parent
      BY <2>3, <2>5
    <3> HIDE DEF Good
    <3> QED  BY <1>3, <2>1, <3>4, <3>5, <3>6
  <2> HIDE DEF Good
  <2> QED  BY <1>1, <2>3, <2>4, <2>5
<1>17. ASSUME NEW t \in Threads, NEW name \in Names, CallEnter(t, name) PROVE CacheInv'
  <2>1. UNCHANGED <<gen, front, bufs, tmp, spc, it, threads>>
    BY <1>17 DEF CallEnter
  <2>2. /\ \A u \in Threads \ {t} : nodes'[u] = nodes[u]
        /\ \A n \in 1 .. Len(nodes[t]) : nodes'[t][n] = nodes[t][n]
        /\ \A n \in 1 .. Len(nodes'[t]) :
              n \notin 1 .. Len(nodes[t]) => nodes'[t][n] = NewNode(cur[t], name)
    BY <1>17, EnterFacts
  <2>3. \A u \in Threads : Swapping(u)' = Swapping(u)
    BY <1>5, <2>1
  <2>4. ASSUME NEW u \in Threads, u # t PROVE Good(u)
    <3>1. \A b \in {front[u]} \cup {tmp[r] : r \in Swapping(u)} : Same(b)
      BY <1>6, <2>1
    <3>2. nodes'[u] = nodes[u]
      BY <2>2, <2>4
    <3> HIDE DEF Good
    <3> QED  BY <1>3, <2>1, <2>3, <3>1, <3>2
  <2>5. Good(t)
    <3>1. gen[t] >= 1 /\ gen[t] \in Nat
      BY <1>T DEF CacheInv
    <3> SUFFICES ASSUME NEW n \in 1 .. Len(nodes'[t])
                 PROVE  /\ nodes'[t][n].gen <= gen'[t]
                        /\ nodes'[t][n].gen = gen'[t] =>
                             /\ Swapping(t)' = {} => At(t, n, front'[t])
                             /\ \A s \in Swapping(t)' : At(t, n, tmp'[s])
      BY <2>1, <3>1
    <3>2. CASE n \in 1 .. Len(nodes[t])
      <4>1. nodes'[t][n] = nodes[t][n]
        BY <2>2, <3>2
      <4>2. \A b : Cached(t, n, b) => At(t, n, b)
        BY <2>1, <4>1 DEF Cached
      <4>3. /\ nodes[t][n].gen <= gen[t]
            /\ nodes[t][n].gen = gen[t] =>
                 /\ Swapping(t) = {} => Cached(t, n, front[t])
                 /\ \A s \in Swapping(t) : Cached(t, n, tmp[s])
        BY <3>2 DEF CacheInv
      <4> HIDE DEF At
      <4> QED  BY <2>1, <2>3, <4>1, <4>2, <4>3
    <3>3. CASE n \notin 1 .. Len(nodes[t])
      <4>1. nodes'[t][n].gen = 0
        BY <2>2, <3>3 DEF NewNode
      <4>2. nodes'[t][n].gen # gen'[t] /\ nodes'[t][n].gen <= gen'[t]
        BY <2>1, <3>1, <4>1
      <4> QED  BY <4>2
    <3> QED  BY <3>2, <3>3
  <2>6. \A b \in Buffers : bufs'[b].size <= Len(bufs'[b].slots)
    BY <2>1 DEF CacheInv
  <2> HIDE DEF Good
  <2> QED  BY <1>1, <2>4, <2>5, <2>6
<1> QED  BY <1>7, <1>9, <1>10, <1>11, <1>12, <1>13, <1>14, <1>15, <1>16, <1>17 DEF Next

\* The history of measured amounts, changed at one node of one thread.
LEMMA MadeExcept ==
  ASSUME made \in [Threads -> [NodeIDs -> Amount]], NEW t \in Threads, NEW n \in NodeIDs,
         NEW a \in Amount
  PROVE  [made EXCEPT ![t][n] = a] \in [Threads -> [NodeIDs -> Amount]]
OBVIOUS

\* The types.
LEMMA TypeStep ==
  ASSUME TypeOK, LockInv, TreeInv, LiveInv, CacheInv, TimeInv, [Next]_vars
  PROVE  TypeOK'
<1> USE DEF listVars, treeVars, bufferVars, hookVars, sendVars, linkVars
<1>T. /\ bufs \in [Buffers -> RecordBuffer] /\ made \in [Threads -> [NodeIDs -> Amount]]
      /\ nodes \in [Threads -> Seq(NodeInfo)] /\ stack \in [Threads -> Seq(Call)]
      /\ cur \in [Threads -> Nat] /\ clock \in Nat /\ pc \in [Threads -> HookPcs]
      /\ sent \in [Threads -> [NodeIDs -> Amount]]
      /\ cut \in [Threads -> [NodeIDs -> Nat]]
      /\ seen \in [Senders -> [Threads -> SUBSET Nat]]
  BY DEF TypeOK
<1>N. ASSUME NEW t \in Threads PROVE cur[t] \in NodeIDs
  <2>1. cur[t] \in 1 .. Len(nodes[t]) /\ Len(nodes[t]) \in 1 .. MaxNodes
    BY CursorInRange DEF TreeInv
  <2> QED  BY <2>1, ConstantsAssumption DEF NodeIDs
<1>1. ASSUME NEW t \in Threads, Attach(t) PROVE TypeOK'
  <2>1. threads' \in Seq(Threads)
    BY <1>1, AttachFacts
  <2> QED  BY <1>1, <2>1 DEF TypeOK, Attach
<1>2. ASSUME NEW t \in Threads, NEW name \in Names, CallEnter(t, name) PROVE TypeOK'
  <2>1. /\ nodes' \in [Threads -> Seq(NodeInfo)] /\ cur' \in [Threads -> Nat]
        /\ stack' \in [Threads -> Seq(Call)]
    BY <1>2, EnterFacts
  <2>2. pc' \in [Threads -> HookPcs] /\ gil' \in Threads \cup {Nobody}
    BY <1>2, HookPcFacts
  <2>3. nameTable' \subseteq Names \cup {NullName}
    <3>1. nameTable \subseteq Names \cup {NullName}
      BY DEF TypeOK
    <3> QED  BY <1>2, <3>1 DEF CallEnter, AddCallNode, AddCB
  <2>4. UNCHANGED <<threads, bufferVars, ptr, made, sendVars, linkVars, clock>>
    BY <1>2 DEF CallEnter
  <2> QED  BY <2>1, <2>2, <2>3, <2>4 DEF TypeOK
<1>E. ASSUME NEW t \in Threads, ReturnEnter(t) PROVE TypeOK'
  <2>1. pc' \in [Threads -> HookPcs] /\ gil' \in Threads \cup {Nobody}
    BY <1>E, HookPcFacts
  <2>2. UNCHANGED <<listVars, treeVars, bufferVars, ptr, stack, made, sendVars,
                    linkVars, clock>>
    BY <1>E DEF ReturnEnter
  <2> QED  BY <2>1, <2>2 DEF TypeOK
<1>3. ASSUME NEW t \in Threads, CallRecord(t) \/ ReturnRecord(t) PROVE TypeOK'
  <2>1. GetCurrentNodeInfoPair(t) /\
        UNCHANGED <<listVars, cur, gen, front, back, mutex, nowinfo, stack, made,
                    sendVars, linkVars, clock>>
    BY <1>3 DEF CallRecord, ReturnRecord
  <2>2. Swapping(t) = {}
    BY <2>1, UnlockedNotSwapping DEF GetCurrentNodeInfoPair
  <2>3. PairTypes
    BY <2>1, <2>2, PairFacts
  <2>4. pc' \in [Threads -> HookPcs] /\ gil' \in Threads \cup {Nobody}
    BY <1>3, HookPcFacts DEF Hook
  <2> QED  BY <2>1, <2>3, <2>4 DEF TypeOK, PairTypes
<1>4. ASSUME NEW t \in Threads, CallCount(t) \/ CallStart(t) \/ ReturnAccum(t)
      PROVE  /\ bufs' \in [Buffers -> RecordBuffer]
             /\ pc' \in [Threads -> HookPcs] /\ gil' \in Threads \cup {Nobody}
  <2>1. Hook(t)
    BY <1>4 DEF Hook
  <2> QED  BY <1>4, <2>1, WriteFacts, HookPcFacts
<1>5. ASSUME NEW t \in Threads, CallCount(t) PROVE TypeOK'
  <2>1. PICK a : a = made[t][cur[t]]
    OBVIOUS
  <2>2. a \in Amount
    BY <1>N, <1>T, <2>1
  <2>3. [a EXCEPT !.count = @ + 1] \in Amount
    BY <2>2 DEF Amount
  <2>4. made' = [made EXCEPT ![t][cur[t]] = [a EXCEPT !.count = @ + 1]]
    BY <1>5, <2>1 DEF CallCount
  <2>5. made' \in [Threads -> [NodeIDs -> Amount]]
    BY <1>N, <1>T, <2>3, <2>4, MadeExcept
  <2>6. UNCHANGED <<listVars, treeVars, gen, front, back, mutex, nowinfo, ptr, gil,
                    stack, sendVars, linkVars, clock>>
    BY <1>5 DEF CallCount
  <2> QED  BY <1>4, <1>5, <2>5, <2>6 DEF TypeOK
<1>6. ASSUME NEW t \in Threads, CallStart(t) PROVE TypeOK'
  <2>1. nodes' \in [Threads -> Seq(NodeInfo)] /\ stack' \in [Threads -> Seq(Call)]
    BY <1>6, StartFacts
  <2>2. UNCHANGED <<listVars, cur, gen, front, back, mutex, nowinfo, ptr, made,
                    sendVars, linkVars, clock>>
    BY <1>6 DEF CallStart
  <2> QED  BY <1>4, <1>6, <2>1, <2>2 DEF TypeOK
<1>7. ASSUME NEW t \in Threads, ReturnAccum(t) PROVE TypeOK'
  <2>1. pc[t] \in LivePcs
    BY <1>7 DEF ReturnAccum, LivePcs
  <2>2. PICK call : call = stack[t][Len(stack[t])]
    OBVIOUS
  <2>3. call \in Call
    BY <1>T, <2>1, <2>2, SinfoFacts, ElementOfSeq
  <2>4. call.at <= clock /\ call.at \in Nat
    BY <2>1, <2>2, <2>3, SinfoFacts DEF TimeInv, Call
  <2>5. PICK a : a = made[t][cur[t]]
    OBVIOUS
  <2>6. a \in Amount /\ a.time \in Nat
    BY <1>N, <1>T, <2>5 DEF Amount
  <2>7. PICK total : total = (a.time + clock) - call.at
    OBVIOUS
  <2>8. total \in Nat
    BY <1>T, <2>4, <2>6, <2>7
  <2>9. [a EXCEPT !.time = total] \in Amount
    BY <2>6, <2>8 DEF Amount
  <2>10. made' = [made EXCEPT ![t][cur[t]] = [a EXCEPT !.time = total]]
    BY <1>7, <2>2, <2>5, <2>7 DEF ReturnAccum
  <2>11. made' \in [Threads -> [NodeIDs -> Amount]]
    BY <1>N, <1>T, <2>9, <2>10, MadeExcept
  <2>12. UNCHANGED <<listVars, treeVars, gen, front, back, mutex, nowinfo, ptr,
                     gil, stack, sendVars, linkVars, clock>>
    BY <1>7 DEF ReturnAccum
  <2> QED  BY <1>4, <1>7, <2>11, <2>12 DEF TypeOK
<1>8. ASSUME NEW t \in Threads, ReturnPop(t) PROVE TypeOK'
  <2>1. pc[t] \in LivePcs
    BY <1>8 DEF ReturnPop, LivePcs
  <2>2. Sinfo(t).parent \in Nat
    BY <2>1, SinfoFacts DEF Record
  <2>3. cur' \in [Threads -> Nat]
    BY <1>8, <1>T, <2>2 DEF ReturnPop
  <2>4. stack[t] \in Seq(Call) /\ cur[t] # Root
    BY <1>T, <2>1 DEF LiveInv, LivePcs
  <2>5. Path(stack[t], nodes[t], cur[t])
    BY DEF TreeInv, CursorFollowsStack, Path
  <2>6. SubSeq(stack[t], 1, Len(stack[t]) - 1) \in Seq(Call)
    BY <2>4, <2>5, PathPop
  <2>7. stack' \in [Threads -> Seq(Call)]
    BY <1>8, <1>T, <2>6 DEF ReturnPop
  <2>8. pc' \in [Threads -> HookPcs] /\ gil' \in Threads \cup {Nobody}
    BY <1>8, HookPcFacts DEF Hook
  <2>9. UNCHANGED <<listVars, nodes, bufferVars, ptr, made, sendVars, linkVars, clock>>
    BY <1>8 DEF ReturnPop
  <2> QED  BY <2>3, <2>7, <2>8, <2>9 DEF TypeOK
<1>G. ASSUME NEW s \in Senders PROVE Target(s) \in Threads
  BY ElementOfSeq DEF TypeOK, LockInv, Target
<1>9. ASSUME NEW s \in Senders, Connect(s) PROVE TypeOK'
  <2>1. /\ up' = [up EXCEPT ![s] = TRUE]
        /\ seen' = [seen EXCEPT ![s] = [t \in Threads |-> {}]]
        /\ UNCHANGED <<listVars, treeVars, bufferVars, hookVars, spc, it, tmp, sbuf,
                       sent, cut, drops, clock>>
    BY <1>9 DEF Connect
  <2>2. [t \in Threads |-> {}] \in [Threads -> SUBSET Nat]
    OBVIOUS
  <2>3. seen' \in [Senders -> [Threads -> SUBSET Nat]]
    BY <1>T, <2>1, <2>2
  <2>4. up' \in [Senders -> BOOLEAN]
    BY <2>1 DEF TypeOK
  <2> QED  BY <2>1, <2>3, <2>4 DEF TypeOK
<1>10. ASSUME NEW s \in Senders, Drop(s) PROVE TypeOK'
  BY <1>10 DEF TypeOK, Drop
<1>11. ASSUME NEW s \in Senders, ReqProfileData(s) PROVE TypeOK'
  <2>1. /\ it' = [it EXCEPT ![s] = 1] /\ spc' = [spc EXCEPT ![s] = "lock"]
        /\ UNCHANGED <<listVars, treeVars, bufferVars, hookVars, tmp, sbuf, sent, cut,
                       seen, linkVars, clock>>
    BY <1>11 DEF ReqProfileData
  <2>2. it' \in [Senders -> Nat \ {0}] /\ spc' \in [Senders -> SendPcs]
    BY <2>1 DEF TypeOK, SendPcs
  <2> QED  BY <2>1, <2>2 DEF TypeOK
<1>12. ASSUME NEW s \in Senders, LockAndSwap(s) PROVE TypeOK'
  <2>1. PICK t \in Threads : t = Target(s)
    BY <1>G
  <2>2. cut' = IF pc[t] \in {"count", "accum"}
               THEN [cut EXCEPT ![t][cur[t]] = @ + 1] ELSE cut
    BY <1>12, <2>1 DEF LockAndSwap
  <2>3. cut' \in [Threads -> [NodeIDs -> Nat]]
    BY <1>N, <1>T, <2>2
  <2>4. /\ mutex' = [mutex EXCEPT ![t] = s]
        /\ tmp' = [tmp EXCEPT ![s] = front[t]]
        /\ front' = [front EXCEPT ![t] = back]
        /\ spc' = [spc EXCEPT ![s] = "swap"]
        /\ UNCHANGED <<listVars, treeVars, gen, back, bufs, nowinfo, hookVars, it,
                       sbuf, sent, seen, linkVars, clock>>
    BY <1>12, <2>1 DEF LockAndSwap
  <2>5. /\ mutex' \in [Threads -> Senders \cup {Nobody}] /\ tmp' \in [Senders -> Buffers]
        /\ front' \in [Threads -> Buffers] /\ spc' \in [Senders -> SendPcs]
    BY <2>4 DEF TypeOK, SendPcs
  <2> QED  BY <2>3, <2>4, <2>5 DEF TypeOK
<1>13. ASSUME NEW s \in Senders, FinishSwap(s) PROVE TypeOK'
  <2>1. PICK t \in Threads : t = Target(s)
    BY <1>G
  <2>2. /\ back' = tmp[s] /\ gen' = [gen EXCEPT ![t] = @ + 1]
        /\ bufs' = [bufs EXCEPT ![front[t]] = ResetBuffer(@)]
        /\ spc' = [spc EXCEPT ![s] = "take"]
        /\ UNCHANGED <<listVars, treeVars, front, mutex, nowinfo, hookVars, it, tmp,
                       sbuf, sent, cut, seen, linkVars, clock>>
    BY <1>13, <2>1 DEF FinishSwap, SwappedOut
  <2>3. \A b \in Buffers : ResetBuffer(bufs[b]) \in RecordBuffer
    BY <1>T DEF ResetBuffer, RecordBuffer
  <2>4. bufs' \in [Buffers -> RecordBuffer]
    BY <1>T, <2>2, <2>3
  <2>5. back' \in Buffers /\ gen' \in [Threads -> Nat] /\ spc' \in [Senders -> SendPcs]
    <3>1. /\ tmp \in [Senders -> Buffers] /\ gen \in [Threads -> Nat]
          /\ spc \in [Senders -> SendPcs] /\ "take" \in SendPcs
      BY DEF TypeOK, SendPcs
    <3> QED  BY <2>2, <3>1
  <2> QED  BY <2>2, <2>4, <2>5 DEF TypeOK
<1>14. ASSUME NEW s \in Senders, TakeBuffer(s) PROVE TypeOK'
  <2>1. PICK t \in Threads : t = Target(s)
    BY <1>G
  <2>2. /\ sbuf' = [sbuf EXCEPT ![s] = back] /\ nowinfo' = [nowinfo EXCEPT ![t] = cur[t]]
        /\ mutex' = [mutex EXCEPT ![t] = Nobody] /\ spc' = [spc EXCEPT ![s] = "send"]
        /\ UNCHANGED <<listVars, treeVars, gen, front, back, bufs, hookVars, it, tmp,
                       sent, cut, seen, linkVars, clock>>
    BY <1>14, <2>1 DEF TakeBuffer, Drained, Unlock
  <2>3. /\ sbuf' \in [Senders -> Buffers] /\ nowinfo' \in [Threads -> Nat]
        /\ mutex' \in [Threads -> Senders \cup {Nobody}] /\ spc' \in [Senders -> SendPcs]
    BY <2>2 DEF TypeOK, SendPcs
  <2> QED  BY <2>2, <2>3 DEF TypeOK
<1>15. ASSUME NEW s \in Senders, SendProfileData(s) PROVE TypeOK'
  <2>1. PICK t \in Threads : t = Target(s)
    BY <1>G
  <2>2. PICK b \in Buffers : b = sbuf[s]
    BY DEF TypeOK
  <2>3. \A i \in 1 .. bufs[b].size : bufs[b].slots[i] \in Record
    <3>1. /\ bufs[b].slots \in Seq(Record) /\ bufs[b].size \in Nat
          /\ bufs[b].size <= Len(bufs[b].slots) /\ Len(bufs[b].slots) \in Nat
      BY <1>T, LenProperties DEF CacheInv, RecordBuffer
    <3> QED  BY <3>1, ElementOfSeq
  <2>4. \A n \in NodeIDs : Reported(b, n) \in Amount
    BY <2>3 DEF Reported, Listed, Zero, Amount, Record
  <2>5. \A x, y \in Amount : Add(x, y) \in Amount
    BY DEF Add, Amount
  <2>6. sent' = [sent EXCEPT ![t] = [n \in NodeIDs |-> Add(@[n], Reported(b, n))]]
    BY <1>15, <2>1, <2>2 DEF SendProfileData
  <2>7. [n \in NodeIDs |-> Add(sent[t][n], Reported(b, n))] \in [NodeIDs -> Amount]
    BY <1>T, <2>4, <2>5
  <2>8. sent' \in [Threads -> [NodeIDs -> Amount]]
    BY <1>T, <2>6, <2>7
  <2>9. PICK told : told = {bufs[b].slots[i].node : i \in 1 .. bufs[b].size}
    OBVIOUS
  <2>10. told \subseteq Nat
    BY <2>3, <2>9 DEF Record
  <2>11. seen' = IF up[s] THEN [seen EXCEPT ![s][t] = @ \cup told] ELSE seen
    BY <1>15, <2>1, <2>2, <2>9 DEF SendProfileData
  <2>12. seen' \in [Senders -> [Threads -> SUBSET Nat]]
    BY <1>T, <2>10, <2>11
  <2>13. /\ spc' = [spc EXCEPT ![s] = "now"]
         /\ UNCHANGED <<listVars, treeVars, bufferVars, hookVars, it, tmp, sbuf, cut,
                        linkVars, clock>>
    BY <1>15 DEF SendProfileData
  <2>14. spc' \in [Senders -> SendPcs]
    BY <2>13 DEF TypeOK, SendPcs
  <2> QED  BY <2>8, <2>12, <2>13, <2>14 DEF TypeOK
<1>16. ASSUME NEW s \in Senders, SendNowInfo(s) PROVE TypeOK'
  <2>1. it \in [Senders -> Nat \ {0}] /\ spc \in [Senders -> SendPcs]
    BY DEF TypeOK
  <2>2. it' \in [Senders -> Nat \ {0}] /\ spc' \in [Senders -> SendPcs]
    BY <1>16, <2>1 DEF SendNowInfo, SendPcs
  <2>3. UNCHANGED <<listVars, treeVars, bufferVars, hookVars, tmp, sbuf, sent, cut,
                    seen, linkVars, clock>>
    BY <1>16 DEF SendNowInfo
  <2> QED  BY <2>2, <2>3 DEF TypeOK
<1>17. CASE Tick
  BY <1>17 DEF TypeOK, Tick
<1>18. CASE UNCHANGED vars
  BY <1>18 DEF TypeOK, vars
<1> QED  BY <1>1, <1>2, <1>E, <1>3, <1>5, <1>6, <1>7, <1>8, <1>9, <1>10, <1>11, <1>12,
            <1>13, <1>14, <1>15, <1>16, <1>17, <1>18 DEF Next

(***************************************************************************)
(* The theorems.                                                           *)
(***************************************************************************)

\* The strengthened invariant is inductive when there is one dispatch thread.
LEMMA StepInv == ASSUME OneSender PROVE IInv /\ [Next]_vars => IInv'
<1> SUFFICES ASSUME IInv, [Next]_vars PROVE IInv'
  OBVIOUS
<1>1. /\ TypeOK /\ LockInv /\ BufferInv /\ TreeInv /\ LiveInv /\ CacheInv /\ TimeInv
  BY DEF IInv
<1>2. TypeOK'
  BY <1>1, TypeStep
<1>3. LockInv'
  BY <1>1, LockStep
<1>4. BufferInv'
  BY <1>1, BufferStep
<1>5. TreeInv'
  BY <1>1, TreeStep
<1>6. LiveInv'
  BY <1>1, LiveStep
<1>7. CacheInv'
  BY <1>1, CacheStep
<1>8. TimeInv'
  BY <1>1, TimeStep
<1> QED  BY <1>2, <1>3, <1>4, <1>5, <1>6, <1>7, <1>8 DEF IInv

\* An invariant every state of the recorder satisfies, from which the theorems
\* below follow state by state.
THEOREM Invariance == ASSUME OneSender PROVE Spec => []IInv
<1>1. Init => IInv
  BY InitInv
<1>2. IInv /\ [Next]_vars => IInv'
  BY StepInv
<1> QED  BY <1>1, <1>2, PTL DEF Spec

\* The variables keep their types: in particular no accumulated time is ever
\* negative and the cursor never leaves the natural numbers, whatever a return
\* hook finds in a record that was drained under its hands.
THEOREM TypeCorrect == ASSUME OneSender PROVE Spec => []TypeOK
<1>1. IInv => TypeOK
  BY DEF IInv
<1> QED  BY <1>1, Invariance, PTL

\* No two threads of the program ever record into the same buffer.
THEOREM FrontsStayDistinct == ASSUME OneSender PROVE Spec => []FrontsDistinct
<1>1. IInv => FrontsDistinct
  BY DEF IInv, BufferInv
<1> QED  BY <1>1, Invariance, PTL

\* With one dispatch thread, nobody records into the buffer being sent.
THEOREM SendBufferIsPrivate == ASSUME OneSender PROVE Spec => []SendBufferPrivate
<1>1. ASSUME IInv PROVE SendBufferPrivate
  <2>1. TypeOK /\ LockInv /\ BufferInv
    BY <1>1 DEF IInv
  <2> SUFFICES ASSUME NEW s \in Senders, spc[s] = "send" PROVE \A t \in Threads : front[t] # sbuf[s]
    BY DEF SendBufferPrivate, OneSender
  <2>2. sbuf[s] = back /\ \A r \in Senders : spc[r] # "swap"
    BY <2>1 DEF BufferInv, OneSender
  <2> QED  BY <2>1, <2>2 DEF BufferInv
<1> QED  BY <1>1, Invariance, PTL

\* The cursor is the node of the innermost outstanding call.
THEOREM CursorAlwaysFollows == ASSUME OneSender PROVE Spec => []CursorFollowsStack
<1>1. IInv => CursorFollowsStack
  BY DEF IInv, TreeInv
<1> QED  BY <1>1, Invariance, PTL

\* The record index cached in a node is valid while its generation is current.
THEOREM CachedIndexAlwaysValid == ASSUME OneSender PROVE Spec => []CachedIndexValid
<1>1. ASSUME IInv PROVE CachedIndexValid
  <2>1. CacheInv
    BY <1>1 DEF IInv
  <2> SUFFICES ASSUME NEW t \in Threads, NEW n \in 1 .. Len(nodes[t]), nodes[t][n].gen = gen[t]
               PROVE  Cached(t, n, HomeBuffer(t))
    BY DEF CachedIndexValid, Cached
  <2>2. CASE Swapping(t) = {}
    BY <2>1, <2>2 DEF CacheInv, HomeBuffer
  <2>3. CASE Swapping(t) # {}
    <3>1. (CHOOSE s \in Swapping(t) : TRUE) \in Swapping(t)
      BY <2>3
    <3> QED  BY <2>1, <2>3, <3>1 DEF CacheInv, HomeBuffer
  <2> QED  BY <2>2, <2>3
<1> QED  BY <1>1, Invariance, PTL
=============================================================================
