----------------------------- MODULE ThreadStore -----------------------------
(***************************************************************************)
(* The monitor's store for one thread of one profiled program (ThreadStore *)
(* and TimeSliceStore of webmon/data_store.cpp), with the steps of the     *)
(* DataStore that feed it (GetProfileData) and read it (DumpJSON).         *)
(*                                                                         *)
(* Every successful fetch hands over one batch of records and the running  *)
(* node.  Store adds the batch to the running totals of the current tree   *)
(* and files it, rolled up towards the root, in the slice of that fetch; a *)
(* client asks for the sum of the slices between two fetches.  Fetches and *)
(* queries hold the DataStore's lock for their whole length.               *)
(*                                                                         *)
(* Records come in three kinds (RecordMetadata): an Accumulated value      *)
(* already includes what the callees spent, a Static value replaces the    *)
(* previous one, any other is added to all the callers.  The variants      *)
(* WEBMON_ATTR (attribute nodes) and WEBMON_SINGLE are not in this module. *)
(***************************************************************************)
EXTENDS Integers, Sequences, FiniteSets, SequencesExt, Functions

CONSTANTS
  Fields,       \* the active records of the profiled program
  Accumulated,  \* fields whose flags contain 'A'
  Static,       \* fields whose flags contain 'S'
  Payloads,     \* what one record can report: a value per field and calls
  MaxNode,      \* bound: nodes of the thread, root included
  MaxTime       \* bound: fetches

Values  == [Fields -> Int]
Blank   == [f \in Fields |-> 0]
Payload == [val : Values, cc : Nat]
Nothing == [val |-> Blank, cc |-> 0]

ASSUME StoreConstants ==
  /\ Accumulated \subseteq Fields
  /\ Static \subseteq Fields \ Accumulated
  /\ Payloads \subseteq Payload
  /\ MaxNode \in Nat \ {0}
  /\ MaxTime \in Nat

VARIABLES
  shape,    \* the call tree of the program: the parent of every node
  tree,     \* ThreadStore::current_tree_, the nodes the monitor knows
  dirty,    \* nodes whose dirty_ is set
  temp,     \* temp_values_ and temp_call_count_ of every node
  marked,   \* nodes whose running_ is set
  running,  \* ThreadStore::running_node_
  start,    \* start_time_number_
  slices,   \* time_slice_
  time,     \* DataStore::current_time_number_
  recv,     \* DataStore::recv_
  got,      \* history: what was received for each node
  snap      \* history: the tree after each fetch

storeVars == <<tree, dirty, temp, marked, running>>
sliceVars == <<start, slices>>
vars == <<shape, storeVars, sliceVars, time, recv, got, snap>>

-----------------------------------------------------------------------------
(* Data.                                                                   *)

Root  == 1
Nodes == 1 .. MaxNode
Times == 1 .. MaxTime

RecordNode == [parent : Nat, children : SUBSET Nodes,
               all : Values, cld : Values, cc : Nat]
SliceNode  == [all : Values, cld : Values, cc : Nat]

NewNode(parent) ==
  [parent |-> parent, children |-> {}, all |-> Blank, cld |-> Blank, cc |-> 0]

\* now_values_ is the fetch its values came with, 0 for the empty vector.
EmptySlice == [nodes |-> << >>, now |-> 0, run |-> 0]

Set(f, x, v) == [y \in DOMAIN f \cup {x} |-> IF y = x THEN v ELSE f[y]]

\* GetNodeFromID(GetParentNodeID()), again and again, as long as a node is
\* known and not among the ones to stop at.
Ascent(t, n, stop) ==
  LET up[m \in 0 .. MaxNode] ==
        IF m \in DOMAIN t \ stop THEN {m} \cup up[t[m].parent] ELSE {}
  IN  up[n]

\* The recorder numbers nodes as they are added, the root first.
Shapes == {s \in [Nodes -> 0 .. MaxNode] :
             \A n \in Nodes : s[n] < n /\ (s[n] = 0 <=> n = Root)}

Init ==
  /\ shape \in Shapes
  /\ tree    = [n \in {Root} |-> NewNode(0)]
  /\ dirty   = {}
  /\ temp    = [n \in Nodes |-> Nothing]
  /\ marked  = {}
  /\ running = 0
  /\ start   = 0
  /\ slices  = << >>
  /\ time    = 0
  /\ recv    = TRUE
  /\ got     = [n \in Nodes |-> Nothing]
  /\ snap    = << >>

-----------------------------------------------------------------------------
(* Time slices.                                                            *)

\* MUTANT: the vector is resized whenever a slice is looked up.
Padded_Resized(seq, len) ==
  [i \in 1 .. len |-> IF i <= Len(seq) THEN seq[i] ELSE EmptySlice]

\* time_slice_.resize, only ever to a greater size.
Padded(seq, len) ==
  [i \in 1 .. IF len > Len(seq) THEN len ELSE Len(seq) |->
     IF i <= Len(seq) THEN seq[i] ELSE EmptySlice]

\* The first slice fixes the time number the vector starts at.
StartTime(ts) == IF slices = << >> THEN ts ELSE start

\* MUTANT: the vector gets one slice too many.
SliceIndex_OffByOne(ts) == ts - StartTime(ts) + 2

\* GetTimeSlice: the place of slice ts in the vector.
SliceIndex(ts) == ts - StartTime(ts) + 1

-----------------------------------------------------------------------------
(* Storing a batch.  A working store w has a tree, its dirty nodes and     *)
(* their temporary values.                                                 *)

\* MUTANT: a node that is dirty already is cleared again.
NewlyDirty_Again(w, n) == Ascent(w.tree, n, {})

\* MarkNodeDirty stops at the first node that is dirty already.
NewlyDirty(w, n) == Ascent(w.tree, n, w.dirty)

\* A Static value keeps its previous value by default.
DefaultValue(node, f) == IF f \in Static THEN node.all[f] ELSE 0

\* MarkNodeDirty, which does nothing for a node that is not known.
MarkNodeDirty(w, n) ==
  LET new == NewlyDirty(w, n)
  IN  [w EXCEPT
         !.dirty = @ \cup new,
         !.temp  = [m \in Nodes |->
           IF m \in new
           THEN [val |-> [f \in Fields |-> DefaultValue(w.tree[m], f)], cc |-> 0]
           ELSE @[m]]]

\* MUTANT: the new node is not entered in its parent's children.
AddNode_NoChild(t, n, parent) == Set(t, n, NewNode(parent))

\* AddCurrentNode and AddChildID
AddNode(t, n, parent) ==
  [Set(t, n, NewNode(parent)) EXCEPT ![parent].children = @ \cup {n}]

\* One turn of Store's loop over the records of a batch.
AddRecord(w, rec) ==
  LET known == IF rec.node \in DOMAIN w.tree
               THEN w
               ELSE [w EXCEPT !.tree = AddNode(@, rec.node, shape[rec.node])]
  IN  [MarkNodeDirty(known, rec.node) EXCEPT
         !.temp[rec.node] = [val |-> rec.val, cc |-> rec.cc]]

\* The children ClearDirtyNode folds into a node.
DirtyChildren(w, n) == w.tree[n].children \cap w.dirty

\* MUTANT: an Accumulated value is passed on to the caller.
PassedOn_Accumulated(f) == f \notin Static

\* AddTempToChildren adds to the caller's own temporary value too.
PassedOn(f) == f \notin Static \cup Accumulated

\* The temporary values ClearDirtyNode leaves in every node.
RolledUp(w) ==
  LET roll[n \in DOMAIN w.tree] ==
        [f \in Fields |->
           w.temp[n].val[f] +
           (IF PassedOn(f)
            THEN SumFunctionOnSet([c \in DirtyChildren(w, n) |-> roll[c][f]],
                                  DirtyChildren(w, n))
            ELSE 0)]
  IN  roll

\* What ClearDirtyNode adds to a node's children_values_.
FromChildren(w, roll, n) ==
  LET kids == DirtyChildren(w, n)
  IN  [f \in Fields |->
         IF f \in Static THEN 0
         ELSE SumFunctionOnSet([c \in kids |-> roll[c][f]], kids)]

\* The dirty nodes the recursion from the root comes to.
Visited(w) ==
  LET reached[n \in Nodes] ==
        /\ n \in w.dirty
        /\ \/ n = Root
           \/ LET p == w.tree[n].parent
              IN  n \in w.tree[p].children /\ reached[p]
  IN  {n \in Nodes : reached[n]}

\* ClearDirtyNode, what it makes of a node of the current tree.
Cleared(w, roll, n) ==
  [w.tree[n] EXCEPT
     !.all = [f \in Fields |->
                IF f \in Static THEN roll[n][f] ELSE @[f] + roll[n][f]],
     !.cld = [f \in Fields |-> @[f] + FromChildren(w, roll, n)[f]],
     !.cc  = @ + w.temp[n].cc]

\* MUTANT: the children's share is left out of what is filed.
Filed_Own(w, roll, n) ==
  [all |-> w.temp[n].val, cld |-> FromChildren(w, roll, n), cc |-> w.temp[n].cc]

\* ClearDirtyNode, what it makes of a node of the slice, which is new there.
Filed(w, roll, n) ==
  [all |-> roll[n], cld |-> FromChildren(w, roll, n), cc |-> w.temp[n].cc]

\* MUTANT: the nodes that were running stay marked.
Unmarked_Not == marked

\* UnmarkRunningNodes
Unmarked == marked \ Ascent(tree, running, {})

\* History: what a node was sent, a Static value being replaced.
Received(sum, rec) ==
  [val |-> [f \in Fields |->
              IF f \in Static THEN rec.val[f] ELSE sum.val[f] + rec.val[f]],
   cc  |-> sum.cc + rec.cc]

\* ThreadStore::Store(buf, nowinfo_buf), in the slice of fetch ts.
Store(batch, run, ts) ==
  LET w0   == MarkNodeDirty([tree |-> tree, dirty |-> dirty, temp |-> temp], run)
      w    == FoldLeft(AddRecord, w0, batch)
      roll == RolledUp(w)
      done == Visited(w)
      i    == SliceIndex(ts)
      news == [nodes |-> [n \in done |-> Filed(w, roll, n)], now |-> ts, run |-> run]
      ends == [n \in DOMAIN w.tree |->
                 IF n \in done THEN Cleared(w, roll, n) ELSE w.tree[n]]
  IN  /\ marked'  = Unmarked \cup Ascent(tree, run, {})
      /\ running' = run
      /\ tree'    = ends
      /\ dirty'   = w.dirty \ done
      /\ temp'    = [n \in Nodes |-> IF n \in done THEN Nothing ELSE w.temp[n]]
      /\ start'   = StartTime(ts)
      /\ slices'  = [Padded(slices, i) EXCEPT ![i] = news]
      /\ got'     = FoldLeft(LAMBDA g, rec : [g EXCEPT ![rec.node] = Received(@, rec)],
                             got, batch)
      /\ snap'    = Append(snap, ends)

-----------------------------------------------------------------------------
(* The batches a program can send.                                         *)

\* The nodes from n up to the root, without it.
PathTo(n) ==
  LET up[m \in 0 .. MaxNode] == IF m \in {0, Root} THEN {} ELSE {m} \cup up[shape[m]]
  IN  up[n]

\* The calls and returns on the way from one node to another.
Between(m, n) == (PathTo(m) \ PathTo(n)) \cup (PathTo(n) \ PathTo(m))

Cursor == IF running = 0 THEN Root ELSE running

\* The cursor moves by calls and returns, each of which records the node it
\* enters or leaves; a poll may fall between the record of a return and its
\* move, or between the move of a call and its record.
CanSend(order, run) ==
  LET before(i) == {order[j] : j \in 1 .. i}
      all       == before(Len(order))
  IN  /\ \A i \in 1 .. Len(order) :
           shape[order[i]] \in DOMAIN tree \cup before(i - 1)
      /\ IF Cursor \in DOMAIN tree
         THEN \E from \in {Cursor, shape[Cursor]} \ {0} :
                /\ \A i \in 1 .. Len(order) :
                     Between(from, order[i]) \subseteq before(i)
                /\ \/ Between(from, run) \subseteq all
                   \/ run # Root /\ Between(from, shape[run]) \subseteq all
         ELSE IF order = << >> THEN run = Cursor
         ELSE /\ order[1] = Cursor
              /\ \A i \in 1 .. Len(order) :
                   Between(Cursor, order[i]) \subseteq before(i)
              /\ \/ Between(Cursor, run) \subseteq all
                 \/ run # Root /\ Between(Cursor, shape[run]) \subseteq all

-----------------------------------------------------------------------------
(* Actions.                                                                *)

\* GetProfileData: an answer with this thread's records and its running node.
Fetch(order, run) ==
  /\ recv
  /\ time < MaxTime
  /\ CanSend(order, run)
  /\ time' = time + 1
  /\ \E what \in [1 .. Len(order) -> Payloads] :
       Store([i \in 1 .. Len(order) |->
                [node |-> order[i], val |-> what[i].val, cc |-> what[i].cc]],
             run, time + 1)
  /\ UNCHANGED <<shape, recv>>

\* GetProfileData: an answer without this thread, which has not appeared yet;
\* its store is made by the first answer that has it.
FetchBefore ==
  /\ recv
  /\ time < MaxTime
  /\ slices = << >>
  /\ time' = time + 1
  /\ UNCHANGED <<shape, storeVars, sliceVars, recv, got, snap>>

\* GetProfileData returns early, and ReceiveLoop clears recv_; the time number
\* was advanced before.
FailedFetch ==
  /\ recv
  /\ time < MaxTime
  /\ time' = time + 1
  /\ recv' = FALSE
  /\ UNCHANGED <<shape, storeVars, sliceVars, got, snap>>

\* DumpJSON with DF_DIFF_TREE: reading a slice beyond the last creates it.
QueryDiff(to) ==
  /\ slices # << >>
  /\ slices' = Padded(slices, SliceIndex(IF to = 0 THEN time ELSE to))
  /\ UNCHANGED <<shape, storeVars, start, time, recv, got, snap>>

Next ==
  \/ \E order \in SetToAllKPermutations(Nodes \ {Root}), run \in Nodes :
       Fetch(order, run)
  \/ FetchBefore
  \/ FailedFetch
  \/ \E to \in 0 .. time + 1 : QueryDiff(to)

Spec == Init /\ [][Next]_vars

-----------------------------------------------------------------------------
(* What a client is shown.                                                 *)

\* MergeTimeSlice: the slices from one time to another that there are.
Merged(from, to) ==
  {i \in 1 .. Len(slices) : i >= SliceIndex(from) /\ i <= SliceIndex(to)}

\* RecordNodeBasic::Accumulate over the slices that hold the node, in order.
SliceSum(n, from, to) ==
  LET has  == {i \in Merged(from, to) : n \in DOMAIN slices[i].nodes}
      last == CHOOSE i \in has : \A j \in has : i >= j
      sum(val(_)) == SumFunctionOnSet([i \in has |-> val(slices[i].nodes[n])], has)
  IN  [all |-> [f \in Fields |-> IF f \in Static
                                 THEN IF has = {} THEN 0 ELSE slices[last].nodes[n].all[f]
                                 ELSE sum(LAMBDA x : x.all[f])],
       cld |-> [f \in Fields |-> sum(LAMBDA x : x.cld[f])],
       cc  |-> sum(LAMBDA x : x.cc)]

-----------------------------------------------------------------------------
(* Properties.                                                             *)

Diffs == {d \in Times \X Times : d[1] <= d[2] /\ d[2] <= time}

\* The type of every variable; the slices reach one beyond the present at most.
TypeOK ==
  /\ shape \in [Nodes -> 0 .. MaxNode]
  /\ DOMAIN tree \subseteq Nodes
  /\ \A n \in DOMAIN tree : tree[n] \in RecordNode
  /\ dirty \cup marked \subseteq Nodes
  /\ temp \in [Nodes -> Payload]
  /\ {running, start, time} \subseteq Nat
  /\ slices # << >> => Len(slices) <= time - start + 2
  /\ \A i \in 1 .. Len(slices) :
       /\ DOMAIN slices[i].nodes \subseteq Nodes
       /\ \A n \in DOMAIN slices[i].nodes : slices[i].nodes[n] \in SliceNode
       /\ {slices[i].now, slices[i].run} \subseteq Nat
  /\ recv \in BOOLEAN
  /\ got \in [Nodes -> Payload]
  /\ \A i \in 1 .. Len(snap) :
       \A n \in DOMAIN snap[i] : n \in Nodes /\ snap[i][n] \in RecordNode

\* The nodes known to be below n, and n itself.
Below(n) == {m \in DOMAIN tree : n \in Ascent(tree, m, {})}

\* However the fetches cut the calls, and in whatever order the records of a
\* batch come: a node's total is what was received for it, with what was
\* received below it unless the counter includes that itself or is Static, and
\* the children's share is the sum over the children.
TotalsRight ==
  \A n \in DOMAIN tree :
    /\ tree[n].cc = got[n].cc
    /\ \A f \in Fields :
         /\ tree[n].all[f] =
              IF f \in Static \cup Accumulated THEN got[n].val[f]
              ELSE SumFunctionOnSet([m \in Below(n) |-> got[m].val[f]], Below(n))
         /\ f \notin Static =>
              LET kids == {c \in DOMAIN tree : tree[c].parent = n}
              IN  tree[n].cld[f] =
                    SumFunctionOnSet([c \in kids |-> tree[c].all[f]], kids)

\* No node is left dirty between two batches: a dirty node that the descent
\* from the root misses would swallow every later batch for its branch.
NothingLeftDirty == dirty = {}

\* Whichever two fetches a client asks for, and whatever was asked before, the
\* answer is the change of the current tree between them (what
\* CheckAllTimeSlice compares for the whole time).
DiffIsTheChange ==
  \A d \in Diffs :
    LET first == IF d[1] > start THEN d[1] - start ELSE 0
        last  == IF d[2] < start + Len(snap) THEN d[2] - start + 1 ELSE Len(snap)
    IN  (last > first) =>
          \A n \in DOMAIN snap[last] :
            LET sum    == SliceSum(n, d[1], d[2])
                before == IF first > 0 /\ n \in DOMAIN snap[first]
                          THEN snap[first][n] ELSE NewNode(0)
                after  == snap[last][n]
            IN  /\ before.cc + sum.cc = after.cc
                /\ \A f \in Fields \ Static :
                     /\ before.all[f] + sum.all[f] = after.all[f]
                     /\ before.cld[f] + sum.cld[f] = after.cld[f]
                /\ \A f \in Static : sum.all[f] \in {after.all[f], 0}

\* While the connection lives, a diff up to now shows the counters and the
\* running node of the last fetch, as the current tree does; not the empty ones
\* of a slice that a query created.
DiffIsUpToDate ==
  (recv /\ slices # << >>) =>
    \E i \in 1 .. Len(slices) :
      i = SliceIndex(time) /\ slices[i].now = time /\ slices[i].run = running

\* A node stays marked as running only while it is on the way from the running
\* node to the root.
MarkedOnPath == marked \subseteq Ascent(tree, running, {})

\* A slice that was filled is history: no later batch or query changes it.
SlicesAreFinal ==
  [][\A i \in 1 .. Len(slices) :
       slices[i] # EmptySlice => i <= Len(slices') /\ slices'[i] = slices[i]]_vars

\* Every node of the current tree but the root is in some slice, so that
\* CheckAllTimeSlice, which looks each of them up without a test, can only
\* fail for the root: of it a first answer without records tells no slice.
OnlyRootUncovered ==
  \A n \in DOMAIN tree \ {Root} :
    \E i \in 1 .. Len(slices) : n \in DOMAIN slices[i].nodes
============================================================================
