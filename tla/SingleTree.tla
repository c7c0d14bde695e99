---------------------------- MODULE SingleTree ----------------------------
(***************************************************************************)
(* The integrated tree of the monitor (WEBMON_SINGLE).  After a round of   *)
(* fetches GlobalDataStore::Integrate adds the newest time slice of every  *)
(* thread store to one global tree and removes the slices of the source    *)
(* (webmon/data_store.cpp).  A node of the global tree stands for all      *)
(* nodes with the same path of names; it is found by its gnid, a hash of   *)
(* that path, here the path itself, and numbered in order of arrival.      *)
(*                                                                         *)
(* Integrate takes no lock: it is one step per thread store, and requests  *)
(* come in between.  What a fetch files in a slice is in ThreadStore; here *)
(* a tree is the call counts of its nodes.                                 *)
(***************************************************************************)
EXTENDS Integers, Sequences, FiniteSets, FiniteSetsExt, SequencesExt

CONSTANTS
  Stores,      \* ids of the stores, numbers
  ThreadIds,   \* ids of the threads of a store, numbers
  Shapes,      \* call trees: sequences of [parent, name], one per node from 2 on
  MaxRecords,  \* bound: records of a program
  MaxTime,     \* bound: time numbers
  MaxQueries   \* bound: diff requests

ASSUME SingleTreeConstants ==
  /\ Stores \subseteq Nat \ {0} /\ Stores # {} /\ ThreadIds \subseteq Nat
  /\ IsFiniteSet(Stores) /\ IsFiniteSet(ThreadIds)
  /\ \A s \in Shapes : s \in Seq(Range(s)) /\ \A i \in DOMAIN s : s[i].parent \in 1 .. i
  /\ MaxRecords \in Nat /\ {MaxTime, MaxQueries} \subseteq Nat

Sources == Stores \X ThreadIds

\* The number of records of a global store that took it, uninitialised, from a
\* store without metadata: no node has as many, and none has metadata.
Blank == MaxRecords + 1

VARIABLES
  shape,     \* the call tree each source's program builds
  records,   \* the number of records of each store's program, 0 without LLPROF_RECORDS
  state,     \* first_received_ and recv_: "absent", "new", "live", "dead"
  meta,      \* the stores that have their record metadata
  time,      \* current_time_number_ of each store
  tree,      \* current_tree_ of each source
  slices,    \* time_slice_ of each source, a function on its time numbers
  gtime,     \* current_time_number_ of the global store
  ids,       \* gnid_to_seq_, a function on paths
  gparent,   \* the parent of each node of the global tree
  gtree,     \* current_tree_ of the global store
  gslices,   \* its time_slice_
  lent,      \* its num_records_, 0 until a store lends it its record metadata
  dest,      \* dest_tss is where the slice is
  pc,        \* the receive thread; "stopped" by an answer, "crashed" here
  todo,      \* the stores still to be fetched, or the sources to be integrated
  queries,   \* requests so far
  future     \* history: a request named a time that was still to come

sourceVars == <<shape, records, state, meta, time, tree, slices>>
globalVars == <<gtime, ids, gparent, gtree, gslices, lent, dest>>
vars == <<sourceVars, globalVars, pc, todo, queries, future>>

-----------------------------------------------------------------------------
(* Call trees.                                                             *)

Nodes(s) == 1 .. Len(shape[s]) + 1
Parent(s, n) == IF n = 1 THEN 0 ELSE shape[s][n - 1].parent

\* TouchGNID: the gnid of the parent and the name; the root's is given.
GNID(s, n) ==
  LET path[m \in 0 .. Len(shape[s]) + 1] ==
        IF m <= 1 THEN << >> ELSE Append(path[Parent(s, m)], shape[s][m - 1].name)
  IN  path[n]

\* A node with its ancestors, which ClearDirtyNode visits with it.
Above(s, n) ==
  LET up[m \in Nodes(s)] == IF m = 1 THEN {1} ELSE {m} \cup up[Parent(s, m)]
  IN  up[n]

NoNodes == << >>
Plus(counts, more) == [n \in DOMAIN counts \cup DOMAIN more |->
  (IF n \in DOMAIN counts THEN counts[n] ELSE 0) + (IF n \in DOMAIN more THEN more[n] ELSE 0)]

-----------------------------------------------------------------------------
(* Time slices.                                                            *)

\* MUTANT: a lookup starts the vector afresh.
GetTimeSlice_Restart(v, ts) == [k \in {ts} |-> IF k \in DOMAIN v THEN v[k] ELSE NoNodes]

\* The vector after a lookup, which grows it; an empty one starts at the time
\* asked for.  The lookup finds nothing if that is before the start.
GetTimeSlice(v, ts) ==
  LET start == IF v = << >> THEN ts ELSE Min(DOMAIN v)
  IN  IF ts < start THEN v
      ELSE [k \in start .. Max(DOMAIN v \cup {ts}) |-> IF k \in DOMAIN v THEN v[k] ELSE NoNodes]

\* MUTANT: the loops go one time number too far.
Queried_Past(v, from, to) == GetTimeSlice(GetTimeSlice(v, from), to + 1)

\* MergeTimeSlice from .. to, then GetStartProfileValue from - 1 .. to.
Queried(v, from, to) ==
  IF from <= to THEN GetTimeSlice(GetTimeSlice(v, from), to)
  ELSE IF from = to + 1 THEN GetTimeSlice(v, to) ELSE v

-----------------------------------------------------------------------------
Init ==
  /\ shape \in [Sources -> Shapes] /\ records \in [Stores -> 0 .. MaxRecords]
  /\ state = [i \in Stores |-> "absent"] /\ meta = {}
  /\ time = [i \in Stores |-> 0]
  /\ tree = [s \in Sources |-> NoNodes] /\ slices = [s \in Sources |-> << >>]
  /\ gtime = 0 /\ ids = << >>
  /\ gparent = <<0>> /\ gtree = <<0>> /\ gslices = << >> /\ lent = 0 /\ dest = TRUE
  /\ pc = "sleep" /\ todo = {} /\ queries = 0 /\ future = FALSE

\* NewDataStore leaves num_records_ uninitialised.
Create(i) ==
  /\ state[i] = "absent"
  /\ state' = [state EXCEPT ![i] = "new"]
  /\ UNCHANGED <<shape, records, meta, time, tree, slices, globalVars, pc, todo, queries, future>>

\* The receive thread visits the stores in the order of their ids.
Wake ==
  /\ pc = "sleep" /\ gtime < MaxTime /\ \A i \in Stores : time[i] < MaxTime
  /\ pc' = "fetch" /\ todo' = Stores
  /\ UNCHANGED <<sourceVars, globalVars, queries, future>>

-----------------------------------------------------------------------------
(* DataStore::ReceiveLoop.                                                 *)

NextStore(i) == todo' = todo \ {i} /\ pc' = IF todo = {i} THEN "choose" ELSE "fetch"

\* What ClearDirtyNode files in a slice: the nodes called, and their ancestors
\* and those of the running node.
Filed(s, called, running) ==
  [n \in UNION {Above(s, m) : m \in called \cup running} |-> IF n \in called THEN 1 ELSE 0]

\* A program has sent the ancestors of a node before it, or sends them with it.
Sendable(s) == {called \in SUBSET (Nodes(s) \ {1}) :
  \A n \in called : Above(s, n) \subseteq {1} \cup DOMAIN tree[s] \cup called}

\* The running node, none if the monitor does not know it yet.
Running(s) == {{}} \cup {{n} : n \in {1} \cup DOMAIN tree[s]}

\* The batch is filed in the slice of the new time number, which Store asserts
\* that it finds.
Store(i, batch, run) ==
  LET grown(t) == GetTimeSlice(slices[i, t], time'[i])
      filed(t) == Filed(<<i, t>>, batch[t], run[t])
  IN
  IF \E t \in ThreadIds : time'[i] \notin DOMAIN grown(t)
  THEN pc' = "crashed" /\ UNCHANGED <<tree, slices, todo>>
  ELSE /\ slices' = [s \in Sources |-> IF s[1] # i THEN slices[s]
                       ELSE [grown(s[2]) EXCEPT ![time'[i]] = filed(s[2])]]
       /\ tree' = [s \in Sources |-> IF s[1] # i THEN tree[s]
                       ELSE Plus(Plus(tree[s], <<0>>), filed(s[2]))]
       /\ NextStore(i)

\* The first exchange, if there was none yet, and a fetch.
Fetch(i) ==
  /\ state[i] \in {"new", "live"}
  /\ state' = [state EXCEPT ![i] = "live"] /\ meta' = meta \cup {i}
  /\ time' = [time EXCEPT ![i] = @ + 1]
  /\ \E batch \in [ThreadIds -> SUBSET UNION {Nodes(<<i, t>>) : t \in ThreadIds}],
        run \in [ThreadIds -> UNION {Running(<<i, t>>) : t \in ThreadIds}] :
       /\ \A t \in ThreadIds : batch[t] \in Sendable(<<i, t>>) /\ run[t] \in Running(<<i, t>>)
       /\ Store(i, batch, run)
  /\ UNCHANGED <<shape, records>>

\* The target cannot be reached or does not answer the first question; or the
\* first exchange succeeds, or was made before, and the fetch breaks off.
FetchFails(i) ==
  /\ state[i] \in {"new", "live"}
  /\ state' = [state EXCEPT ![i] = "dead"]
  /\ \/ state[i] = "new" /\ UNCHANGED <<meta, time>>
     \/ meta' = meta \cup {i} /\ time' = [time EXCEPT ![i] = @ + 1]
  /\ NextStore(i)
  /\ UNCHANGED <<shape, records, tree, slices>>

\* A later question or the query for names is not answered, and the monitor is
\* killed, or an answer is cut short, and read without an end (see Session).
BadAnswer(i) ==
  /\ state[i] \in {"new", "live"}
  /\ pc' = "stopped"
  /\ UNCHANGED <<sourceVars, todo>>

Skip(i) ==
  /\ state[i] \in {"absent", "dead"}
  /\ NextStore(i)
  /\ UNCHANGED sourceVars

Receive ==
  /\ pc = "fetch"
  /\ LET i == Min(todo) IN Fetch(i) \/ FetchFails(i) \/ BadAnswer(i) \/ Skip(i)
  /\ UNCHANGED <<globalVars, queries, future>>

-----------------------------------------------------------------------------
(* GlobalDataStore::Integrate and GlobalThreadStore::Integrate.            *)

Existing == {s \in Sources : tree[s] # NoNodes}

\* The first store with a number of records that is not 0 lends its metadata;
\* until there is one, the slices of the sources pile up.  A store without
\* metadata has any number: the root of the global tree is resized to it, which
\* may fail.
BeginIntegrate ==
  /\ pc = "choose"
  /\ \E nonzero \in SUBSET {i \in Stores \ meta : state[i] # "absent"} :
       LET lenders == {i \in meta : records[i] # 0} \cup nonzero
           lender  == Min(lenders)
           number  == IF lent # 0 THEN lent ELSE IF lender \in meta THEN records[lender] ELSE Blank
       IN
       \/ /\ lent = 0 /\ lenders = {}
          /\ pc' = "sleep" /\ UNCHANGED <<todo, gtime, gslices, lent, dest>>
       \/ /\ lent = 0 /\ lenders # {} /\ lender \notin meta
          /\ pc' = "crashed" /\ UNCHANGED <<todo, gtime, gslices, lent, dest>>
       \/ /\ lent # 0 \/ lenders # {}
          /\ lent' = number
          /\ gtime' = gtime + 1
          /\ gslices' = GetTimeSlice(gslices, gtime + 1)
          /\ dest' = TRUE
          /\ todo' = Existing
          /\ pc' = IF Existing = {} THEN "sleep" ELSE "integrate"
  /\ UNCHANGED <<sourceVars, ids, gparent, gtree, queries, future>>

\* MUTANT: the numbers begin with that of the root.
GNIDToSeq_One(f, path) ==
  IF path = << >> \/ path \in DOMAIN f THEN f
  ELSE [p \in DOMAIN f \cup {path} |-> IF p = path THEN Cardinality(DOMAIN f) + 1 ELSE f[p]]

\* A gnid that is new gets the next number.
GNIDToSeq(f, path) ==
  IF path = << >> \/ path \in DOMAIN f THEN f
  ELSE [p \in DOMAIN f \cup {path} |-> IF p = path THEN Cardinality(DOMAIN f) + 2 ELSE f[p]]

\* MUTANT: the number is looked up for the root too.
Seq0_Looked(f, path) == IF path \in DOMAIN f THEN f[path] ELSE 0

Seq0(f, path) == IF path = << >> THEN 1 ELSE f[path]

\* The gnid of a node is looked up, then its parent's.
Numbered(s, f, n) == GNIDToSeq(GNIDToSeq(f, GNID(s, n)), GNID(s, Parent(s, n)))

\* The nodes of a slice are visited in the order of their numbers.
AllNumbered(s, f, nodes) ==
  LET upto[n \in 0 .. Len(shape[s]) + 1] ==
        IF n = 0 THEN f ELSE IF n \in nodes THEN Numbered(s, upto[n - 1], n) ELSE upto[n - 1]
  IN  upto[Len(shape[s]) + 1]

\* MUTANT: the slices are kept.
RemoveTimeSlice_Not(v) == v

RemoveTimeSlice(v) == << >>

\* The threads of the stores are visited in the order of the two maps.
NextSource ==
  CHOOSE s \in todo : \A r \in todo : s[1] < r[1] \/ (s[1] = r[1] /\ s[2] <= r[2])

\* MUTANT: a source is taken for one with as many records as the global store.
Short_Never(s, src) == FALSE

\* The loop over the records reads beyond what the source has of a node.
Short(s, src) == DOMAIN src # {} /\ records[s[1]] < lent

\* The first record is never a Static one, which the loop leaves out: a node
\* without records is read at a null pointer, as metadata that is not there.
\* Beyond a node's records there is other memory.
Fatal(s) == records[s[1]] = 0 \/ lent = Blank

\* The nodes of a slice are added to the global tree and to its newest slice.
IntegrateSlice(s, src) ==
  LET f     == AllNumbered(s, ids, DOMAIN src)
      At(n) == Seq0(f, GNID(s, n))
      To    == {At(n) : n \in DOMAIN src}
      added == [d \in To |-> SumFunctionOnSet(src, {n \in DOMAIN src : At(n) = d})]
  IN
  /\ ids' = f
  /\ gparent' = [d \in DOMAIN gparent \cup To |-> IF d \in DOMAIN gparent THEN gparent[d]
       ELSE LET n == CHOOSE m \in DOMAIN src : At(m) = d IN Seq0(f, Front(GNID(s, n)))]
  /\ gtree' = Plus(gtree, added)
  \* a dest_tss that is no more is written to, wherever it was
  /\ gslices' = IF dest THEN [gslices EXCEPT ![gtime] = Plus(@, added)] ELSE gslices

Integrate ==
  /\ pc = "integrate"
  /\ LET s   == NextSource
         v   == GetTimeSlice(slices[s], time[s[1]])
         src == v[time[s[1]]]
     IN
     \/ /\ time[s[1]] \in DOMAIN v => Short(s, src)   \* no slice: a null pointer
        /\ pc' = "crashed" /\ UNCHANGED <<slices, ids, gparent, gtree, gslices, todo>>
     \/ /\ time[s[1]] \in DOMAIN v /\ (Short(s, src) => ~Fatal(s))
        /\ IntegrateSlice(s, src)
        /\ slices' = [slices EXCEPT ![s] = RemoveTimeSlice(v)]
        /\ todo' = todo \ {s}
        /\ pc' = IF todo = {s} THEN "sleep" ELSE pc
  /\ UNCHANGED <<shape, records, state, meta, time, tree, gtime, lent, dest, queries, future>>

-----------------------------------------------------------------------------
(* Diff requests for a source and for the global tree.                     *)

\* Once the receive thread has come to an end, there is nothing left to disturb.
Query(i, from, to, now) ==
  /\ pc \notin {"stopped", "crashed"} /\ queries < MaxQueries
  /\ queries' = queries + 1
  /\ future' = (future \/ to > now)

QuerySource(i, from, to) ==
  /\ Query(i, from, to, time[i])
  /\ slices' = [s \in Sources |-> IF s[1] = i /\ tree[s] # NoNodes
                  THEN Queried(slices[s], from, to) ELSE slices[s]]
  /\ UNCHANGED <<shape, records, state, meta, time, tree, globalVars, pc, todo>>

\* The vector may move when it grows.
QueryGlobal(from, to) ==
  /\ lent # 0
  /\ Query(0, from, to, gtime)
  /\ gslices' = Queried(gslices, from, to)
  /\ dest' = (dest /\ DOMAIN gslices' = DOMAIN gslices)
  /\ UNCHANGED <<sourceVars, gtime, ids, gparent, gtree, lent, pc, todo>>

Next ==
  \/ \E i \in Stores : Create(i)
  \/ Wake \/ Receive \/ BeginIntegrate \/ Integrate
  \/ \E from, to \in 1 .. MaxTime + 1 :
       QueryGlobal(from, to) \/ \E i \in Stores : QuerySource(i, from, to)

Spec == Init /\ [][Next]_vars

-----------------------------------------------------------------------------
(* Properties.                                                             *)

\* The state of the stores, the global tree and the receive thread is of the
\* expected kind; a number stands for one path, and the parent of its node for
\* the path without the last name (TouchGNID, GNIDToSeq, AddCurrentNode).
TypeOK ==
  /\ state \in [Stores -> {"absent", "new", "live", "dead"}]
  /\ meta \subseteq Stores
  /\ time \in [Stores -> 0 .. MaxTime] /\ gtime \in 0 .. MaxTime
  /\ \A s \in Sources : DOMAIN tree[s] \subseteq Nodes(s)
  /\ pc \in {"sleep", "fetch", "choose", "integrate", "stopped", "crashed"}
  /\ lent \in 0 .. Blank
  /\ DOMAIN gparent = DOMAIN gtree /\ DOMAIN gtree = 1 .. Cardinality(DOMAIN ids) + 1
  /\ \A p \in DOMAIN ids : gparent[ids[p]] = Seq0(ids, Front(p))
  /\ queries \in 0 .. MaxQueries /\ {dest, future} \subseteq BOOLEAN

\* The calls a source's tree counts under a path.
Count(s, counts, path) ==
  SumFunctionOnSet(counts, {n \in DOMAIN counts : GNID(s, n) = path})
Pending(s, path) ==
  SumFunction([k \in DOMAIN slices[s] |-> Count(s, slices[s][k], path)])
Integrated(path) ==
  IF path = << >> THEN gtree[1] ELSE IF path \in DOMAIN ids THEN gtree[ids[path]] ELSE 0

\* The sources whose programs record anything.
Measured == {s \in Sources : records[s[1]] # 0}

\* Every call of a program that records anything is in the global tree, under
\* the same path and once, or in a slice that is still to be integrated,
\* whatever was asked of the sources meanwhile; no call of another program is
\* in the global tree (GlobalThreadStore::Integrate).
GlobalTotals ==
  pc # "crashed" =>
    \A path \in UNION {{GNID(s, n) : n \in Nodes(s)} : s \in Sources} :
      Integrated(path) + SumFunction([s \in Measured |-> Pending(s, path)])
        = SumFunction([s \in Measured |-> Count(s, tree[s], path)])

\* The slices of the global store add up to its tree, so that its diffs are
\* right, unless a request for a time to come moved the slice being written
\* (GlobalThreadStore::Integrate keeps a pointer to it over all sources).
GlobalSlicesAddUp ==
  ~future =>
    \A d \in DOMAIN gtree :
      gtree[d] = SumFunction([k \in DOMAIN gslices |->
                                IF d \in DOMAIN gslices[k] THEN gslices[k][d] ELSE 0])

\* Storing and integrating crash only if a request named a time to come, so
\* that a source's slices start after its next batch, if a target was there of
\* which the monitor never got the metadata, or if a target has fewer records
\* than the one the global store took its metadata from (Store,
\* GlobalDataStore::Integrate, GlobalThreadStore::Integrate).
CrashNeedsReason ==
  pc = "crashed" =>
    \/ future
    \/ \E i \in Stores \ meta : state[i] # "absent"
    \/ \E i \in meta : records[i] < lent
=============================================================================
