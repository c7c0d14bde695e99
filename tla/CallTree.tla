------------------------------ MODULE CallTree ------------------------------
(***************************************************************************)
(* The recorder linked into the profiled program (llprofcommon/            *)
(* call_tree.cpp) and the dispatch threads that drain it                   *)
(* (llprofcommon/server.cpp, MSG_REQ_PROFILE_DATA).                        *)
(*                                                                         *)
(* Every thread of the program owns a tree of call nodes and a front       *)
(* buffer of serialized records, at most one record per node and           *)
(* generation.  The hooks (llprof_call_handler, llprof_return_handler)     *)
(* find the record of the current node under the thread's DataMutex, but   *)
(* update it through the pointer they obtained AFTER the mutex was         *)
(* released.  A dispatch thread answers a poll by exchanging each front    *)
(* buffer with the one global back buffer and sending what it got.         *)
(*                                                                         *)
(* One counter record is configured ("time", LLPROF_RECORDS=time):         *)
(* profile_value[0] accumulates time, profile_value[1] is the start time.  *)
(* llprof_icl_profile_value never writes (see RecordTypes) and is absent.  *)
(***************************************************************************)
EXTENDS Naturals, Sequences

CONSTANTS
  Threads,    \* threads of the profiled program
  Main,       \* the thread that ran llprof_calltree_init
  Senders,    \* dispatch threads: llprof_server_thread, llprof_client_thread
  Names,      \* name ids the interpreter can pass to the call hook
  NullName,   \* name id 0, the name of every root node
  Spare,      \* the buffer allocated by llprof_calltree_init
  Nobody,     \* the holder of a free lock
  MaxNodes,   \* bound: nodes per thread, root included
  MaxCalls,   \* bound: calls per node
  MaxPolls,   \* bound: answered polls
  MaxTime,    \* bound: clock readings
  MaxDrops    \* bound: connections lost

ASSUME ConstantsAssumption ==
  /\ Main \in Threads
  /\ Spare \notin Threads
  /\ Nobody \notin Threads \cup Senders
  /\ NullName \notin Names
  /\ MaxNodes \in Nat \ {0}
  /\ {MaxCalls, MaxPolls, MaxTime, MaxDrops} \subseteq Nat

VARIABLES
  threads,    \* the list from gFirstThread, in order of attachment
  nodes,      \* ThreadInfo::NodeInfoArray, from index 1 (the root) on
  cur,        \* ThreadInfo::CurrentCallNodeID
  gen,        \* ThreadInfo::GenerationNumber
  front,      \* ThreadInfo::SerializedNodeInfoArray
  mutex,      \* ThreadInfo::DataMutex
  nowinfo,    \* ThreadInfo::NowInfo[0]
  back,       \* gBackBuffer_SerializedNodeInfoArray
  bufs,       \* what the record buffers hold
  nameTable,  \* keys of gNameIDTbl
  pc, ptr,    \* where each program thread is in a hook, and its sinfo
  gil,        \* the interpreter lock, held for a whole hook
  clock,      \* get_time_now_nsec
  spc, it,    \* where each dispatch thread is, and its ThreadIterator
  tmp, sbuf,  \* local of std::swap; the buffer handed to SendMessage2
  up, drops,  \* is the socket connected; connections lost so far
  stack,      \* history: the outstanding calls of each thread
  made,       \* history: calls and time the hooks measured, per node
  sent,       \* history: calls and time handed to the socket, per node
  cut,        \* history: drains that met a hook between unlock and update
  seen        \* history: nodes the connected monitor was told of

listVars   == <<threads, nameTable>>
treeVars   == <<nodes, cur>>
bufferVars == <<gen, front, back, bufs, mutex, nowinfo>>
hookVars   == <<pc, ptr, gil, stack, made>>
sendVars   == <<spc, it, tmp, sbuf, sent, cut, seen>>
linkVars   == <<up, drops>>
vars == <<listVars, treeVars, bufferVars, hookVars, sendVars, linkVars, clock>>

-----------------------------------------------------------------------------
(* Data.                                                                   *)

Root    == 1
NodeIDs == 1 .. MaxNodes
Buffers == Threads \cup {Spare}

NodeInfo == [parent : Nat, name : Names \cup {NullName},
             sidx : Nat, gen : Nat, start : Nat]
Record   == [node : Nat, parent : Nat, name : Names \cup {NullName},
             count : Nat, time : Nat, start : Nat]
Amount   == [count : Nat, time : Nat]

RecordBuffer == [size : Nat, slots : Seq(Record)]   \* free_stride_vector
Call         == [node : Nat, at : Nat]              \* an outstanding call

\* MUTANT: every node is filed under the root.
NewNode_UnderRoot(parent, name) ==
  [parent |-> Root, name |-> name, sidx |-> 0, gen |-> 0, start |-> 0]

NewNode(parent, name) ==
  [parent |-> parent, name |-> name, sidx |-> 0, gen |-> 0, start |-> 0]

NewRecord(n, info) ==
  [node |-> n, parent |-> info.parent, name |-> info.name,
   count |-> 0, time |-> 0, start |-> 0]

\* A buffer's elements beyond its size stay in memory: resize(0) frees nothing.
EmptyBuffer == [size |-> 0, slots |-> << >>]

\* MUTANT: resize(size() - 1).
NewTailElem_Shrinks(buf, rec) == [buf EXCEPT !.size = @ - 1]

\* new_tail_elem: realloc keeps the first size elements and adds one.
NewTailElem(buf, rec) ==
  [size  |-> buf.size + 1,
   slots |-> Append(SubSeq(buf.slots, 1, buf.size), rec)]

\* MUTANT: the swapped-in buffer keeps its records.
ResetBuffer_Keeps(buf) == buf

\* SerializedNodeInfoArray->resize(0)
ResetBuffer(buf) == [buf EXCEPT !.size = 0]

\* MUTANT: the index of the element before the new one.
LastIndex_OffByOne(buf) == buf.size - 1

\* size() - 1 of the code's zero-based array
LastIndex(buf) == buf.size

Attached == {threads[i] : i \in 1 .. Len(threads)}

Children(t, n, name) ==
  {m \in 1 .. Len(nodes[t]) : nodes[t][m].parent = n /\ nodes[t][m].name = name}

\* The thread whose buffer a dispatch thread is handling.
Target(s) == threads[it[s]]

Zero == [count |-> 0, time |-> 0]

Init ==
  /\ threads   = <<Main>>
  /\ nameTable = {NullName}
  /\ nodes     = [t \in Threads |-> <<NewNode(0, NullName)>>]
  /\ cur       = [t \in Threads |-> Root]
  /\ gen       = [t \in Threads |-> 1]
  /\ front     = [t \in Threads |-> t]
  /\ mutex     = [t \in Threads |-> Nobody]
  /\ nowinfo   = [t \in Threads |-> 0]
  /\ back      = Spare
  /\ bufs      = [b \in Buffers |-> EmptyBuffer]
  /\ pc        = [t \in Threads |-> "run"]
  /\ ptr       = [t \in Threads |-> [buf |-> Spare, slot |-> 0]]
  /\ gil       = Nobody
  /\ clock     = 1
  /\ spc       = [s \in Senders |-> "wait"]
  /\ it        = [s \in Senders |-> 1]
  /\ tmp       = [s \in Senders |-> Spare]
  /\ sbuf      = [s \in Senders |-> Spare]
  /\ up        = [s \in Senders |-> FALSE]
  /\ drops     = 0
  /\ stack     = [t \in Threads |-> << >>]
  /\ made      = [t \in Threads |-> [n \in NodeIDs |-> Zero]]
  /\ sent      = [t \in Threads |-> [n \in NodeIDs |-> Zero]]
  /\ cut       = [t \in Threads |-> [n \in NodeIDs |-> 0]]
  /\ seen      = [s \in Senders |-> [t \in Threads |-> {}]]

-----------------------------------------------------------------------------
(* The program's threads.  The interpreters call the hooks with their      *)
(* global lock held, so at most one thread is inside a hook.               *)

\* get_current_thread, first use in a thread: a ThreadInfo joins the list.
Attach(t) ==
  /\ t \notin Attached
  /\ threads' = Append(threads, t)
  /\ UNCHANGED <<nameTable, treeVars, bufferVars, hookVars, sendVars, linkVars,
                 clock>>

EnterHook(t, next) ==
  /\ t \in Attached
  /\ pc[t] = "run"
  /\ gil = Nobody
  /\ gil' = t
  /\ pc' = [pc EXCEPT ![t] = next]

LeaveHook(t) ==
  /\ gil' = Nobody
  /\ pc' = [pc EXCEPT ![t] = "run"]

\* MUTANT: a record is added on every lookup.
NeedsRecord_Always(t, info) == TRUE

NeedsRecord(t, info) == info.gen # gen[t]

\* get_current_node_info_pair: one critical section under DataMutex.
GetCurrentNodeInfoPair(t) ==
  LET n    == cur[t]
      b    == front[t]
      info == nodes[t][n]
      grown == NewTailElem(bufs[b], NewRecord(n, info))
  IN  /\ mutex[t] = Nobody
      /\ \/ /\ ~NeedsRecord(t, info)
            /\ ptr' = [ptr EXCEPT ![t] = [buf |-> b, slot |-> info.sidx]]
            /\ UNCHANGED <<bufs, nodes>>
         \/ /\ NeedsRecord(t, info)                       \* AddActualRecord
            /\ bufs'  = [bufs EXCEPT ![b] = grown]
            /\ nodes' = [nodes EXCEPT
                           ![t][n] = [info EXCEPT !.sidx = LastIndex(grown),
                                                  !.gen  = gen[t]]]
            /\ ptr'   = [ptr EXCEPT ![t] = [buf  |-> b,
                                            slot |-> LastIndex(grown)]]

\* The write through sinfo, wherever that record is by now.
UpdateRecord(t, rec) ==
  bufs' = [bufs EXCEPT ![ptr[t].buf].slots[ptr[t].slot] = rec]

Sinfo(t) == bufs[ptr[t].buf].slots[ptr[t].slot]

\* MUTANT: the name is never entered.
AddCB_Skips(name) == nameTable

\* NameTable::AddCB; the keys only, what a name looks like is not modelled.
AddCB(name) == nameTable \cup {name}

\* ThreadInfo::AddCallNode
AddCallNode(t, name) ==
  /\ Len(nodes[t]) < MaxNodes
  /\ nodes' = [nodes EXCEPT ![t] = Append(@, NewNode(cur[t], name))]
  /\ nameTable' = AddCB(name)
  /\ cur' = [cur EXCEPT ![t] = Len(nodes[t]) + 1]

\* llprof_call_handler, up to the lookup: GetChildNodeID moves the cursor.
CallEnter(t, name) ==
  /\ EnterHook(t, "record")
  /\ \/ /\ Children(t, cur[t], name) = {}
        /\ AddCallNode(t, name)
     \/ \E c \in Children(t, cur[t], name) :
          /\ made[t][c].count < MaxCalls
          /\ cur' = [cur EXCEPT ![t] = c]
          /\ UNCHANGED <<nodes, nameTable>>
  /\ stack' = [stack EXCEPT ![t] = Append(@, [node |-> cur'[t], at |-> 0])]
  /\ UNCHANGED <<threads, bufferVars, ptr, made, sendVars, linkVars, clock>>

CallRecord(t) ==
  /\ pc[t] = "record"
  /\ GetCurrentNodeInfoPair(t)
  /\ pc' = [pc EXCEPT ![t] = "count"]
  /\ UNCHANGED <<listVars, cur, gen, front, back, mutex, nowinfo, gil, stack,
                 made, sendVars, linkVars, clock>>

\* sinfo->call_count++
CallCount(t) ==
  /\ pc[t] = "count"
  /\ UpdateRecord(t, [Sinfo(t) EXCEPT !.count = @ + 1])
  /\ made' = [made EXCEPT ![t][cur[t]].count = @ + 1]
  /\ pc' = [pc EXCEPT ![t] = "start"]
  /\ UNCHANGED <<listVars, treeVars, gen, front, back, mutex, nowinfo, ptr, gil,
                 stack, sendVars, linkVars, clock>>

\* llprof_rtype_start_node, and the copy of the start value into the node.
CallStart(t) ==
  /\ pc[t] = "start"
  /\ UpdateRecord(t, [Sinfo(t) EXCEPT !.start = clock])
  /\ nodes' = [nodes EXCEPT ![t][cur[t]].start = clock]
  /\ stack' = [stack EXCEPT ![t][Len(stack[t])].at = clock]
  /\ LeaveHook(t)
  /\ UNCHANGED <<listVars, cur, gen, front, back, mutex, nowinfo, ptr, made,
                 sendVars, linkVars, clock>>

\* llprof_return_handler; at the root it returns without touching anything.
ReturnEnter(t) ==
  /\ EnterHook(t, "return")
  /\ cur[t] # Root
  /\ UNCHANGED <<listVars, treeVars, bufferVars, ptr, stack, made, sendVars,
                 linkVars, clock>>

ReturnRecord(t) ==
  /\ pc[t] = "return"
  /\ GetCurrentNodeInfoPair(t)
  /\ pc' = [pc EXCEPT ![t] = "accum"]
  /\ UNCHANGED <<listVars, cur, gen, front, back, mutex, nowinfo, gil, stack,
                 made, sendVars, linkVars, clock>>

\* llprof_rtype_end_node
ReturnAccum(t) ==
  LET n == cur[t]
  IN  /\ pc[t] = "accum"
      /\ UpdateRecord(t, [Sinfo(t) EXCEPT
                            !.time = (@ + clock) - nodes[t][n].start])
      /\ made' = [made EXCEPT ![t][n].time =
                    (@ + clock) - stack[t][Len(stack[t])].at]
      /\ pc' = [pc EXCEPT ![t] = "pop"]
      /\ UNCHANGED <<listVars, treeVars, gen, front, back, mutex, nowinfo, ptr,
                     gil, stack, sendVars, linkVars, clock>>

\* ti->CurrentCallNodeID = sinfo->parent_node_id
ReturnPop(t) ==
  /\ pc[t] = "pop"
  /\ cur' = [cur EXCEPT ![t] = Sinfo(t).parent]
  /\ stack' = [stack EXCEPT ![t] = SubSeq(@, 1, Len(@) - 1)]
  /\ LeaveHook(t)
  /\ UNCHANGED <<listVars, nodes, bufferVars, ptr, made, sendVars, linkVars,
                 clock>>

Hook(t) ==
  \/ CallRecord(t) \/ CallCount(t) \/ CallStart(t)
  \/ ReturnRecord(t) \/ ReturnAccum(t) \/ ReturnPop(t)

-----------------------------------------------------------------------------
(* The dispatch threads.                                                   *)

\* accept, or the connect loop of the client thread: a monitor is there and
\* starts from an empty store.
Connect(s) ==
  /\ spc[s] = "wait"
  /\ ~up[s]
  /\ up' = [up EXCEPT ![s] = TRUE]
  /\ seen' = [seen EXCEPT ![s] = [t \in Threads |-> {}]]
  /\ UNCHANGED <<listVars, treeVars, bufferVars, hookVars, spc, it, tmp, sbuf,
                 sent, cut, drops, clock>>

\* The monitor goes away, at any point of an answer.
Drop(s) ==
  /\ up[s]
  /\ drops < MaxDrops
  /\ up' = [up EXCEPT ![s] = FALSE]
  /\ drops' = drops + 1
  /\ UNCHANGED <<listVars, treeVars, bufferVars, hookVars, sendVars, clock>>

\* MSG_REQ_PROFILE_DATA arrives: BufferIteration_Initialize and NextBuffer.
ReqProfileData(s) ==
  /\ spc[s] = "wait"
  /\ up[s]
  /\ gen[Main] <= MaxPolls
  /\ it' = [it EXCEPT ![s] = 1]
  /\ spc' = [spc EXCEPT ![s] = "lock"]
  /\ UNCHANGED <<listVars, treeVars, bufferVars, hookVars, tmp, sbuf, sent, cut,
                 seen, linkVars, clock>>

\* CallTree_GetSerializedBuffer: the mutex, and the first half of std::swap.
LockAndSwap(s) ==
  LET t == Target(s)
  IN  /\ spc[s] = "lock"
      /\ mutex[t] = Nobody
      /\ mutex' = [mutex EXCEPT ![t] = s]
      /\ tmp' = [tmp EXCEPT ![s] = front[t]]
      /\ front' = [front EXCEPT ![t] = back]
      /\ spc' = [spc EXCEPT ![s] = "swap"]
      /\ cut' = IF pc[t] \in {"count", "accum"}
                THEN [cut EXCEPT ![t][cur[t]] = @ + 1]
                ELSE cut
      /\ UNCHANGED <<listVars, treeVars, gen, back, bufs, nowinfo, hookVars, it,
                     sbuf, sent, seen, linkVars, clock>>

\* MUTANT: the pointers are copied, not exchanged.
SwappedOut_Copied(s) == back

SwappedOut(s) == tmp[s]

\* The second half of the swap, GenerationNumber++ and resize(0).
FinishSwap(s) ==
  LET t == Target(s)
  IN  /\ spc[s] = "swap"
      /\ back' = SwappedOut(s)
      /\ gen' = [gen EXCEPT ![t] = @ + 1]
      /\ bufs' = [bufs EXCEPT ![front[t]] = ResetBuffer(@)]
      /\ spc' = [spc EXCEPT ![s] = "take"]
      /\ UNCHANGED <<listVars, treeVars, front, mutex, nowinfo, hookVars, it, tmp,
                     sbuf, sent, cut, seen, linkVars, clock>>

\* MUTANT: the thread's own buffer is handed out.
Drained_Front(t) == front[t]

Drained(t) == back

\* MUTANT: an early return without the unlock.
Unlock_Skipped(t) == mutex

Unlock(t) == [mutex EXCEPT ![t] = Nobody]

\* start_pointer and buffer_size of the back buffer, NowInfo[0], unlock.
TakeBuffer(s) ==
  LET t == Target(s)
  IN  /\ spc[s] = "take"
      /\ sbuf' = [sbuf EXCEPT ![s] = Drained(t)]
      /\ nowinfo' = [nowinfo EXCEPT ![t] = cur[t]]
      /\ mutex' = Unlock(t)
      /\ spc' = [spc EXCEPT ![s] = "send"]
      /\ UNCHANGED <<listVars, treeVars, gen, front, back, bufs, hookVars, it, tmp,
                     sent, cut, seen, linkVars, clock>>

\* What a buffer reports about a node: the records within its size.
Listed(b, n) == {i \in 1 .. bufs[b].size : bufs[b].slots[i].node = n}

Reported(b, n) ==
  IF Listed(b, n) = {} THEN Zero
  ELSE LET rec == bufs[b].slots[CHOOSE i \in Listed(b, n) : TRUE]
       IN  [count |-> rec.count, time |-> rec.time]

Add(x, y) == [count |-> x.count + y.count, time |-> x.time + y.time]

\* SendMessage2(MSG_PROFILE_DATA).  The result of SendFull is ignored: with
\* the connection gone the drained records are discarded.
SendProfileData(s) ==
  LET t == Target(s)
      b == sbuf[s]
  IN  /\ spc[s] = "send"
      /\ sent' = [sent EXCEPT ![t] = [n \in NodeIDs |-> Add(@[n], Reported(b, n))]]
      /\ seen' = IF up[s]
                 THEN [seen EXCEPT ![s][t] =
                         @ \cup {bufs[b].slots[i].node : i \in 1 .. bufs[b].size}]
                 ELSE seen
      /\ spc' = [spc EXCEPT ![s] = "now"]
      /\ UNCHANGED <<listVars, treeVars, bufferVars, hookVars, it, tmp, sbuf, cut,
                     linkVars, clock>>

\* MUTANT: the iteration stops one thread early.
LastThread_Early(s) == it[s] + 1 >= Len(threads)

\* BufferIteration_NextBuffer: current_thread->next is NULL.
LastThread(s) == it[s] >= Len(threads)

\* CallTree_GetNowInfo and MSG_NOWINFO, then BufferIteration_NextBuffer;
\* after the last thread MSG_COMMAND_SUCCEED, and the wait for a message.
SendNowInfo(s) ==
  /\ spc[s] = "now"
  /\ \/ /\ ~LastThread(s)
        /\ it' = [it EXCEPT ![s] = @ + 1]
        /\ spc' = [spc EXCEPT ![s] = "lock"]
     \/ /\ LastThread(s)
        /\ spc' = [spc EXCEPT ![s] = "wait"]
        /\ UNCHANGED it
  /\ UNCHANGED <<listVars, treeVars, bufferVars, hookVars, tmp, sbuf, sent, cut,
                 seen, linkVars, clock>>

Answer(s) ==
  \/ LockAndSwap(s) \/ FinishSwap(s) \/ TakeBuffer(s)
  \/ SendProfileData(s) \/ SendNowInfo(s)

Tick ==
  /\ clock < MaxTime
  /\ clock' = clock + 1
  /\ UNCHANGED <<listVars, treeVars, bufferVars, hookVars, sendVars, linkVars>>

Next ==
  \/ \E t \in Threads : Attach(t)
  \/ \E t \in Threads, name \in Names : CallEnter(t, name)
  \/ \E t \in Threads : CallRecord(t)
  \/ \E t \in Threads : CallCount(t)
  \/ \E t \in Threads : CallStart(t)
  \/ \E t \in Threads : ReturnEnter(t)
  \/ \E t \in Threads : ReturnRecord(t)
  \/ \E t \in Threads : ReturnAccum(t)
  \/ \E t \in Threads : ReturnPop(t)
  \/ \E s \in Senders : Connect(s)
  \/ \E s \in Senders : Drop(s)
  \/ \E s \in Senders : ReqProfileData(s)
  \/ \E s \in Senders : LockAndSwap(s)
  \/ \E s \in Senders : FinishSwap(s)
  \/ \E s \in Senders : TakeBuffer(s)
  \/ \E s \in Senders : SendProfileData(s)
  \/ \E s \in Senders : SendNowInfo(s)
  \/ Tick

Spec == Init /\ [][Next]_vars

\* A hook that was entered and an answer that was begun are plain code run by
\* a live thread, and a monitor keeps connecting and polling
\* (DataStore_ReceiveThread loops forever).  Nothing obliges the program to
\* call or to return.
Fairness ==
  /\ \A t \in Threads : WF_vars(Hook(t))
  /\ \A s \in Senders : WF_vars(Answer(s))
  /\ \A s \in Senders : WF_vars(Connect(s) \/ ReqProfileData(s))

FairSpec == Spec /\ Fairness

-----------------------------------------------------------------------------
(* Properties.                                                             *)

HookPcs == {"run", "record", "count", "start", "return", "accum", "pop"}
SendPcs == {"wait", "lock", "swap", "take", "send", "now"}

\* The type of every variable.
TypeOK ==
  /\ threads   \in Seq(Threads)
  /\ nameTable \subseteq Names \cup {NullName}
  /\ nodes     \in [Threads -> Seq(NodeInfo)]
  /\ cur       \in [Threads -> Nat]
  /\ gen       \in [Threads -> Nat]
  /\ front     \in [Threads -> Buffers]
  /\ mutex     \in [Threads -> Senders \cup {Nobody}]
  /\ nowinfo   \in [Threads -> Nat]
  /\ back      \in Buffers
  /\ bufs      \in [Buffers -> RecordBuffer]
  /\ pc        \in [Threads -> HookPcs]
  /\ ptr       \in [Threads -> [buf : Buffers, slot : Nat]]
  /\ gil       \in Threads \cup {Nobody}
  /\ clock     \in Nat
  /\ spc       \in [Senders -> SendPcs]
  /\ it        \in [Senders -> Nat \ {0}]
  /\ tmp       \in [Senders -> Buffers]
  /\ sbuf      \in [Senders -> Buffers]
  /\ up        \in [Senders -> BOOLEAN]
  /\ drops     \in Nat
  /\ stack     \in [Threads -> Seq(Call)]
  /\ made      \in [Threads -> [NodeIDs -> Amount]]
  /\ sent      \in [Threads -> [NodeIDs -> Amount]]
  /\ cut       \in [Threads -> [NodeIDs -> Nat]]
  /\ seen      \in [Senders -> [Threads -> SUBSET Nat]]

\* The buffer a thread's records of the current generation live in: between
\* the two halves of a swap that is the buffer being taken away.
Swapping(t) == {s \in Senders : spc[s] = "swap" /\ Target(s) = t}
HomeBuffer(t) ==
  IF Swapping(t) = {} THEN front[t] ELSE tmp[CHOOSE s \in Swapping(t) : TRUE]

\* A record index cached in a node whose generation is current designates that
\* node's record in the thread's live buffer (MethodNodeInfo::
\* serialized_node_index is never used stale, whatever was drained meanwhile).
CachedIndexValid ==
  \A t \in Threads : \A n \in 1 .. Len(nodes[t]) :
    nodes[t][n].gen = gen[t] =>
      LET b == bufs[HomeBuffer(t)] IN
        /\ nodes[t][n].sidx \in 1 .. b.size
        /\ b.slots[nodes[t][n].sidx].node = n

\* The cursor is the node of the innermost outstanding call, and the nodes of
\* the outstanding calls form a path from the root, although the return hook
\* takes the parent from a record it no longer has locked.
CursorFollowsStack ==
  \A t \in Threads :
    /\ cur[t] = IF stack[t] = << >> THEN Root ELSE stack[t][Len(stack[t])].node
    /\ \A i \in 1 .. Len(stack[t]) :
         /\ stack[t][i].node \in (Root + 1) .. Len(nodes[t])
         /\ nodes[t][stack[t][i].node].parent =
              IF i = 1 THEN Root ELSE stack[t][i - 1].node

\* While a buffer is being sent no thread records into it, and no other
\* dispatch thread sends it ("the buffer for sending", call_tree.cpp).
SendBufferPrivate ==
  \A s \in Senders : spc[s] = "send" =>
    /\ \A t \in Threads : front[t] # sbuf[s]
    /\ \A r \in Senders \ {s} : spc[r] = "send" => sbuf[r] # sbuf[s]

\* Two threads never record into one buffer.
FrontsDistinct ==
  \A t, u \in Threads : t # u => front[t] # front[u]

\* The records a thread has not handed to the socket yet.
InTransit(t) == {s \in Senders : spc[s] \in {"take", "send"} /\ Target(s) = t}
Unsent(t, n) ==
  Add(Reported(HomeBuffer(t), n),
      IF InTransit(t) = {} THEN Zero
      ELSE Reported(tmp[CHOOSE s \in InTransit(t) : TRUE], n))

\* No call and no time is reported twice; and what is missing from the report
\* was lost to a drain that met a hook between unlock and update.
ReportedOnce ==
  \A t \in Threads : \A n \in NodeIDs :
    LET rep == Add(sent[t][n], Unsent(t, n)) IN
      /\ rep.count <= made[t][n].count
      /\ rep.time <= made[t][n].time
      /\ made[t][n].count <= rep.count + cut[t][n]
      /\ cut[t][n] = 0 => rep.time = made[t][n].time

\* The recorder implements the stream it promises: what it holds is what its
\* live and its departing buffer report, and every step is one of the stream's.
Stream == INSTANCE ProfileStream WITH
  Nodes <- NodeIDs, MaxStep <- MaxTime, cuts <- cut,
  held <- [t \in Threads |-> [n \in NodeIDs |-> Unsent(t, n)]]
ImplementsStream == Stream!Spec

\* A monitor can file every record it is sent: the parent is the root, a node
\* sent before, or earlier in the same buffer, and the name can be queried
\* (DataStore::TouchGNID follows the parent without a check).
StorableStream ==
  \A s \in Senders : (spc[s] = "send" /\ up[s]) =>
    LET b == bufs[sbuf[s]]
        t == Target(s)
    IN  \A i \in 1 .. b.size :
          /\ b.slots[i].name \in nameTable
          /\ \/ b.slots[i].parent \in seen[s][t] \cup {Root}
             \/ \E j \in 1 .. (i - 1) : b.slots[j].node = b.slots[i].parent

\* A hook that was entered returns to the program.
HookReturns == \A t \in Threads : pc[t] # "run" ~> pc[t] = "run"

\* A poll is still to come: the dispatch thread is idle and the bound on polls
\* is not reached.
PollToCome(s) == spc[s] = "wait" /\ gen[Main] <= MaxPolls

\* A node that was recorded before a poll becomes known to the monitor, in
\* whichever thread and however the drains cut its hooks.
RecordDelivered ==
  \A s \in Senders : \A t \in Threads : \A n \in NodeIDs :
    (PollToCome(s) /\ n <= Len(nodes[t]) /\ nodes[t][n].gen # 0)
      ~> n \in seen[s][t]
=============================================================================
