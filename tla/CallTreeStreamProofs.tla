------------------------ MODULE CallTreeStreamProofs ------------------------
(***************************************************************************)
(* What the hooks measure arrives once: the accounting of the recorder for *)
(* any program threads, names and bounds, and with it the implementation   *)
(* of the stream of ProfileStream.                                         *)
(***************************************************************************)
EXTENDS CallTreeProofs

(***************************************************************************)
(* The inductive invariant, on top of IInv.                                *)
(***************************************************************************)

\* Nodes are younger than their parents, so no node is twice on a stack.
AgeInv ==
  \A t \in Threads :
    /\ \A n \in 1 .. Len(nodes[t]) : nodes[t][n].parent < n
    /\ \A i, j \in 1 .. Len(stack[t]) :
         i < j => stack[t][i].node < stack[t][j].node

\* A node holds the start of its outstanding call once that call has begun.
BegunPcs == {"run", "return", "accum", "pop"}
BegunInv ==
  \A t \in Threads : \A i \in 1 .. Len(stack[t]) :
    i < Len(stack[t]) \/ pc[t] \in BegunPcs =>
      /\ stack[t][i].at >= 1
      /\ nodes[t][stack[t][i].node].start = stack[t][i].at

ClockInv == clock \in 1 .. MaxTime + 1

\* The records of a live buffer are those the current generation cached.
FiledIn(buf, nd, g) ==
  \A i \in 1 .. buf.size :
    LET n == buf.slots[i].node IN
    /\ n \in 1 .. Len(nd) /\ nd[n].gen = g /\ nd[n].sidx = i
FiledInv == \A t \in Threads : FiledIn(bufs[HomeBuffer(t)], nodes[t], gen[t])

\* A departing buffer has no node twice.
DistinctNodes(buf) ==
  \A i, j \in 1 .. buf.size : buf.slots[i].node = buf.slots[j].node => i = j
LeavingInv ==
  \A s \in Senders : spc[s] \in {"take", "send"} => DistinctNodes(bufs[tmp[s]])

\* The buffer of a hook was drained before the hook wrote to it.
Overtaken(t) == nodes[t][cur[t]].gen # gen[t]

\* Behind the sinfo of a hook is the live record of its node, or, after a
\* drain, nothing that anyone else will report.
Unlisted(t, b) == ptr[t].buf = b => ptr[t].slot > bufs[b].size
SinfoInv ==
  \A t \in Threads : pc[t] \in LivePcs =>
    IF Overtaken(t)
    THEN /\ \A u \in Threads : Unlisted(t, HomeBuffer(u))
         /\ \A u \in Threads \ {t} : \A s \in InTransit(u) : Unlisted(t, tmp[s])
    ELSE ptr[t].buf = HomeBuffer(t) /\ ptr[t].slot = nodes[t][cur[t]].sidx

\* What was reported of a node or still will be.
Total(t, n) == Add(sent[t][n], Unsent(t, n))

\* ReportedOnce, and what the cuts of a hook that was overtaken pay for.
Balanced(md, tot, ct) ==
  /\ tot.count <= md.count /\ tot.time <= md.time
  /\ md.count <= tot.count + ct
  /\ ct = 0 => tot.time = md.time
TotalInv ==
  \A t \in Threads, n \in NodeIDs : Balanced(made[t][n], Total(t, n), cut[t][n])
PaidInv ==
  \A t \in Threads : \A n \in NodeIDs :
    n = cur[t] /\ (Overtaken(t) \/ Swapping(t) # {}) =>
      /\ pc[t] = "count" => made[t][n].count < Total(t, n).count + cut[t][n]
      /\ pc[t] = "accum" => cut[t][n] > 0

RInv ==
  /\ IInv /\ AgeInv /\ BegunInv /\ ClockInv
  /\ FiledInv /\ LeavingInv /\ SinfoInv /\ TotalInv /\ PaidInv

(***************************************************************************)
(* The tree, the stack and the start times.                                *)
(***************************************************************************)

\* A return takes the last call off the stack.
LEMMA PopFacts ==
  ASSUME TypeOK, TreeInv, LiveInv, NEW t \in Threads, ReturnPop(t)
  PROVE  /\ Len(stack'[t]) = Len(stack[t]) - 1 /\ Len(stack[t]) \in Nat \ {0}
         /\ \A i \in 1 .. Len(stack'[t]) : stack'[t][i] = stack[t][i]
         /\ \A u \in Threads \ {t} : stack'[u] = stack[u]
<1>1. /\ stack \in [Threads -> Seq(Call)]
      /\ stack' = [stack EXCEPT ![t] = SubSeq(stack[t], 1, Len(stack[t]) - 1)]
      /\ pc[t] \in LivePcs
  BY DEF TypeOK, ReturnPop, LivePcs
<1>2. PICK k \in Nat \ {0} : k = Len(stack[t])
  BY <1>1, SinfoFacts, LenProperties
<1>3. \A i \in 1 .. k - 1 : stack[t][i] \in Call
  BY <1>1, <1>2, ElementOfSeq
<1>4. 1 \in Int /\ k - 1 \in Int
  OBVIOUS
<1>5. PICK st : st = SubSeq(stack[t], 1, k - 1)
  OBVIOUS
<1>6. /\ Len(st) = IF 1 <= k - 1 THEN (k - 1) - 1 + 1 ELSE 0
      /\ \A i \in 1 .. (k - 1) - 1 + 1 : st[i] = stack[t][1 + i - 1]
  BY <1>3, <1>4, <1>5, SubSeqProperties
<1>7. Len(st) = k - 1
  BY <1>6
<1>8. \A i \in 1 .. Len(st) : st[i] = stack[t][i]
  BY <1>6, <1>7
<1>9. stack'[t] = st /\ \A u \in Threads \ {t} : stack'[u] = stack[u]
  BY <1>1, <1>2, <1>5
<1> QED  BY <1>2, <1>7, <1>8, <1>9

\* The innermost call is that of the current node.
LEMMA TopOfStack ==
  ASSUME TypeOK, TreeInv, NEW t \in Threads, cur[t] # Root
  PROVE  /\ Len(stack[t]) \in Nat \ {0}
         /\ stack[t][Len(stack[t])].node = cur[t]
<1>1. stack[t] # << >> /\ stack[t][Len(stack[t])].node = cur[t]
  BY DEF TreeInv, CursorFollowsStack
<1>2. Len(stack[t]) \in Nat /\ Len(stack[t]) # 0
  BY <1>1, EmptySeq, LenProperties DEF TypeOK
<1> QED  BY <1>1, <1>2

\* A call enters with a stack that is one longer.
LEMMA PushFacts ==
  ASSUME TypeOK, TreeInv, NEW t \in Threads, NEW name \in Names, CallEnter(t, name)
  PROVE  /\ Len(stack'[t]) = Len(stack[t]) + 1 /\ Len(stack[t]) \in Nat
         /\ \A i \in 1 .. Len(stack[t]) : stack'[t][i] = stack[t][i]
         /\ stack'[t][Len(stack[t]) + 1].node = cur'[t]
         /\ \A u \in Threads \ {t} : stack'[u] = stack[u]
<1>1. /\ stack'[t] = Append(stack[t], [node |-> cur'[t], at |-> 0])
      /\ cur' \in [Threads -> Nat] /\ stack[t] \in Seq(Call)
      /\ \A u \in Threads \ {t} : stack'[u] = stack[u]
  BY EnterFacts DEF TypeOK
<1>2. PICK e : e = [node |-> cur'[t], at |-> 0]
  OBVIOUS
<1>3. e \in Call /\ e.node = cur'[t]
  BY <1>1, <1>2 DEF Call
<1> QED  BY <1>1, <1>2, <1>3, AppendProperties, LenProperties

LEMMA AgeStep ==
  ASSUME TypeOK, LockInv, TreeInv, LiveInv, CacheInv, TimeInv, AgeInv, [Next]_vars
  PROVE  AgeInv'
<1> USE DEF listVars, treeVars, bufferVars, hookVars, sendVars, linkVars
<1>T. \A u \in Threads : /\ Len(nodes[u]) \in Nat /\ Len(stack[u]) \in Nat
                         /\ \A i \in 1 .. Len(stack[u]) : stack[u][i].node \in Nat
  <2>1. \A u \in Threads : \A i \in 1 .. Len(stack[u]) : stack[u][i] \in Call
    BY ElementOfSeq DEF TypeOK
  <2> QED  BY <2>1, LenProperties DEF TypeOK, Call
<1>1. ASSUME NEW t \in Threads, NEW name \in Names, CallEnter(t, name) PROVE AgeInv'
  <2>1. /\ \A u \in Threads \ {t} : nodes'[u] = nodes[u] /\ stack'[u] = stack[u]
        /\ Len(nodes'[t]) \in 1 .. MaxNodes /\ Len(nodes'[t]) >= Len(nodes[t])
        /\ \A n \in 1 .. Len(nodes[t]) : nodes'[t][n] = nodes[t][n]
        /\ \A n \in 1 .. Len(nodes'[t]) :
              n \notin 1 .. Len(nodes[t]) => nodes'[t][n] = NewNode(cur[t], name)
        /\ cur'[t] \in (Root + 1) .. Len(nodes'[t])
        /\ nodes'[t][cur'[t]].parent = cur[t]
    BY <1>1, EnterFacts
  <2>2. /\ Len(stack'[t]) = Len(stack[t]) + 1 /\ Len(stack[t]) \in Nat
        /\ \A i \in 1 .. Len(stack[t]) : stack'[t][i] = stack[t][i]
        /\ stack'[t][Len(stack[t]) + 1].node = cur'[t]
    BY <1>1, PushFacts
  <2>3. cur[t] \in 1 .. Len(nodes[t]) /\ MaxNodes \in Nat
    BY CursorInRange, ConstantsAssumption
  <2>4. ASSUME NEW n \in 1 .. Len(nodes'[t]) PROVE nodes'[t][n].parent < n
    <3>1. CASE n \in 1 .. Len(nodes[t])
      BY <2>1, <3>1 DEF AgeInv
    <3>2. CASE n \notin 1 .. Len(nodes[t])
      <4>1. nodes'[t][n].parent = cur[t]
        BY <2>1, <3>2 DEF NewNode
      <4> QED  BY <1>T, <2>1, <2>3, <3>2, <4>1
    <3> QED  BY <3>1, <3>2
  <2>5. cur[t] < cur'[t]
    BY <2>1, <2>4 DEF Root
  <2>6. ASSUME NEW i \in 1 .. Len(stack[t]) PROVE stack[t][i].node < cur'[t]
    <3>1. Len(stack[t]) # 0
      BY <1>T, <2>6
    <3>2. stack[t][Len(stack[t])].node = cur[t]
      BY <3>1, EmptySeq DEF TreeInv, CursorFollowsStack, TypeOK
    <3>3. i = Len(stack[t]) \/ stack[t][i].node < stack[t][Len(stack[t])].node
      BY <1>T, <2>6 DEF AgeInv
    <3>4. stack[t][i].node \in Nat /\ cur[t] \in Nat /\ cur'[t] \in Nat
      BY <1>T, <2>1, <2>3, <2>6 DEF Root
    <3> QED  BY <2>5, <3>2, <3>3, <3>4
  <2>7. ASSUME NEW i \in 1 .. Len(stack'[t]), NEW j \in 1 .. Len(stack'[t]), i < j
        PROVE  stack'[t][i].node < stack'[t][j].node
    <3>1. i \in 1 .. Len(stack[t]) /\ stack'[t][i] = stack[t][i]
      BY <2>2, <2>7
    <3>2. CASE j \in 1 .. Len(stack[t])
      BY <2>2, <2>7, <3>1, <3>2 DEF AgeInv
    <3>3. CASE j \notin 1 .. Len(stack[t])
      <4>1. j = Len(stack[t]) + 1
        BY <2>2, <3>3
      <4> QED  BY <2>2, <2>6, <3>1, <4>1
    <3> QED  BY <3>2, <3>3
  <2> QED  BY <2>1, <2>4, <2>7 DEF AgeInv
<1>2. ASSUME NEW t \in Threads, CallRecord(t) \/ ReturnRecord(t) PROVE AgeInv'
  <2>1. stack' = stack /\ GetCurrentNodeInfoPair(t)
    BY <1>2 DEF CallRecord, ReturnRecord
  <2>2. Swapping(t) = {}
    BY <2>1, UnlockedNotSwapping DEF GetCurrentNodeInfoPair
  <2>3. PairNodes(t)
    BY <2>1, <2>2, PairFacts
  <2> QED  BY <2>1, <2>3 DEF PairNodes, AgeInv
<1>3. ASSUME NEW t \in Threads, CallStart(t) PROVE AgeInv'
  <2>1. \A u \in Threads :
              /\ Len(nodes'[u]) = Len(nodes[u]) /\ Len(stack'[u]) = Len(stack[u])
              /\ \A m \in 1 .. Len(nodes[u]) : nodes'[u][m].parent = nodes[u][m].parent
              /\ \A i \in 1 .. Len(stack[u]) : stack'[u][i].node = stack[u][i].node
    BY <1>3, StartFacts
  <2> QED  BY <2>1 DEF AgeInv
<1>4. ASSUME NEW t \in Threads, ReturnPop(t) PROVE AgeInv'
  <2>1. /\ Len(stack'[t]) = Len(stack[t]) - 1 /\ Len(stack[t]) \in Nat \ {0}
        /\ \A i \in 1 .. Len(stack'[t]) : stack'[t][i] = stack[t][i]
        /\ \A u \in Threads \ {t} : stack'[u] = stack[u]
    BY <1>4, PopFacts
  <2>2. nodes' = nodes
    BY <1>4 DEF ReturnPop
  <2>3. \A i \in 1 .. Len(stack'[t]) : i \in 1 .. Len(stack[t])
    BY <2>1
  <2> QED  BY <2>1, <2>2, <2>3, SMTT(40) DEF AgeInv
<1>5. ASSUME UNCHANGED <<nodes, stack>> PROVE AgeInv'
  BY <1>5 DEF AgeInv
<1>6. ASSUME NEW t \in Threads,
             Attach(t) \/ CallCount(t) \/ ReturnEnter(t) \/ ReturnAccum(t)
      PROVE  AgeInv'
  BY <1>5, <1>6 DEF Attach, CallCount, ReturnEnter, ReturnAccum
<1>7. ASSUME NEW s \in Senders,
              Connect(s) \/ Drop(s) \/ ReqProfileData(s) \/ LockAndSwap(s) \/ FinishSwap(s)
              \/ TakeBuffer(s) \/ SendProfileData(s) \/ SendNowInfo(s)
       PROVE  AgeInv'
  BY <1>5, <1>7 DEF Connect, Drop, ReqProfileData, LockAndSwap, FinishSwap,
                     TakeBuffer, SendProfileData, SendNowInfo
<1>8. CASE Tick \/ UNCHANGED vars
  BY <1>5, <1>8 DEF Tick, vars
<1> QED  BY <1>1, <1>2, <1>3, <1>4, <1>6, <1>7, <1>8 DEF Next

LEMMA ClockInit == Init => ClockInv
<1>1. MaxTime \in Nat
  BY ConstantsAssumption
<1> QED  BY <1>1 DEF Init, ClockInv

LEMMA ClockStep == ASSUME ClockInv, [Next]_vars PROVE ClockInv'
<1> USE DEF listVars, treeVars, bufferVars, hookVars, sendVars, linkVars
<1>1. MaxTime \in Nat
  BY ConstantsAssumption
<1>2. CASE Tick
  BY <1>1, <1>2 DEF Tick, ClockInv
<1>3. ASSUME NEW t \in Threads,
             \/ Attach(t) \/ Hook(t) \/ ReturnEnter(t)
             \/ \E name \in Names : CallEnter(t, name)
      PROVE  clock' = clock
  BY <1>3 DEF Attach, Hook, CallEnter, CallRecord, CallCount, CallStart, ReturnEnter, ReturnRecord,
              ReturnAccum, ReturnPop
<1>4. ASSUME NEW s \in Senders,
             Connect(s) \/ Drop(s) \/ ReqProfileData(s) \/ LockAndSwap(s) \/ FinishSwap(s)
              \/ TakeBuffer(s) \/ SendProfileData(s) \/ SendNowInfo(s)
      PROVE  clock' = clock
  BY <1>4 DEF Connect, Drop, ReqProfileData, LockAndSwap, FinishSwap,
              TakeBuffer, SendProfileData, SendNowInfo
<1>5. UNCHANGED vars => clock' = clock
  BY DEF vars
<1>6. clock' = clock \/ Tick
  BY <1>3, <1>4, <1>5 DEF Next, Hook
<1> QED  BY <1>2, <1>6 DEF ClockInv

\* The start of a call is written into the current node and the last call.
LEMMA StartWrites ==
  ASSUME TypeOK, TreeInv, LiveInv, NEW t \in Threads, CallStart(t)
  PROVE  /\ nodes'[t][cur[t]].start = clock
         /\ stack'[t][Len(stack[t])].at = clock
         /\ \A u \in Threads : \A m \in 1 .. Len(nodes[u]) :
              ~(u = t /\ m = cur[t]) => nodes'[u][m] = nodes[u][m]
         /\ \A u \in Threads : \A m \in 1 .. Len(stack[u]) :
              ~(u = t /\ m = Len(stack[t])) => stack'[u][m] = stack[u][m]
<1>1. pc[t] \in LivePcs
  BY DEF CallStart, LivePcs
<1>2. /\ cur[t] \in 1 .. Len(nodes[t]) /\ nodes[t][cur[t]] \in NodeInfo
      /\ Len(stack[t]) \in 1 .. Len(stack[t])
  BY <1>1, SinfoFacts
<1>3. /\ nodes \in [Threads -> Seq(NodeInfo)] /\ stack \in [Threads -> Seq(Call)]
      /\ clock \in Nat
  BY DEF TypeOK
<1>4. PICK n : n = cur[t]
  OBVIOUS
<1>5. PICK k : k = Len(stack[t])
  OBVIOUS
<1>6. PICK info : info = [nodes[t][n] EXCEPT !.start = clock]
  OBVIOUS
<1>7. PICK call : call = [stack[t][k] EXCEPT !.at = clock]
  OBVIOUS
<1>8. info \in NodeInfo /\ info.start = clock
  BY <1>2, <1>3, <1>4, <1>6 DEF NodeInfo
<1>9. stack[t][k] \in Call
  BY <1>2, <1>3, <1>5, ElementOfSeq
<1>10. call \in Call /\ call.at = clock
  BY <1>3, <1>7, <1>9 DEF Call
<1>11. nodes' = [nodes EXCEPT ![t][n] = info]
  BY <1>4, <1>6 DEF CallStart
<1>12. stack' = [stack EXCEPT ![t][k] = call]
  BY <1>5, <1>7 DEF CallStart
<1>13. /\ nodes'[t][n] = info
       /\ \A u \in Threads : \A m \in 1 .. Len(nodes[u]) :
            ~(u = t /\ m = n) => nodes'[u][m] = nodes[u][m]
  BY <1>2, <1>3, <1>4, <1>8, <1>11, ExceptAt
<1>14. /\ stack'[t][k] = call
       /\ \A u \in Threads : \A m \in 1 .. Len(stack[u]) :
            ~(u = t /\ m = k) => stack'[u][m] = stack[u][m]
  BY <1>2, <1>3, <1>5, <1>10, <1>12, ExceptAt
<1> QED  BY <1>4, <1>5, <1>8, <1>10, <1>13, <1>14

\* Whose call has begun: what BegunInv says of one thread.
Begun(p, st, nd) ==
  \A i \in 1 .. Len(st) :
    i < Len(st) \/ p \in BegunPcs => st[i].at >= 1 /\ nd[st[i].node].start = st[i].at

LEMMA BegunStep ==
  ASSUME TypeOK, LockInv, TreeInv, LiveInv, CacheInv, TimeInv, AgeInv, ClockInv, BegunInv,
         [Next]_vars
  PROVE  BegunInv'
<1> USE DEF listVars, treeVars, bufferVars, hookVars, sendVars, linkVars
<1>0. BegunInv <=> \A u \in Threads : Begun(pc[u], stack[u], nodes[u])
  BY DEF BegunInv, Begun
<1>1. BegunInv' <=> \A u \in Threads : Begun(pc'[u], stack'[u], nodes'[u])
  BY DEF BegunInv, Begun
<1>T. \A u \in Threads :
        /\ Len(nodes[u]) \in Nat /\ Len(stack[u]) \in Nat
        /\ \A i \in 1 .. Len(stack[u]) : /\ stack[u][i].node \in 1 .. Len(nodes[u])
                                         /\ stack[u][i].node # Root
  <2>1. \A u \in Threads : \A i \in 1 .. Len(stack[u]) :
          stack[u][i].node \in (Root + 1) .. Len(nodes[u])
    BY DEF TreeInv, CursorFollowsStack
  <2> QED  BY <2>1, LenProperties, SMTT(40) DEF TypeOK, Root
<1>P. pc \in [Threads -> HookPcs]
  BY DEF TypeOK
<1>2. ASSUME NEW t \in Threads, NEW name \in Names, CallEnter(t, name) PROVE BegunInv'
  <2>1. /\ \A u \in Threads \ {t} : nodes'[u] = nodes[u]
        /\ \A n \in 1 .. Len(nodes[t]) : nodes'[t][n] = nodes[t][n]
    BY <1>2, EnterFacts
  <2>2. /\ Len(stack'[t]) = Len(stack[t]) + 1 /\ Len(stack[t]) \in Nat
        /\ \A i \in 1 .. Len(stack[t]) : stack'[t][i] = stack[t][i]
        /\ \A u \in Threads \ {t} : stack'[u] = stack[u]
    BY <1>2, PushFacts
  <2>3. /\ pc[t] = "run" /\ pc'[t] = "record"
        /\ \A u \in Threads \ {t} : pc'[u] = pc[u]
    BY <1>2, <1>P DEF CallEnter, EnterHook
  <2>4. Begun(pc'[t], stack'[t], nodes'[t])
    <3> SUFFICES ASSUME NEW i \in 1 .. Len(stack'[t]), i < Len(stack'[t])
                 PROVE  /\ stack'[t][i].at >= 1
                        /\ nodes'[t][stack'[t][i].node].start = stack'[t][i].at
      BY <2>3 DEF Begun, BegunPcs
    <3>1. i \in 1 .. Len(stack[t])
      BY <2>2
    <3>2. stack[t][i].at >= 1 /\ nodes[t][stack[t][i].node].start = stack[t][i].at
      BY <2>3, <3>1 DEF BegunInv, BegunPcs
    <3>3. stack'[t][i] = stack[t][i] /\ stack[t][i].node \in 1 .. Len(nodes[t])
      BY <1>T, <2>2, <3>1
    <3> QED  BY <2>1, <3>2, <3>3
  <2> QED  BY <1>0, <1>1, <2>1, <2>2, <2>3, <2>4
<1>3. ASSUME NEW t \in Threads, CallRecord(t) \/ ReturnRecord(t) PROVE BegunInv'
  <2>1. stack' = stack /\ GetCurrentNodeInfoPair(t)
    BY <1>3 DEF CallRecord, ReturnRecord
  <2>2. Swapping(t) = {}
    BY <2>1, UnlockedNotSwapping DEF GetCurrentNodeInfoPair
  <2>3. \A u \in Threads : \A m \in 1 .. Len(nodes[u]) : nodes'[u][m].start = nodes[u][m].start
    <3>1. PairNodes(t)
      BY <2>1, <2>2, PairFacts
    <3> QED  BY <3>1 DEF PairNodes
  <2>4. \A u \in Threads : pc'[u] \in BegunPcs => pc[u] \in BegunPcs
    BY <1>3, <1>P DEF CallRecord, ReturnRecord, EnterHook, BegunPcs
  <2> QED  BY <1>T, <2>1, <2>3, <2>4, ZenonT(60) DEF BegunInv
<1>4. ASSUME NEW t \in Threads, CallStart(t) PROVE BegunInv'
  <2>1. /\ nodes'[t][cur[t]].start = clock
        /\ stack'[t][Len(stack[t])].at = clock
        /\ \A u \in Threads : \A m \in 1 .. Len(nodes[u]) :
              ~(u = t /\ m = cur[t]) => nodes'[u][m] = nodes[u][m]
        /\ \A u \in Threads : \A m \in 1 .. Len(stack[u]) :
              ~(u = t /\ m = Len(stack[t])) => stack'[u][m] = stack[u][m]
    BY <1>4, StartWrites
  <2>2. \A u \in Threads :
          /\ Len(stack'[u]) = Len(stack[u])
          /\ \A i \in 1 .. Len(stack[u]) : stack'[u][i].node = stack[u][i].node
    BY <1>4, StartFacts
  <2>3. cur[t] # Root /\ \A u \in Threads \ {t} : pc'[u] = pc[u]
    BY <1>4, <1>P DEF CallStart, LiveInv, LeaveHook
  <2>4. Len(stack[t]) \in Nat \ {0} /\ stack[t][Len(stack[t])].node = cur[t]
    BY <2>3, TopOfStack
  <2>5. ASSUME NEW i \in 1 .. Len(stack[t])
        PROVE  /\ stack'[t][i].at >= 1
               /\ nodes'[t][stack'[t][i].node].start = stack'[t][i].at
    <3>1. CASE i = Len(stack[t])
      <4>1. clock >= 1
        BY ConstantsAssumption DEF ClockInv
      <4> QED  BY <2>1, <2>2, <2>4, <3>1, <4>1
    <3>2. CASE i # Len(stack[t])
      <4>1. i < Len(stack[t]) /\ Len(stack[t]) \in 1 .. Len(stack[t])
        BY <2>4, <2>5, <3>2
      <4>2. stack[t][i].node < cur[t]
        BY <2>4, <4>1 DEF AgeInv
      <4>3. stack[t][i].node # cur[t]
        BY <1>T, <2>5, <4>2
      <4>4. stack[t][i].at >= 1 /\ nodes[t][stack[t][i].node].start = stack[t][i].at
        BY <4>1, <2>5 DEF BegunInv
      <4>5. stack'[t][i] = stack[t][i] /\ stack[t][i].node \in 1 .. Len(nodes[t])
        BY <1>T, <2>1, <2>5, <3>2
      <4> QED  BY <2>1, <4>3, <4>4, <4>5
    <3> QED  BY <3>1, <3>2
  <2>6. ASSUME NEW u \in Threads \ {t}, NEW i \in 1 .. Len(stack[u])
        PROVE  /\ stack'[u][i] = stack[u][i]
               /\ nodes'[u][stack'[u][i].node].start = nodes[u][stack[u][i].node].start
    BY <1>T, <2>1, SMTT(40)
  <2> QED  BY <2>2, <2>3, <2>5, <2>6 DEF BegunInv
<1>5. ASSUME NEW t \in Threads, ReturnPop(t) PROVE BegunInv'
  <2>1. /\ Len(stack'[t]) = Len(stack[t]) - 1 /\ Len(stack[t]) \in Nat \ {0}
        /\ \A i \in 1 .. Len(stack'[t]) : stack'[t][i] = stack[t][i]
        /\ \A u \in Threads \ {t} : stack'[u] = stack[u]
    BY <1>5, PopFacts
  <2>2. nodes' = nodes /\ \A u \in Threads \ {t} : pc'[u] = pc[u]
    BY <1>5, <1>P DEF ReturnPop, LeaveHook
  <2>3. \A i \in 1 .. Len(stack'[t]) : i \in 1 .. Len(stack[t]) /\ i < Len(stack[t])
    BY <2>1
  <2>4. Begun(pc'[t], stack'[t], nodes'[t])
    BY <2>1, <2>2, <2>3 DEF BegunInv, Begun
  <2> QED  BY <1>0, <1>1, <2>1, <2>2, <2>4
<1>6. ASSUME NEW t \in Threads, CallCount(t) \/ ReturnEnter(t) \/ ReturnAccum(t)
      PROVE  BegunInv'
  <2>1. UNCHANGED <<nodes, stack>>
    BY <1>6 DEF CallCount, ReturnEnter, ReturnAccum
  <2>2. \A u \in Threads : pc'[u] \in BegunPcs => pc[u] \in BegunPcs
    BY <1>6, <1>P DEF CallCount, ReturnEnter, EnterHook, ReturnAccum, BegunPcs
  <2> QED  BY <2>1, <2>2 DEF BegunInv
<1>7. ASSUME UNCHANGED <<nodes, stack, pc>> PROVE BegunInv'
  BY <1>7 DEF BegunInv
<1>8. ASSUME NEW t \in Threads, Attach(t) PROVE  BegunInv'
  BY <1>7, <1>8 DEF Attach
<1>9. ASSUME NEW s \in Senders,
              Connect(s) \/ Drop(s) \/ ReqProfileData(s) \/ LockAndSwap(s) \/ FinishSwap(s)
              \/ TakeBuffer(s) \/ SendProfileData(s) \/ SendNowInfo(s)
       PROVE  BegunInv'
  BY <1>7, <1>9 DEF Connect, Drop, ReqProfileData, LockAndSwap, FinishSwap,
                     TakeBuffer, SendProfileData, SendNowInfo
<1>10. CASE Tick \/ UNCHANGED vars
  BY <1>7, <1>10 DEF Tick, vars
<1> QED  BY <1>2, <1>3, <1>4, <1>5, <1>6, <1>8, <1>9, <1>10 DEF Next

(***************************************************************************)
(* Where the buffers of a thread are.                                      *)
(***************************************************************************)

\* The live buffer, and who is sending, by the state of the dispatch thread.
LEMMA Places ==
  ASSUME OneSender, NEW t \in Threads
  PROVE  /\ (\A s \in Senders : ~(spc[s] = "swap" /\ Target(s) = t))
              => HomeBuffer(t) = front[t] /\ Swapping(t) = {}
         /\ \A s \in Senders : spc[s] = "swap" /\ Target(s) = t
              => HomeBuffer(t) = tmp[s] /\ Swapping(t) = {s}
         /\ \A s \in Senders : s \in InTransit(t)
              <=> spc[s] \in {"take", "send"} /\ Target(s) = t
         /\ \A s \in InTransit(t) : s \in Senders /\ InTransit(t) = {s}
<1>1. \A s \in Senders : spc[s] = "swap" /\ Target(s) = t
              => HomeBuffer(t) = tmp[s] /\ Swapping(t) = {s}
  <2> SUFFICES ASSUME NEW s \in Senders, spc[s] = "swap", Target(s) = t
               PROVE  HomeBuffer(t) = tmp[s] /\ Swapping(t) = {s}
    OBVIOUS
  <2>1. Swapping(t) = {s}
    BY DEF Swapping, OneSender
  <2> QED  BY <2>1 DEF HomeBuffer
<1>2. (\A s \in Senders : ~(spc[s] = "swap" /\ Target(s) = t))
              => HomeBuffer(t) = front[t] /\ Swapping(t) = {}
  BY DEF HomeBuffer, Swapping
<1>3. \A s \in Senders : s \in InTransit(t)
              <=> spc[s] \in {"take", "send"} /\ Target(s) = t
  BY DEF InTransit
<1>4. \A s \in InTransit(t) : s \in Senders /\ InTransit(t) = {s}
  BY DEF InTransit, OneSender
<1> QED  BY <1>1, <1>2, <1>3, <1>4

\* The same of the next state.
LEMMA PlacesNext ==
  ASSUME OneSender, NEW t \in Threads
  PROVE  /\ (\A s \in Senders : ~(spc'[s] = "swap" /\ Target(s)' = t))
              => HomeBuffer(t)' = front'[t] /\ Swapping(t)' = {}
         /\ \A s \in Senders : spc'[s] = "swap" /\ Target(s)' = t
              => HomeBuffer(t)' = tmp'[s] /\ Swapping(t)' = {s}
         /\ \A s \in Senders : s \in InTransit(t)'
              <=> spc'[s] \in {"take", "send"} /\ Target(s)' = t
         /\ \A s \in InTransit(t)' : s \in Senders /\ InTransit(t)' = {s}
<1>1. \A s \in Senders : spc'[s] = "swap" /\ Target(s)' = t
              => HomeBuffer(t)' = tmp'[s] /\ Swapping(t)' = {s}
  <2> SUFFICES ASSUME NEW s \in Senders, spc'[s] = "swap", Target(s)' = t
               PROVE  HomeBuffer(t)' = tmp'[s] /\ Swapping(t)' = {s}
    OBVIOUS
  <2>1. Swapping(t)' = {s}
    BY DEF Swapping, OneSender
  <2> QED  BY <2>1 DEF HomeBuffer
<1>2. (\A s \in Senders : ~(spc'[s] = "swap" /\ Target(s)' = t))
              => HomeBuffer(t)' = front'[t] /\ Swapping(t)' = {}
  BY DEF HomeBuffer, Swapping
<1>3. \A s \in Senders : s \in InTransit(t)'
              <=> spc'[s] \in {"take", "send"} /\ Target(s)' = t
  BY DEF InTransit
<1>4. \A s \in InTransit(t)' : s \in Senders /\ InTransit(t)' = {s}
  BY DEF InTransit, OneSender
<1> QED  BY <1>1, <1>2, <1>3, <1>4

\* The live buffers of two threads differ, and no departing buffer is live.
LEMMA Apart ==
  ASSUME OneSender, TypeOK, LockInv, BufferInv
  PROVE  /\ \A t \in Threads : HomeBuffer(t) \in Buffers /\ front[t] \in Buffers
         /\ \A t, u \in Threads : t # u => HomeBuffer(t) # HomeBuffer(u)
         /\ \A t, u \in Threads : \A s \in InTransit(u) :
              tmp[s] \in Buffers /\ tmp[s] # HomeBuffer(t)
<1>1. /\ front \in [Threads -> Buffers] /\ tmp \in [Senders -> Buffers]
      /\ \A t, u \in Threads : t # u => front[t] # front[u]
  BY DEF TypeOK, BufferInv, FrontsDistinct
<1>2. \A t \in Threads :
        \/ HomeBuffer(t) = front[t] /\ Swapping(t) = {}
        \/ \E s \in Senders : /\ spc[s] = "swap" /\ Target(s) = t /\ HomeBuffer(t) = tmp[s]
                              /\ \A u \in Threads : front[u] # tmp[s]
  BY Places DEF BufferInv
<1>3. \A t \in Threads : HomeBuffer(t) \in Buffers /\ front[t] \in Buffers
  BY <1>1, <1>2
<1>4. ASSUME NEW t \in Threads, NEW u \in Threads, t # u
      PROVE  HomeBuffer(t) # HomeBuffer(u)
  BY <1>1, <1>2, <1>4 DEF OneSender
<1>5. ASSUME NEW t \in Threads, NEW u \in Threads, NEW s \in InTransit(u)
      PROVE  tmp[s] \in Buffers /\ tmp[s] # HomeBuffer(t)
  <2>1. s \in Senders /\ spc[s] \in {"take", "send"}
    BY <1>5 DEF InTransit
  <2>2. \A r \in Senders : spc[r] # "swap"
    BY <2>1 DEF OneSender
  <2>3. tmp[s] = back /\ front[t] # back /\ HomeBuffer(t) = front[t]
    BY <2>1, <2>2, <1>2 DEF BufferInv
  <2> QED  BY <1>1, <2>1, <2>3
<1> QED  BY <1>3, <1>4, <1>5

\* What neither finishes a swap nor sends leaves every record where it was.
LEMMA Stay ==
  ASSUME OneSender, TypeOK, LockInv, BufferInv, [Next]_vars,
         \A s \in Senders : ~FinishSwap(s) /\ ~SendProfileData(s)
  PROVE  \A t \in Threads :
           /\ HomeBuffer(t)' = HomeBuffer(t) /\ InTransit(t)' = InTransit(t)
           /\ \A s \in InTransit(t) : tmp'[s] = tmp[s]
<1> USE DEF listVars, treeVars, bufferVars, hookVars, sendVars, linkVars
<1> DEFINE Kept(t) == /\ HomeBuffer(t)' = HomeBuffer(t) /\ InTransit(t)' = InTransit(t)
                      /\ \A s \in InTransit(t) : tmp'[s] = tmp[s]
<1>T. /\ spc \in [Senders -> SendPcs] /\ tmp \in [Senders -> Buffers]
      /\ front \in [Threads -> Buffers] /\ it \in [Senders -> Nat \ {0}]
  BY DEF TypeOK
<1>1. ASSUME UNCHANGED <<spc, tmp, front>>, \A s \in Senders : Target(s)' = Target(s)
      PROVE  \A t \in Threads : Kept(t)
  <2>1. \A t \in Threads : Swapping(t)' = Swapping(t) /\ InTransit(t)' = InTransit(t)
    BY <1>1 DEF Swapping, InTransit
  <2>2. \A t \in Threads : HomeBuffer(t)' = HomeBuffer(t)
    BY <1>1, Places, PlacesNext
  <2> QED  BY <1>1, <2>1, <2>2
<1>2. ASSUME NEW t \in Threads, Attach(t) PROVE \A u \in Threads : Kept(u)
  BY <1>1, <1>2, AttachFacts DEF Attach
<1>3. ASSUME UNCHANGED <<spc, tmp, front, it, threads>> PROVE \A u \in Threads : Kept(u)
  BY <1>1, <1>3 DEF Target
<1>4. ASSUME NEW t \in Threads, Hook(t) \/ ReturnEnter(t) \/ \E name \in Names : CallEnter(t, name)
      PROVE  \A u \in Threads : Kept(u)
  BY <1>3, <1>4 DEF Hook, CallEnter, CallRecord, CallCount, CallStart, ReturnEnter, ReturnRecord,
                    ReturnAccum, ReturnPop
<1>5. ASSUME NEW s \in Senders, Connect(s) \/ Drop(s) PROVE \A u \in Threads : Kept(u)
  BY <1>3, <1>5 DEF Connect, Drop
<1>6. ASSUME NEW s \in Senders, NEW u \in Threads,
             ReqProfileData(s) \/ SendNowInfo(s)
      PROVE  Kept(u)
  <2>1. /\ spc[s] \in {"wait", "now"} /\ spc'[s] \in {"lock", "wait"}
        /\ UNCHANGED <<tmp, front, threads>>
    BY <1>6, <1>T DEF ReqProfileData, SendNowInfo
  <2>2. \A r \in Senders : r = s
    BY DEF OneSender
  <2>3. HomeBuffer(u) = front[u] /\ HomeBuffer(u)' = front'[u]
    BY <2>1, <2>2, Places, PlacesNext
  <2>4. InTransit(u) = {} /\ InTransit(u)' = {}
    BY <2>1, <2>2 DEF InTransit
  <2> QED  BY <2>1, <2>3, <2>4
<1>7. ASSUME NEW s \in Senders, NEW u \in Threads, LockAndSwap(s) PROVE Kept(u)
  <2>1. /\ spc[s] = "lock" /\ spc'[s] = "swap" /\ UNCHANGED <<threads, it>>
        /\ tmp'[s] = front[Target(s)]
        /\ \A v \in Threads : v # Target(s) => front'[v] = front[v]
    BY <1>7, <1>T DEF LockAndSwap
  <2>2. \A r \in Senders : r = s
    BY DEF OneSender
  <2>3. Target(s)' = Target(s)
    BY <2>1 DEF Target
  <2>4. HomeBuffer(u) = front[u] /\ InTransit(u) = {} /\ InTransit(u)' = {}
    BY <2>1, <2>2, Places DEF InTransit
  <2>5. HomeBuffer(u)' = front[u]
    BY <2>1, <2>2, <2>3, PlacesNext
  <2> QED  BY <2>4, <2>5
<1>8. ASSUME NEW s \in Senders, NEW u \in Threads, TakeBuffer(s) PROVE Kept(u)
  <2>1. spc[s] = "take" /\ spc'[s] = "send" /\ UNCHANGED <<threads, it, tmp, front>>
    BY <1>8, <1>T DEF TakeBuffer
  <2>2. \A r \in Senders : r = s
    BY DEF OneSender
  <2>3. Target(s)' = Target(s)
    BY <2>1 DEF Target
  <2>4. HomeBuffer(u) = front[u] /\ HomeBuffer(u)' = front'[u]
    BY <2>1, <2>2, <2>3, Places, PlacesNext
  <2>5. InTransit(u)' = InTransit(u)
    BY <2>1, <2>2, <2>3 DEF InTransit
  <2> QED  BY <2>1, <2>4, <2>5
<1>9. CASE Tick \/ UNCHANGED vars
  BY <1>3, <1>9 DEF Tick, vars
<1> DEFINE KeptAll == \A u \in Threads : Kept(u)
<1> HIDE DEF Kept
<1>10. /\ \A s \in Senders : LockAndSwap(s) => KeptAll
       /\ \A s \in Senders : ReqProfileData(s) \/ SendNowInfo(s) => KeptAll
       /\ \A s \in Senders : TakeBuffer(s) => KeptAll
  BY <1>6, <1>7, <1>8
<1>11. \A t \in Threads : Attach(t) \/ Hook(t) \/ ReturnEnter(t) => KeptAll
  BY <1>2, <1>4
<1>12. \A t \in Threads, name \in Names : CallEnter(t, name) => KeptAll
  BY <1>4
<1>13. \A s \in Senders : Connect(s) \/ Drop(s) => KeptAll
  BY <1>5
<1> HIDE DEF KeptAll
<1>15. CASE Next /\ ~Tick
  <2>1. KeptAll
    BY <1>10, <1>11, <1>12, <1>13, <1>15 DEF Next, Hook
  <2> QED  BY <2>1 DEF KeptAll, Kept
<1> QED  BY <1>9, <1>15

\* The second half of a swap: the live buffer departs, an empty one is live.
LEMMA SwapFacts ==
  ASSUME OneSender, TypeOK, LockInv, BufferInv, CacheInv, NEW s \in Senders, FinishSwap(s),
         NEW t, t = Target(s)
  PROVE  /\ t \in Threads /\ front[t] \in Buffers /\ tmp[s] \in Buffers
         /\ HomeBuffer(t) = tmp[s] /\ HomeBuffer(t)' = front[t] /\ Swapping(t) = {s}
         /\ \A u \in Threads \ {t} :
              /\ HomeBuffer(u) = front[u] /\ HomeBuffer(u)' = front[u]
              /\ front[u] # front[t] /\ front[u] # tmp[s] /\ InTransit(u)' = {}
         /\ front[t] # tmp[s] /\ InTransit(t)' = {s}
         /\ \A u \in Threads : InTransit(u) = {} /\ Swapping(u)' = {}
         /\ bufs'[front[t]].size = 0
         /\ \A b \in Buffers : b # front[t] => bufs'[b] = bufs[b]
         /\ gen'[t] = gen[t] + 1 /\ \A u \in Threads \ {t} : gen'[u] = gen[u]
         /\ UNCHANGED <<nodes, cur, ptr, pc, tmp, made, sent, cut>>
<1> USE DEF listVars, treeVars, bufferVars, hookVars, sendVars, linkVars
<1>T. /\ spc \in [Senders -> SendPcs] /\ tmp \in [Senders -> Buffers]
      /\ front \in [Threads -> Buffers] /\ gen \in [Threads -> Nat]
      /\ bufs \in [Buffers -> RecordBuffer]
  BY DEF TypeOK
<1>0. t = Target(s)
  OBVIOUS
<1>1. t \in Threads
  BY <1>0, ElementOfSeq DEF TypeOK, LockInv, Target
<1>2. \A r \in Senders : r = s
  BY DEF OneSender
<1>3. /\ spc[s] = "swap" /\ spc'[s] = "take"
      /\ UNCHANGED <<nodes, cur, ptr, pc, front, threads, it, tmp, made, sent, cut>>
      /\ gen' = [gen EXCEPT ![t] = @ + 1]
      /\ bufs' = [bufs EXCEPT ![front[t]] = ResetBuffer(@)]
  BY <1>0, <1>T DEF FinishSwap
<1>4. Target(s)' = t
  BY <1>0, <1>3 DEF Target
<1>5. front[t] \in Buffers /\ tmp[s] \in Buffers
  BY <1>1, <1>T
<1>6. HomeBuffer(t) = tmp[s] /\ HomeBuffer(t)' = front[t] /\ Swapping(t) = {s}
  BY <1>0, <1>1, <1>2, <1>3, <1>4, Places, PlacesNext
<1>7. \A u \in Threads \ {t} :
        HomeBuffer(u) = front[u] /\ HomeBuffer(u)' = front[u] /\ InTransit(u)' = {}
  <2>1. \A u \in Threads \ {t} : HomeBuffer(u) = front[u]
    BY <1>0, <1>2, Places
  <2>2. \A u \in Threads \ {t} : HomeBuffer(u)' = front[u]
    BY <1>2, <1>3, PlacesNext
  <2>3. \A u \in Threads \ {t} : InTransit(u)' = {}
    BY <1>2, <1>3, <1>4 DEF InTransit
  <2> QED  BY <2>1, <2>2, <2>3
<1>8. \A u \in Threads : front[u] # tmp[s] /\ (u # t => front[u] # front[t])
  BY <1>1, <1>3 DEF BufferInv, FrontsDistinct
<1>9. InTransit(t)' = {s} /\ \A u \in Threads : InTransit(u) = {} /\ Swapping(u)' = {}
  BY <1>2, <1>3, <1>4 DEF InTransit, Swapping
<1>10. bufs'[front[t]].size = 0 /\ \A b \in Buffers : b # front[t] => bufs'[b] = bufs[b]
  BY <1>T, <1>3, <1>5 DEF ResetBuffer, RecordBuffer
<1>11. gen'[t] = gen[t] + 1 /\ \A u \in Threads \ {t} : gen'[u] = gen[u]
  BY <1>T, <1>1, <1>3
<1> QED  BY <1>0, <1>1, <1>3, <1>5, <1>6, <1>7, <1>8, <1>9, <1>10, <1>11

\* SendMessage2: what departs is delivered.
LEMMA SendFacts ==
  ASSUME OneSender, TypeOK, LockInv, BufferInv, NEW s \in Senders, SendProfileData(s),
         NEW t, t = Target(s)
  PROVE  /\ t \in Threads /\ tmp[s] \in Buffers /\ sbuf[s] = tmp[s]
         /\ InTransit(t) = {s} /\ \A u \in Threads \ {t} : InTransit(u) = {}
         /\ \A u \in Threads : /\ HomeBuffer(u)' = HomeBuffer(u) /\ InTransit(u)' = {}
                               /\ Swapping(u) = {} /\ Swapping(u)' = {}
         /\ UNCHANGED <<nodes, cur, ptr, pc, gen, bufs, tmp, made, cut>>
<1> USE DEF listVars, treeVars, bufferVars, hookVars, sendVars, linkVars
<1>T. /\ spc \in [Senders -> SendPcs] /\ tmp \in [Senders -> Buffers]
  BY DEF TypeOK
<1>0. t = Target(s)
  OBVIOUS
<1>1. t \in Threads
  BY <1>0, ElementOfSeq DEF TypeOK, LockInv, Target
<1>2. \A r \in Senders : r = s
  BY DEF OneSender
<1>3. /\ spc[s] = "send" /\ spc'[s] = "now"
      /\ UNCHANGED <<nodes, cur, ptr, pc, gen, front, bufs, tmp, made, cut>>
  BY <1>T DEF SendProfileData
<1>4. sbuf[s] = tmp[s]
  BY <1>3 DEF BufferInv
<1>5. \A u \in Threads : HomeBuffer(u)' = HomeBuffer(u)
  BY <1>2, <1>3, Places, PlacesNext
<1>6. InTransit(t) = {s} /\ \A u \in Threads \ {t} : InTransit(u) = {}
  BY <1>0, <1>2, <1>3 DEF InTransit
<1>7. \A u \in Threads : InTransit(u)' = {} /\ Swapping(u) = {} /\ Swapping(u)' = {}
  BY <1>2, <1>3 DEF InTransit, Swapping
<1> QED  BY <1>T, <1>0, <1>1, <1>3, <1>4, <1>5, <1>6, <1>7

(***************************************************************************)
(* The records a buffer lists, and what get_current_node_info_pair adds.   *)
(***************************************************************************)

\* A buffer still holds the same nodes' records, of nodes that did not move.
LEMMA FiledFrame ==
  ASSUME NEW buf, NEW buf2, NEW nd, NEW nd2, NEW g, FiledIn(buf, nd, g),
         buf2.size = buf.size, \A i \in 1 .. buf.size : buf2.slots[i].node = buf.slots[i].node,
         Len(nd) \in Nat, Len(nd2) \in Nat, Len(nd2) >= Len(nd),
         \A n \in 1 .. Len(nd) : nd2[n].gen = nd[n].gen /\ nd2[n].sidx = nd[n].sidx
  PROVE  FiledIn(buf2, nd2, g)
<1> SUFFICES ASSUME NEW i \in 1 .. buf2.size
             PROVE  LET n == buf2.slots[i].node IN
                    n \in 1 .. Len(nd2) /\ nd2[n].gen = g /\ nd2[n].sidx = i
  BY DEF FiledIn
<1>1. PICK n : n = buf.slots[i].node
  OBVIOUS
<1>2. buf2.slots[i].node = n /\ n \in 1 .. Len(nd) /\ nd[n].gen = g /\ nd[n].sidx = i
  BY <1>1 DEF FiledIn
<1> QED  BY <1>2

LEMMA EmptyFiled == \A buf, nd, g : buf.size = 0 => FiledIn(buf, nd, g)
BY DEF FiledIn

\* No node has two records in a buffer whose records are cached.
LEMMA FiledDistinct ==
  ASSUME NEW buf, NEW nd, NEW g, FiledIn(buf, nd, g)
  PROVE  DistinctNodes(buf)
<1> SUFFICES ASSUME NEW i \in 1 .. buf.size, NEW j \in 1 .. buf.size,
                    buf.slots[i].node = buf.slots[j].node
             PROVE  i = j
  BY DEF DistinctNodes
<1>1. nd[buf.slots[i].node].sidx = i
  BY DEF FiledIn
<1>2. nd[buf.slots[j].node].sidx = j
  BY DEF FiledIn
<1> QED  BY <1>1, <1>2

\* The hook has the live record of the current node; if it was added, it is
\* the only one of that node, and nothing else changed.
LEMMA PairAdds ==
  ASSUME TypeOK, TreeInv, CacheInv, NEW t \in Threads, Swapping(t) = {},
         GetCurrentNodeInfoPair(t), FiledIn(bufs[front[t]], nodes[t], gen[t])
  PROVE  /\ ptr'[t].buf = front[t]
         /\ nodes'[t][cur[t]].gen = gen[t]
         /\ ptr'[t].slot = nodes'[t][cur[t]].sidx
         /\ FiledIn(bufs'[front[t]], nodes'[t], gen[t])
         /\ \/ bufs' = bufs
            \/ /\ bufs'[front[t]].size = bufs[front[t]].size + 1
               /\ \A i \in 1 .. bufs[front[t]].size :
                    bufs'[front[t]].slots[i] = bufs[front[t]].slots[i]
               /\ LET new == bufs'[front[t]].slots[bufs[front[t]].size + 1] IN
                    new.node = cur[t] /\ new.count = 0 /\ new.time = 0
               /\ \A i \in 1 .. bufs[front[t]].size :
                    bufs[front[t]].slots[i].node # cur[t]
<1> DEFINE n    == cur[t]
           b    == front[t]
           info == nodes[t][n]
<1>1. n \in 1 .. Len(nodes[t])
  BY CursorInRange
<1>2. info \in NodeInfo
  BY <1>1, ElementOfSeq DEF TypeOK
<1>3. b \in Buffers /\ bufs[b] \in RecordBuffer
  BY DEF TypeOK
<1>4. bufs[b].size <= Len(bufs[b].slots) /\ bufs[b].size \in Nat
      /\ Len(bufs[b].slots) \in Nat /\ gen[t] \in Nat
  BY <1>3, LenProperties DEF CacheInv, RecordBuffer, TypeOK
<1>5. CASE ~NeedsRecord(t, info)
  <2>1. /\ ptr' = [ptr EXCEPT ![t] = [buf |-> b, slot |-> info.sidx]]
        /\ bufs' = bufs /\ nodes' = nodes
    BY <1>5 DEF GetCurrentNodeInfoPair
  <2>2. ptr'[t] = [buf |-> b, slot |-> info.sidx] /\ info.gen = gen[t]
    BY <1>5, <2>1 DEF TypeOK, NeedsRecord
  <2> QED  BY <2>1, <2>2
<1>6. CASE NeedsRecord(t, info)
  <2> DEFINE grown   == NewTailElem(bufs[b], NewRecord(n, info))
             updated == [info EXCEPT !.sidx = LastIndex(grown), !.gen = gen[t]]
  <2>1. /\ bufs' = [bufs EXCEPT ![b] = grown]
        /\ nodes' = [nodes EXCEPT ![t][n] = updated]
        /\ ptr' = [ptr EXCEPT ![t] = [buf |-> b, slot |-> LastIndex(grown)]]
        /\ info.gen # gen[t]
    BY <1>6 DEF GetCurrentNodeInfoPair, NeedsRecord
  <2>2. NewRecord(n, info) \in Record
    <3>1. n \in Nat
      BY DEF TypeOK
    <3> QED  BY <3>1, <1>2 DEF NewRecord, Record, NodeInfo
  <2>3. /\ grown \in RecordBuffer
        /\ grown.size = bufs[b].size + 1
        /\ \A i \in 1 .. bufs[b].size : grown.slots[i] = bufs[b].slots[i]
        /\ grown.slots[grown.size] = NewRecord(n, info)
    BY <1>3, <1>4, <2>2, NewTailElemFacts
  <2>4. LastIndex(grown) = bufs[b].size + 1 /\ LastIndex(grown) \in Nat
    BY <2>3, <1>4 DEF LastIndex
  <2>5. /\ updated \in NodeInfo /\ updated.gen = gen[t] /\ updated.parent = info.parent
        /\ updated.sidx = bufs[b].size + 1
    BY <1>2, <1>4, <2>4 DEF NodeInfo
  <2> HIDE DEF grown, updated
  <2>6. bufs'[b] = grown /\ ptr'[t].buf = b /\ ptr'[t].slot = bufs[b].size + 1
    BY <1>3, <2>1, <2>4 DEF TypeOK
  <2>7. /\ \A m \in 1 .. Len(nodes[t]) : m # n => nodes'[t][m] = nodes[t][m]
        /\ nodes'[t][n] = updated /\ Len(nodes'[t]) = Len(nodes[t])
    BY <1>1, <2>1, <2>5, NodesExcept DEF TypeOK
  <2>8. \A i \in 1 .. bufs[b].size : bufs[b].slots[i].node # n
    BY <2>1 DEF FiledIn
  <2>9. grown.slots[bufs[b].size + 1].node = n /\ grown.slots[bufs[b].size + 1].count = 0
        /\ grown.slots[bufs[b].size + 1].time = 0
    BY <2>3 DEF NewRecord
  <2>10. FiledIn(grown, nodes'[t], gen[t])
    <3> SUFFICES ASSUME NEW i \in 1 .. grown.size
                 PROVE  LET m == grown.slots[i].node IN
                        /\ m \in 1 .. Len(nodes'[t])
                        /\ nodes'[t][m].gen = gen[t] /\ nodes'[t][m].sidx = i
      BY DEF FiledIn
    <3>1. CASE i \in 1 .. bufs[b].size
      BY <2>3, <2>7, <2>8, <3>1, ZenonT(60) DEF FiledIn
    <3>2. CASE i \notin 1 .. bufs[b].size
      <4>1. i = bufs[b].size + 1
        BY <1>4, <2>3, <3>2
      <4> QED  BY <1>1, <2>5, <2>7, <2>9, <4>1
    <3> QED  BY <3>1, <3>2
  <2> QED  BY <2>3, <2>5, <2>6, <2>7, <2>8, <2>9, <2>10
<1> QED  BY <1>5, <1>6

LEMMA FiledStep ==
  ASSUME OneSender, TypeOK, LockInv, BufferInv, TreeInv, LiveInv, CacheInv, TimeInv,
         FiledInv, [Next]_vars
  PROVE  FiledInv'
<1> USE DEF listVars, treeVars, bufferVars, hookVars, sendVars, linkVars
<1> DEFINE Filed(u) == FiledIn(bufs[HomeBuffer(u)], nodes[u], gen[u])
           FiledNext(u) == FiledIn(bufs'[HomeBuffer(u)'], nodes'[u], gen'[u])
<1>G. FiledInv' <=> \A u \in Threads : FiledNext(u)
  BY DEF FiledInv, FiledIn
<1>F. \A u \in Threads : Filed(u) /\ HomeBuffer(u) \in Buffers
  BY Apart DEF FiledInv
<1>T. \A u \in Threads : Len(nodes[u]) \in Nat
  BY LenProperties DEF TypeOK
<1>S. \A b \in Buffers : bufs[b].size \in Nat /\ bufs[b].size <= Len(bufs[b].slots)
                         /\ Len(bufs[b].slots) \in Nat
  BY LenProperties DEF TypeOK, CacheInv, RecordBuffer
<1>1. ASSUME NEW u \in Threads, HomeBuffer(u)' = HomeBuffer(u), gen'[u] = gen[u],
             \A b \in Buffers :
               /\ bufs'[b].size = bufs[b].size
               /\ \A i \in 1 .. bufs[b].size : bufs'[b].slots[i].node = bufs[b].slots[i].node,
             Len(nodes'[u]) \in Nat, Len(nodes'[u]) >= Len(nodes[u]),
             \A n \in 1 .. Len(nodes[u]) :
               nodes'[u][n].gen = nodes[u][n].gen /\ nodes'[u][n].sidx = nodes[u][n].sidx
      PROVE  FiledNext(u)
  BY <1>1, <1>F, <1>T, FiledFrame
<1>2. ASSUME NEW u \in Threads, HomeBuffer(u)' = HomeBuffer(u),
             gen'[u] = gen[u], bufs'[HomeBuffer(u)] = bufs[HomeBuffer(u)], nodes'[u] = nodes[u]
      PROVE  FiledNext(u)
  BY <1>2, <1>F
<1>3. ASSUME NEW t \in Threads, NEW name \in Names, CallEnter(t, name) PROVE FiledInv'
  <2>1. /\ \A u \in Threads \ {t} : nodes'[u] = nodes[u]
        /\ Len(nodes'[t]) \in 1 .. MaxNodes /\ Len(nodes'[t]) >= Len(nodes[t])
        /\ \A n \in 1 .. Len(nodes[t]) : nodes'[t][n] = nodes[t][n]
    BY <1>3, EnterFacts
  <2>2. bufs' = bufs /\ gen' = gen /\ spc' = spc
    BY <1>3 DEF CallEnter
  <2>3. \A u \in Threads : HomeBuffer(u)' = HomeBuffer(u)
    <3>1. \A s \in Senders : ~FinishSwap(s) /\ ~SendProfileData(s)
      BY <2>2 DEF FinishSwap, SendProfileData, TypeOK
    <3> QED  BY <3>1, Stay
  <2>4. Len(nodes'[t]) \in Nat
    BY <2>1, ConstantsAssumption
  <2>5. FiledNext(t)
    BY <1>1, <2>1, <2>2, <2>3, <2>4
  <2>6. \A u \in Threads \ {t} : FiledNext(u)
    BY <1>2, <2>1, <2>2, <2>3
  <2> HIDE DEF FiledNext
  <2> QED  BY <1>G, <2>5, <2>6
<1>4. ASSUME NEW t \in Threads, CallRecord(t) \/ ReturnRecord(t) PROVE FiledInv'
  <2>1. GetCurrentNodeInfoPair(t) /\ gen' = gen /\ spc' = spc
    BY <1>4 DEF CallRecord, ReturnRecord
  <2>2. Swapping(t) = {}
    BY <2>1, UnlockedNotSwapping DEF GetCurrentNodeInfoPair
  <2>3. HomeBuffer(t) = front[t]
    BY <2>2, Places DEF Swapping
  <2>4. \A u \in Threads : HomeBuffer(u)' = HomeBuffer(u)
    <3>1. \A s \in Senders : ~FinishSwap(s) /\ ~SendProfileData(s)
      BY <2>1 DEF FinishSwap, SendProfileData, TypeOK
    <3> QED  BY <3>1, Stay
  <2>5. FiledIn(bufs'[front[t]], nodes'[t], gen[t])
    BY <1>F, <2>1, <2>2, <2>3, PairAdds
  <2>6. FiledNext(t)
    BY <2>1, <2>3, <2>4, <2>5
  <2>7. PairNodes(t) /\ PairBuffers(t) /\ PairTypes
    BY <2>1, <2>2, PairFacts
  <2>8. \A b \in Buffers : b # front[t] => bufs'[b] = bufs[b]
    BY <2>7 DEF PairBuffers
  <2>9. \A u \in Threads \ {t} : nodes'[u] = nodes[u]
    BY <2>1 DEF GetCurrentNodeInfoPair, TypeOK
  <2>10. \A u \in Threads \ {t} : HomeBuffer(u) \in Buffers /\ HomeBuffer(u) # front[t]
    BY <2>3, Apart
  <2>11. \A u \in Threads \ {t} : FiledNext(u)
    BY <1>2, <2>1, <2>4, <2>8, <2>9, <2>10
  <2> HIDE DEF FiledNext
  <2> QED  BY <1>G, <2>6, <2>11
<1>5. ASSUME NEW t \in Threads, CallCount(t) \/ CallStart(t) \/ ReturnAccum(t) PROVE FiledInv'
  <2>1. \A b \in Buffers :
          /\ bufs'[b].size = bufs[b].size
          /\ \A i \in 1 .. Len(bufs[b].slots) : bufs'[b].slots[i].node = bufs[b].slots[i].node
    BY <1>5, WriteFacts
  <2>2. \A b \in Buffers : \A i \in 1 .. bufs[b].size : i \in 1 .. Len(bufs[b].slots)
    BY <1>S
  <2>3. gen' = gen /\ spc' = spc
    BY <1>5 DEF CallCount, CallStart, ReturnAccum
  <2>4. \A u \in Threads : HomeBuffer(u)' = HomeBuffer(u)
    <3>1. \A s \in Senders : ~FinishSwap(s) /\ ~SendProfileData(s)
      BY <2>3 DEF FinishSwap, SendProfileData, TypeOK
    <3> QED  BY <3>1, Stay
  <2>5. \A u \in Threads :
          /\ Len(nodes'[u]) = Len(nodes[u])
          /\ \A n \in 1 .. Len(nodes[u]) :
               nodes'[u][n].gen = nodes[u][n].gen /\ nodes'[u][n].sidx = nodes[u][n].sidx
    <3>1. CASE CallStart(t)
      BY <3>1, StartFacts
    <3>2. CASE CallCount(t) \/ ReturnAccum(t)
      BY <3>2 DEF CallCount, ReturnAccum
    <3> QED  BY <1>5, <3>1, <3>2
  <2>6. \A b \in Buffers :
          \A i \in 1 .. bufs[b].size : bufs'[b].slots[i].node = bufs[b].slots[i].node
    BY <2>1, <2>2
  <2>7. ASSUME NEW u \in Threads PROVE FiledNext(u)
    <3>1. Len(nodes'[u]) \in Nat /\ Len(nodes'[u]) >= Len(nodes[u])
      BY <1>T, <2>5
    <3> HIDE DEF FiledNext
    <3> QED  BY <1>1, <2>1, <2>3, <2>4, <2>5, <2>6, <3>1
  <2> HIDE DEF FiledNext
  <2> QED  BY <1>G, <2>7
<1>6. ASSUME NEW s \in Senders, FinishSwap(s) PROVE FiledInv'
  <2>0. PICK t : t = Target(s)
    OBVIOUS
  <2>1. /\ t \in Threads /\ HomeBuffer(t)' = front[t]
        /\ \A u \in Threads \ {t} : /\ HomeBuffer(u) = front[u] /\ HomeBuffer(u)' = front[u]
                                    /\ front[u] # front[t]
        /\ bufs'[front[t]].size = 0
        /\ \A b \in Buffers : b # front[t] => bufs'[b] = bufs[b]
        /\ \A u \in Threads \ {t} : gen'[u] = gen[u]
        /\ nodes' = nodes
    BY <1>6, <2>0, SwapFacts
  <2>4. FiledIn(bufs'[front[t]], nodes'[t], gen'[t])
    <3>1. bufs'[front[t]].size = 0
      BY <2>1
    <3> QED  BY <3>1, EmptyFiled
  <2>2. FiledNext(t)
    BY <2>1, <2>4, ZenonT(40)
  <2>3. \A u \in Threads \ {t} : FiledNext(u)
    BY <1>2, <1>F, <2>1
  <2> HIDE DEF FiledNext
  <2> QED  BY <1>G, <2>2, <2>3
<1>7. ASSUME NEW s \in Senders, SendProfileData(s) PROVE FiledInv'
  <2>1. UNCHANGED <<nodes, gen, bufs>> /\ \A u \in Threads : HomeBuffer(u)' = HomeBuffer(u)
    BY <1>7, SendFacts
  <2> QED  BY <1>G, <1>F, <2>1
<1>8. ASSUME UNCHANGED <<nodes, gen, bufs>>,
             \A s \in Senders : ~FinishSwap(s) /\ ~SendProfileData(s)
      PROVE  FiledInv'
  <2>1. \A u \in Threads : HomeBuffer(u)' = HomeBuffer(u)
    BY <1>8, Stay
  <2> QED  BY <1>G, <1>F, <1>8, <2>1
<1>9. ASSUME NEW t \in Threads, Attach(t) \/ ReturnEnter(t) \/ ReturnPop(t) PROVE UNCHANGED <<nodes, gen, bufs>>
  BY <1>9 DEF Attach, ReturnEnter, ReturnPop
<1>10. ASSUME NEW s \in Senders,
              Connect(s) \/ Drop(s) \/ ReqProfileData(s) \/ LockAndSwap(s)
              \/ TakeBuffer(s) \/ SendNowInfo(s)
       PROVE  UNCHANGED <<nodes, gen, bufs>>
  BY <1>10 DEF Connect, Drop, ReqProfileData, LockAndSwap, TakeBuffer, SendNowInfo
<1>11. ASSUME Tick \/ UNCHANGED vars PROVE UNCHANGED <<nodes, gen, bufs>>
  BY <1>11 DEF Tick, vars
<1> QED  BY <1>3, <1>4, <1>5, <1>6, <1>7, <1>8, <1>9, <1>10, <1>11 DEF Next

LEMMA LeavingStep ==
  ASSUME OneSender, TypeOK, LockInv, BufferInv, TreeInv, LiveInv, CacheInv, TimeInv,
         FiledInv, LeavingInv, [Next]_vars
  PROVE  LeavingInv'
<1> USE DEF listVars, treeVars, bufferVars, hookVars, sendVars, linkVars
<1>P. /\ spc \in [Senders -> SendPcs] /\ tmp \in [Senders -> Buffers]
      /\ bufs \in [Buffers -> RecordBuffer]
  BY DEF TypeOK
<1>S. \A b \in Buffers : bufs[b].size \in Nat /\ bufs[b].size <= Len(bufs[b].slots)
                         /\ Len(bufs[b].slots) \in Nat
  BY LenProperties DEF TypeOK, CacheInv, RecordBuffer
<1>1. ASSUME NEW s \in Senders, spc[s] \in {"take", "send"}, tmp'[s] = tmp[s],
             bufs'[tmp[s]].size = bufs[tmp[s]].size,
             \A i \in 1 .. bufs[tmp[s]].size :
               bufs'[tmp[s]].slots[i].node = bufs[tmp[s]].slots[i].node
      PROVE  DistinctNodes(bufs'[tmp'[s]])
  BY <1>1 DEF LeavingInv, DistinctNodes
<1>G. (\A s \in Senders : spc'[s] \in {"take", "send"} => DistinctNodes(bufs'[tmp'[s]]))
        => LeavingInv'
  BY DEF LeavingInv, DistinctNodes
<1>2. ASSUME NEW t \in Threads, CallRecord(t) \/ ReturnRecord(t) PROVE LeavingInv'
  <2>1. GetCurrentNodeInfoPair(t) /\ spc' = spc /\ tmp' = tmp
    BY <1>2 DEF CallRecord, ReturnRecord
  <2>2. Swapping(t) = {}
    BY <2>1, UnlockedNotSwapping DEF GetCurrentNodeInfoPair
  <2>3. HomeBuffer(t) = front[t]
    BY <2>2, Places DEF Swapping
  <2>4. PairBuffers(t)
    BY <2>1, <2>2, PairFacts
  <2>5. ASSUME NEW s \in Senders, spc'[s] \in {"take", "send"}
        PROVE  DistinctNodes(bufs'[tmp'[s]])
    <3>1. Target(s) \in Threads
      BY ElementOfSeq DEF TypeOK, LockInv, Target
    <3>2. s \in InTransit(Target(s))
      BY <2>1, <2>5 DEF InTransit
    <3>3. tmp[s] # front[t] /\ tmp[s] \in Buffers
      BY <2>3, <3>1, <3>2, Apart
    <3>4. bufs'[tmp[s]] = bufs[tmp[s]]
      BY <2>4, <3>3 DEF PairBuffers
    <3> QED  BY <1>1, <2>1, <2>5, <3>4
  <2> QED  BY <1>G, <2>5
<1>3. ASSUME NEW t \in Threads, CallCount(t) \/ CallStart(t) \/ ReturnAccum(t) PROVE LeavingInv'
  <2>1. \A b \in Buffers :
          /\ bufs'[b].size = bufs[b].size
          /\ \A i \in 1 .. Len(bufs[b].slots) : bufs'[b].slots[i].node = bufs[b].slots[i].node
    BY <1>3, WriteFacts
  <2>2. \A b \in Buffers : \A i \in 1 .. bufs[b].size : i \in 1 .. Len(bufs[b].slots)
    BY <1>S
  <2>3. spc' = spc /\ tmp' = tmp
    BY <1>3 DEF CallCount, CallStart, ReturnAccum
  <2>4. ASSUME NEW s \in Senders, spc'[s] \in {"take", "send"}
        PROVE  DistinctNodes(bufs'[tmp'[s]])
    <3>1. tmp[s] \in Buffers
      BY <1>P
    <3> QED  BY <1>1, <2>1, <2>2, <2>3, <2>4, <3>1
  <2> QED  BY <1>G, <2>4
<1>4. ASSUME NEW s \in Senders, FinishSwap(s) PROVE LeavingInv'
  <2>0. PICK t : t = Target(s)
    OBVIOUS
  <2>1. /\ t \in Threads /\ tmp[s] \in Buffers /\ HomeBuffer(t) = tmp[s] /\ front[t] # tmp[s]
        /\ \A b \in Buffers : b # front[t] => bufs'[b] = bufs[b]
        /\ tmp' = tmp
    BY <1>4, <2>0, SwapFacts
  <2>2. bufs'[tmp'[s]] = bufs[HomeBuffer(t)]
    BY <2>1
  <2>3. FiledIn(bufs[HomeBuffer(t)], nodes[t], gen[t])
    BY <2>1 DEF FiledInv
  <2>4. DistinctNodes(bufs'[tmp'[s]])
    BY <2>2, <2>3, FiledDistinct
  <2> QED  BY <1>G, <2>4 DEF OneSender
<1>5. ASSUME UNCHANGED <<bufs, tmp>>, \A s \in Senders : spc'[s] \in {"take", "send"} => spc[s] \in {"take", "send"}
      PROVE  LeavingInv'
  BY <1>5 DEF LeavingInv, DistinctNodes
<1>6. ASSUME NEW t \in Threads, Attach(t) \/ ReturnEnter(t) \/ ReturnPop(t) \/ \E name \in Names : CallEnter(t, name)
      PROVE LeavingInv'
  BY <1>5, <1>6 DEF Attach, ReturnEnter, ReturnPop, CallEnter
<1>7. ASSUME NEW s \in Senders,
              Connect(s) \/ Drop(s) \/ ReqProfileData(s) 
              \/ TakeBuffer(s) \/ SendNowInfo(s) \/ SendProfileData(s)
       PROVE  LeavingInv'
  <2>1. UNCHANGED <<bufs, tmp>>
    BY <1>7 DEF Connect, Drop, ReqProfileData, TakeBuffer, SendNowInfo, SendProfileData
  <2>2. \A r \in Senders : spc'[r] \in {"take", "send"} => spc[r] \in {"take", "send"}
    BY <1>P, <1>7 DEF Connect, Drop, ReqProfileData, TakeBuffer, SendNowInfo, SendProfileData
  <2> QED  BY <1>5, <2>1, <2>2
<1>8. ASSUME NEW s \in Senders, LockAndSwap(s) PROVE LeavingInv'
  <2>1. spc'[s] = "swap"
    BY <1>P, <1>8 DEF LockAndSwap
  <2> QED  BY <1>G, <2>1 DEF OneSender
<1>9. CASE Tick \/ UNCHANGED vars
  BY <1>5, <1>9 DEF Tick, vars
<1> QED  BY <1>2, <1>3, <1>4, <1>6, <1>7, <1>8, <1>9 DEF Next

\* SinfoInv of a hook that does nothing itself in a step that moves no record.
LEMMA SinfoFrame ==
  ASSUME SinfoInv, NEW t \in Threads, pc'[t] = pc[t], ptr'[t] = ptr[t], cur'[t] = cur[t],
         nodes'[t] = nodes[t], gen'[t] = gen[t], \A b : bufs'[b].size = bufs[b].size,
         \A u \in Threads : /\ HomeBuffer(u)' = HomeBuffer(u)
                            /\ InTransit(u)' \subseteq InTransit(u)
                            /\ \A s \in InTransit(u) : tmp'[s] = tmp[s]
  PROVE  pc'[t] \in LivePcs =>
           IF Overtaken(t)'
           THEN /\ \A u \in Threads : Unlisted(t, HomeBuffer(u))'
                /\ \A u \in Threads \ {t} : \A s \in InTransit(u)' : Unlisted(t, tmp[s])'
           ELSE ptr'[t].buf = HomeBuffer(t)' /\ ptr'[t].slot = nodes'[t][cur'[t]].sidx
<1> SUFFICES ASSUME pc[t] \in LivePcs
             PROVE  IF Overtaken(t)'
                    THEN /\ \A u \in Threads : Unlisted(t, HomeBuffer(u))'
                         /\ \A u \in Threads \ {t} : \A s \in InTransit(u)' : Unlisted(t, tmp[s])'
                    ELSE ptr'[t].buf = HomeBuffer(t)' /\ ptr'[t].slot = nodes'[t][cur'[t]].sidx
  OBVIOUS
<1>1. Overtaken(t)' <=> Overtaken(t)
  BY DEF Overtaken
<1>2. CASE Overtaken(t)
  <2>1. \A u \in Threads : Unlisted(t, HomeBuffer(u))'
    BY <1>2 DEF SinfoInv, Unlisted
  <2>2. ASSUME NEW u \in Threads \ {t}, NEW s \in InTransit(u)'
        PROVE  Unlisted(t, tmp[s])'
    <3>1. s \in InTransit(u) /\ tmp'[s] = tmp[s]
      BY <2>2
    <3>2. Unlisted(t, tmp[s])
      BY <1>2, <3>1 DEF SinfoInv
    <3> QED  BY <3>1, <3>2 DEF Unlisted
  <2> QED  BY <1>1, <1>2, <2>1, <2>2
<1>3. CASE ~Overtaken(t)
  BY <1>1, <1>3 DEF SinfoInv
<1> QED  BY <1>2, <1>3

LEMMA SinfoStep ==
  ASSUME OneSender, TypeOK, LockInv, BufferInv, TreeInv, LiveInv, CacheInv, TimeInv,
         FiledInv, SinfoInv, [Next]_vars
  PROVE  SinfoInv'
<1> USE DEF listVars, treeVars, bufferVars, hookVars, sendVars, linkVars
<1> DEFINE Fine(t) ==
      pc'[t] \in LivePcs =>
           IF Overtaken(t)'
           THEN /\ \A u \in Threads : Unlisted(t, HomeBuffer(u))'
                /\ \A u \in Threads \ {t} : \A s \in InTransit(u)' : Unlisted(t, tmp[s])'
           ELSE ptr'[t].buf = HomeBuffer(t)' /\ ptr'[t].slot = nodes'[t][cur'[t]].sidx
<1>G. SinfoInv' <=> \A t \in Threads : Fine(t)
  BY DEF SinfoInv, Overtaken, Unlisted
<1>P. /\ pc \in [Threads -> HookPcs] /\ spc \in [Senders -> SendPcs]
      /\ gen \in [Threads -> Nat] /\ \A b \in Buffers : bufs[b].size \in Nat
      /\ \A t \in Threads : ptr[t].buf \in Buffers /\ ptr[t].slot \in Nat
  BY DEF TypeOK, RecordBuffer
<1>L. \A t \in Threads : pc[t] \in LivePcs => ptr[t].slot > 0
  BY LenProperties DEF LiveInv
<1>R. "run" \notin LivePcs /\ "record" \notin LivePcs /\ "return" \notin LivePcs
  BY DEF LivePcs
<1>1. ASSUME NEW t \in Threads, \A u \in Threads \ {t} : pc'[u] = "run", Fine(t)
      PROVE  SinfoInv'
  <2>1. \A u \in Threads \ {t} : Fine(u)
    BY <1>1, <1>R
  <2> HIDE DEF Fine
  <2> QED  BY <1>G, <1>1, <2>1
<1>2. ASSUME UNCHANGED <<pc, ptr, cur, nodes, gen, bufs>>,
             \A u \in Threads : /\ HomeBuffer(u)' = HomeBuffer(u)
                                /\ InTransit(u)' \subseteq InTransit(u)
                                /\ \A s \in InTransit(u) : tmp'[s] = tmp[s]
      PROVE  SinfoInv'
  <2>1. \A t \in Threads : Fine(t)
    BY <1>2, SinfoFrame
  <2> HIDE DEF Fine
  <2> QED  BY <1>G, <2>1
<1>3. ASSUME UNCHANGED <<pc, ptr, cur, nodes, gen, bufs>>,
             \A s \in Senders : ~FinishSwap(s) /\ ~SendProfileData(s)
      PROVE  SinfoInv'
  BY <1>2, <1>3, Stay
<1>4. ASSUME NEW t \in Threads, NEW name \in Names, CallEnter(t, name) PROVE SinfoInv'
  <2>1. \A u \in Threads \ {t} : pc'[u] = "run"
    BY <1>4, HookPcFacts
  <2>2. pc'[t] = "record"
    BY <1>4, <1>P DEF CallEnter, EnterHook
  <2> QED  BY <1>1, <1>R, <2>1, <2>2
<1>E. ASSUME NEW t \in Threads, ReturnEnter(t) PROVE SinfoInv'
  <2>1. \A u \in Threads \ {t} : pc'[u] = "run"
    BY <1>E, HookPcFacts
  <2>2. pc'[t] = "return"
    BY <1>E, <1>P DEF ReturnEnter, EnterHook
  <2> QED  BY <1>1, <1>R, <2>1, <2>2
<1>5. ASSUME NEW t \in Threads, CallStart(t) \/ ReturnPop(t) PROVE SinfoInv'
  <2>1. \A u \in Threads \ {t} : pc'[u] = "run"
    BY <1>5, HookPcFacts DEF Hook
  <2>2. pc'[t] = "run"
    BY <1>5, <1>P DEF CallStart, ReturnPop, LeaveHook
  <2> QED  BY <1>1, <1>R, <2>1, <2>2
<1>6. ASSUME NEW t \in Threads, CallRecord(t) \/ ReturnRecord(t) PROVE SinfoInv'
  <2>1. \A u \in Threads \ {t} : pc'[u] = "run"
    BY <1>6, HookPcFacts DEF Hook
  <2>2. GetCurrentNodeInfoPair(t) /\ gen' = gen /\ cur' = cur /\ spc' = spc
    BY <1>6 DEF CallRecord, ReturnRecord
  <2>3. Swapping(t) = {}
    BY <2>2, UnlockedNotSwapping DEF GetCurrentNodeInfoPair
  <2>4. HomeBuffer(t) = front[t] /\ HomeBuffer(t)' = HomeBuffer(t)
    <3>1. \A s \in Senders : ~FinishSwap(s) /\ ~SendProfileData(s)
      BY <2>2 DEF FinishSwap, SendProfileData, TypeOK
    <3> QED  BY <2>3, <3>1, Stay, Places DEF Swapping
  <2>5. /\ ptr'[t].buf = front[t] /\ nodes'[t][cur[t]].gen = gen[t]
        /\ ptr'[t].slot = nodes'[t][cur[t]].sidx
    BY <2>2, <2>3, <2>4, PairAdds DEF FiledInv
  <2>6. ~Overtaken(t)'
    BY <2>2, <2>5 DEF Overtaken
  <2>7. Fine(t)
    BY <2>2, <2>4, <2>5, <2>6
  <2> QED  BY <1>1, <2>1, <2>7
<1>7. ASSUME NEW t \in Threads, CallCount(t) \/ ReturnAccum(t) PROVE SinfoInv'
  <2>1. \A u \in Threads \ {t} : pc'[u] = "run"
    BY <1>7, HookPcFacts DEF Hook
  <2>2. /\ pc[t] \in LivePcs /\ UNCHANGED <<ptr, cur, nodes, gen, spc>>
    BY <1>7 DEF CallCount, ReturnAccum, LivePcs
  <2>3. \A b \in Buffers : bufs'[b].size = bufs[b].size
    BY <1>7, WriteFacts
  <2>4. \A u \in Threads :
           /\ HomeBuffer(u)' = HomeBuffer(u) /\ InTransit(u)' = InTransit(u)
           /\ \A s \in InTransit(u) : tmp'[s] = tmp[s] /\ tmp[s] \in Buffers
           /\ HomeBuffer(u) \in Buffers
    <3>1. \A s \in Senders : ~FinishSwap(s) /\ ~SendProfileData(s)
      BY <2>2 DEF FinishSwap, SendProfileData, TypeOK
    <3> QED  BY <3>1, Stay, Apart
  <2>5. Overtaken(t)' <=> Overtaken(t)
    BY <2>2 DEF Overtaken
  <2>6. CASE Overtaken(t)
    <3>1. \A u \in Threads : Unlisted(t, HomeBuffer(u))'
      BY <2>2, <2>3, <2>4, <2>6 DEF SinfoInv, Unlisted
    <3>2. ASSUME NEW u \in Threads \ {t}, NEW s \in InTransit(u)'
          PROVE  Unlisted(t, tmp[s])'
      <4>1. s \in InTransit(u) /\ tmp'[s] = tmp[s] /\ tmp[s] \in Buffers
        BY <2>4, <3>2
      <4>2. Unlisted(t, tmp[s])
        BY <2>2, <2>6, <4>1 DEF SinfoInv
      <4> QED  BY <2>2, <2>3, <4>1, <4>2 DEF Unlisted
    <3>3. Fine(t)
      BY <2>5, <2>6, <3>1, <3>2
    <3> QED  BY <1>1, <2>1, <3>3
  <2>7. CASE ~Overtaken(t)
    <3>1. Fine(t)
      BY <2>2, <2>4, <2>5, <2>7 DEF SinfoInv
    <3> QED  BY <1>1, <2>1, <3>1
  <2> QED  BY <2>6, <2>7
<1>8. ASSUME NEW s \in Senders, FinishSwap(s) PROVE SinfoInv'
  <2>0. PICK t : t = Target(s)
    OBVIOUS
  <2>1. /\ t \in Threads /\ front[t] \in Buffers /\ tmp[s] \in Buffers
        /\ HomeBuffer(t) = tmp[s] /\ HomeBuffer(t)' = front[t]
        /\ \A u \in Threads \ {t} :
              /\ HomeBuffer(u) = front[u] /\ HomeBuffer(u)' = front[u]
              /\ front[u] # front[t] /\ front[u] # tmp[s] /\ InTransit(u)' = {}
        /\ front[t] # tmp[s] /\ InTransit(t)' = {s}
        /\ bufs'[front[t]].size = 0
        /\ \A b \in Buffers : b # front[t] => bufs'[b] = bufs[b]
        /\ gen'[t] = gen[t] + 1 /\ \A u \in Threads \ {t} : gen'[u] = gen[u]
        /\ UNCHANGED <<nodes, cur, ptr, pc, tmp>>
    BY <1>8, <2>0, SwapFacts
  <2>2. \A u \in Threads : front[u] \in Buffers
    BY DEF TypeOK
  <2>3. ASSUME NEW h \in Threads, pc[h] \in LivePcs PROVE Fine(h)
    <3>1. Unlisted(h, HomeBuffer(t))'
      BY <1>L, <2>1, <2>3 DEF Unlisted
    <3>2. CASE Overtaken(h)
      <4>1. ASSUME NEW u \in Threads PROVE Unlisted(h, HomeBuffer(u))'
        <5>1. CASE u = t
          BY <3>1, <5>1
        <5>2. CASE u # t
          <6>1. Unlisted(h, HomeBuffer(u))
            BY <2>3, <3>2 DEF SinfoInv
          <6> QED  BY <2>1, <2>2, <5>2, <6>1 DEF Unlisted
        <5> QED  BY <5>1, <5>2
      <4>2. ASSUME NEW u \in Threads \ {h}, NEW r \in InTransit(u)'
            PROVE  Unlisted(h, tmp[r])'
        <5>1. u = t /\ r = s
          BY <2>1, <4>2
        <5>2. Unlisted(h, HomeBuffer(t))
          BY <2>1, <2>3, <3>2 DEF SinfoInv
        <5> QED  BY <2>1, <5>1, <5>2 DEF Unlisted
      <4>3. Overtaken(h)'
        <5>1. nodes[h][cur[h]].gen <= gen[h]
          <6>1. cur[h] \in 1 .. Len(nodes[h])
            BY CursorInRange
          <6> QED  BY <6>1 DEF CacheInv
        <5>2. nodes[h][cur[h]].gen \in Nat
          BY <2>3, SinfoFacts DEF NodeInfo
        <5> QED  BY <1>P, <2>1, <3>2, <5>1, <5>2 DEF Overtaken
      <4> QED  BY <4>1, <4>2, <4>3
    <3>3. CASE ~Overtaken(h) /\ h = t
      <4>1. ptr[h].buf = tmp[s]
        BY <2>1, <2>3, <3>3 DEF SinfoInv
      <4>2. \A u \in Threads : Unlisted(h, HomeBuffer(u))'
        BY <2>1, <4>1 DEF Unlisted
      <4>3. \A u \in Threads \ {h} : InTransit(u)' = {}
        BY <2>1, <3>3
      <4>4. Overtaken(h)'
        BY <1>P, <2>1, <3>3 DEF Overtaken
      <4> QED  BY <4>2, <4>3, <4>4
    <3>4. CASE ~Overtaken(h) /\ h # t
      <4>1. ~Overtaken(h)'
        BY <2>1, <3>4 DEF Overtaken
      <4>2. ptr[h].buf = HomeBuffer(h) /\ ptr[h].slot = nodes[h][cur[h]].sidx
        BY <2>3, <3>4 DEF SinfoInv
      <4> QED  BY <2>1, <3>4, <4>1, <4>2
    <3> QED  BY <3>2, <3>3, <3>4
  <2>4. \A h \in Threads : Fine(h)
    BY <2>1, <2>3
  <2> HIDE DEF Fine
  <2> QED  BY <1>G, <2>4
<1>9. ASSUME NEW s \in Senders, SendProfileData(s) PROVE SinfoInv'
  <2>1. /\ \A u \in Threads : HomeBuffer(u)' = HomeBuffer(u) /\ InTransit(u)' = {}
        /\ UNCHANGED <<nodes, cur, ptr, pc, gen, bufs, tmp>>
    BY <1>9, SendFacts
  <2> QED  BY <1>2, <2>1
<1>10. ASSUME NEW t \in Threads, Attach(t) PROVE UNCHANGED <<pc, ptr, cur, nodes, gen, bufs>>
  BY <1>10 DEF Attach
<1>11. ASSUME NEW s \in Senders,
              Connect(s) \/ Drop(s) \/ ReqProfileData(s) \/ LockAndSwap(s)
              \/ TakeBuffer(s) \/ SendNowInfo(s)
       PROVE  UNCHANGED <<pc, ptr, cur, nodes, gen, bufs>>
  BY <1>11 DEF Connect, Drop, ReqProfileData, LockAndSwap, TakeBuffer, SendNowInfo
<1>12. ASSUME Tick \/ UNCHANGED vars PROVE UNCHANGED <<pc, ptr, cur, nodes, gen, bufs>>
  BY <1>12 DEF Tick, vars
<1> QED  BY <1>3, <1>4, <1>E, <1>5, <1>6, <1>7, <1>8, <1>9, <1>10, <1>11, <1>12 DEF Next

(***************************************************************************)
(* What a buffer reports.                                                  *)
(***************************************************************************)

\* Listed and Reported, of the value of a buffer.
ListedIn(buf, n) == {i \in 1 .. buf.size : buf.slots[i].node = n}
ReportIn(buf, n) ==
  IF ListedIn(buf, n) = {} THEN Zero
  ELSE LET rec == buf.slots[CHOOSE i \in ListedIn(buf, n) : TRUE]
       IN  [count |-> rec.count, time |-> rec.time]

\* The report of a thread's live buffer, and of its departing one.
Live(t, n) == ReportIn(bufs[HomeBuffer(t)], n)
Gone(t, n) ==
  IF InTransit(t) = {} THEN Zero
  ELSE ReportIn(bufs[tmp[CHOOSE s \in InTransit(t) : TRUE]], n)

LEMMA ReportSame ==
  ASSUME NEW buf, NEW buf2, buf2.size = buf.size,
         NEW n,
         \A i \in 1 .. buf.size :
           /\ buf2.slots[i].node = buf.slots[i].node
           /\ buf.slots[i].node = n => /\ buf2.slots[i].count = buf.slots[i].count
                                       /\ buf2.slots[i].time = buf.slots[i].time
  PROVE  ReportIn(buf2, n) = ReportIn(buf, n)
<1>1. ListedIn(buf2, n) = ListedIn(buf, n)
  BY DEF ListedIn
<1>2. CASE ListedIn(buf, n) = {}
  BY <1>1, <1>2 DEF ReportIn
<1>3. CASE ListedIn(buf, n) # {}
  <2>1. PICK k : k = CHOOSE i \in ListedIn(buf, n) : TRUE
    OBVIOUS
  <2>2. k = CHOOSE i \in ListedIn(buf2, n) : TRUE
    BY <1>1, <2>1
  <2>3. k \in ListedIn(buf, n)
    BY <1>3, <2>1
  <2>4. k \in 1 .. buf.size /\ buf.slots[k].node = n
    BY <2>3 DEF ListedIn
  <2>5. ReportIn(buf, n) = [count |-> buf.slots[k].count, time |-> buf.slots[k].time]
    BY <1>3, <2>1 DEF ReportIn
  <2>6. ReportIn(buf2, n) = [count |-> buf2.slots[k].count, time |-> buf2.slots[k].time]
    BY <1>1, <1>3, <2>2 DEF ReportIn
  <2> QED  BY <2>4, <2>5, <2>6
<1> QED  BY <1>2, <1>3

\* One record of a node: that is what is reported.
LEMMA ReportOne ==
  ASSUME NEW buf, NEW k \in 1 .. buf.size, NEW n, buf.slots[k].node = n,
         \A i \in 1 .. buf.size : buf.slots[i].node = n => i = k
  PROVE  ReportIn(buf, n) = [count |-> buf.slots[k].count, time |-> buf.slots[k].time]
<1>1. ListedIn(buf, n) = {k}
  BY DEF ListedIn
<1>2. ListedIn(buf, n) # {} /\ (CHOOSE i \in ListedIn(buf, n) : TRUE) = k
  BY <1>1
<1> QED  BY <1>2 DEF ReportIn

LEMMA ReportNone ==
  ASSUME NEW buf, NEW n, \A i \in 1 .. buf.size : buf.slots[i].node # n
  PROVE  ReportIn(buf, n) = Zero
<1>1. ListedIn(buf, n) = {}
  BY DEF ListedIn
<1> QED  BY <1>1 DEF ReportIn

\* A new, empty record changes no report.
LEMMA ReportGrown ==
  ASSUME NEW buf, NEW buf2, buf.size \in Nat, buf2.size = buf.size + 1,
         \A i \in 1 .. buf.size : buf2.slots[i] = buf.slots[i],
         NEW m, buf2.slots[buf.size + 1].node = m,
         buf2.slots[buf.size + 1].count = 0, buf2.slots[buf.size + 1].time = 0,
         \A i \in 1 .. buf.size : buf.slots[i].node # m,
         NEW n
  PROVE  ReportIn(buf2, n) = ReportIn(buf, n)
<1>1. CASE n = m
  <2>1. ReportIn(buf, n) = Zero
    BY <1>1, ReportNone
  <2>2. buf.size + 1 \in 1 .. buf2.size
    OBVIOUS
  <2>3. \A i \in 1 .. buf2.size : i \in 1 .. buf.size \/ i = buf.size + 1
    OBVIOUS
  <2>4. \A i \in 1 .. buf2.size : buf2.slots[i].node = n => i = buf.size + 1
    BY <1>1, <2>3
  <2>5. ReportIn(buf2, n) = [count |-> 0, time |-> 0]
    <3>1. PICK k : k = buf.size + 1
      OBVIOUS
    <3>2. k \in 1 .. buf2.size /\ buf2.slots[k].node = n
          /\ buf2.slots[k].count = 0 /\ buf2.slots[k].time = 0
      BY <1>1, <2>2, <3>1
    <3>3. \A i \in 1 .. buf2.size : buf2.slots[i].node = n => i = k
      BY <2>4, <3>1
    <3>4. ReportIn(buf2, n) = [count |-> buf2.slots[k].count, time |-> buf2.slots[k].time]
      BY <3>2, <3>3, ReportOne
    <3> QED  BY <3>2, <3>4
  <2> QED  BY <2>1, <2>5 DEF Zero
<1>2. CASE n # m
  <2>1. ListedIn(buf2, n) = ListedIn(buf, n)
    <3>1. \A i : i \in 1 .. buf2.size <=> i \in 1 .. buf.size \/ i = buf.size + 1
      OBVIOUS
    <3> QED  BY <1>2, <3>1 DEF ListedIn
  <2>2. CASE ListedIn(buf, n) = {}
    BY <2>1, <2>2 DEF ReportIn
  <2>3. CASE ListedIn(buf, n) # {}
    <3>1. PICK k : k = CHOOSE i \in ListedIn(buf, n) : TRUE
      OBVIOUS
    <3>2. k = CHOOSE i \in ListedIn(buf2, n) : TRUE
      BY <2>1, <3>1
    <3>3. k \in ListedIn(buf, n)
      BY <2>3, <3>1
    <3>4. buf2.slots[k] = buf.slots[k]
      BY <3>3 DEF ListedIn
    <3>5. ReportIn(buf, n) = [count |-> buf.slots[k].count, time |-> buf.slots[k].time]
      BY <2>3, <3>1 DEF ReportIn
    <3>6. ReportIn(buf2, n) = [count |-> buf2.slots[k].count, time |-> buf2.slots[k].time]
      BY <2>1, <2>3, <3>2 DEF ReportIn
    <3> QED  BY <3>4, <3>5, <3>6
  <2> QED  BY <2>2, <2>3
<1> QED  BY <1>1, <1>2

LEMMA ReportType ==
  ASSUME NEW buf \in RecordBuffer, buf.size <= Len(buf.slots), NEW n
  PROVE  ReportIn(buf, n) \in Amount
<1>1. CASE ListedIn(buf, n) = {}
  BY <1>1 DEF ReportIn, Zero, Amount
<1>2. CASE ListedIn(buf, n) # {}
  <2>1. PICK k : k = CHOOSE i \in ListedIn(buf, n) : TRUE
    OBVIOUS
  <2>2. k \in ListedIn(buf, n)
    BY <1>2, <2>1
  <2>3. k \in 1 .. Len(buf.slots) /\ buf.slots \in Seq(Record)
    BY <2>2, LenProperties DEF ListedIn, RecordBuffer
  <2>4. buf.slots[k] \in Record
    BY <2>3, ElementOfSeq
  <2>5. ReportIn(buf, n) = [count |-> buf.slots[k].count, time |-> buf.slots[k].time]
    BY <1>2, <2>1 DEF ReportIn
  <2> QED  BY <2>4, <2>5 DEF Record, Amount
<1> QED  BY <1>1, <1>2

\* Sums of amounts, field by field.
LEMMA AddFacts ==
  /\ \A x, y : Add(x, y).count = x.count + y.count /\ Add(x, y).time = x.time + y.time
  /\ \A x, y \in Amount : /\ Add(x, y) \in Amount
                          /\ x.count \in Nat /\ x.time \in Nat
                          /\ (x.count = y.count /\ x.time = y.time => x = y)
  /\ Zero \in Amount /\ Zero.count = 0 /\ Zero.time = 0
BY DEF Add, Amount, Zero

\* The parts of what was reported or still will be.
LEMMA UnsentParts ==
  ASSUME OneSender, NEW t \in Threads, NEW n
  PROVE  /\ Unsent(t, n) = Add(Live(t, n), Gone(t, n))
         /\ InTransit(t) = {} => Gone(t, n) = Zero
         /\ \A s \in InTransit(t) : Gone(t, n) = ReportIn(bufs[tmp[s]], n)
<1>1. \A b : Reported(b, n) = ReportIn(bufs[b], n)
  BY DEF Reported, ReportIn, Listed, ListedIn
<1>2. Unsent(t, n) = Add(Live(t, n), Gone(t, n))
  BY <1>1 DEF Unsent, Live, Gone
<1>3. ASSUME NEW s \in InTransit(t) PROVE Gone(t, n) = ReportIn(bufs[tmp[s]], n)
  <2>1. InTransit(t) = {s}
    BY <1>3, Places
  <2> QED  BY <2>1 DEF Gone
<1> QED  BY <1>2, <1>3 DEF Gone

\* The same of the next state.
LEMMA UnsentPartsNext ==
  ASSUME OneSender, NEW t \in Threads, NEW n
  PROVE  /\ Unsent(t, n)' = Add(Live(t, n)', Gone(t, n)')
         /\ Live(t, n)' = ReportIn(bufs'[HomeBuffer(t)'], n)
         /\ InTransit(t)' = {} => Gone(t, n)' = Zero
         /\ \A s \in InTransit(t)' : Gone(t, n)' = ReportIn(bufs'[tmp'[s]], n)
<1>2. Unsent(t, n)' = Add(Live(t, n)', Gone(t, n)')
  BY DEF Unsent, Live, Gone, Reported, Listed, ReportIn, ListedIn, Zero, Add
<1>3. Live(t, n)' = ReportIn(bufs'[HomeBuffer(t)'], n)
  BY DEF Live
<1>4. ASSUME NEW s \in InTransit(t)' PROVE Gone(t, n)' = ReportIn(bufs'[tmp'[s]], n)
  <2>1. InTransit(t)' = {s}
    BY <1>4, PlacesNext
  <2> QED  BY <2>1 DEF Gone
<1>5. InTransit(t)' = {} => Gone(t, n)' = Zero
  BY DEF Gone, Zero
<1> QED  BY <1>2, <1>3, <1>4, <1>5

(***************************************************************************)
(* What the steps do to the reports.                                       *)
(***************************************************************************)

\* A write through sinfo, record by record.
LEMMA WriteAt ==
  ASSUME bufs \in [Buffers -> RecordBuffer], ptr \in [Threads -> [buf : Buffers, slot : Nat]],
         NEW t \in Threads, NEW rec \in Record, UpdateRecord(t, rec),
         ptr[t].slot \in 1 .. Len(bufs[ptr[t].buf].slots)
  PROVE  \A b \in Buffers :
           /\ bufs'[b].size = bufs[b].size
           /\ b # ptr[t].buf => bufs'[b] = bufs[b]
           /\ \A i \in 1 .. Len(bufs[b].slots) :
                bufs'[b].slots[i] =
                  IF b = ptr[t].buf /\ i = ptr[t].slot THEN rec ELSE bufs[b].slots[i]
<1> DEFINE p == ptr[t].buf
           k == ptr[t].slot
           s == bufs[p].slots
<1>1. p \in Buffers /\ bufs[p] \in RecordBuffer
  OBVIOUS
<1>2. s \in Seq(Record)
  BY <1>1 DEF RecordBuffer
<1>3. \A i \in 1 .. Len(s) : [s EXCEPT ![k] = rec][i] = IF i = k THEN rec ELSE s[i]
  BY <1>2, ExceptSeq
<1>4. bufs' = [bufs EXCEPT ![p] = [bufs[p] EXCEPT !.slots = [s EXCEPT ![k] = rec]]]
  BY DEF UpdateRecord
<1>5. bufs'[p].slots = [s EXCEPT ![k] = rec] /\ bufs'[p].size = bufs[p].size
  BY <1>1, <1>4 DEF RecordBuffer
<1>6. \A b \in Buffers : b # p => bufs'[b] = bufs[b]
  BY <1>4
<1> QED  BY <1>1, <1>3, <1>5, <1>6

\* Record k of a buffer, the one of node n, grew by d.
Rewritten(buf, buf2, k, n, rec, d) ==
  /\ buf \in RecordBuffer /\ rec \in Record /\ d \in Amount
  /\ buf.size <= Len(buf.slots) /\ buf2.size = buf.size
  /\ k \in 1 .. Len(buf.slots) /\ buf.slots[k].node = n /\ rec.node = n
  /\ rec.count = buf.slots[k].count + d.count /\ rec.time = buf.slots[k].time + d.time
  /\ \A i \in 1 .. Len(buf.slots) : buf2.slots[i] = IF i = k THEN rec ELSE buf.slots[i]

\* What that does to the report of the buffer.
LEMMA ReportWrite ==
  ASSUME NEW buf, NEW buf2, NEW k, NEW n, NEW rec, NEW d, Rewritten(buf, buf2, k, n, rec, d)
  PROVE  /\ k > buf.size => \A m : ReportIn(buf2, m) = ReportIn(buf, m)
         /\ \A m : m # n => ReportIn(buf2, m) = ReportIn(buf, m)
         /\ k <= buf.size /\ DistinctNodes(buf) =>
              ReportIn(buf2, n) = Add(ReportIn(buf, n), d)
<1> USE DEF Rewritten
<1>1. \A i \in 1 .. buf.size : i \in 1 .. Len(buf.slots)
  BY LenProperties DEF RecordBuffer
<1>2. \A i \in 1 .. buf.size : buf2.slots[i].node = buf.slots[i].node
  BY <1>1
<1>3. ASSUME k > buf.size, NEW m PROVE ReportIn(buf2, m) = ReportIn(buf, m)
  <2>1. \A i \in 1 .. buf.size : buf2.slots[i] = buf.slots[i]
    BY <1>1, <1>3 DEF RecordBuffer
  <2> QED  BY <2>1, ReportSame
<1>4. ASSUME NEW m, m # n PROVE ReportIn(buf2, m) = ReportIn(buf, m)
  <2>1. \A i \in 1 .. buf.size : buf.slots[i].node = m => buf2.slots[i] = buf.slots[i]
    BY <1>1, <1>4
  <2> QED  BY <1>2, <2>1, ReportSame
<1>5. ASSUME k <= buf.size, DistinctNodes(buf)
      PROVE  ReportIn(buf2, n) = Add(ReportIn(buf, n), d)
  <2>1. k \in 1 .. buf.size
    BY <1>5 DEF RecordBuffer
  <2>2. \A i \in 1 .. buf.size : buf.slots[i].node = n => i = k
    BY <1>5, <2>1 DEF DistinctNodes
  <2>3. ReportIn(buf, n) = [count |-> buf.slots[k].count, time |-> buf.slots[k].time]
    BY <2>1, <2>2, ReportOne
  <2>4. buf2.slots[k] = rec
    OBVIOUS
  <2>5. k \in 1 .. buf2.size /\ \A i \in 1 .. buf2.size : buf2.slots[i].node = n => i = k
    BY <1>2, <2>1, <2>2
  <2>6. ReportIn(buf2, n) = [count |-> buf2.slots[k].count, time |-> buf2.slots[k].time]
    BY <2>4, <2>5, ReportOne
  <2> QED  BY <2>3, <2>4, <2>6 DEF Add
<1> QED  BY <1>3, <1>4, <1>5

\* A hook adds d to the record behind its sinfo: its node's report grows by d,
\* unless the hook was overtaken by a drain, and no other report changes.
LEMMA WriteUnsent ==
  ASSUME OneSender, TypeOK, LockInv, BufferInv, TreeInv, LiveInv, CacheInv,
         FiledInv, LeavingInv, SinfoInv,
         NEW t \in Threads, pc[t] \in LivePcs, NEW rec \in Record, UpdateRecord(t, rec),
         NEW d \in Amount, NEW n, n = cur[t], rec.node = Sinfo(t).node,
         rec.count = Sinfo(t).count + d.count, rec.time = Sinfo(t).time + d.time,
         \A u \in Threads : /\ HomeBuffer(u)' = HomeBuffer(u) /\ InTransit(u)' = InTransit(u)
                            /\ \A s \in InTransit(u) : tmp'[s] = tmp[s]
  PROVE  /\ \A u \in Threads : \A m :
              ~(u = t /\ m = n) => Unsent(u, m)' = Unsent(u, m)
         /\ \/ Unsent(t, n)' = Add(Unsent(t, n), d)
            \/ Overtaken(t) /\ Unsent(t, n)' = Unsent(t, n)
<1> DEFINE p == ptr[t].buf
           k == ptr[t].slot
<1>1. n = cur[t]
  OBVIOUS
<1>2. /\ p \in Buffers /\ bufs \in [Buffers -> RecordBuffer]
      /\ ptr \in [Threads -> [buf : Buffers, slot : Nat]]
  BY DEF TypeOK
<1>3. k \in 1 .. Len(bufs[p].slots) /\ bufs[p].slots[k].node = n /\ Sinfo(t) = bufs[p].slots[k]
  BY <1>1, SinfoFacts DEF Sinfo
<1>4. \A b \in Buffers :
           /\ bufs'[b].size = bufs[b].size
           /\ b # p => bufs'[b] = bufs[b]
           /\ \A i \in 1 .. Len(bufs[b].slots) :
                bufs'[b].slots[i] = IF b = p /\ i = k THEN rec ELSE bufs[b].slots[i]
  BY <1>2, <1>3, WriteAt, ZenonT(60)
<1>5. bufs[p] \in RecordBuffer /\ bufs[p].size <= Len(bufs[p].slots) /\ bufs[p].size \in Nat
  BY <1>2 DEF CacheInv, RecordBuffer
<1>6. /\ k > bufs[p].size => \A m : ReportIn(bufs'[p], m) = ReportIn(bufs[p], m)
      /\ \A m : m # n => ReportIn(bufs'[p], m) = ReportIn(bufs[p], m)
      /\ k <= bufs[p].size /\ DistinctNodes(bufs[p]) =>
              ReportIn(bufs'[p], n) = Add(ReportIn(bufs[p], n), d)
  <2>1. PICK buf, buf2 : buf = bufs[p] /\ buf2 = bufs'[p]
    OBVIOUS
  <2>2. /\ buf \in RecordBuffer /\ buf.size <= Len(buf.slots) /\ buf2.size = buf.size
        /\ k \in 1 .. Len(buf.slots) /\ buf.slots[k].node = n
        /\ \A i \in 1 .. Len(buf.slots) :
             buf2.slots[i] = IF i = k THEN rec ELSE buf.slots[i]
    BY <1>2, <1>3, <1>4, <1>5, <2>1, ZenonT(60)
  <2>3. /\ rec.node = n /\ rec.count = buf.slots[k].count + d.count
        /\ rec.time = buf.slots[k].time + d.time
    BY <1>3, <2>1
  <2>4. PICK j : j = k
    OBVIOUS
  <2>5. Rewritten(buf, buf2, j, n, rec, d)
    BY <2>2, <2>3, <2>4 DEF Rewritten
  <2> HIDE DEF k
  <2>7. /\ \A m : j > buf.size => ReportIn(buf2, m) = ReportIn(buf, m)
        /\ \A m : m # n => ReportIn(buf2, m) = ReportIn(buf, m)
        /\ j <= buf.size /\ DistinctNodes(buf) => ReportIn(buf2, n) = Add(ReportIn(buf, n), d)
    BY <2>5, ReportWrite
  <2> QED  BY <2>1, <2>4, <2>7
<1>7. ASSUME NEW b \in Buffers, NEW m, b # p \/ m # n \/ k > bufs[p].size
      PROVE  ReportIn(bufs'[b], m) = ReportIn(bufs[b], m)
  BY <1>4, <1>6, <1>7
<1>8. \A u \in Threads : /\ HomeBuffer(u) \in Buffers
                         /\ \A s \in InTransit(u) : tmp[s] \in Buffers
  BY Apart
<1>9. ASSUME NEW u \in Threads, NEW m, HomeBuffer(u) # p \/ m # n \/ k > bufs[p].size
      PROVE  Live(u, m)' = Live(u, m)
  <2>1. ReportIn(bufs'[HomeBuffer(u)], m) = ReportIn(bufs[HomeBuffer(u)], m)
    BY <1>7, <1>8, <1>9
  <2> QED  BY <2>1, UnsentPartsNext DEF Live
<1>10. ASSUME NEW u \in Threads, NEW m,
              \A s \in InTransit(u) : tmp[s] # p \/ m # n \/ k > bufs[p].size
      PROVE  Gone(u, m)' = Gone(u, m)
  <2>1. CASE InTransit(u) = {}
    BY <2>1, UnsentParts, UnsentPartsNext
  <2>2. CASE InTransit(u) # {}
    <3>1. PICK s \in InTransit(u) : TRUE
      BY <2>2
    <3>2. ReportIn(bufs'[tmp[s]], m) = ReportIn(bufs[tmp[s]], m)
      BY <1>7, <1>8, <1>10, <3>1
    <3>3. Gone(u, m) = ReportIn(bufs[tmp[s]], m) /\ Gone(u, m)' = ReportIn(bufs'[tmp[s]], m)
      BY <3>1, UnsentParts, UnsentPartsNext
    <3> QED  BY <3>2, <3>3
  <2> QED  BY <2>1, <2>2
<1>11. ASSUME NEW u \in Threads, NEW m, Live(u, m)' = Live(u, m), Gone(u, m)' = Gone(u, m)
       PROVE  Unsent(u, m)' = Unsent(u, m)
  BY <1>11, UnsentParts, UnsentPartsNext
<1>12. \A u \in Threads : \A m : m # n => Unsent(u, m)' = Unsent(u, m)
  BY <1>9, <1>10, <1>11
<1>A. ASSUME NEW x, NEW y, x \in Amount, y \in Amount
      PROVE  /\ Add(Add(x, y), d) = Add(Add(x, d), y)
             /\ Add(Add(x, y), d) = Add(x, Add(y, d))
  BY <1>A DEF Add, Amount
<1>T. \A u \in Threads : \A m : Live(u, m) \in Amount /\ Gone(u, m) \in Amount
  <2>1. \A b \in Buffers : \A m : ReportIn(bufs[b], m) \in Amount
    BY <1>2, ReportType DEF CacheInv
  <2>2. ASSUME NEW u \in Threads, NEW m PROVE Gone(u, m) \in Amount
    <3>1. CASE InTransit(u) = {}
      BY <3>1, UnsentParts, AddFacts
    <3>2. CASE InTransit(u) # {}
      BY <1>8, <2>1, <3>2, UnsentParts
    <3> QED  BY <3>1, <3>2
  <2> QED  BY <1>8, <2>1, <2>2 DEF Live
<1>13. CASE ~Overtaken(t)
  <2>1. p = HomeBuffer(t) /\ k = nodes[t][n].sidx /\ nodes[t][n].gen = gen[t]
    BY <1>1, <1>13 DEF SinfoInv, Overtaken
  <2>2. \A u \in Threads : \A s \in InTransit(u) : tmp[s] # p
    BY <2>1, Apart
  <2>3. \A u \in Threads \ {t} : HomeBuffer(u) # p
    BY <2>1, Apart
  <2>4. \A u \in Threads \ {t} : \A m : Unsent(u, m)' = Unsent(u, m)
    BY <1>9, <1>10, <1>11, <2>2, <2>3
  <2>5. k \in 1 .. bufs[p].size
    <3>1. n \in 1 .. Len(nodes[t])
      BY <1>1, CursorInRange
    <3>2. Cached(t, n, HomeBuffer(t))
      <4>1. CASE Swapping(t) = {}
        BY <2>1, <3>1, <4>1 DEF CacheInv, HomeBuffer
      <4>2. CASE Swapping(t) # {}
        <5>1. PICK s \in Swapping(t) : TRUE
          BY <4>2
        <5>2. s \in Senders /\ spc[s] = "swap" /\ Target(s) = t
          BY <5>1 DEF Swapping
        <5>3. HomeBuffer(t) = tmp[s]
          BY <5>2, Places
        <5> QED  BY <2>1, <3>1, <5>1, <5>3 DEF CacheInv
      <4> QED  BY <4>1, <4>2
    <3> QED  BY <2>1, <3>2 DEF Cached
  <2>6. DistinctNodes(bufs[p])
    <3>1. FiledIn(bufs[p], nodes[t], gen[t])
      BY <2>1 DEF FiledInv
    <3> QED  BY <3>1, FiledDistinct
  <2>7. ReportIn(bufs'[p], n) = Add(ReportIn(bufs[p], n), d)
    BY <1>5, <1>6, <2>5, <2>6
  <2>8. Live(t, n)' = Add(Live(t, n), d)
    BY <2>1, <2>7, UnsentPartsNext DEF Live
  <2>9. Gone(t, n)' = Gone(t, n)
    BY <1>10, <2>2
  <2>10. Unsent(t, n)' = Add(Unsent(t, n), d)
    BY <1>A, <1>T, <2>8, <2>9, UnsentParts, UnsentPartsNext
  <2>11. \A u \in Threads : \A m : ~(u = t /\ m = n) => Unsent(u, m)' = Unsent(u, m)
    BY <1>12, <2>4
  <2> QED  BY <2>10, <2>11
<1>14. CASE Overtaken(t)
  <2>1. \A u \in Threads : HomeBuffer(u) = p => k > bufs[p].size
    BY <1>14 DEF SinfoInv, Unlisted
  <2>2. \A u \in Threads : \A m : Live(u, m)' = Live(u, m)
    BY <1>9, <2>1
  <2>3. \A u \in Threads \ {t} : \A s \in InTransit(u) : tmp[s] = p => k > bufs[p].size
    BY <1>14 DEF SinfoInv, Unlisted
  <2>4. \A u \in Threads \ {t} : \A m : Unsent(u, m)' = Unsent(u, m)
    BY <1>10, <1>11, <2>2, <2>3
  <2>7. \A u \in Threads : \A m : ~(u = t /\ m = n) => Unsent(u, m)' = Unsent(u, m)
    BY <1>12, <2>4
  <2>5. CASE \A s \in InTransit(t) : tmp[s] # p \/ k > bufs[p].size
    <3>1. Unsent(t, n)' = Unsent(t, n)
      BY <1>10, <1>11, <2>2, <2>5
    <3> QED  BY <1>14, <2>7, <3>1
  <2>6. CASE \E s \in InTransit(t) : tmp[s] = p /\ ~(k > bufs[p].size)
    <3>1. PICK s \in InTransit(t) : tmp[s] = p /\ ~(k > bufs[p].size)
      BY <2>6
    <3>2. k <= bufs[p].size
      BY <1>3, <1>5, <3>1
    <3>3. s \in Senders /\ spc[s] \in {"take", "send"}
      BY <3>1 DEF InTransit
    <3>4. DistinctNodes(bufs[p])
      BY <3>1, <3>3 DEF LeavingInv
    <3>5. ReportIn(bufs'[p], n) = Add(ReportIn(bufs[p], n), d)
      BY <1>6, <3>2, <3>4
    <3>6. Gone(t, n)' = Add(Gone(t, n), d)
      BY <3>1, <3>5, UnsentParts, UnsentPartsNext
    <3>7. Unsent(t, n)' = Add(Unsent(t, n), d)
      BY <1>A, <1>T, <2>2, <3>6, UnsentParts, UnsentPartsNext
    <3> QED  BY <2>7, <3>7
  <2> QED  BY <2>5, <2>6
<1> QED  BY <1>13, <1>14


\* Reports of the same buffers, unchanged, leave the sum.
LEMMA UnsentSame ==
  ASSUME OneSender, NEW u \in Threads, NEW m,
         HomeBuffer(u)' = HomeBuffer(u), InTransit(u)' = InTransit(u),
         ReportIn(bufs'[HomeBuffer(u)], m) = ReportIn(bufs[HomeBuffer(u)], m),
         \A s \in InTransit(u) :
           tmp'[s] = tmp[s] /\ ReportIn(bufs'[tmp[s]], m) = ReportIn(bufs[tmp[s]], m)
  PROVE  Unsent(u, m)' = Unsent(u, m)
<1>1. Live(u, m)' = Live(u, m)
  BY UnsentPartsNext DEF Live
<1>2. CASE InTransit(u) = {}
  <2>1. Gone(u, m)' = Gone(u, m)
    BY <1>2, UnsentParts, UnsentPartsNext
  <2> QED  BY <1>1, <2>1, UnsentParts, UnsentPartsNext
<1>3. CASE InTransit(u) # {}
  <2>1. PICK s \in InTransit(u) : TRUE
    BY <1>3
  <2>2. Gone(u, m) = ReportIn(bufs[tmp[s]], m)
    BY <2>1, UnsentParts
  <2>3. Gone(u, m)' = ReportIn(bufs'[tmp'[s]], m)
    BY <2>1, UnsentPartsNext
  <2>4. Gone(u, m)' = Gone(u, m)
    BY <2>1, <2>2, <2>3
  <2> QED  BY <1>1, <2>4, UnsentParts, UnsentPartsNext
<1> QED  BY <1>2, <1>3

\* What neither measures nor sends changes no total.
LEMMA UnsentKept ==
  ASSUME OneSender, TypeOK, LockInv, BufferInv, TreeInv, LiveInv, CacheInv, TimeInv,
         FiledInv, [Next]_vars,
         \A t \in Threads : ~CallCount(t) /\ ~ReturnAccum(t),
         \A s \in Senders : ~SendProfileData(s)
  PROVE  /\ \A u \in Threads : \A m : Unsent(u, m)' = Unsent(u, m)
         /\ sent' = sent /\ made' = made
<1> USE DEF listVars, treeVars, bufferVars, hookVars, sendVars, linkVars
<1> DEFINE Same == \A u \in Threads : \A m : Unsent(u, m)' = Unsent(u, m)
<1>S. \A b \in Buffers : bufs[b] \in RecordBuffer /\ bufs[b].size \in Nat
                         /\ bufs[b].size <= Len(bufs[b].slots) /\ Len(bufs[b].slots) \in Nat
  BY LenProperties DEF TypeOK, CacheInv, RecordBuffer
<1>H. \A u \in Threads : HomeBuffer(u) \in Buffers /\ \A s \in InTransit(u) : tmp[s] \in Buffers
  BY Apart
<1>1. ASSUME \A s \in Senders : ~FinishSwap(s),
             \A b \in Buffers : \A m : ReportIn(bufs'[b], m) = ReportIn(bufs[b], m)
      PROVE  Same
  <2>1. \A u \in Threads :
          /\ HomeBuffer(u)' = HomeBuffer(u) /\ InTransit(u)' = InTransit(u)
          /\ \A s \in InTransit(u) : tmp'[s] = tmp[s]
    BY <1>1, Stay
  <2> QED  BY <1>1, <1>H, <2>1, UnsentSame
<1>2. ASSUME NEW t \in Threads, CallRecord(t) \/ ReturnRecord(t) PROVE Same
  <2>1. GetCurrentNodeInfoPair(t) /\ spc' = spc
    BY <1>2 DEF CallRecord, ReturnRecord
  <2>2. \A s \in Senders : ~FinishSwap(s)
    BY <2>1 DEF FinishSwap, TypeOK
  <2>3. Swapping(t) = {}
    BY <2>1, UnlockedNotSwapping DEF GetCurrentNodeInfoPair
  <2>4. HomeBuffer(t) = front[t]
    BY <2>3, Places DEF Swapping
  <2>5. FiledIn(bufs[front[t]], nodes[t], gen[t])
    BY <2>4 DEF FiledInv
  <2>6. PICK n, b : n = cur[t] /\ b = front[t]
    OBVIOUS
  <2>7. \/ bufs' = bufs
        \/ /\ bufs'[b].size = bufs[b].size + 1
           /\ \A i \in 1 .. bufs[b].size : bufs'[b].slots[i] = bufs[b].slots[i]
           /\ bufs'[b].slots[bufs[b].size + 1].node = n
           /\ bufs'[b].slots[bufs[b].size + 1].count = 0
           /\ bufs'[b].slots[bufs[b].size + 1].time = 0
           /\ \A i \in 1 .. bufs[b].size : bufs[b].slots[i].node # n
    BY <2>1, <2>3, <2>5, <2>6, PairAdds
  <2>8. \A c \in Buffers : c # b => bufs'[c] = bufs[c]
    <3>1. PairBuffers(t)
      BY <2>1, <2>3, PairFacts
    <3> QED  BY <2>6, <3>1 DEF PairBuffers
  <2>9. b \in Buffers
    BY <2>6 DEF TypeOK
  <2>10. \A m : ReportIn(bufs'[b], m) = ReportIn(bufs[b], m)
    <3>1. PICK buf, buf2 : buf = bufs[b] /\ buf2 = bufs'[b]
      OBVIOUS
    <3>2. buf.size \in Nat
      BY <1>S, <2>9, <3>1
    <3>3. \/ buf2 = buf
          \/ /\ buf2.size = buf.size + 1
             /\ \A i \in 1 .. buf.size : buf2.slots[i] = buf.slots[i]
             /\ buf2.slots[buf.size + 1].node = n
             /\ buf2.slots[buf.size + 1].count = 0 /\ buf2.slots[buf.size + 1].time = 0
             /\ \A i \in 1 .. buf.size : buf.slots[i].node # n
      BY <2>7, <3>1
    <3>4. \A m : ReportIn(buf2, m) = ReportIn(buf, m)
      BY <3>2, <3>3, ReportGrown
    <3> QED  BY <3>1, <3>4
  <2>11. \A c \in Buffers : \A m : ReportIn(bufs'[c], m) = ReportIn(bufs[c], m)
    BY <2>8, <2>10
  <2> QED  BY <1>1, <2>2, <2>11
<1>3. ASSUME NEW t \in Threads, CallStart(t) PROVE Same
  <2>1. \A s \in Senders : ~FinishSwap(s)
    BY <1>3 DEF CallStart, FinishSwap, TypeOK
  <2>2. /\ Sinfo(t) \in Record
        /\ ptr[t].slot \in 1 .. Len(bufs[ptr[t].buf].slots)
    BY <1>3, SinfoFacts DEF CallStart, LivePcs
  <2>3. PICK old \in Record : old = Sinfo(t)
    BY <2>2
  <2>4. PICK rec : rec = [old EXCEPT !.start = clock]
    OBVIOUS
  <2>5. rec \in Record /\ rec.node = old.node /\ rec.count = old.count /\ rec.time = old.time
    BY <2>4 DEF Record, TypeOK
  <2>6. UpdateRecord(t, rec)
    BY <1>3, <2>3, <2>4 DEF CallStart
  <2>7. bufs \in [Buffers -> RecordBuffer] /\ ptr \in [Threads -> [buf : Buffers, slot : Nat]]
    BY DEF TypeOK
  <2>8. \A b \in Buffers :
           /\ bufs'[b].size = bufs[b].size
           /\ \A i \in 1 .. Len(bufs[b].slots) :
                bufs'[b].slots[i] =
                  IF b = ptr[t].buf /\ i = ptr[t].slot THEN rec ELSE bufs[b].slots[i]
    BY <2>2, <2>5, <2>6, <2>7, WriteAt
  <2>9. old = bufs[ptr[t].buf].slots[ptr[t].slot]
    BY <2>3 DEF Sinfo
  <2>10. \A b \in Buffers : \A i \in 1 .. bufs[b].size :
           /\ bufs'[b].slots[i].node = bufs[b].slots[i].node
           /\ bufs'[b].slots[i].count = bufs[b].slots[i].count
           /\ bufs'[b].slots[i].time = bufs[b].slots[i].time
    <3>1. \A b \in Buffers : \A i \in 1 .. bufs[b].size : i \in 1 .. Len(bufs[b].slots)
      BY <1>S
    <3> QED  BY <2>5, <2>8, <2>9, <3>1
  <2>11. \A b \in Buffers : \A m : ReportIn(bufs'[b], m) = ReportIn(bufs[b], m)
    <3> SUFFICES ASSUME NEW b \in Buffers, NEW m
                 PROVE  ReportIn(bufs'[b], m) = ReportIn(bufs[b], m)
      OBVIOUS
    <3>1. PICK buf, buf2 : buf = bufs[b] /\ buf2 = bufs'[b]
      OBVIOUS
    <3>2. /\ buf2.size = buf.size
          /\ \A i \in 1 .. buf.size : /\ buf2.slots[i].node = buf.slots[i].node
                                        /\ buf2.slots[i].count = buf.slots[i].count
                                        /\ buf2.slots[i].time = buf.slots[i].time
      BY <2>8, <2>10, <3>1
    <3>3. ReportIn(buf2, m) = ReportIn(buf, m)
      BY <3>2, ReportSame
    <3> QED  BY <3>1, <3>3
  <2> QED  BY <1>1, <2>1, <2>11
<1>4. ASSUME NEW s \in Senders, FinishSwap(s) PROVE Same
  <2>0. PICK t : t = Target(s)
    OBVIOUS
  <2>1. /\ t \in Threads /\ HomeBuffer(t) = tmp[s] /\ HomeBuffer(t)' = front[t]
        /\ \A u \in Threads \ {t} :
              /\ HomeBuffer(u) = front[u] /\ HomeBuffer(u)' = front[u]
              /\ front[u] # front[t] /\ InTransit(u)' = {}
        /\ front[t] # tmp[s] /\ InTransit(t)' = {s}
        /\ \A u \in Threads : InTransit(u) = {}
        /\ bufs'[front[t]].size = 0 /\ tmp' = tmp
        /\ \A b \in Buffers : b # front[t] => bufs'[b] = bufs[b]
    BY <1>4, <2>0, SwapFacts
  <2>2. ASSUME NEW m PROVE Unsent(t, m)' = Unsent(t, m)
    <3>1. bufs'[tmp[s]] = bufs[tmp[s]]
      BY <1>H, <2>1
    <3>2. Live(t, m) = ReportIn(bufs[tmp[s]], m) /\ Gone(t, m) = Zero
      BY <2>1, UnsentParts DEF Live
    <3>3. Live(t, m)' = ReportIn(bufs'[front[t]], m) /\ Gone(t, m)' = ReportIn(bufs'[tmp'[s]], m)
      BY <2>1, UnsentPartsNext
    <3>4. ReportIn(bufs'[front[t]], m) = Zero
      BY <2>1, ReportNone
    <3>5. ReportIn(bufs[tmp[s]], m) \in Amount
      BY <1>H, <1>S, <2>1, ReportType
    <3>6. Add(ReportIn(bufs[tmp[s]], m), Zero) = Add(Zero, ReportIn(bufs[tmp[s]], m))
      BY <3>5 DEF Add, Zero, Amount
    <3> QED  BY <2>1, <3>1, <3>2, <3>3, <3>4, <3>6, UnsentParts, UnsentPartsNext
  <2>3. ASSUME NEW u \in Threads \ {t}, NEW m PROVE Unsent(u, m)' = Unsent(u, m)
    <3>1. bufs'[front[u]] = bufs[front[u]]
      BY <2>1 DEF TypeOK
    <3> QED  BY <2>1, <3>1, UnsentSame
  <2> QED  BY <2>2, <2>3
<1>5. ASSUME bufs' = bufs, \A s \in Senders : ~FinishSwap(s) PROVE Same
  BY <1>1, <1>5
<1> HIDE DEF Same
<1>6. \A t \in Threads : CallRecord(t) \/ ReturnRecord(t) \/ CallStart(t) => Same
  BY <1>2, <1>3
<1>7. ASSUME NEW t \in Threads, Attach(t) \/ ReturnEnter(t) \/ ReturnPop(t) \/ \E name \in Names : CallEnter(t, name)
      PROVE  bufs' = bufs /\ spc' = spc
  BY <1>7 DEF Attach, ReturnEnter, ReturnPop, CallEnter
<1>8. ASSUME NEW s \in Senders,
             Connect(s) \/ Drop(s) \/ ReqProfileData(s) \/ LockAndSwap(s)
              \/ TakeBuffer(s) \/ SendNowInfo(s)
      PROVE  bufs' = bufs
  BY <1>8 DEF Connect, Drop, ReqProfileData, LockAndSwap, TakeBuffer, SendNowInfo
<1>9. Tick \/ UNCHANGED vars => bufs' = bufs
  BY DEF Tick, vars
<1>10. Same
  <2>1. CASE \E s \in Senders : FinishSwap(s)
    BY <1>4, <2>1
  <2>2. CASE \A s \in Senders : ~FinishSwap(s)
    <3>1. bufs' = bufs \/ Same
      BY <1>6, <1>7, <1>8, <1>9, <2>2 DEF Next
    <3> QED  BY <1>5, <2>2, <3>1
  <2> QED  BY <2>1, <2>2
<1>11. sent' = sent /\ made' = made
  <2>1. ASSUME NEW t \in Threads,
               \/ Attach(t) \/ CallRecord(t) \/ CallStart(t)
               \/ ReturnEnter(t) \/ ReturnRecord(t) \/ ReturnPop(t)
               \/ \E name \in Names : CallEnter(t, name)
        PROVE  sent' = sent /\ made' = made
    BY <2>1 DEF Attach, CallRecord, CallStart, ReturnEnter, ReturnRecord, ReturnPop, CallEnter
  <2>2. ASSUME NEW s \in Senders,
               Connect(s) \/ Drop(s) \/ ReqProfileData(s) \/ LockAndSwap(s) \/ FinishSwap(s)
                \/ TakeBuffer(s) \/ SendNowInfo(s)
        PROVE  sent' = sent /\ made' = made
    BY <2>2 DEF Connect, Drop, ReqProfileData, LockAndSwap, FinishSwap, TakeBuffer, SendNowInfo
  <2>3. Tick \/ UNCHANGED vars => sent' = sent /\ made' = made
    BY DEF Tick, vars
  <2> QED  BY <2>1, <2>2, <2>3 DEF Next
<1> QED  BY <1>10, <1>11 DEF Same

\* What was to be sent is sent, once.
LEMMA SendKeeps ==
  ASSUME OneSender, TypeOK, LockInv, BufferInv, CacheInv, NEW s \in Senders, SendProfileData(s),
         NEW t, t = Target(s)
  PROVE  /\ t \in Threads /\ UNCHANGED <<made, cut, pc, cur, nodes, gen>>
         /\ sent' \in [Threads -> [NodeIDs -> Amount]]
         /\ \A u \in Threads, n \in NodeIDs :
              /\ Total(u, n)' = Total(u, n) /\ Unsent(u, n)' \in Amount
              /\ sent[u][n].count <= sent'[u][n].count /\ sent[u][n].time <= sent'[u][n].time
              /\ u # t => sent'[u][n] = sent[u][n]
<1>1. /\ t \in Threads /\ tmp[s] \in Buffers /\ sbuf[s] = tmp[s]
      /\ InTransit(t) = {s} /\ \A u \in Threads \ {t} : InTransit(u) = {}
      /\ \A u \in Threads : HomeBuffer(u)' = HomeBuffer(u) /\ InTransit(u)' = {}
      /\ UNCHANGED <<nodes, cur, ptr, pc, gen, bufs, tmp, made, cut>>
  BY SendFacts
<1>2. PICK r : r = [n \in NodeIDs |-> ReportIn(bufs[tmp[s]], n)]
  OBVIOUS
<1>3. \A b \in Buffers : \A n : ReportIn(bufs[b], n) \in Amount
  BY ReportType DEF TypeOK, CacheInv
<1>4. \A n \in NodeIDs : r[n] \in Amount
  BY <1>1, <1>2, <1>3
<1>5. sent' = [sent EXCEPT ![t] = [n \in NodeIDs |-> Add(@[n], r[n])]]
  <2>1. \A n \in NodeIDs : Reported(sbuf[s], n) = r[n]
    BY <1>1, <1>2 DEF Reported, ReportIn, Listed, ListedIn
  <2> QED  BY <2>1 DEF SendProfileData
<1>6. sent \in [Threads -> [NodeIDs -> Amount]]
  BY DEF TypeOK
<1>7. /\ \A n \in NodeIDs : sent'[t][n] = Add(sent[t][n], r[n])
      /\ \A u \in Threads \ {t} : sent'[u] = sent[u]
  BY <1>1, <1>5, <1>6
<1>8. \A u \in Threads, n \in NodeIDs :
        /\ Live(u, n)' = Live(u, n) /\ Live(u, n) \in Amount
        /\ Gone(u, n)' = Zero /\ (u # t => Gone(u, n) = Zero) /\ Gone(t, n) = r[n]
  <2>1. \A u \in Threads : HomeBuffer(u) \in Buffers
    BY Apart
  <2>2. \A u \in Threads, n \in NodeIDs : Live(u, n)' = Live(u, n)
    BY <1>1, UnsentPartsNext DEF Live
  <2>3. \A u \in Threads, n \in NodeIDs : Live(u, n) \in Amount
    BY <1>3, <2>1 DEF Live
  <2>4. \A u \in Threads, n \in NodeIDs : Gone(u, n)' = Zero
    BY <1>1, UnsentPartsNext
  <2>5. \A u \in Threads, n \in NodeIDs : u # t => Gone(u, n) = Zero
    BY <1>1, UnsentParts
  <2>6. \A n \in NodeIDs : Gone(t, n) = r[n]
    BY <1>1, <1>2, UnsentParts
  <2> QED  BY <2>2, <2>3, <2>4, <2>5, <2>6
<1>9. \A u \in Threads, n \in NodeIDs :
        /\ Unsent(u, n) = Add(Live(u, n), Gone(u, n))
        /\ Unsent(u, n)' = Add(Live(u, n), Zero)
  BY <1>8, UnsentParts, UnsentPartsNext
<1>10. \A x, y, z \in Amount :
         /\ Add(x, Zero) = x /\ Add(x, y) \in Amount
         /\ Add(Add(x, y), z) = Add(x, Add(z, y)) /\ Add(x, y) = Add(y, x)
         /\ x.count <= Add(x, y).count /\ x.time <= Add(x, y).time
  BY DEF Add, Amount, Zero
<1>11. \A u \in Threads, n \in NodeIDs : Unsent(u, n)' = Live(u, n)
  BY <1>8, <1>9, <1>10
<1>12. \A u \in Threads, n \in NodeIDs : Total(u, n)' = Add(sent'[u][n], Unsent(u, n)')
  BY DEF Total, Add
<1>13. ASSUME NEW n \in NodeIDs PROVE Total(t, n)' = Total(t, n)
  <2>1. sent[t][n] \in Amount /\ Live(t, n) \in Amount /\ r[n] \in Amount
    BY <1>1, <1>4, <1>6, <1>8
  <2>2. Total(t, n)' = Add(Add(sent[t][n], r[n]), Live(t, n))
    BY <1>1, <1>7, <1>11, <1>12
  <2>3. Total(t, n) = Add(sent[t][n], Add(Live(t, n), r[n]))
    BY <1>1, <1>8, <1>9 DEF Total
  <2>4. Add(Add(sent[t][n], r[n]), Live(t, n)) = Add(sent[t][n], Add(Live(t, n), r[n]))
    BY <1>10, <2>1
  <2> QED  BY <2>2, <2>3, <2>4
<1>14. ASSUME NEW u \in Threads \ {t}, NEW n \in NodeIDs PROVE Total(u, n)' = Total(u, n)
  <2>1. Total(u, n)' = Add(sent[u][n], Live(u, n))
    BY <1>7, <1>11, <1>12
  <2>2. Unsent(u, n) = Live(u, n)
    BY <1>8, <1>9, <1>10
  <2> QED  BY <2>1, <2>2 DEF Total
<1>15. sent' \in [Threads -> [NodeIDs -> Amount]]
  <2>1. \A n \in NodeIDs : Add(sent[t][n], r[n]) \in Amount
    BY <1>1, <1>4, <1>6, <1>10
  <2>2. [n \in NodeIDs |-> Add(sent[t][n], r[n])] \in [NodeIDs -> Amount]
    BY <2>1
  <2> QED  BY <1>5, <1>6, <2>2
<1>16. \A u \in Threads, n \in NodeIDs :
         sent[u][n].count <= sent'[u][n].count /\ sent[u][n].time <= sent'[u][n].time
  <2>1. \A u \in Threads, n \in NodeIDs : sent[u][n].count \in Nat /\ sent[u][n].time \in Nat
    BY <1>6 DEF Amount
  <2>2. \A n \in NodeIDs : sent[t][n].count <= sent'[t][n].count
                           /\ sent[t][n].time <= sent'[t][n].time
    BY <1>1, <1>4, <1>6, <1>7, <1>10
  <2> QED  BY <1>7, <2>1, <2>2
<1> QED  BY <1>1, <1>7, <1>8, <1>11, <1>13, <1>14, <1>15, <1>16

(***************************************************************************)
(* The accounting.                                                         *)
(***************************************************************************)

LEMMA UnsentType ==
  ASSUME OneSender, TypeOK, LockInv, BufferInv, CacheInv, NEW u \in Threads, NEW m
  PROVE  Unsent(u, m) \in Amount
<1>1. \A b \in Buffers : ReportIn(bufs[b], m) \in Amount
  BY ReportType DEF TypeOK, CacheInv
<1>2. HomeBuffer(u) \in Buffers /\ \A s \in InTransit(u) : tmp[s] \in Buffers
  BY Apart
<1>3. Live(u, m) \in Amount
  BY <1>1, <1>2 DEF Live
<1>4. Gone(u, m) \in Amount
  <2>1. CASE InTransit(u) = {}
    BY <2>1, UnsentParts, AddFacts
  <2>2. CASE InTransit(u) # {}
    BY <1>1, <1>2, <2>2, UnsentParts
  <2> QED  BY <2>1, <2>2
<1> QED  BY <1>3, <1>4, UnsentParts, AddFacts

\* What a hook measures: one call, or the time of one.
Measured(t, d) ==
  \/ CallCount(t) /\ d = [count |-> 1, time |-> 0]
  \/ ReturnAccum(t) /\ \E x \in 0 .. MaxTime : d = [count |-> 0, time |-> x]

\* The hooks and the record behind sinfo measure the same.
LEMMA MeasureFacts ==
  ASSUME OneSender, TypeOK, LockInv, BufferInv, TreeInv, LiveInv, CacheInv, TimeInv,
         BegunInv, ClockInv, FiledInv, LeavingInv, SinfoInv, [Next]_vars,
         NEW t \in Threads, CallCount(t) \/ ReturnAccum(t), NEW n, n = cur[t]
  PROVE  \E d \in Amount :
           /\ Measured(t, d)
           /\ made' = [made EXCEPT ![t][n] = Add(made[t][n], d)]
           /\ \A u \in Threads : \A m : ~(u = t /\ m = n) => Unsent(u, m)' = Unsent(u, m)
           /\ \/ Unsent(t, n)' = Add(Unsent(t, n), d)
              \/ Overtaken(t) /\ Unsent(t, n)' = Unsent(t, n)
<1> USE DEF listVars, treeVars, bufferVars, hookVars, sendVars, linkVars
<1>1. /\ pc[t] \in LivePcs /\ spc' = spc
  BY DEF CallCount, ReturnAccum, LivePcs
<1>2. /\ Sinfo(t) \in Record /\ n \in 1 .. Len(nodes[t]) /\ nodes[t][n] \in NodeInfo
      /\ Len(stack[t]) \in 1 .. Len(stack[t])
  BY <1>1, SinfoFacts
<1>3. PICK old \in Record : old = Sinfo(t)
  BY <1>2
<1>4. \A u \in Threads :
        /\ HomeBuffer(u)' = HomeBuffer(u) /\ InTransit(u)' = InTransit(u)
        /\ \A s \in InTransit(u) : tmp'[s] = tmp[s]
  <2>1. \A s \in Senders : ~FinishSwap(s) /\ ~SendProfileData(s)
    BY <1>1 DEF FinishSwap, SendProfileData, TypeOK
  <2> QED  BY <2>1, Stay
<1>5. ASSUME NEW rec \in Record, NEW d \in Amount, UpdateRecord(t, rec), rec.node = old.node,
             rec.count = old.count + d.count, rec.time = old.time + d.time
      PROVE  /\ \A u \in Threads : \A m : ~(u = t /\ m = n) => Unsent(u, m)' = Unsent(u, m)
             /\ \/ Unsent(t, n)' = Add(Unsent(t, n), d)
                \/ Overtaken(t) /\ Unsent(t, n)' = Unsent(t, n)
  BY <1>1, <1>3, <1>4, <1>5, WriteUnsent
<1>6. made \in [Threads -> [NodeIDs -> Amount]] /\ clock \in Nat
  BY DEF TypeOK
<1>7. n \in NodeIDs
  <2>1. Len(nodes[t]) \in 1 .. MaxNodes /\ MaxNodes \in Nat
    BY ConstantsAssumption DEF TreeInv
  <2> QED  BY <1>2, <2>1 DEF NodeIDs
<1>8. PICK md \in Amount : md = made[t][n]
  BY <1>6, <1>7
<1>9. md.count \in Nat /\ md.time \in Nat /\ md = [count |-> md.count, time |-> md.time]
  BY DEF Amount
<1>10. CASE CallCount(t)
  <2>1. PICK d : d = [count |-> 1, time |-> 0]
    OBVIOUS
  <2>2. d \in Amount /\ d.count = 1 /\ d.time = 0
    BY <2>1 DEF Amount
  <2>3. PICK rec : rec = [old EXCEPT !.count = @ + 1]
    OBVIOUS
  <2>4. rec \in Record /\ rec.node = old.node /\ rec.count = old.count + 1
        /\ rec.time = old.time + 0
    BY <2>3 DEF Record
  <2>5. UpdateRecord(t, rec)
    BY <1>3, <1>10, <2>3 DEF CallCount
  <2>6. made' = [made EXCEPT ![t][n] = Add(made[t][n], d)]
    <3>1. made' = [made EXCEPT ![t][n] = [md EXCEPT !.count = md.count + 1]]
      BY <1>6, <1>7, <1>8, <1>10 DEF CallCount
    <3>2. [md EXCEPT !.count = md.count + 1] = Add(md, d)
      BY <1>9, <2>2 DEF Add, Amount
    <3> QED  BY <1>8, <3>1, <3>2
  <2> QED  BY <1>5, <1>10, <2>1, <2>2, <2>4, <2>5, <2>6 DEF Measured
<1>11. CASE ReturnAccum(t)
  <2>1. PICK began : began = nodes[t][n].start
    OBVIOUS
  <2>2. stack[t][Len(stack[t])].at = began /\ began \in Nat /\ began >= 1 /\ began <= clock
    <3>1. /\ stack[t][Len(stack[t])].at >= 1
          /\ nodes[t][stack[t][Len(stack[t])].node].start = stack[t][Len(stack[t])].at
      BY <1>2, <1>11 DEF BegunInv, BegunPcs, ReturnAccum
    <3>2. n # Root
      BY <1>1 DEF LiveInv, LivePcs
    <3>3. stack[t][Len(stack[t])].node = n
      BY <3>2, TopOfStack
    <3>4. began \in Nat /\ began <= clock
      BY <1>2, <2>1 DEF NodeInfo, TimeInv
    <3> QED  BY <2>1, <3>1, <3>3, <3>4
  <2>3. PICK x : x = clock - began
    OBVIOUS
  <2>4. x \in 0 .. MaxTime /\ \A y \in Nat : (y + clock) - began = y + x
    <3>1. MaxTime \in Nat
      BY ConstantsAssumption
    <3> QED  BY <1>6, <2>2, <2>3, <3>1 DEF ClockInv
  <2>5. PICK d : d = [count |-> 0, time |-> x]
    OBVIOUS
  <2>6. d \in Amount /\ d.count = 0 /\ d.time = x
    BY <2>4, <2>5 DEF Amount
  <2>7. PICK rec : rec = [old EXCEPT !.time = old.time + x]
    OBVIOUS
  <2>8. rec \in Record /\ rec.node = old.node /\ rec.count = old.count + 0
        /\ rec.time = old.time + x
    BY <2>4, <2>7 DEF Record
  <2>9. UpdateRecord(t, rec)
    <3>1. UpdateRecord(t, [old EXCEPT !.time = (old.time + clock) - began])
      BY <1>3, <1>11, <2>1 DEF ReturnAccum
    <3>2. (old.time + clock) - began = old.time + x
      BY <2>4 DEF Record
    <3> QED  BY <2>7, <3>1, <3>2
  <2>10. made' = [made EXCEPT ![t][n] = Add(made[t][n], d)]
    <3>1. made' = [made EXCEPT ![t][n] = [md EXCEPT !.time = (md.time + clock) - began]]
      BY <1>6, <1>7, <1>8, <1>11, <2>2 DEF ReturnAccum
    <3>2. (md.time + clock) - began = md.time + x
      BY <1>9, <2>4
    <3>3. [md EXCEPT !.time = (md.time + clock) - began] = Add(md, d)
      BY <1>9, <2>6, <3>2 DEF Add, Amount
    <3> QED  BY <1>8, <3>1, <3>3
  <2>11. Measured(t, d)
    BY <1>11, <2>4, <2>5 DEF Measured
  <2> QED  BY <1>5, <2>6, <2>8, <2>9, <2>10, <2>11
<1> QED  BY <1>10, <1>11

\* Only a drain that takes the lock inside a hook counts as a cut.
LEMMA CutFacts ==
  ASSUME [Next]_vars
  PROVE  \/ cut' = cut
         \/ \E s \in Senders :
              LET t == Target(s) IN
              /\ LockAndSwap(s) /\ pc[t] \in {"count", "accum"}
              /\ cut' = [cut EXCEPT ![t][cur[t]] = cut[t][cur[t]] + 1]
<1> USE DEF listVars, treeVars, bufferVars, hookVars, sendVars, linkVars
<1>1. ASSUME NEW t \in Threads,
             \/ Attach(t) \/ Hook(t) \/ ReturnEnter(t)
             \/ \E name \in Names : CallEnter(t, name)
      PROVE  cut' = cut
  BY <1>1 DEF Attach, Hook, CallEnter, CallRecord, CallCount, CallStart, ReturnEnter, ReturnRecord,
              ReturnAccum, ReturnPop
<1>2. ASSUME NEW s \in Senders,
             Connect(s) \/ Drop(s) \/ ReqProfileData(s) \/ FinishSwap(s)
              \/ TakeBuffer(s) \/ SendProfileData(s) \/ SendNowInfo(s)
      PROVE  cut' = cut
  BY <1>2 DEF Connect, Drop, ReqProfileData, FinishSwap,
              TakeBuffer, SendProfileData, SendNowInfo
<1>3. ASSUME NEW s \in Senders, LockAndSwap(s)
      PROVE  \/ cut' = cut
             \/ LET t == Target(s) IN
                /\ pc[t] \in {"count", "accum"}
                /\ cut' = [cut EXCEPT ![t][cur[t]] = cut[t][cur[t]] + 1]
  BY <1>3 DEF LockAndSwap
<1>4. Tick \/ UNCHANGED vars => cut' = cut
  BY DEF Tick, vars
<1> QED  BY <1>1, <1>2, <1>3, <1>4 DEF Next, Hook

\* What the totals allow, after one measurement or one cut.
LEMMA BalancedFacts ==
  ASSUME NEW md \in Amount, NEW tot \in Amount, NEW ct \in Nat, Balanced(md, tot, ct)
  PROVE  /\ Balanced(md, tot, ct + 1)
         /\ \A d \in Amount :
              /\ Balanced(Add(md, d), Add(tot, d), ct)
              /\ ct > 0 /\ md.count + d.count <= tot.count + ct
                   => Balanced(Add(md, d), tot, ct)
<1>1. md.count \in Nat /\ md.time \in Nat /\ tot.count \in Nat /\ tot.time \in Nat
  BY DEF Amount
<1>2. ASSUME NEW d \in Amount
      PROVE  /\ Add(md, d).count = md.count + d.count /\ Add(md, d).time = md.time + d.time
             /\ Add(tot, d).count = tot.count + d.count /\ Add(tot, d).time = tot.time + d.time
             /\ d.count \in Nat /\ d.time \in Nat
  BY DEF Add, Amount
<1>3. Balanced(md, tot, ct + 1)
  BY <1>1 DEF Balanced
<1>4. \A d \in Amount : Balanced(Add(md, d), Add(tot, d), ct)
  BY <1>1, <1>2 DEF Balanced
<1>5. ASSUME NEW d \in Amount, ct > 0, md.count + d.count <= tot.count + ct
      PROVE  Balanced(Add(md, d), tot, ct)
  BY <1>1, <1>2, <1>5 DEF Balanced
<1> QED  BY <1>3, <1>4, <1>5

\* A node under the cursor is one of the nodes there may be.
LEMMA CursorNode ==
  ASSUME TypeOK, TreeInv, NEW t \in Threads
  PROVE  cur[t] \in NodeIDs
<1>1. cur[t] \in 1 .. Len(nodes[t])
  BY CursorInRange
<1>2. Len(nodes[t]) \in 1 .. MaxNodes /\ MaxNodes \in Nat
  BY ConstantsAssumption DEF TreeInv
<1> QED  BY <1>1, <1>2 DEF NodeIDs

LEMMA TotalType ==
  ASSUME OneSender, TypeOK, LockInv, BufferInv, CacheInv
  PROVE  \A u \in Threads, m \in NodeIDs : Total(u, m) \in Amount /\ Unsent(u, m) \in Amount
<1> SUFFICES ASSUME NEW u \in Threads, NEW m \in NodeIDs
             PROVE  Total(u, m) \in Amount /\ Unsent(u, m) \in Amount
  OBVIOUS
<1>1. Unsent(u, m) \in Amount
  BY UnsentType
<1>2. sent[u][m] \in Amount
  BY DEF TypeOK
<1>3. Add(sent[u][m], Unsent(u, m)) \in Amount
  BY <1>1, <1>2, AddFacts
<1> QED  BY <1>1, <1>3 DEF Total

LEMMA TotalStep ==
  ASSUME OneSender, TypeOK, LockInv, BufferInv, TreeInv, LiveInv, CacheInv, TimeInv,
         BegunInv, ClockInv, FiledInv, LeavingInv, SinfoInv, TotalInv, PaidInv, [Next]_vars
  PROVE  TotalInv'
<1> USE DEF listVars, treeVars, bufferVars, hookVars, sendVars, linkVars
<1> DEFINE BalancedNext(u, m) == Balanced(made'[u][m], Total(u, m)', cut'[u][m])
<1>G. TotalInv' <=> \A u \in Threads, m \in NodeIDs : BalancedNext(u, m)
  BY DEF TotalInv, Balanced
<1>T. /\ made \in [Threads -> [NodeIDs -> Amount]] /\ sent \in [Threads -> [NodeIDs -> Amount]]
      /\ cut \in [Threads -> [NodeIDs -> Nat]]
  BY DEF TypeOK
<1>N. \A u \in Threads, m \in NodeIDs : Total(u, m) \in Amount /\ Unsent(u, m) \in Amount
  BY TotalType
<1>S. \A u \in Threads, m \in NodeIDs : Total(u, m)' = Add(sent'[u][m], Unsent(u, m)')
  BY DEF Total, Add
<1>B. \A u \in Threads, m \in NodeIDs : Balanced(made[u][m], Total(u, m), cut[u][m])
  BY DEF TotalInv
<1>1. ASSUME \A u \in Threads, m \in NodeIDs : Total(u, m)' = Total(u, m),
             made' = made
      PROVE  TotalInv'
  <2>1. CASE cut' = cut
    BY <1>1, <1>B, <1>G, <2>1
  <2>2. CASE cut' # cut
    <3>1. PICK s, t, n :
            /\ s \in Senders /\ t = Target(s) /\ n = cur[t] /\ LockAndSwap(s)
            /\ cut' = [cut EXCEPT ![t][n] = cut[t][n] + 1]
      BY <2>2, CutFacts
    <3>2. \A u \in Threads, m \in NodeIDs : cut'[u][m] = cut[u][m] \/ cut'[u][m] = cut[u][m] + 1
      BY <1>T, <3>1
    <3>3. ASSUME NEW u \in Threads, NEW m \in NodeIDs PROVE BalancedNext(u, m)
      <4>1. Balanced(made[u][m], Total(u, m), cut[u][m] + 1)
        BY <1>T, <1>N, <1>B, BalancedFacts
      <4> QED  BY <1>1, <1>B, <3>2, <4>1
    <3> HIDE DEF BalancedNext
    <3> QED  BY <1>G, <3>3
  <2> QED  BY <2>1, <2>2
<1>2. ASSUME NEW t \in Threads, CallCount(t) \/ ReturnAccum(t) PROVE TotalInv'
  <2>0. PICK n \in NodeIDs : n = cur[t]
    BY CursorNode
  <2>1. PICK d \in Amount :
           /\ Measured(t, d)
           /\ made' = [made EXCEPT ![t][n] = Add(made[t][n], d)]
           /\ \A u \in Threads : \A m : ~(u = t /\ m = n) => Unsent(u, m)' = Unsent(u, m)
           /\ \/ Unsent(t, n)' = Add(Unsent(t, n), d)
              \/ Overtaken(t) /\ Unsent(t, n)' = Unsent(t, n)
    BY <1>2, <2>0, MeasureFacts
  <2>2. sent' = sent /\ cut' = cut
    BY <1>2 DEF CallCount, ReturnAccum
  <2>3. /\ made'[t][n] = Add(made[t][n], d)
        /\ \A u \in Threads, m \in NodeIDs : ~(u = t /\ m = n) => made'[u][m] = made[u][m]
    BY <1>T, <2>1
  <2>4. ASSUME NEW u \in Threads, NEW m \in NodeIDs, ~(u = t /\ m = n)
        PROVE  BalancedNext(u, m)
    <3>1. Total(u, m)' = Total(u, m)
      BY <1>S, <2>1, <2>2, <2>4 DEF Total
    <3> QED  BY <1>B, <2>2, <2>3, <2>4, <3>1
  <2>5. BalancedNext(t, n)
    <3>1. CASE Unsent(t, n)' = Add(Unsent(t, n), d)
      <4>1. \A x, y \in Amount : Add(x, Add(y, d)) = Add(Add(x, y), d)
        BY DEF Add, Amount
      <4>2. sent[t][n] \in Amount /\ Unsent(t, n) \in Amount
        BY <1>T, <1>N
      <4>3. Total(t, n)' = Add(Total(t, n), d)
        BY <1>S, <2>2, <3>1, <4>1, <4>2 DEF Total
      <4>4. Balanced(Add(made[t][n], d), Add(Total(t, n), d), cut[t][n])
        BY <1>T, <1>N, <1>B, BalancedFacts
      <4> QED  BY <2>2, <2>3, <4>3, <4>4
    <3>2. CASE Overtaken(t) /\ Unsent(t, n)' = Unsent(t, n)
      <4>1. Total(t, n)' = Total(t, n)
        BY <1>S, <2>2, <3>2 DEF Total
      <4>2. cut[t][n] \in Nat /\ made[t][n] \in Amount /\ Total(t, n) \in Amount
            /\ made[t][n].count \in Nat /\ Total(t, n).count \in Nat
        BY <1>T, <1>N DEF Amount
      <4>3. /\ pc[t] = "count" => made[t][n].count < Total(t, n).count + cut[t][n]
            /\ pc[t] = "accum" => cut[t][n] > 0
        BY <2>0, <3>2 DEF PaidInv
      <4>4. Balanced(made[t][n], Total(t, n), cut[t][n])
        BY <1>B
      <4>5. cut[t][n] > 0 /\ made[t][n].count + d.count <= Total(t, n).count + cut[t][n]
        <5>1. CASE CallCount(t) /\ d = [count |-> 1, time |-> 0]
          <6>1. d.count = 1 /\ pc[t] = "count"
            BY <5>1 DEF CallCount
          <6>2. Total(t, n).count <= made[t][n].count
            BY <4>4 DEF Balanced
          <6> QED  BY <4>2, <4>3, <6>1, <6>2
        <5>2. CASE ReturnAccum(t) /\ \E x \in 0 .. MaxTime : d = [count |-> 0, time |-> x]
          <6>1. d.count = 0 /\ pc[t] = "accum"
            BY <5>2 DEF ReturnAccum
          <6>2. made[t][n].count <= Total(t, n).count + cut[t][n]
            BY <4>4 DEF Balanced
          <6> QED  BY <4>2, <4>3, <6>1, <6>2
        <5> QED  BY <2>1, <5>1, <5>2 DEF Measured
      <4>6. Balanced(Add(made[t][n], d), Total(t, n), cut[t][n])
        BY <4>2, <4>4, <4>5, BalancedFacts
      <4> QED  BY <2>2, <2>3, <4>1, <4>6
    <3> QED  BY <2>1, <3>1, <3>2
  <2> HIDE DEF BalancedNext
  <2> QED  BY <1>G, <2>4, <2>5
<1>3. CASE \E s \in Senders : SendProfileData(s)
  <2>1. PICK s, t : s \in Senders /\ SendProfileData(s) /\ t = Target(s)
    BY <1>3
  <2>2. /\ \A u \in Threads, m \in NodeIDs : Total(u, m)' = Total(u, m)
        /\ made' = made
    BY <2>1, SendKeeps
  <2> QED  BY <1>1, <2>2
<1>4. CASE /\ \A t \in Threads : ~CallCount(t) /\ ~ReturnAccum(t)
           /\ \A s \in Senders : ~SendProfileData(s)
  <2>1. /\ \A u \in Threads : \A m : Unsent(u, m)' = Unsent(u, m)
        /\ sent' = sent /\ made' = made
    BY <1>4, UnsentKept
  <2>2. \A u \in Threads, m \in NodeIDs : Total(u, m)' = Total(u, m)
    BY <1>S, <2>1 DEF Total
  <2> QED  BY <1>1, <2>1, <2>2
<1> QED  BY <1>2, <1>3, <1>4

LEMMA PaidStep ==
  ASSUME OneSender, TypeOK, LockInv, BufferInv, TreeInv, LiveInv, CacheInv, TimeInv,
         FiledInv, TotalInv, PaidInv, [Next]_vars
  PROVE  PaidInv'
<1> USE DEF listVars, treeVars, bufferVars, hookVars, sendVars, linkVars
<1> DEFINE Paid(u) ==
      \A m \in NodeIDs :
        m = cur'[u] /\ (Overtaken(u)' \/ Swapping(u)' # {}) =>
          /\ pc'[u] = "count" => made'[u][m].count < Total(u, m)'.count + cut'[u][m]
          /\ pc'[u] = "accum" => cut'[u][m] > 0
<1>G. PaidInv' <=> \A u \in Threads : Paid(u)
  BY DEF PaidInv
<1>P. /\ pc \in [Threads -> HookPcs] /\ cut \in [Threads -> [NodeIDs -> Nat]]
      /\ spc \in [Senders -> SendPcs]
  BY DEF TypeOK
<1>O. \A r, s \in Senders : r = s
  BY DEF OneSender
<1>1. ASSUME NEW t \in Threads, \A u \in Threads \ {t} : pc'[u] = "run", Paid(t)
      PROVE  PaidInv'
  <2>1. \A u \in Threads \ {t} : Paid(u)
    BY <1>1
  <2> HIDE DEF Paid
  <2> QED  BY <1>G, <1>1, <2>1
<1>2. ASSUME NEW t \in Threads, pc'[t] \in HookPcs \ {"count", "accum"},
             \A u \in Threads \ {t} : pc'[u] = "run"
      PROVE  PaidInv'
  BY <1>1, <1>2
<1>3. ASSUME NEW t \in Threads, NEW name \in Names, CallEnter(t, name) PROVE PaidInv'
  <2>1. \A u \in Threads \ {t} : pc'[u] = "run"
    BY <1>3, HookPcFacts
  <2>2. pc'[t] = "record"
    BY <1>3, <1>P DEF CallEnter, EnterHook
  <2> QED  BY <1>2, <2>1, <2>2 DEF HookPcs
<1>E. ASSUME NEW t \in Threads, ReturnEnter(t) PROVE PaidInv'
  <2>1. \A u \in Threads \ {t} : pc'[u] = "run"
    BY <1>E, HookPcFacts
  <2>2. pc'[t] = "return"
    BY <1>E, <1>P DEF ReturnEnter, EnterHook
  <2> QED  BY <1>2, <2>1, <2>2 DEF HookPcs
<1>4. ASSUME NEW t \in Threads, CallCount(t) \/ CallStart(t) \/ ReturnAccum(t) \/ ReturnPop(t)
      PROVE  PaidInv'
  <2>1. \A u \in Threads \ {t} : pc'[u] = "run"
    BY <1>4, HookPcFacts DEF Hook
  <2>2. pc'[t] \in {"run", "start", "pop"}
    BY <1>4, <1>P DEF CallCount, CallStart, ReturnAccum, ReturnPop, LeaveHook
  <2> QED  BY <1>2, <2>1, <2>2 DEF HookPcs
<1>5. ASSUME NEW t \in Threads, CallRecord(t) \/ ReturnRecord(t) PROVE PaidInv'
  <2>1. \A u \in Threads \ {t} : pc'[u] = "run"
    BY <1>5, HookPcFacts DEF Hook
  <2>2. /\ GetCurrentNodeInfoPair(t) /\ gen' = gen /\ cur' = cur /\ spc' = spc
        /\ it' = it /\ threads' = threads
    BY <1>5 DEF CallRecord, ReturnRecord
  <2>3. Swapping(t) = {}
    BY <2>2, UnlockedNotSwapping DEF GetCurrentNodeInfoPair
  <2>4. Swapping(t)' = {}
    BY <2>2, <2>3 DEF Swapping, Target
  <2>5. HomeBuffer(t) = front[t]
    BY <2>3, Places DEF Swapping
  <2>6. nodes'[t][cur[t]].gen = gen[t]
    BY <2>2, <2>3, <2>5, PairAdds DEF FiledInv
  <2>7. ~Overtaken(t)'
    BY <2>2, <2>6 DEF Overtaken
  <2>8. Paid(t)
    BY <2>4, <2>7
  <2> HIDE DEF Paid
  <2> QED  BY <1>1, <2>1, <2>8
<1>6. ASSUME NEW u \in Threads, UNCHANGED <<pc, cur, made, cut>>,
             Overtaken(u)' \/ Swapping(u)' # {} => Overtaken(u) \/ Swapping(u) # {},
             \A m \in NodeIDs : Total(u, m)' = Total(u, m)
      PROVE  Paid(u)
  BY <1>6 DEF PaidInv
<1>7. ASSUME NEW s \in Senders, SendProfileData(s) PROVE PaidInv'
  <2>1. PICK t : t = Target(s)
    OBVIOUS
  <2>2. /\ UNCHANGED <<made, cut, pc, cur, nodes, gen>>
        /\ \A u \in Threads, n \in NodeIDs : Total(u, n)' = Total(u, n)
    BY <1>7, <2>1, SendKeeps
  <2>3. \A u \in Threads : Swapping(u)' = {}
    BY <1>7, <2>1, SendFacts
  <2>4. \A u \in Threads : Overtaken(u)' <=> Overtaken(u)
    BY <2>2 DEF Overtaken
  <2>5. \A u \in Threads : Paid(u)
    BY <1>6, <2>2, <2>3, <2>4
  <2> HIDE DEF Paid
  <2> QED  BY <1>G, <2>5
<1>8. ASSUME \A t \in Threads : ~CallCount(t) /\ ~ReturnAccum(t),
             \A s \in Senders : ~SendProfileData(s)
      PROVE  /\ \A u \in Threads, n \in NodeIDs : Total(u, n)' = Total(u, n)
             /\ sent' = sent /\ made' = made
  <2>1. /\ \A u \in Threads : \A m : Unsent(u, m)' = Unsent(u, m)
        /\ sent' = sent /\ made' = made
    BY <1>8, UnsentKept
  <2>2. \A u \in Threads, m \in NodeIDs : Total(u, m)' = Add(sent'[u][m], Unsent(u, m)')
    BY DEF Total, Add
  <2> QED  BY <2>1, <2>2 DEF Total
<1>9. ASSUME NEW s \in Senders, LockAndSwap(s) PROVE PaidInv'
  <2>1. PICK t \in Threads : t = Target(s)
    BY ElementOfSeq DEF TypeOK, LockInv, Target
  <2>2. /\ UNCHANGED <<pc, cur, nodes, gen, it, threads, made, sent>> /\ spc[s] = "lock"
        /\ cut' = IF pc[t] \in {"count", "accum"}
                  THEN [cut EXCEPT ![t][cur[t]] = cut[t][cur[t]] + 1] ELSE cut
    BY <1>9, <2>1 DEF LockAndSwap
  <2>3. \A u \in Threads, n \in NodeIDs : Total(u, n)' = Total(u, n)
    <3>1. \A u \in Threads : ~CallCount(u) /\ ~ReturnAccum(u)
      <4>1. \A u \in Threads : CallCount(u) \/ ReturnAccum(u) => pc'[u] # pc[u]
        BY <1>P DEF CallCount, ReturnAccum
      <4> QED  BY <2>2, <4>1
    <3>2. \A r \in Senders : ~SendProfileData(r)
      BY <1>O, <2>2 DEF SendProfileData
    <3> QED  BY <1>8, <3>1, <3>2
  <2>4. \A u \in Threads : Overtaken(u)' <=> Overtaken(u)
    BY <2>2 DEF Overtaken
  <2>5. Target(s)' = t
    BY <2>1, <2>2 DEF Target
  <2>6. \A u \in Threads \ {t} : Swapping(u)' = {}
    BY <1>O, <2>5 DEF Swapping
  <2>7. ASSUME NEW u \in Threads \ {t} PROVE Paid(u)
    <3>1. cut'[u] = cut[u]
      BY <1>P, <2>2
    <3> QED  BY <2>2, <2>3, <2>4, <2>6, <3>1 DEF PaidInv
  <2>8. Paid(t)
    <3> SUFFICES ASSUME NEW m \in NodeIDs, m = cur[t], pc[t] \in {"count", "accum"}
                 PROVE  /\ made[t][m].count < Total(t, m).count + cut'[t][m]
                        /\ cut'[t][m] > 0
      BY <2>2, <2>3
    <3>1. cut'[t][m] = cut[t][m] + 1
      BY <1>P, <2>2
    <3>2. Balanced(made[t][m], Total(t, m), cut[t][m])
      BY DEF TotalInv
    <3>3. Total(t, m) \in Amount /\ made[t][m] \in Amount
      BY TotalType DEF TypeOK
    <3>4. cut[t][m] \in Nat
      BY <1>P
    <3> QED  BY <3>1, <3>2, <3>3, <3>4 DEF Balanced, Amount
  <2> HIDE DEF Paid
  <2> QED  BY <1>G, <2>7, <2>8
<1>10. ASSUME NEW s \in Senders, FinishSwap(s) PROVE PaidInv'
  <2>1. PICK t : t = Target(s)
    OBVIOUS
  <2>2. /\ t \in Threads /\ Swapping(t) = {s} /\ \A u \in Threads : Swapping(u)' = {}
        /\ \A u \in Threads \ {t} : gen'[u] = gen[u]
        /\ UNCHANGED <<nodes, cur, pc, made, cut>>
    BY <1>10, <2>1, SwapFacts
  <2>3. \A u \in Threads, n \in NodeIDs : Total(u, n)' = Total(u, n)
    <3>1. \A u \in Threads : ~CallCount(u) /\ ~ReturnAccum(u)
      <4>1. \A u \in Threads : CallCount(u) \/ ReturnAccum(u) => pc'[u] # pc[u]
        BY <1>P DEF CallCount, ReturnAccum
      <4> QED  BY <2>2, <4>1
    <3>2. \A r \in Senders : ~SendProfileData(r)
      BY <1>O, <1>10 DEF SendProfileData, FinishSwap
    <3> QED  BY <1>8, <3>1, <3>2
  <2>4. \A u \in Threads \ {t} : Overtaken(u)' <=> Overtaken(u)
    BY <2>2 DEF Overtaken
  <2>5. \A u \in Threads : Paid(u)
    BY <1>6, <2>2, <2>3, <2>4
  <2> HIDE DEF Paid
  <2> QED  BY <1>G, <2>5
<1>11. ASSUME UNCHANGED <<pc, cur, nodes, gen, cut>>,
              \A u \in Threads : Swapping(u)' \subseteq Swapping(u),
              \A t \in Threads : ~CallCount(t) /\ ~ReturnAccum(t),
              \A s \in Senders : ~SendProfileData(s)
       PROVE  PaidInv'
  <2>1. \A u \in Threads : Overtaken(u)' <=> Overtaken(u)
    BY <1>11 DEF Overtaken
  <2>2. \A u \in Threads : Paid(u)
    BY <1>6, <1>8, <1>11, <2>1
  <2> HIDE DEF Paid
  <2> QED  BY <1>G, <2>2
<1>12. ASSUME NEW t \in Threads, Attach(t)
       PROVE  UNCHANGED <<pc, cur, nodes, gen, cut>>
              /\ \A u \in Threads : Swapping(u)' \subseteq Swapping(u)
  BY <1>12, AttachFacts DEF Attach
<1>13. ASSUME NEW s \in Senders, Connect(s) \/ Drop(s) \/ ReqProfileData(s) \/ TakeBuffer(s) \/ SendNowInfo(s)
       PROVE  UNCHANGED <<pc, cur, nodes, gen, cut>>
              /\ \A u \in Threads : Swapping(u)' \subseteq Swapping(u)
  <2>1. UNCHANGED <<pc, cur, nodes, gen, cut, threads>>
    BY <1>13 DEF Connect, Drop, ReqProfileData, TakeBuffer, SendNowInfo
  <2>2. CASE spc' = spc /\ it' = it
    BY <2>1, <2>2 DEF Swapping, Target
  <2>3. CASE spc'[s] # "swap"
    BY <1>O, <2>1, <2>3 DEF Swapping
  <2>4. (spc' = spc /\ it' = it) \/ spc'[s] # "swap"
    BY <1>13, <1>P DEF Connect, Drop, ReqProfileData, TakeBuffer, SendNowInfo
  <2> QED  BY <2>1, <2>2, <2>3, <2>4
<1>14. ASSUME Tick \/ UNCHANGED vars
       PROVE  UNCHANGED <<pc, cur, nodes, gen, cut>>
              /\ \A u \in Threads : Swapping(u)' \subseteq Swapping(u)
  <2>1. UNCHANGED <<pc, cur, nodes, gen, cut, threads, spc, it>>
    BY <1>14 DEF Tick, vars
  <2> QED  BY <2>1 DEF Swapping, Target
<1> HIDE DEF Paid
<1>15. CASE /\ \A t \in Threads : ~CallCount(t) /\ ~ReturnAccum(t)
            /\ \A s \in Senders : ~SendProfileData(s)
  <2>1. \/ PaidInv'
        \/ /\ UNCHANGED <<pc, cur, nodes, gen, cut>>
           /\ \A u \in Threads : Swapping(u)' \subseteq Swapping(u)
    BY <1>3, <1>E, <1>4, <1>5, <1>9, <1>10, <1>12, <1>13, <1>14, <1>15 DEF Next
  <2> QED  BY <1>11, <1>15, <2>1
<1> QED  BY <1>4, <1>7, <1>15

(***************************************************************************)
(* The accounting holds in every state.                                    *)
(***************************************************************************)

LEMMA InitRInv == Init => RInv
<1> SUFFICES ASSUME Init PROVE RInv
  OBVIOUS
<1>1. IInv /\ ClockInv
  BY InitInv, ClockInit
<1>2. /\ \A t \in Threads : /\ nodes[t] = <<NewNode(0, NullName)>> /\ stack[t] = << >>
                            /\ pc[t] = "run" /\ cur[t] = Root
      /\ \A s \in Senders : spc[s] = "wait"
      /\ \A b \in Buffers : bufs[b].size = 0
      /\ \A t \in Threads, n \in NodeIDs :
           made[t][n] = Zero /\ sent[t][n] = Zero /\ cut[t][n] = 0
  BY DEF Init, EmptyBuffer
<1>3. AgeInv
  <2>1. PICK root : root = NewNode(0, NullName)
    OBVIOUS
  <2>2. root.parent = 0
    BY <2>1 DEF NewNode
  <2>3. Len(<<root>>) = 1 /\ <<root>>[1] = root
    OBVIOUS
  <2>4. ASSUME NEW t \in Threads, NEW n \in 1 .. Len(nodes[t]) PROVE nodes[t][n].parent < n
    <3>1. nodes[t] = <<root>>
      BY <1>2, <2>1
    <3>2. n = 1
      BY <2>3, <2>4, <3>1
    <3> QED  BY <2>2, <2>3, <3>1, <3>2
  <2>5. ASSUME NEW t \in Threads, NEW i \in 1 .. Len(stack[t]) PROVE FALSE
    <3>1. Len(stack[t]) = 0
      BY <1>2, EmptySeq
    <3> QED  BY <2>5, <3>1
  <2> QED  BY <2>4, <2>5 DEF AgeInv
<1>4. BegunInv
  BY <1>2 DEF BegunInv
<1>5. \A t \in Threads : /\ Swapping(t) = {} /\ InTransit(t) = {}
                         /\ HomeBuffer(t) \in Buffers
  <2>1. \A t \in Threads : front[t] \in Buffers
    BY <1>1 DEF IInv, TypeOK
  <2> QED  BY <1>2, <2>1 DEF Swapping, InTransit, HomeBuffer
<1>6. FiledInv
  BY <1>2, <1>5 DEF FiledInv, FiledIn
<1>7. LeavingInv
  BY <1>2 DEF LeavingInv
<1>8. SinfoInv
  BY <1>2 DEF SinfoInv, LivePcs
<1>9. \A t \in Threads, n \in NodeIDs : Total(t, n) = Zero
  <2> SUFFICES ASSUME NEW t \in Threads, NEW n \in NodeIDs PROVE Total(t, n) = Zero
    OBVIOUS
  <2>1. Listed(HomeBuffer(t), n) = {}
    BY <1>2, <1>5 DEF Listed
  <2>2. Reported(HomeBuffer(t), n) = Zero
    BY <2>1 DEF Reported
  <2>3. Add(Zero, Zero) = Zero
    BY DEF Add, Zero
  <2>4. Unsent(t, n) = Zero
    BY <1>5, <2>2, <2>3 DEF Unsent
  <2> QED  BY <1>2, <2>3, <2>4 DEF Total
<1>10. TotalInv
  BY <1>2, <1>9 DEF TotalInv, Balanced, Zero
<1>11. PaidInv
  BY <1>2 DEF PaidInv
<1> QED  BY <1>1, <1>3, <1>4, <1>6, <1>7, <1>8, <1>10, <1>11 DEF RInv

LEMMA StepRInv == ASSUME OneSender PROVE RInv /\ [Next]_vars => RInv'
<1> SUFFICES ASSUME RInv, [Next]_vars PROVE RInv'
  OBVIOUS
<1> USE DEF RInv, IInv
<1>1. IInv'
  BY StepInv
<1>2. AgeInv' /\ ClockInv'
  BY AgeStep, ClockStep
<1>3. BegunInv'
  BY BegunStep
<1>4. FiledInv' /\ LeavingInv' /\ SinfoInv'
  BY FiledStep, LeavingStep, SinfoStep
<1>5. TotalInv'
  BY TotalStep
<1>6. PaidInv'
  BY PaidStep
<1> QED  BY <1>1, <1>2, <1>3, <1>4, <1>5, <1>6

\* The accounting of the records is an invariant of the recorder with one
\* dispatch thread.
THEOREM RInvariance == ASSUME OneSender PROVE Spec => []RInv
<1>1. Init => RInv
  BY InitRInv
<1>2. RInv /\ [Next]_vars => RInv'
  BY StepRInv
<1> QED  BY <1>1, <1>2, PTL DEF Spec

\* No call and no time is reported twice, and what is missing was lost to a
\* drain that met a hook between unlock and update.
THEOREM ReportedOnceHolds == ASSUME OneSender PROVE Spec => []ReportedOnce
<1>1. RInv => ReportedOnce
  BY DEF RInv, TotalInv, Balanced, Total, ReportedOnce
<1> QED  BY <1>1, RInvariance, PTL

(***************************************************************************)
(* The recorder implements the stream of ProfileStream.                    *)
(***************************************************************************)

\* What the stream has of a node is what the recorder still will send.
LEMMA StreamInit == Init => Stream!Init
<1> SUFFICES ASSUME Init PROVE Stream!Init
  OBVIOUS
<1>1. \A t \in Threads, n \in NodeIDs : Unsent(t, n) = Zero
  <2> SUFFICES ASSUME NEW t \in Threads, NEW n \in NodeIDs PROVE Unsent(t, n) = Zero
    OBVIOUS
  <2>1. /\ \A s \in Senders : spc[s] = "wait"
        /\ \A b \in Buffers : bufs[b].size = 0
        /\ front[t] \in Buffers
    BY DEF Init, EmptyBuffer, Buffers
  <2>2. Swapping(t) = {} /\ InTransit(t) = {} /\ HomeBuffer(t) \in Buffers
    BY <2>1 DEF Swapping, InTransit, HomeBuffer
  <2>3. Listed(HomeBuffer(t), n) = {}
    BY <2>1, <2>2 DEF Listed
  <2> QED  BY <2>2, <2>3 DEF Unsent, Reported, Add, Zero
<1> QED  BY <1>1 DEF Init, Stream!Init, Stream!Zero, Zero

\* The parts of the stream's state, before and after a step.
Held == [t \in Threads |-> [n \in NodeIDs |-> Unsent(t, n)]]

LEMMA HeldNext == Held' = [t \in Threads |-> [n \in NodeIDs |-> Unsent(t, n)']]
BY DEF Held

LEMMA StreamStep == ASSUME OneSender PROVE RInv /\ [Next]_vars => [Stream!Next]_(Stream!vars)
<1> SUFFICES ASSUME RInv, [Next]_vars PROVE [Stream!Next]_(Stream!vars)
  OBVIOUS
<1> USE DEF RInv, IInv, listVars, treeVars, bufferVars, hookVars, sendVars, linkVars
<1>T. /\ made \in [Threads -> [NodeIDs -> Amount]] /\ sent \in [Threads -> [NodeIDs -> Amount]]
      /\ cut \in [Threads -> [NodeIDs -> Nat]] /\ pc \in [Threads -> HookPcs]
  BY DEF TypeOK
<1>N. \A u \in Threads, m \in NodeIDs : Total(u, m) \in Amount /\ Unsent(u, m) \in Amount
  BY TotalType
<1>P. \A x, y : Stream!Plus(x, y) = Add(x, y)
  BY DEF Stream!Plus, Add
<1>1. ASSUME NEW t \in Threads, CallCount(t) \/ ReturnAccum(t) PROVE Stream!Next
  <2>0. PICK n \in NodeIDs : n = cur[t]
    BY CursorNode
  <2>1. PICK d \in Amount :
           /\ Measured(t, d)
           /\ made' = [made EXCEPT ![t][n] = Add(made[t][n], d)]
           /\ \A u \in Threads : \A m : ~(u = t /\ m = n) => Unsent(u, m)' = Unsent(u, m)
           /\ \/ Unsent(t, n)' = Add(Unsent(t, n), d)
              \/ Overtaken(t) /\ Unsent(t, n)' = Unsent(t, n)
    BY <1>1, <2>0, MeasureFacts
  <2>2. sent' = sent /\ cut' = cut
    BY <1>1 DEF CallCount, ReturnAccum
  <2>3. d \in Stream!Measures
    BY <2>1 DEF Measured, Stream!Measures, Stream!Call, Stream!Time
  <2>4. CASE Unsent(t, n)' = Add(Unsent(t, n), d)
    <3>1. Held' = [Held EXCEPT ![t][n] = Add(Unsent(t, n), d)]
      BY <2>1, <2>4, HeldNext DEF Held
    <3>2. Stream!Record(t, n, d)
      BY <1>P, <2>1, <2>2, <3>1 DEF Stream!Record, Held
    <3> QED  BY <2>3, <3>2 DEF Stream!Next
  <2>5. CASE Overtaken(t) /\ Unsent(t, n)' = Unsent(t, n)
    <3>1. Held' = Held
      BY <2>1, <2>5, HeldNext DEF Held
    <3>2. cut[t][n] \in Nat /\ made[t][n] \in Amount /\ Total(t, n) \in Amount
          /\ sent[t][n] \in Amount /\ Unsent(t, n) \in Amount
      BY <1>T, <1>N
    <3>3. /\ made[t][n].count \in Nat /\ Total(t, n).count \in Nat
          /\ Total(t, n).count = sent[t][n].count + Unsent(t, n).count
      BY <3>2 DEF Total, Add, Amount
    <3>4. /\ pc[t] = "count" => made[t][n].count < Total(t, n).count + cut[t][n]
          /\ pc[t] = "accum" => cut[t][n] > 0
      BY <2>0, <2>5 DEF PaidInv
    <3>5. Balanced(made[t][n], Total(t, n), cut[t][n])
      BY DEF TotalInv
    <3>6. cut[t][n] > 0 /\ made[t][n].count + d.count <= Total(t, n).count + cut[t][n]
      <4>1. CASE CallCount(t) /\ d = [count |-> 1, time |-> 0]
        <5>1. d.count = 1 /\ pc[t] = "count"
          BY <4>1 DEF CallCount
        <5>2. Total(t, n).count <= made[t][n].count
          BY <3>5 DEF Balanced
        <5> QED  BY <3>2, <3>3, <3>4, <5>1, <5>2
      <4>2. CASE ReturnAccum(t) /\ \E x \in 0 .. MaxTime : d = [count |-> 0, time |-> x]
        <5>1. d.count = 0 /\ pc[t] = "accum"
          BY <4>2 DEF ReturnAccum
        <5>2. made[t][n].count <= Total(t, n).count + cut[t][n]
          BY <3>5 DEF Balanced
        <5> QED  BY <3>2, <3>3, <3>4, <5>1, <5>2
      <4> QED  BY <2>1, <4>1, <4>2 DEF Measured
    <3>7. Stream!Miss(t, n, d)
      BY <1>P, <2>1, <2>2, <3>1, <3>3, <3>6 DEF Stream!Miss, Held
    <3> QED  BY <2>3, <3>7 DEF Stream!Next
  <2> QED  BY <2>1, <2>4, <2>5
<1>2. ASSUME NEW s \in Senders, SendProfileData(s) PROVE Stream!Next
  <2>1. PICK t : t = Target(s)
    OBVIOUS
  <2>2. /\ t \in Threads /\ UNCHANGED <<made, cut>>
        /\ sent' \in [Threads -> [NodeIDs -> Amount]]
        /\ \A u \in Threads, n \in NodeIDs :
              /\ Total(u, n)' = Total(u, n) /\ Unsent(u, n)' \in Amount
              /\ sent[u][n].count <= sent'[u][n].count /\ sent[u][n].time <= sent'[u][n].time
              /\ u # t => sent'[u][n] = sent[u][n]
    BY <1>2, <2>1, SendKeeps
  <2>3. \A u \in Threads, n \in NodeIDs : Held[u][n] = Unsent(u, n) /\ Held'[u][n] = Unsent(u, n)'
    BY HeldNext DEF Held
  <2>4. \A u \in Threads, n \in NodeIDs :
          Total(u, n) = Add(sent[u][n], Unsent(u, n))
          /\ Total(u, n)' = Add(sent'[u][n], Unsent(u, n)')
    BY DEF Total, Add
  <2>5. Held' \in [Threads -> [NodeIDs -> Amount]]
    BY <2>2, HeldNext
  <2>6. \A u \in Threads, n \in NodeIDs :
          Add(sent'[u][n], Held'[u][n]) = Add(sent[u][n], Held[u][n])
    BY <2>2, <2>3, <2>4
  <2>7. Stream!Deliver(t)
    BY <1>P, <2>2, <2>5, <2>6 DEF Stream!Deliver, Stream!Totals, Stream!Amount, Stream!AtMost,
                                   Amount, Held
  <2> QED  BY <2>2, <2>7 DEF Stream!Next
<1>3. ASSUME \A t \in Threads : ~CallCount(t) /\ ~ReturnAccum(t),
             \A s \in Senders : ~SendProfileData(s)
      PROVE  [Stream!Next]_(Stream!vars)
  <2>1. /\ \A u \in Threads : \A m : Unsent(u, m)' = Unsent(u, m)
        /\ sent' = sent /\ made' = made
    BY <1>3, UnsentKept
  <2>2. Held' = Held
    BY <2>1, HeldNext DEF Held
  <2>3. CASE cut' = cut
    BY <2>1, <2>2, <2>3 DEF Stream!vars, Held
  <2>4. CASE cut' # cut
    <3>1. PICK s, t, n :
            /\ s \in Senders /\ t = Target(s) /\ n = cur[t]
            /\ cut' = [cut EXCEPT ![t][n] = cut[t][n] + 1]
      BY <2>4, CutFacts
    <3>2. t \in Threads
      BY <3>1, ElementOfSeq DEF TypeOK, LockInv, Target
    <3>3. n \in NodeIDs
      BY <3>1, <3>2, CursorNode
    <3>4. Stream!Cut(t, n)
      BY <2>1, <2>2, <3>1 DEF Stream!Cut, Held
    <3> QED  BY <3>2, <3>3, <3>4 DEF Stream!Next
  <2> QED  BY <2>3, <2>4
<1> QED  BY <1>1, <1>2, <1>3

\* The recorder implements the stream it promises: what it holds is what its
\* live and its departing buffer report.
THEOREM StreamImplemented == ASSUME OneSender PROVE Spec => ImplementsStream
<1>1. Init => Stream!Init
  BY StreamInit
<1>2. RInv /\ [Next]_vars => [Stream!Next]_(Stream!vars)
  BY StreamStep
<1> QED  BY <1>1, <1>2, RInvariance, PTL DEF Spec, ImplementsStream, Stream!Spec

(***************************************************************************)
(* What the first monitor is sent can be filed.                            *)
(***************************************************************************)

\* The nodes a buffer reports.
Told(buf) == {buf.slots[i].node : i \in 1 .. buf.size}

\* Every record of a buffer comes after its parent's, if that is not known.
Ordered(buf, known) ==
  \A i \in 1 .. buf.size :
    \/ buf.slots[i].parent \in known
    \/ \E j \in 1 .. (i - 1) : buf.slots[j].node = buf.slots[i].parent

\* What the monitor knows when the live buffer arrives.
Known(s, t) ==
  (seen[s][t] \cup {Root}) \cup IF s \in InTransit(t) THEN Told(bufs[tmp[s]]) ELSE {}

\* Until a connection is lost, what is on the way comes in order, and a node that
\* was ever recorded is on the way or was sent.
Complete(nd, known) == \A n \in 1 .. Len(nd) : nd[n].gen # 0 => n \in known
ComesInOrder(s, t) ==
  /\ Ordered(bufs[HomeBuffer(t)], Known(s, t))
  /\ s \in InTransit(t) => Ordered(bufs[tmp[s]], seen[s][t] \cup {Root})
  /\ Complete(nodes[t], Known(s, t) \cup Told(bufs[HomeBuffer(t)]))
OrderInv == drops = 0 => \A s \in Senders, t \in Threads : ComesInOrder(s, t)

\* The callers of a node were recorded, when they were called.
Recorded(p, st, nd) ==
  \A i \in 1 .. Len(st) : i < Len(st) \/ p # "record" => nd[st[i].node].gen # 0
CallersInv == \A t \in Threads : Recorded(pc[t], stack[t], nodes[t])

\* A monitor that never lost its connection was sent everything.
FirstInv ==
  drops = 0 => \A s \in Senders :
    ~up[s] => spc[s] = "wait" /\ \A t \in Threads : seen[s][t] = {}

\* No record has a name that cannot be queried.
NamedInv ==
  /\ \A t \in Threads : \A n \in 1 .. Len(nodes[t]) : nodes[t][n].name \in nameTable
  /\ \A b \in Buffers : \A i \in 1 .. Len(bufs[b].slots) : bufs[b].slots[i].name \in nameTable

SInv == RInv /\ OrderInv /\ CallersInv /\ FirstInv /\ NamedInv

\* A hook's sinfo has the name of its record.
LEMMA NamedStep ==
  ASSUME OneSender, RInv, NamedInv, [Next]_vars
  PROVE  NamedInv'
<1> USE DEF listVars, treeVars, bufferVars, hookVars, sendVars, linkVars
<1>I. /\ TypeOK /\ LockInv /\ BufferInv /\ TreeInv /\ LiveInv /\ CacheInv /\ TimeInv
  BY DEF RInv, IInv
<1>T. /\ nodes \in [Threads -> Seq(NodeInfo)] /\ bufs \in [Buffers -> RecordBuffer]
      /\ ptr \in [Threads -> [buf : Buffers, slot : Nat]]
      /\ \A t \in Threads : Len(nodes[t]) \in Nat
      /\ \A b \in Buffers : /\ bufs[b].slots \in Seq(Record) /\ Len(bufs[b].slots) \in Nat
                            /\ bufs[b].size \in Nat /\ bufs[b].size <= Len(bufs[b].slots)
  BY <1>I, LenProperties DEF TypeOK, RecordBuffer, CacheInv
<1>1. ASSUME nameTable \subseteq nameTable',
             \A t \in Threads :
               /\ Len(nodes'[t]) = Len(nodes[t])
               /\ \A n \in 1 .. Len(nodes[t]) : nodes'[t][n].name = nodes[t][n].name,
             \A b \in Buffers :
               /\ Len(bufs'[b].slots) = Len(bufs[b].slots)
               /\ \A i \in 1 .. Len(bufs[b].slots) : bufs'[b].slots[i].name = bufs[b].slots[i].name
      PROVE  NamedInv'
  <2>1. ASSUME NEW t \in Threads, NEW n \in 1 .. Len(nodes'[t]) PROVE nodes'[t][n].name \in nameTable'
    BY <1>1, <2>1 DEF NamedInv
  <2>2. ASSUME NEW b \in Buffers, NEW i \in 1 .. Len(bufs'[b].slots)
        PROVE  bufs'[b].slots[i].name \in nameTable'
    BY <1>1, <2>2 DEF NamedInv
  <2> QED  BY <2>1, <2>2 DEF NamedInv
<1>2. ASSUME NEW t \in Threads, NEW name \in Names, CallEnter(t, name) PROVE NamedInv'
  <2>1. /\ \A u \in Threads \ {t} : nodes'[u] = nodes[u]
        /\ \A n \in 1 .. Len(nodes[t]) : nodes'[t][n] = nodes[t][n]
        /\ \A n \in 1 .. Len(nodes'[t]) :
             n \notin 1 .. Len(nodes[t]) => nodes'[t][n] = NewNode(cur[t], name)
    BY <1>I, <1>2, EnterFacts
  <2>2. bufs' = bufs
    BY <1>2 DEF CallEnter
  <2>3. nameTable \subseteq nameTable'
    BY <1>2 DEF CallEnter, AddCallNode, AddCB
  <2>4. (\E n \in 1 .. Len(nodes'[t]) : n \notin 1 .. Len(nodes[t])) => name \in nameTable'
    <3>1. CASE AddCallNode(t, name)
      BY <3>1 DEF AddCallNode, AddCB
    <3>2. CASE ~AddCallNode(t, name)
      BY <1>2, <3>2 DEF CallEnter
    <3> QED  BY <3>1, <3>2
  <2>5. ASSUME NEW u \in Threads, NEW n \in 1 .. Len(nodes'[u]) PROVE nodes'[u][n].name \in nameTable'
    <3>1. CASE u # t
      BY <2>1, <2>3, <2>5, <3>1 DEF NamedInv
    <3>2. CASE u = t /\ n \in 1 .. Len(nodes[t])
      BY <2>1, <2>3, <2>5, <3>2 DEF NamedInv
    <3>3. CASE u = t /\ n \notin 1 .. Len(nodes[t])
      <4>1. nodes'[u][n] = NewNode(cur[t], name) /\ name \in nameTable'
        BY <2>1, <2>4, <2>5, <3>3
      <4> QED  BY <4>1 DEF NewNode
    <3> QED  BY <3>1, <3>2, <3>3
  <2> QED  BY <2>2, <2>3, <2>5 DEF NamedInv
<1>3. ASSUME NEW t \in Threads, GetCurrentNodeInfoPair(t), nameTable' = nameTable PROVE NamedInv'
  <2>1. CASE ~NeedsRecord(t, nodes[t][cur[t]])
    <3>1. bufs' = bufs /\ nodes' = nodes
      BY <1>3, <2>1 DEF GetCurrentNodeInfoPair
    <3> QED  BY <1>1, <1>3, <3>1
  <2>2. CASE NeedsRecord(t, nodes[t][cur[t]])
    <3>0. PICK n, b, info, rec, grown, updated :
            /\ n = cur[t] /\ b = front[t] /\ info = nodes[t][n] /\ rec = NewRecord(n, info)
            /\ grown = NewTailElem(bufs[b], rec)
            /\ updated = [info EXCEPT !.sidx = LastIndex(grown), !.gen = gen[t]]
      OBVIOUS
    <3>1. bufs' = [bufs EXCEPT ![b] = grown] /\ nodes' = [nodes EXCEPT ![t][n] = updated]
      BY <1>3, <2>2, <3>0 DEF GetCurrentNodeInfoPair
    <3>2. n \in 1 .. Len(nodes[t]) /\ b \in Buffers
      BY <1>I, <3>0, CursorInRange DEF TypeOK
    <3>3. info \in NodeInfo /\ n \in Nat
      BY <1>T, <3>0, <3>2, ElementOfSeq
    <3>4. rec \in Record /\ rec.name = info.name
      BY <3>0, <3>3 DEF NewRecord, Record, NodeInfo
    <3>5. /\ grown.size = bufs[b].size + 1
          /\ Len(grown.slots) = grown.size
          /\ \A i \in 1 .. bufs[b].size : grown.slots[i] = bufs[b].slots[i]
          /\ grown.slots[grown.size] = rec
      <4>1. PICK buf : buf = bufs[b]
        OBVIOUS
      <4>2. buf \in RecordBuffer /\ buf.size <= Len(buf.slots)
        BY <1>T, <3>2, <4>1
      <4>3. PICK g : g = NewTailElem(buf, rec)
        OBVIOUS
      <4>4. /\ g.size = buf.size + 1 /\ Len(g.slots) = g.size
            /\ \A i \in 1 .. buf.size : g.slots[i] = buf.slots[i]
            /\ g.slots[g.size] = rec
        BY <3>4, <4>2, <4>3, NewTailElemFacts
      <4>5. grown = g
        BY <3>0, <4>1, <4>3
      <4> QED  BY <4>1, <4>4, <4>5
    <3>6. info.name \in nameTable
      BY <3>0, <3>2 DEF NamedInv
    <3>7. updated.name = info.name /\ updated \in NodeInfo
      <4>1. PICK k, g : k = LastIndex(grown) /\ g = gen[t]
        OBVIOUS
      <4>2. k = bufs[b].size + 1 /\ bufs[b].size \in Nat
        BY <1>T, <3>2, <3>5, <4>1 DEF LastIndex
      <4>3. k \in Nat
        BY <4>2
      <4>4. g \in Nat
        BY <1>I, <4>1, Zenon DEF TypeOK
      <4>5. updated = [info EXCEPT !.sidx = k, !.gen = g]
        BY <3>0, <4>1
      <4>6. PICK marked : marked = [info EXCEPT !.sidx = k]
        OBVIOUS
      <4>7. marked \in NodeInfo /\ marked.name = info.name
        BY <3>3, <4>3, <4>6 DEF NodeInfo
      <4>8. updated = [marked EXCEPT !.gen = g]
        BY <4>5, <4>6
      <4> QED  BY <4>4, <4>7, <4>8 DEF NodeInfo
    <3>8. \A i \in 1 .. Len(grown.slots) : grown.slots[i].name \in nameTable
      <4>1. ASSUME NEW i \in 1 .. Len(grown.slots) PROVE grown.slots[i].name \in nameTable
        <5>1. CASE i \in 1 .. bufs[b].size
          <6>1. i \in 1 .. Len(bufs[b].slots)
            BY <1>T, <3>2, <5>1
          <6> QED  BY <3>2, <3>5, <5>1, <6>1 DEF NamedInv
        <5>2. CASE i \notin 1 .. bufs[b].size
          <6>1. i = grown.size
            BY <1>T, <3>2, <3>5, <5>2
          <6> QED  BY <3>4, <3>5, <3>6, <6>1
        <5> QED  BY <5>1, <5>2
      <4> QED  BY <4>1
    <3>9. \A c \in Buffers : bufs'[c] = IF c = b THEN grown ELSE bufs[c]
      BY <1>T, <3>1, <3>2
    <3>10. \A u \in Threads : \A m \in 1 .. Len(nodes'[u]) :
             m \in 1 .. Len(nodes[u]) /\ nodes'[u][m].name = nodes[u][m].name
      <4>1. /\ Len(nodes'[t]) = Len(nodes[t]) /\ nodes'[t][n] = updated
            /\ \A m \in 1 .. Len(nodes[t]) : m # n => nodes'[t][m] = nodes[t][m]
        BY <1>T, <3>1, <3>2, <3>7, NodesExcept
      <4>2. \A u \in Threads \ {t} : nodes'[u] = nodes[u]
        BY <1>T, <3>1
      <4>3. nodes'[t][n].name = nodes[t][n].name
        BY <3>0, <3>7, <4>1
      <4> QED  BY <4>1, <4>2, <4>3
    <3>11. \A c \in Buffers : \A i \in 1 .. Len(bufs'[c].slots) : bufs'[c].slots[i].name \in nameTable
      BY <3>8, <3>9 DEF NamedInv
    <3> QED  BY <1>3, <3>10, <3>11 DEF NamedInv
  <2> QED  BY <2>1, <2>2
<1>4. ASSUME NEW t \in Threads, NEW rec \in Record, rec.name = Sinfo(t).name, UpdateRecord(t, rec),
             pc[t] \in LivePcs
      PROVE  \A b \in Buffers :
               /\ Len(bufs'[b].slots) = Len(bufs[b].slots)
               /\ \A i \in 1 .. Len(bufs[b].slots) : bufs'[b].slots[i].name = bufs[b].slots[i].name
  <2>1. PICK c, k : c = ptr[t].buf /\ k = ptr[t].slot
    OBVIOUS
  <2>2. c \in Buffers /\ k \in 1 .. Len(bufs[c].slots)
    BY <1>I, <1>T, <1>4, <2>1 DEF LiveInv
  <2>3. PICK v : v = [bufs[c].slots EXCEPT ![k] = rec]
    OBVIOUS
  <2>4. bufs' = [bufs EXCEPT ![c].slots[k] = rec]
    BY <1>4, <2>1 DEF UpdateRecord
  <2>5. bufs'[c].slots = v /\ \A b \in Buffers \ {c} : bufs'[b] = bufs[b]
    BY <1>T, <2>2, <2>3, <2>4 DEF RecordBuffer
  <2>6. Len(v) = Len(bufs[c].slots)
        /\ \A i \in 1 .. Len(bufs[c].slots) : v[i] = IF i = k THEN rec ELSE bufs[c].slots[i]
    BY <1>T, <1>4, <2>2, <2>3, ExceptSeq
  <2>7. rec.name = bufs[c].slots[k].name
    BY <1>4, <2>1 DEF Sinfo
  <2> QED  BY <2>5, <2>6, <2>7
<1>5. ASSUME NEW t \in Threads, CallCount(t) \/ CallStart(t) \/ ReturnAccum(t) PROVE NamedInv'
  <2>1. pc[t] \in LivePcs /\ nameTable' = nameTable
    BY <1>5 DEF CallCount, CallStart, ReturnAccum, LivePcs
  <2>2. PICK old : old = Sinfo(t)
    OBVIOUS
  <2>3. /\ old \in Record /\ cur[t] \in 1 .. Len(nodes[t]) /\ nodes[t][cur[t]] \in NodeInfo
        /\ clock \in Nat
    BY <1>I, <2>1, <2>2, SinfoFacts DEF TypeOK
  <2>4. \E rec \in Record : rec.name = old.name /\ UpdateRecord(t, rec)
    <3>1. CASE CallCount(t)
      <4>1. PICK rec : rec = [old EXCEPT !.count = @ + 1]
        OBVIOUS
      <4>2. rec \in Record /\ rec.name = old.name
        BY <2>3, <4>1, SMTT(30) DEF Record
      <4> QED  BY <2>2, <3>1, <4>1, <4>2 DEF CallCount
    <3>2. CASE CallStart(t)
      <4>1. PICK rec : rec = [old EXCEPT !.start = clock]
        OBVIOUS
      <4>2. rec \in Record /\ rec.name = old.name
        BY <2>3, <4>1 DEF Record
      <4> QED  BY <2>2, <3>2, <4>1, <4>2 DEF CallStart
    <3>3. CASE ReturnAccum(t)
      <4>1. PICK rec : rec = [old EXCEPT !.time = (@ + clock) - nodes[t][cur[t]].start]
        OBVIOUS
      <4>2. nodes[t][cur[t]].start \in Nat /\ nodes[t][cur[t]].start <= clock
        BY <1>I, <2>3 DEF TimeInv, NodeInfo
      <4>3. (old.time + clock) - nodes[t][cur[t]].start \in Nat
        BY <2>3, <4>2, SMTT(30) DEF Record
      <4>4. rec \in Record /\ rec.name = old.name
        BY <2>3, <4>1, <4>3 DEF Record
      <4> QED  BY <2>2, <3>3, <4>1, <4>4 DEF ReturnAccum
    <3> QED  BY <1>5, <3>1, <3>2, <3>3
  <2>5. \A b \in Buffers :
          /\ Len(bufs'[b].slots) = Len(bufs[b].slots)
          /\ \A i \in 1 .. Len(bufs[b].slots) : bufs'[b].slots[i].name = bufs[b].slots[i].name
    BY <1>4, <2>1, <2>2, <2>4
  <2>6. \A u \in Threads :
          /\ Len(nodes'[u]) = Len(nodes[u])
          /\ \A m \in 1 .. Len(nodes[u]) : nodes'[u][m].name = nodes[u][m].name
    <3>1. CASE CallStart(t)
      <4>1. PICK n, new : n = cur[t] /\ new = [nodes[t][n] EXCEPT !.start = clock]
        OBVIOUS
      <4>2. nodes' = [nodes EXCEPT ![t][n] = new]
        BY <1>T, <3>1, <4>1 DEF CallStart
      <4>3. new \in NodeInfo /\ new.name = nodes[t][n].name
        BY <2>3, <4>1 DEF NodeInfo
      <4>4. /\ Len(nodes'[t]) = Len(nodes[t]) /\ nodes'[t][n] = new
            /\ \A m \in 1 .. Len(nodes[t]) : m # n => nodes'[t][m] = nodes[t][m]
        BY <1>T, <2>3, <4>1, <4>2, <4>3, NodesExcept
      <4>5. \A u \in Threads \ {t} : nodes'[u] = nodes[u]
        BY <1>T, <4>2
      <4> QED  BY <4>3, <4>4, <4>5
    <3>2. CASE CallCount(t) \/ ReturnAccum(t)
      BY <3>2 DEF CallCount, ReturnAccum
    <3> QED  BY <1>5, <3>1, <3>2
  <2> QED  BY <1>1, <2>1, <2>5, <2>6
<1>6. ASSUME NEW s \in Senders, FinishSwap(s) PROVE NamedInv'
  <2>1. PICK t : t = Target(s)
    OBVIOUS
  <2>2. t \in Threads
    BY <1>I, <2>1, ElementOfSeq DEF TypeOK, LockInv, Target
  <2>3. front[t] \in Buffers
    BY <1>I, <2>2 DEF TypeOK
  <2>4. /\ bufs' = [bufs EXCEPT ![front[t]] = ResetBuffer(@)]
        /\ nodes' = nodes /\ nameTable' = nameTable
    BY <1>6, <2>1 DEF FinishSwap
  <2>5. \A b \in Buffers : bufs'[b].slots = bufs[b].slots
    BY <1>T, <2>3, <2>4 DEF ResetBuffer, RecordBuffer
  <2> QED  BY <1>1, <2>4, <2>5
<1>7. ASSUME NEW t \in Threads, CallRecord(t) \/ ReturnRecord(t) PROVE NamedInv'
  BY <1>3, <1>7 DEF CallRecord, ReturnRecord
<1>8. ASSUME UNCHANGED <<nodes, bufs, nameTable>> PROVE NamedInv'
  BY <1>1, <1>8
<1>9. ASSUME NEW t \in Threads, Attach(t) \/ ReturnEnter(t) \/ ReturnPop(t) PROVE UNCHANGED <<nodes, bufs, nameTable>>
  BY <1>9 DEF Attach, ReturnEnter, ReturnPop
<1>10. ASSUME NEW s \in Senders,
              Connect(s) \/ Drop(s) \/ ReqProfileData(s) \/ LockAndSwap(s)
              \/ TakeBuffer(s) \/ SendProfileData(s) \/ SendNowInfo(s)
       PROVE  UNCHANGED <<nodes, bufs, nameTable>>
  BY <1>10 DEF Connect, Drop, ReqProfileData, LockAndSwap, TakeBuffer, SendProfileData, SendNowInfo
<1>11. ASSUME Tick \/ UNCHANGED vars PROVE UNCHANGED <<nodes, bufs, nameTable>>
  BY <1>11 DEF Tick, vars
<1> QED  BY <1>2, <1>5, <1>6, <1>7, <1>8, <1>9, <1>10, <1>11 DEF Next


\* get_current_node_info_pair marks the current node and no other.
LEMMA PairMarks ==
  ASSUME TypeOK, TreeInv, NEW t \in Threads, GetCurrentNodeInfoPair(t)
  PROVE  /\ \A u \in Threads : Len(nodes'[u]) = Len(nodes[u])
         /\ \A u \in Threads \ {t} : nodes'[u] = nodes[u]
         /\ \A m \in 1 .. Len(nodes[t]) : m # cur[t] => nodes'[t][m].gen = nodes[t][m].gen
<1>1. /\ nodes \in [Threads -> Seq(NodeInfo)] /\ gen[t] \in Nat /\ cur[t] \in 1 .. Len(nodes[t])
  BY CursorInRange DEF TypeOK
<1>2. CASE nodes' = nodes
  BY <1>2
<1>3. CASE nodes' # nodes
  <2>1. PICK n, info, sidx :
          /\ n = cur[t] /\ info = [nodes[t][n] EXCEPT !.sidx = sidx, !.gen = gen[t]]
          /\ nodes' = [nodes EXCEPT ![t][n] = info]
    BY <1>3 DEF GetCurrentNodeInfoPair
  <2>2. PICK nd : nd = [nodes[t] EXCEPT ![n] = info]
    OBVIOUS
  <2>3. nodes'[t] = nd /\ \A u \in Threads \ {t} : nodes'[u] = nodes[u]
    BY <1>1, <2>1, <2>2
  <2>4. nodes[t] \in Seq(NodeInfo)
    BY <1>1
  <2>5. Len(nd) = Len(nodes[t]) /\ \A m \in 1 .. Len(nodes[t]) : m # n => nd[m] = nodes[t][m]
    BY <1>1, <2>1, <2>2, <2>4, LenProperties
  <2> QED  BY <2>1, <2>3, <2>5
<1> QED  BY <1>2, <1>3

\* The callers of one thread stay recorded when nothing is unmarked.
LEMMA RecordedFrame ==
  ASSUME NEW p, NEW st, NEW nd, NEW p2, NEW st2, NEW nd2, Recorded(p, st, nd),
         Len(st) \in Nat, Len(st2) \in Nat, Len(st2) <= Len(st), Len(nd) \in Nat,
         \A i \in 1 .. Len(st2) : st2[i].node = st[i].node /\ st[i].node \in 1 .. Len(nd),
         p = "record" => p2 = "record" /\ Len(st2) = Len(st),
         \A n \in 1 .. Len(nd) : nd[n].gen # 0 => nd2[n].gen # 0
  PROVE  Recorded(p2, st2, nd2)
<1> SUFFICES ASSUME NEW i \in 1 .. Len(st2), i < Len(st2) \/ p2 # "record"
             PROVE  nd2[st2[i].node].gen # 0
  BY DEF Recorded
<1>1. i \in 1 .. Len(st) /\ (i < Len(st) \/ p # "record")
  OBVIOUS
<1>2. nd[st[i].node].gen # 0 /\ st[i].node \in 1 .. Len(nd)
  BY <1>1 DEF Recorded
<1> QED  BY <1>2

LEMMA CallersStep ==
  ASSUME OneSender, RInv, CallersInv, [Next]_vars
  PROVE  CallersInv'
<1> USE DEF listVars, treeVars, bufferVars, hookVars, sendVars, linkVars
<1>I. /\ TypeOK /\ LockInv /\ BufferInv /\ TreeInv /\ LiveInv /\ CacheInv /\ TimeInv
      /\ FiledInv
  BY DEF RInv, IInv
<1>P. pc \in [Threads -> HookPcs]
  BY <1>I DEF TypeOK
<1>T. \A u \in Threads : /\ Len(nodes[u]) \in Nat /\ Len(stack[u]) \in Nat
                         /\ \A i \in 1 .. Len(stack[u]) : stack[u][i].node \in 1 .. Len(nodes[u])
  <2>1. \A u \in Threads : \A i \in 1 .. Len(stack[u]) :
          stack[u][i].node \in (Root + 1) .. Len(nodes[u])
    BY <1>I DEF TreeInv, CursorFollowsStack
  <2>2. \A u \in Threads : Len(nodes[u]) \in Nat /\ Len(stack[u]) \in Nat
    BY <1>I, LenProperties DEF TypeOK
  <2>3. \A k \in Nat : (Root + 1) .. k \subseteq 1 .. k
    BY DEF Root
  <2> QED  BY <2>1, <2>2, <2>3
<1>G. (\A u \in Threads : Recorded(pc'[u], stack'[u], nodes'[u])) => CallersInv'
  BY DEF CallersInv, Recorded
<1>F. \A u \in Threads : Recorded(pc[u], stack[u], nodes[u])
  BY DEF CallersInv
<1>1. ASSUME NEW u \in Threads, UNCHANGED <<pc[u], stack[u], nodes[u]>>
      PROVE  Recorded(pc'[u], stack'[u], nodes'[u])
  BY <1>1, <1>F
<1>2. ASSUME NEW t \in Threads, NEW name \in Names, CallEnter(t, name) PROVE CallersInv'
  <2>1. /\ \A u \in Threads \ {t} : nodes'[u] = nodes[u]
        /\ \A n \in 1 .. Len(nodes[t]) : nodes'[t][n] = nodes[t][n]
    BY <1>I, <1>2, EnterFacts
  <2>2. /\ Len(stack'[t]) = Len(stack[t]) + 1 /\ Len(stack[t]) \in Nat
        /\ \A i \in 1 .. Len(stack[t]) : stack'[t][i] = stack[t][i]
        /\ \A u \in Threads \ {t} : stack'[u] = stack[u]
    BY <1>I, <1>2, PushFacts
  <2>3. /\ pc[t] = "run" /\ pc'[t] = "record"
        /\ \A u \in Threads \ {t} : pc'[u] = pc[u]
    BY <1>2, <1>P DEF CallEnter, EnterHook
  <2>4. Recorded(pc'[t], stack'[t], nodes'[t])
    <3> SUFFICES ASSUME NEW i \in 1 .. Len(stack'[t]), i < Len(stack'[t])
                 PROVE  nodes'[t][stack'[t][i].node].gen # 0
      BY <2>3 DEF Recorded
    <3>1. i \in 1 .. Len(stack[t])
      BY <2>2
    <3>2. nodes[t][stack[t][i].node].gen # 0
      BY <1>F, <2>3, <3>1 DEF Recorded
    <3>3. stack'[t][i] = stack[t][i] /\ stack[t][i].node \in 1 .. Len(nodes[t])
      BY <1>T, <2>2, <3>1
    <3> QED  BY <2>1, <3>2, <3>3
  <2>5. \A u \in Threads \ {t} : Recorded(pc'[u], stack'[u], nodes'[u])
    BY <1>1, <2>1, <2>2, <2>3
  <2> QED  BY <1>G, <2>4, <2>5
<1>3. ASSUME NEW t \in Threads, CallRecord(t) \/ ReturnRecord(t) PROVE CallersInv'
  <2>1. stack' = stack /\ GetCurrentNodeInfoPair(t) /\ cur[t] # Root
    BY <1>3, <1>I DEF CallRecord, ReturnRecord, LiveInv
  <2>2. Swapping(t) = {}
    BY <1>I, <2>1, UnlockedNotSwapping DEF GetCurrentNodeInfoPair
  <2>3. /\ \A u \in Threads : Len(nodes'[u]) = Len(nodes[u])
        /\ \A u \in Threads \ {t} : nodes'[u] = nodes[u]
        /\ \A m \in 1 .. Len(nodes[t]) : m # cur[t] => nodes'[t][m].gen = nodes[t][m].gen
    BY <1>I, <2>1, PairMarks
  <2>4. nodes'[t][cur[t]].gen # 0
    <3>1. HomeBuffer(t) = front[t]
      BY <2>2, Places DEF Swapping
    <3>2. FiledIn(bufs[front[t]], nodes[t], gen[t])
      BY <1>I, <3>1 DEF FiledInv
    <3>3. nodes'[t][cur[t]].gen = gen[t]
      BY <1>I, <2>1, <2>2, <3>2, PairAdds
    <3> QED  BY <1>I, <3>3 DEF CacheInv
  <2>5. \A u \in Threads \ {t} : pc'[u] = pc[u]
    BY <1>3, <1>P DEF CallRecord, ReturnRecord, EnterHook
  <2>6. pc[t] = "record" \/ \A i \in 1 .. Len(stack[t]) : nodes[t][stack[t][i].node].gen # 0
    BY <1>F DEF Recorded
  <2>7. Len(stack[t]) \in Nat \ {0} /\ stack[t][Len(stack[t])].node = cur[t]
    BY <1>I, <2>1, TopOfStack
  <2>8. ASSUME NEW i \in 1 .. Len(stack[t]) PROVE nodes'[t][stack[t][i].node].gen # 0
    <3>1. CASE stack[t][i].node = cur[t]
      BY <2>4, <3>1
    <3>2. CASE stack[t][i].node # cur[t]
      <4>1. i < Len(stack[t])
        BY <2>7, <2>8, <3>2
      <4>2. nodes[t][stack[t][i].node].gen # 0
        BY <1>F, <2>8, <4>1 DEF Recorded
      <4> QED  BY <1>T, <2>3, <2>8, <3>2, <4>2
    <3> QED  BY <3>1, <3>2
  <2>9. Recorded(pc'[t], stack'[t], nodes'[t])
    BY <2>1, <2>8 DEF Recorded
  <2>10. \A u \in Threads \ {t} : Recorded(pc'[u], stack'[u], nodes'[u])
    BY <1>1, <2>1, <2>3, <2>5
  <2> QED  BY <1>G, <2>9, <2>10
<1>4. ASSUME NEW t \in Threads, CallStart(t) PROVE CallersInv'
  <2>1. \A u \in Threads :
              /\ Len(nodes'[u]) = Len(nodes[u]) /\ Len(stack'[u]) = Len(stack[u])
              /\ \A m \in 1 .. Len(nodes[u]) : nodes'[u][m].gen = nodes[u][m].gen
              /\ \A i \in 1 .. Len(stack[u]) : stack'[u][i].node = stack[u][i].node
    BY <1>I, <1>4, StartFacts
  <2>2. pc[t] = "start" /\ \A u \in Threads \ {t} : pc'[u] = pc[u]
    BY <1>4, <1>P DEF CallStart, LeaveHook
  <2>3. ASSUME NEW u \in Threads PROVE Recorded(pc'[u], stack'[u], nodes'[u])
    <3>1. pc[u] = "record" => pc'[u] = "record" /\ Len(stack'[u]) = Len(stack[u])
      BY <2>1, <2>2
    <3>2. \A i \in 1 .. Len(stack'[u]) : stack'[u][i].node = stack[u][i].node
                                         /\ stack[u][i].node \in 1 .. Len(nodes[u])
      BY <1>T, <2>1
    <3>3. Len(stack[u]) \in Nat /\ Len(stack'[u]) \in Nat /\ Len(stack'[u]) <= Len(stack[u])
          /\ Len(nodes[u]) \in Nat
      BY <1>T, <2>1
    <3>4. \A n \in 1 .. Len(nodes[u]) : nodes[u][n].gen # 0 => nodes'[u][n].gen # 0
      BY <2>1
    <3> QED  BY <1>F, <3>1, <3>2, <3>3, <3>4, RecordedFrame
  <2> QED  BY <1>G, <2>3
<1>5. ASSUME NEW t \in Threads, ReturnPop(t) PROVE CallersInv'
  <2>1. /\ Len(stack'[t]) = Len(stack[t]) - 1 /\ Len(stack[t]) \in Nat \ {0}
        /\ \A i \in 1 .. Len(stack'[t]) : stack'[t][i] = stack[t][i]
        /\ \A u \in Threads \ {t} : stack'[u] = stack[u]
    BY <1>I, <1>5, PopFacts
  <2>2. nodes' = nodes /\ pc[t] = "pop" /\ \A u \in Threads \ {t} : pc'[u] = pc[u]
    BY <1>5, <1>P DEF ReturnPop, LeaveHook
  <2>3. \A i \in 1 .. Len(stack'[t]) : stack'[t][i].node = stack[t][i].node
                                       /\ stack[t][i].node \in 1 .. Len(nodes[t])
    <3>1. \A i \in 1 .. Len(stack'[t]) : i \in 1 .. Len(stack[t])
      BY <2>1
    <3> QED  BY <1>T, <2>1, <3>1
  <2>4. Len(stack[t]) \in Nat /\ Len(stack'[t]) \in Nat /\ Len(stack'[t]) <= Len(stack[t])
        /\ Len(nodes[t]) \in Nat
    BY <1>T, <2>1
  <2>5. \A n \in 1 .. Len(nodes[t]) : nodes[t][n].gen # 0 => nodes'[t][n].gen # 0
    BY <2>2
  <2>6. pc[t] = "record" => pc'[t] = "record" /\ Len(stack'[t]) = Len(stack[t])
    BY <2>2
  <2>7. Recorded(pc'[t], stack'[t], nodes'[t])
    BY <1>F, <2>3, <2>4, <2>5, <2>6, RecordedFrame
  <2>8. \A u \in Threads \ {t} : Recorded(pc'[u], stack'[u], nodes'[u])
    BY <1>1, <2>1, <2>2
  <2> QED  BY <1>G, <2>7, <2>8
<1>6. ASSUME NEW t \in Threads, CallCount(t) \/ ReturnEnter(t) \/ ReturnAccum(t)
      PROVE  CallersInv'
  <2>1. UNCHANGED <<nodes, stack>>
    BY <1>6 DEF CallCount, ReturnEnter, ReturnAccum
  <2>2. \A u \in Threads : pc[u] = "record" => pc'[u] = "record"
    BY <1>6, <1>P DEF CallCount, ReturnEnter, EnterHook, ReturnAccum
  <2>3. ASSUME NEW u \in Threads PROVE Recorded(pc'[u], stack'[u], nodes'[u])
    BY <1>F, <2>1, <2>2 DEF Recorded
  <2> QED  BY <1>G, <2>3
<1>7. ASSUME UNCHANGED <<nodes, stack, pc>> PROVE CallersInv'
  BY <1>7, <1>F, <1>G
<1>8. ASSUME NEW t \in Threads, Attach(t) PROVE  CallersInv'
  BY <1>7, <1>8 DEF Attach
<1>9. ASSUME NEW s \in Senders,
              Connect(s) \/ Drop(s) \/ ReqProfileData(s) \/ LockAndSwap(s) \/ FinishSwap(s)
              \/ TakeBuffer(s) \/ SendProfileData(s) \/ SendNowInfo(s)
       PROVE  CallersInv'
  BY <1>7, <1>9 DEF Connect, Drop, ReqProfileData, LockAndSwap, FinishSwap,
                     TakeBuffer, SendProfileData, SendNowInfo
<1>10. CASE Tick \/ UNCHANGED vars
  BY <1>7, <1>10 DEF Tick, vars
<1> QED  BY <1>2, <1>3, <1>4, <1>5, <1>6, <1>8, <1>9, <1>10 DEF Next

\* Only a lost connection makes the count of them other than 0.
LEMMA FirstStep ==
  ASSUME OneSender, RInv, FirstInv, [Next]_vars
  PROVE  FirstInv' /\ (drops' = 0 => drops = 0 /\ \A s \in Senders : ~Drop(s))
<1> USE DEF listVars, treeVars, bufferVars, hookVars, sendVars, linkVars
<1>I. TypeOK
  BY DEF RInv, IInv
<1>T. /\ drops \in Nat /\ up \in [Senders -> BOOLEAN] /\ spc \in [Senders -> SendPcs]
      /\ seen \in [Senders -> [Threads -> SUBSET Nat]]
  BY <1>I DEF TypeOK
<1> DEFINE First == \A s \in Senders :
                      ~up'[s] => spc'[s] = "wait" /\ \A t \in Threads : seen'[s][t] = {}
           Good == FirstInv' /\ (drops' = 0 => drops = 0 /\ \A s \in Senders : ~Drop(s))
<1>N. ASSUME NEW s \in Senders, Drop(s) PROVE drops' # 0
  BY <1>N, <1>T DEF Drop
<1>0. ASSUME drops' = drops, drops = 0 => First PROVE Good
  <2>1. FirstInv'
    BY <1>0 DEF FirstInv
  <2>2. drops' = 0 => drops = 0 /\ \A s \in Senders : ~Drop(s)
    BY <1>0, <1>N
  <2> QED  BY <2>1, <2>2
<1>1. ASSUME UNCHANGED <<drops, up, spc, seen>> PROVE Good
  <2>1. drops = 0 => First
    BY <1>1 DEF FirstInv
  <2> QED  BY <1>0, <1>1, <2>1
<1>2. ASSUME NEW s \in Senders, Connect(s) PROVE Good
  <2>1. drops' = drops /\ up'[s] = TRUE
    BY <1>2, <1>T DEF Connect
  <2>2. First
    BY <2>1 DEF OneSender
  <2> HIDE DEF First, Good
  <2> QED  BY <1>0, <2>1, <2>2
<1>3. ASSUME NEW s \in Senders, Drop(s) PROVE Good
  BY <1>3, <1>N DEF FirstInv
<1>4. ASSUME NEW s \in Senders,
             ReqProfileData(s) \/ LockAndSwap(s) \/ FinishSwap(s)
              \/ TakeBuffer(s) \/ SendProfileData(s) \/ SendNowInfo(s)
      PROVE  Good
  <2>1. UNCHANGED <<drops, up>> /\ (up[s] \/ spc[s] # "wait")
    BY <1>4 DEF ReqProfileData, LockAndSwap, FinishSwap, TakeBuffer, SendProfileData, SendNowInfo
  <2>2. drops = 0 => up[s]
    BY <2>1 DEF FirstInv
  <2>3. drops = 0 => First
    BY <2>1, <2>2 DEF OneSender
  <2> HIDE DEF First, Good
  <2> QED  BY <1>0, <2>1, <2>3
<1>5. ASSUME NEW t \in Threads,
             \/ Attach(t) \/ Hook(t) \/ ReturnEnter(t)
             \/ \E name \in Names : CallEnter(t, name)
      PROVE  UNCHANGED <<drops, up, spc, seen>>
  BY <1>5 DEF Attach, Hook, CallEnter, CallRecord, CallCount, CallStart, ReturnEnter, ReturnRecord,
              ReturnAccum, ReturnPop
<1>6. ASSUME Tick \/ UNCHANGED vars PROVE UNCHANGED <<drops, up, spc, seen>>
  BY <1>6 DEF Tick, vars
<1> HIDE DEF Good
<1>7. Good
  BY <1>1, <1>2, <1>3, <1>4, <1>5, <1>6 DEF Next, Hook
<1> QED  BY <1>7 DEF Good

\* A buffer stays in order when it keeps its records and more is known.
LEMMA OrderedFrame ==
  ASSUME NEW buf, NEW buf2, NEW known, NEW known2, Ordered(buf, known),
         buf.size \in Nat, buf2.size = buf.size, known \subseteq known2,
         \A i \in 1 .. buf.size : /\ buf2.slots[i].node = buf.slots[i].node
                                  /\ buf2.slots[i].parent = buf.slots[i].parent
  PROVE  Ordered(buf2, known2) /\ Told(buf2) = Told(buf)
<1>1. Told(buf2) = Told(buf)
  BY DEF Told
<1>2. ASSUME NEW i \in 1 .. buf2.size
      PROVE  \/ buf2.slots[i].parent \in known2
             \/ \E j \in 1 .. (i - 1) : buf2.slots[j].node = buf2.slots[i].parent
  <2>1. CASE buf.slots[i].parent \in known
    BY <1>2, <2>1
  <2>2. CASE \E j \in 1 .. (i - 1) : buf.slots[j].node = buf.slots[i].parent
    <3>1. PICK j \in 1 .. (i - 1) : buf.slots[j].node = buf.slots[i].parent
      BY <2>2
    <3>2. j \in 1 .. buf.size
      BY <1>2, <3>1
    <3> QED  BY <1>2, <3>1, <3>2
  <2> QED  BY <1>2, <2>1, <2>2 DEF Ordered
<1> QED  BY <1>1, <1>2 DEF Ordered

LEMMA EmptyOrdered == \A buf, known : buf.size = 0 => Ordered(buf, known) /\ Told(buf) = {}
BY DEF Ordered, Told

\* A record is added whose parent is known or in the buffer.
LEMMA OrderedGrown ==
  ASSUME NEW buf, NEW buf2, NEW known, Ordered(buf, known), buf.size \in Nat,
         buf2.size = buf.size + 1,
         \A i \in 1 .. buf.size : buf2.slots[i] = buf.slots[i],
         buf2.slots[buf.size + 1].parent \in known \cup Told(buf)
  PROVE  Ordered(buf2, known) /\ Told(buf2) = Told(buf) \cup {buf2.slots[buf.size + 1].node}
<1>1. 1 .. buf2.size = (1 .. buf.size) \cup {buf.size + 1}
  OBVIOUS
<1>2. Told(buf2) = Told(buf) \cup {buf2.slots[buf.size + 1].node}
  <2>1. ASSUME NEW x PROVE x \in Told(buf2) <=> x \in Told(buf) \cup {buf2.slots[buf.size + 1].node}
    BY <1>1 DEF Told
  <2> QED  BY <2>1
<1>3. ASSUME NEW i \in 1 .. buf2.size
      PROVE  \/ buf2.slots[i].parent \in known
             \/ \E j \in 1 .. (i - 1) : buf2.slots[j].node = buf2.slots[i].parent
  <2>1. CASE i \in 1 .. buf.size
    <3>1. CASE buf.slots[i].parent \in known
      BY <2>1, <3>1
    <3>2. CASE \E j \in 1 .. (i - 1) : buf.slots[j].node = buf.slots[i].parent
      <4>1. PICK j \in 1 .. (i - 1) : buf.slots[j].node = buf.slots[i].parent
        BY <3>2
      <4>2. j \in 1 .. buf.size
        BY <2>1, <4>1
      <4> QED  BY <2>1, <4>1, <4>2
    <3> QED  BY <2>1, <3>1, <3>2 DEF Ordered
  <2>2. CASE i = buf.size + 1
    <3>1. CASE buf2.slots[buf.size + 1].parent \in known
      BY <2>2, <3>1
    <3>2. CASE buf2.slots[buf.size + 1].parent \in Told(buf)
      <4>1. PICK j \in 1 .. buf.size : buf.slots[j].node = buf2.slots[buf.size + 1].parent
        BY <3>2 DEF Told
      <4>2. j \in 1 .. (i - 1)
        BY <2>2, <4>1
      <4> QED  BY <2>2, <4>1, <4>2
    <3> QED  BY <3>1, <3>2
  <2> QED  BY <1>1, <2>1, <2>2
<1> QED  BY <1>2, <1>3 DEF Ordered

\* What a monitor knows, by whether something is on the way to it.
LEMMA KnownFacts ==
  ASSUME NEW s \in Senders, NEW t \in Threads
  PROVE  /\ s \in InTransit(t) => Known(s, t) = (seen[s][t] \cup {Root}) \cup Told(bufs[tmp[s]])
         /\ s \notin InTransit(t) => Known(s, t) = seen[s][t] \cup {Root}
BY DEF Known

LEMMA KnownNext ==
  ASSUME NEW s \in Senders, NEW t \in Threads
  PROVE  /\ s \in InTransit(t)' =>
              Known(s, t)' = (seen'[s][t] \cup {Root}) \cup Told(bufs'[tmp'[s]])
         /\ s \notin InTransit(t)' => Known(s, t)' = seen'[s][t] \cup {Root}
BY DEF Known, Told

\* The next state's order, with the parts of the state as they are named here.
LEMMA ComesNext ==
  ASSUME NEW s \in Senders, NEW t \in Threads, NEW home, HomeBuffer(t)' = home,
         NEW known, known = Known(s, t)',
         Ordered(bufs'[home], known),
         s \in InTransit(t)' => Ordered(bufs'[tmp'[s]], seen'[s][t] \cup {Root}),
         Complete(nodes'[t], known \cup Told(bufs'[home]))
  PROVE  ComesInOrder(s, t)'
<1>1. Ordered(bufs[HomeBuffer(t)], Known(s, t))'
  BY DEF Ordered
<1>2. (s \in InTransit(t) => Ordered(bufs[tmp[s]], seen[s][t] \cup {Root}))'
  BY DEF Ordered
<1>3. Complete(nodes[t], Known(s, t) \cup Told(bufs[HomeBuffer(t)]))'
  BY DEF Complete, Told
<1> QED  BY <1>1, <1>2, <1>3 DEF ComesInOrder

\* A step that files, drains and sends nothing keeps the order.
LEMMA ComesFrame ==
  ASSUME NEW s \in Senders, NEW t \in Threads, ComesInOrder(s, t),
         HomeBuffer(t) \in Buffers, tmp[s] \in Buffers,
         \A b \in Buffers : bufs[b].size \in Nat,
         HomeBuffer(t)' = HomeBuffer(t), InTransit(t)' = InTransit(t),
         s \in InTransit(t) => tmp'[s] = tmp[s],
         seen'[s][t] = seen[s][t],
         \A b \in {HomeBuffer(t), tmp[s]} :
           /\ bufs'[b].size = bufs[b].size
           /\ \A i \in 1 .. bufs[b].size :
                /\ bufs'[b].slots[i].node = bufs[b].slots[i].node
                /\ bufs'[b].slots[i].parent = bufs[b].slots[i].parent,
         \A n \in 1 .. Len(nodes'[t]) :
           nodes'[t][n].gen # 0 => n \in 1 .. Len(nodes[t]) /\ nodes[t][n].gen # 0
  PROVE  ComesInOrder(s, t)'
<1>1. PICK home, dep, sn, known :
        /\ home = HomeBuffer(t) /\ dep = tmp[s] /\ sn = seen[s][t] \cup {Root}
        /\ known = Known(s, t)
  OBVIOUS
<1>2. /\ Ordered(bufs[home], known)
      /\ s \in InTransit(t) => Ordered(bufs[dep], sn)
      /\ Complete(nodes[t], known \cup Told(bufs[home]))
  BY <1>1 DEF ComesInOrder
<1>3. Ordered(bufs'[home], known) /\ Told(bufs'[home]) = Told(bufs[home])
  BY <1>1, <1>2, OrderedFrame
<1>4. s \in InTransit(t) => Ordered(bufs'[dep], sn) /\ Told(bufs'[dep]) = Told(bufs[dep])
  <2> SUFFICES ASSUME s \in InTransit(t)
               PROVE  Ordered(bufs'[dep], sn) /\ Told(bufs'[dep]) = Told(bufs[dep])
    OBVIOUS
  <2>1. PICK buf, buf2 : buf = bufs[dep] /\ buf2 = bufs'[dep]
    OBVIOUS
  <2>2. /\ Ordered(buf, sn) /\ buf.size \in Nat /\ buf2.size = buf.size
        /\ \A i \in 1 .. buf.size : /\ buf2.slots[i].node = buf.slots[i].node
                                   /\ buf2.slots[i].parent = buf.slots[i].parent
    BY <1>1, <1>2, <2>1
  <2>3. Ordered(buf2, sn) /\ Told(buf2) = Told(buf)
    BY <2>2, OrderedFrame
  <2> QED  BY <2>1, <2>3
<1>5. known = Known(s, t)'
  <2>1. CASE s \in InTransit(t)
    <3>1. known = sn \cup Told(bufs[dep])
      BY <1>1, <2>1, KnownFacts
    <3>2. Known(s, t)' = (seen'[s][t] \cup {Root}) \cup Told(bufs'[tmp'[s]])
      BY <2>1, KnownNext
    <3> QED  BY <1>1, <1>4, <2>1, <3>1, <3>2, Zenon
  <2>2. CASE s \notin InTransit(t)
    <3>1. known = sn
      BY <1>1, <2>2, KnownFacts
    <3>2. Known(s, t)' = seen'[s][t] \cup {Root}
      BY <2>2, KnownNext
    <3> QED  BY <1>1, <3>1, <3>2, Zenon
  <2> QED  BY <2>1, <2>2
<1>6. Complete(nodes'[t], known \cup Told(bufs'[home]))
  BY <1>2, <1>3 DEF Complete
<1> QED  BY <1>1, <1>3, <1>4, <1>5, <1>6, ComesNext

LEMMA OrderPair ==
  ASSUME OneSender, RInv, OrderInv, CallersInv, NEW t \in Threads,
         CallRecord(t) \/ ReturnRecord(t), [Next]_vars
  PROVE  OrderInv'
<1> USE DEF listVars, treeVars, bufferVars, hookVars, sendVars, linkVars
<1>I. /\ TypeOK /\ LockInv /\ BufferInv /\ TreeInv /\ LiveInv /\ CacheInv /\ TimeInv
      /\ FiledInv
  BY DEF RInv, IInv
<1>1. /\ GetCurrentNodeInfoPair(t) /\ cur[t] # Root
      /\ UNCHANGED <<gen, spc, tmp, seen, drops, front>>
  BY <1>I DEF CallRecord, ReturnRecord, LiveInv
<1>2. Swapping(t) = {}
  BY <1>I, <1>1, UnlockedNotSwapping DEF GetCurrentNodeInfoPair
<1>3. HomeBuffer(t) = front[t] /\ front[t] \in Buffers
  BY <1>I, <1>2, Places DEF Swapping, TypeOK
<1>4. FiledIn(bufs[front[t]], nodes[t], gen[t])
  BY <1>I, <1>3 DEF FiledInv
<1>5. \A u \in Threads : /\ HomeBuffer(u)' = HomeBuffer(u) /\ InTransit(u)' = InTransit(u)
                         /\ \A s \in InTransit(u) : tmp'[s] = tmp[s]
  <2>1. \A s \in Senders : ~FinishSwap(s) /\ ~SendProfileData(s)
    BY <1>I, <1>1 DEF FinishSwap, SendProfileData, TypeOK
  <2> QED  BY <1>I, <2>1, Stay
<1>6. /\ PairNodes(t) /\ PairBuffers(t) /\ PairSinfo(t)
  BY <1>I, <1>1, <1>2, PairFacts
<1>7. /\ \A u \in Threads : Len(nodes'[u]) = Len(nodes[u])
      /\ \A u \in Threads \ {t} : nodes'[u] = nodes[u]
      /\ \A m \in 1 .. Len(nodes[t]) : m # cur[t] => nodes'[t][m].gen = nodes[t][m].gen
  BY <1>I, <1>1, PairMarks
<1>8. \A b \in Buffers : b # front[t] => bufs'[b] = bufs[b]
  BY <1>6 DEF PairBuffers
<1>9. ASSUME NEW s \in Senders, NEW u \in Threads \ {t}, ComesInOrder(s, u)
      PROVE  ComesInOrder(s, u)'
  <2>1. HomeBuffer(u) \in Buffers /\ HomeBuffer(u) # front[t] /\ tmp[s] \in Buffers
    BY <1>I, <1>3, Apart DEF TypeOK
  <2>2. s \in InTransit(u) => tmp[s] # front[t]
    BY <1>I, <1>3, Apart
  <2>3. CASE s \in InTransit(u)
    <3>1. bufs'[HomeBuffer(u)] = bufs[HomeBuffer(u)] /\ bufs'[tmp[s]] = bufs[tmp[s]]
      BY <1>8, <2>1, <2>2, <2>3
    <3>2. HomeBuffer(u)' = HomeBuffer(u) /\ InTransit(u)' = InTransit(u) /\ tmp'[s] = tmp[s]
          /\ seen'[s][u] = seen[s][u] /\ nodes'[u] = nodes[u]
      BY <1>1, <1>5, <1>7
    <3>3. \A b \in Buffers : bufs[b].size \in Nat
      BY <1>I DEF TypeOK, RecordBuffer
    <3> QED  BY <1>9, <2>1, <3>1, <3>2, <3>3, ComesFrame
  <2>4. CASE s \notin InTransit(u)
    <3>1. PICK home, known : home = HomeBuffer(u) /\ known = Known(s, u)
      OBVIOUS
    <3>2. bufs'[home] = bufs[home] /\ HomeBuffer(u)' = home /\ s \notin InTransit(u)'
          /\ nodes'[u] = nodes[u]
      BY <1>5, <1>7, <1>8, <2>1, <2>4, <3>1
    <3>3. known = Known(s, u)'
      <4>1. known = seen[s][u] \cup {Root}
        BY <2>4, <3>1, KnownFacts
      <4>2. Known(s, u)' = seen'[s][u] \cup {Root}
        BY <3>2, KnownNext
      <4> QED  BY <1>1, <4>1, <4>2, Zenon
    <3>4. Ordered(bufs'[home], known) /\ Complete(nodes'[u], known \cup Told(bufs'[home]))
      BY <1>9, <3>1, <3>2 DEF ComesInOrder
    <3> QED  BY <3>2, <3>3, <3>4, ComesNext
  <2> QED  BY <2>3, <2>4
<1>10. ASSUME NEW s \in Senders, ComesInOrder(s, t) PROVE ComesInOrder(s, t)'
  <2>1. PICK home, dep, known :
          home = front[t] /\ dep = tmp[s] /\ known = Known(s, t)
    OBVIOUS
  <2>2. /\ home \in Buffers /\ HomeBuffer(t)' = home /\ dep \in Buffers
        /\ s \in InTransit(t) => dep # home
    BY <1>I, <1>3, <1>5, <2>1, Apart DEF TypeOK
  <2>3. /\ s \in InTransit(t)' <=> s \in InTransit(t)
        /\ s \in InTransit(t) => tmp'[s] = dep /\ bufs'[dep] = bufs[dep]
    BY <1>5, <1>8, <2>1, <2>2
  <2>4. known = Known(s, t)'
    <3>1. CASE s \in InTransit(t)
      <4>1. known = (seen[s][t] \cup {Root}) \cup Told(bufs[tmp[s]])
        BY <2>1, <3>1, KnownFacts
      <4>2. Known(s, t)' = (seen'[s][t] \cup {Root}) \cup Told(bufs'[tmp'[s]])
        BY <2>3, <3>1, KnownNext
      <4> QED  BY <1>1, <2>1, <2>3, <3>1, <4>1, <4>2, Zenon
    <3>2. CASE s \notin InTransit(t)
      <4>1. known = seen[s][t] \cup {Root}
        BY <2>1, <3>2, KnownFacts
      <4>2. Known(s, t)' = seen'[s][t] \cup {Root}
        BY <2>3, <3>2, KnownNext
      <4> QED  BY <1>1, <4>1, <4>2, Zenon
    <3> QED  BY <3>1, <3>2
  <2>5. s \in InTransit(t)' => Ordered(bufs'[tmp'[s]], seen'[s][t] \cup {Root})
    BY <1>1, <1>10, <2>1, <2>3 DEF ComesInOrder
  <2>6. Ordered(bufs[home], known) /\ Complete(nodes[t], known \cup Told(bufs[home]))
    BY <1>3, <1>10, <2>1 DEF ComesInOrder
  <2>7. PICK k : k = bufs[home].size
    OBVIOUS
  <2>8. k \in Nat
    BY <1>I, <2>2, <2>7 DEF TypeOK, RecordBuffer
  <2>9. /\ ptr'[t].buf = home
        /\ nodes'[t][cur[t]].gen = gen[t]
        /\ ptr'[t].slot = nodes'[t][cur[t]].sidx
        /\ FiledIn(bufs'[home], nodes'[t], gen[t])
        /\ \/ bufs' = bufs
           \/ /\ bufs'[home].size = k + 1
              /\ \A i \in 1 .. k : bufs'[home].slots[i] = bufs[home].slots[i]
              /\ bufs'[home].slots[k + 1].node = cur[t]
    BY <1>I, <1>1, <1>2, <1>4, <2>1, <2>7, PairAdds
  <2>10. cur[t] \in 1 .. Len(nodes[t]) /\ Len(nodes[t]) \in Nat
    BY <1>I, CursorInRange, LenProperties DEF TypeOK
  <2>11. nodes[t][cur[t]].parent \in known \cup Told(bufs[home])
    <3>1. Len(stack[t]) \in Nat \ {0} /\ stack[t][Len(stack[t])].node = cur[t]
      BY <1>I, <1>1, TopOfStack
    <3>2. PICK m \in Nat \ {0} : m = Len(stack[t])
      BY <3>1
    <3>5. \A i \in 1 .. m : nodes[t][stack[t][i].node].parent =
                              IF i = 1 THEN Root ELSE stack[t][i - 1].node
      BY <1>I, <3>2 DEF TreeInv, CursorFollowsStack
    <3>3. CASE m = 1
      <4>1. nodes[t][cur[t]].parent = Root
        BY <3>1, <3>2, <3>3, <3>5
      <4> QED  BY <2>1, <4>1 DEF Known
    <3>4. CASE m # 1
      <4>1. m - 1 \in 1 .. Len(stack[t]) /\ m - 1 < Len(stack[t]) /\ m \in 1 .. Len(stack[t])
        <5>1. m - 1 \in 1 .. m /\ m - 1 < m /\ m \in 1 .. m
          BY <3>4
        <5> QED  BY <3>2, <5>1
      <4>2. nodes[t][cur[t]].parent = stack[t][m - 1].node
        BY <3>1, <3>2, <3>4, <4>1, <3>5
      <4>3. nodes[t][stack[t][m - 1].node].gen # 0
        BY <4>1 DEF CallersInv, Recorded
      <4>4. stack[t][m - 1].node \in 1 .. Len(nodes[t])
        <5>1. stack[t][m - 1].node \in (Root + 1) .. Len(nodes[t])
          BY <1>I, <4>1 DEF TreeInv, CursorFollowsStack
        <5> QED  BY <5>1 DEF Root
      <4> QED  BY <2>6, <4>2, <4>3, <4>4 DEF Complete
    <3> QED  BY <3>3, <3>4
  <2>12. CASE bufs' = bufs
    <3>1. PICK i \in 1 .. k : bufs[home].slots[i].node = cur[t]
      <4>1. nodes'[t][cur[t]].gen = gen[t] /\ PairCached(t)
        BY <1>I, <1>1, <1>2, <2>9, PairFacts
      <4>2. /\ nodes'[t][cur[t]].sidx \in 1 .. bufs'[home].size
            /\ bufs'[home].slots[nodes'[t][cur[t]].sidx].node = cur[t]
        BY <2>1, <2>10, <4>1 DEF PairCached
      <4> QED  BY <2>7, <2>12, <4>2
    <3>2. cur[t] \in Told(bufs[home])
      BY <2>7, <3>1 DEF Told
    <3>3. Complete(nodes'[t], known \cup Told(bufs'[home]))
      <4>1. ASSUME NEW n \in 1 .. Len(nodes'[t]), nodes'[t][n].gen # 0
            PROVE  n \in known \cup Told(bufs'[home])
        <5>1. CASE n = cur[t]
          BY <2>12, <3>2, <5>1
        <5>2. CASE n # cur[t]
          <6>1. n \in 1 .. Len(nodes[t]) /\ nodes[t][n].gen # 0
            BY <1>7, <4>1, <5>2
          <6> QED  BY <2>6, <2>12, <6>1 DEF Complete
        <5> QED  BY <5>1, <5>2
      <4> QED  BY <4>1 DEF Complete
    <3> QED  BY <2>2, <2>4, <2>5, <2>6, <2>12, <3>3, ComesNext
  <2>13. CASE /\ bufs'[home].size = k + 1
              /\ \A i \in 1 .. k : bufs'[home].slots[i] = bufs[home].slots[i]
              /\ bufs'[home].slots[k + 1].node = cur[t]
    <3>1. nodes'[t][cur[t]].sidx = k + 1
      <4>1. k + 1 \in 1 .. bufs'[home].size
        BY <2>8, <2>13
      <4> QED  BY <2>9, <2>13, <4>1 DEF FiledIn
    <3>2. bufs'[home].slots[k + 1].parent = nodes[t][cur[t]].parent
      BY <1>6, <2>9, <3>1 DEF PairSinfo
    <3>3. /\ Ordered(bufs'[home], known)
          /\ Told(bufs'[home]) = Told(bufs[home]) \cup {cur[t]}
      <4>1. PICK buf, buf2 : buf = bufs[home] /\ buf2 = bufs'[home]
        OBVIOUS
      <4>2. /\ Ordered(buf, known) /\ buf.size \in Nat /\ buf2.size = buf.size + 1
            /\ \A i \in 1 .. buf.size : buf2.slots[i] = buf.slots[i]
            /\ buf2.slots[buf.size + 1].parent \in known \cup Told(buf)
        BY <2>6, <2>7, <2>8, <2>11, <2>13, <3>2, <4>1
      <4>3. Ordered(buf2, known) /\ Told(buf2) = Told(buf) \cup {buf2.slots[buf.size + 1].node}
        BY <4>2, OrderedGrown
      <4> QED  BY <2>7, <2>13, <4>1, <4>3
    <3>4. Complete(nodes'[t], known \cup Told(bufs'[home]))
      <4>1. ASSUME NEW n \in 1 .. Len(nodes'[t]), nodes'[t][n].gen # 0
            PROVE  n \in known \cup Told(bufs'[home])
        <5>1. CASE n = cur[t]
          BY <3>3, <5>1
        <5>2. CASE n # cur[t]
          <6>1. n \in 1 .. Len(nodes[t]) /\ nodes[t][n].gen # 0
            BY <1>7, <4>1, <5>2
          <6> QED  BY <2>6, <3>3, <6>1 DEF Complete
        <5> QED  BY <5>1, <5>2
      <4> QED  BY <4>1 DEF Complete
    <3> QED  BY <2>2, <2>4, <2>5, <3>3, <3>4, ComesNext
  <2> QED  BY <2>9, <2>12, <2>13
<1>11. ASSUME drops = 0, NEW s \in Senders, NEW u \in Threads PROVE ComesInOrder(s, u)'
  BY <1>9, <1>10, <1>11 DEF OrderInv
<1>12. drops' = drops
  BY <1>1
<1>13. (\A s \in Senders, u \in Threads : ComesInOrder(s, u)') \/ drops # 0
  BY <1>11
<1> HIDE DEF ComesInOrder
<1> QED  BY <1>12, <1>13 DEF OrderInv

\* The second half of a swap hands the live buffer over, in order.
LEMMA OrderSwap ==
  ASSUME OneSender, RInv, OrderInv, NEW s \in Senders, FinishSwap(s)
  PROVE  OrderInv'
<1>I. /\ TypeOK /\ LockInv /\ BufferInv /\ CacheInv
  BY DEF RInv, IInv
<1>0. PICK t : t = Target(s)
  OBVIOUS
<1>1. /\ t \in Threads /\ front[t] \in Buffers /\ tmp[s] \in Buffers
      /\ HomeBuffer(t) = tmp[s] /\ HomeBuffer(t)' = front[t]
      /\ \A u \in Threads \ {t} :
           /\ HomeBuffer(u) = front[u] /\ HomeBuffer(u)' = front[u]
           /\ front[u] # front[t] /\ front[u] # tmp[s] /\ InTransit(u)' = {}
      /\ front[t] # tmp[s] /\ InTransit(t)' = {s}
      /\ \A u \in Threads : InTransit(u) = {}
      /\ bufs'[front[t]].size = 0
      /\ \A b \in Buffers : b # front[t] => bufs'[b] = bufs[b]
      /\ UNCHANGED <<nodes, tmp>>
  BY <1>I, <1>0, SwapFacts
<1>2. seen' = seen /\ drops' = drops
  BY DEF FinishSwap, linkVars
<1>3. ASSUME ComesInOrder(s, t) PROVE ComesInOrder(s, t)'
  <2>1. PICK sn : sn = seen[s][t] \cup {Root}
    OBVIOUS
  <2>2. Known(s, t) = sn
    BY <1>1, <2>1, KnownFacts
  <2>3. Ordered(bufs[tmp[s]], sn) /\ Complete(nodes[t], sn \cup Told(bufs[tmp[s]]))
    BY <1>1, <1>3, <2>2 DEF ComesInOrder
  <2>4. PICK known : known = sn \cup Told(bufs[tmp[s]])
    OBVIOUS
  <2>5. bufs'[tmp'[s]] = bufs[tmp[s]]
    BY <1>1
  <2>6. Known(s, t)' = (seen'[s][t] \cup {Root}) \cup Told(bufs'[tmp'[s]])
    BY <1>1, KnownNext
  <2>7. known = Known(s, t)'
    BY <1>2, <2>1, <2>4, <2>5, <2>6, Zenon
  <2>8. PICK home : home = front[t]
    OBVIOUS
  <2>9. Ordered(bufs'[home], known) /\ Told(bufs'[home]) = {}
    BY <1>1, <2>8, EmptyOrdered
  <2>10. Ordered(bufs'[tmp'[s]], seen'[s][t] \cup {Root})
    BY <1>2, <2>1, <2>3, <2>5, Zenon
  <2>11. Complete(nodes'[t], known \cup Told(bufs'[home]))
    <3>1. known \cup Told(bufs'[home]) = sn \cup Told(bufs[tmp[s]])
      BY <2>4, <2>9
    <3> QED  BY <1>1, <2>3, <3>1
  <2> QED  BY <1>1, <2>7, <2>8, <2>9, <2>10, <2>11, ComesNext
<1>4. ASSUME NEW u \in Threads \ {t}, ComesInOrder(s, u) PROVE ComesInOrder(s, u)'
  <2>1. PICK home, known : home = front[u] /\ known = seen[s][u] \cup {Root}
    OBVIOUS
  <2>2. front[u] \in Buffers
    BY <1>I DEF TypeOK
  <2>3. HomeBuffer(u) = home /\ HomeBuffer(u)' = home /\ bufs'[home] = bufs[home]
        /\ s \notin InTransit(u) /\ s \notin InTransit(u)' /\ nodes' = nodes
    BY <1>1, <2>1, <2>2
  <2>4. Known(s, u) = known
    BY <2>1, <2>3, KnownFacts
  <2>5. Known(s, u)' = seen'[s][u] \cup {Root}
    BY <2>3, KnownNext
  <2>6. known = Known(s, u)'
    BY <1>2, <2>1, <2>5, Zenon
  <2>7. Ordered(bufs'[home], known) /\ Complete(nodes'[u], known \cup Told(bufs'[home]))
    BY <1>4, <2>3, <2>4 DEF ComesInOrder
  <2> QED  BY <2>3, <2>6, <2>7, ComesNext
<1>5. ASSUME drops = 0, NEW r \in Senders, NEW u \in Threads PROVE ComesInOrder(r, u)'
  <2>1. r = s
    BY DEF OneSender
  <2>2. ComesInOrder(s, u)
    BY <1>5 DEF OrderInv
  <2> QED  BY <1>3, <1>4, <2>1, <2>2
<1> QED  BY <1>2, <1>5 DEF OrderInv

\* What is sent is known: the monitor is there.
LEMMA OrderSend ==
  ASSUME OneSender, RInv, OrderInv, FirstInv, NEW s \in Senders, SendProfileData(s)
  PROVE  OrderInv'
<1> USE DEF listVars, treeVars, bufferVars, hookVars, sendVars, linkVars
<1>I. /\ TypeOK /\ LockInv /\ BufferInv
  BY DEF RInv, IInv
<1>0. PICK t : t = Target(s)
  OBVIOUS
<1>1. /\ t \in Threads /\ tmp[s] \in Buffers /\ sbuf[s] = tmp[s]
      /\ InTransit(t) = {s} /\ \A u \in Threads \ {t} : InTransit(u) = {}
      /\ \A u \in Threads : HomeBuffer(u)' = HomeBuffer(u) /\ InTransit(u)' = {}
      /\ UNCHANGED <<nodes, bufs, tmp>>
  BY <1>I, <1>0, SendFacts
<1>2. drops' = drops
  BY DEF SendProfileData
<1>3. ASSUME drops = 0
      PROVE  /\ seen'[s][t] = seen[s][t] \cup Told(bufs[tmp[s]])
             /\ \A u \in Threads \ {t} : seen'[s][u] = seen[s][u]
  <2>1. up[s]
    BY <1>3 DEF FirstInv, SendProfileData
  <2>2. seen \in [Senders -> [Threads -> SUBSET Nat]]
    BY <1>I DEF TypeOK
  <2>3. seen' = [seen EXCEPT ![s][t] = @ \cup Told(bufs[tmp[s]])]
    BY <1>0, <1>1, <2>1 DEF SendProfileData, Told
  <2> QED  BY <1>1, <2>2, <2>3
<1>4. ASSUME drops = 0, NEW u \in Threads, ComesInOrder(s, u) PROVE ComesInOrder(s, u)'
  <2>1. PICK home, known : home = HomeBuffer(u) /\ known = Known(s, u)
    OBVIOUS
  <2>2. HomeBuffer(u)' = home /\ s \notin InTransit(u)'
    BY <1>1, <2>1
  <2>3. Known(s, u)' = seen'[s][u] \cup {Root}
    BY <2>2, KnownNext
  <2>4. known = Known(s, u)'
    <3>1. CASE u = t
      <4>1. known = (seen[s][t] \cup {Root}) \cup Told(bufs[tmp[s]])
        BY <1>1, <2>1, <3>1, KnownFacts
      <4> QED  BY <1>3, <1>4, <2>3, <3>1, <4>1
    <3>2. CASE u # t
      <4>1. known = seen[s][u] \cup {Root}
        BY <1>1, <2>1, <3>2, KnownFacts
      <4> QED  BY <1>3, <1>4, <2>3, <3>2, <4>1
    <3> QED  BY <3>1, <3>2
  <2>5. Ordered(bufs'[home], known) /\ Complete(nodes'[u], known \cup Told(bufs'[home]))
    BY <1>1, <1>4, <2>1 DEF ComesInOrder
  <2> QED  BY <2>2, <2>4, <2>5, ComesNext
<1>5. ASSUME drops = 0, NEW r \in Senders, NEW u \in Threads PROVE ComesInOrder(r, u)'
  <2>1. r = s
    BY DEF OneSender
  <2>2. ComesInOrder(s, u)
    BY <1>5 DEF OrderInv
  <2> QED  BY <1>4, <1>5, <2>1, <2>2
<1> QED  BY <1>2, <1>5 DEF OrderInv

LEMMA OrderStep ==
  ASSUME OneSender, RInv, OrderInv, CallersInv, FirstInv, [Next]_vars
  PROVE  OrderInv'
<1> USE DEF listVars, treeVars, bufferVars, hookVars, sendVars, linkVars
<1>I. /\ TypeOK /\ LockInv /\ BufferInv /\ TreeInv /\ LiveInv /\ CacheInv /\ TimeInv
  BY DEF RInv, IInv
<1>S. \A b \in Buffers : bufs[b].size \in Nat /\ bufs[b].size <= Len(bufs[b].slots)
                         /\ Len(bufs[b].slots) \in Nat
  BY <1>I, LenProperties DEF TypeOK, CacheInv, RecordBuffer
<1>T. /\ \A u \in Threads : HomeBuffer(u) \in Buffers
      /\ tmp \in [Senders -> Buffers]
  BY <1>I, Apart DEF TypeOK
<1> DEFINE KeptBufs == \A b \in Buffers :
                         /\ bufs'[b].size = bufs[b].size
                         /\ \A i \in 1 .. bufs[b].size :
                              /\ bufs'[b].slots[i].node = bufs[b].slots[i].node
                              /\ bufs'[b].slots[i].parent = bufs[b].slots[i].parent
           KeptNodes == \A u \in Threads : \A n \in 1 .. Len(nodes'[u]) :
                          nodes'[u][n].gen # 0 => n \in 1 .. Len(nodes[u]) /\ nodes[u][n].gen # 0
           KeptSeen == drops = 0 => \A s \in Senders, u \in Threads : seen'[s][u] = seen[s][u]
<1>1. ASSUME KeptBufs, KeptNodes, KeptSeen, drops' = 0 => drops = 0,
             \A s \in Senders : ~FinishSwap(s) /\ ~SendProfileData(s)
      PROVE  OrderInv'
  <2>1. \A u \in Threads :
           /\ HomeBuffer(u)' = HomeBuffer(u) /\ InTransit(u)' = InTransit(u)
           /\ \A s \in InTransit(u) : tmp'[s] = tmp[s]
    BY <1>I, <1>1, Stay
  <2>2. ASSUME drops = 0, NEW s \in Senders, NEW u \in Threads PROVE ComesInOrder(s, u)'
    <3>1. ComesInOrder(s, u) /\ seen'[s][u] = seen[s][u]
      BY <1>1, <2>2 DEF OrderInv
    <3>2. HomeBuffer(u) \in Buffers /\ tmp[s] \in Buffers
      BY <1>T
    <3>3. \A b \in {HomeBuffer(u), tmp[s]} :
            /\ bufs'[b].size = bufs[b].size
            /\ \A i \in 1 .. bufs[b].size :
                 /\ bufs'[b].slots[i].node = bufs[b].slots[i].node
                 /\ bufs'[b].slots[i].parent = bufs[b].slots[i].parent
      BY <1>1, <3>2
    <3>4. \A n \in 1 .. Len(nodes'[u]) :
            nodes'[u][n].gen # 0 => n \in 1 .. Len(nodes[u]) /\ nodes[u][n].gen # 0
      BY <1>1
    <3>5. \A b \in Buffers : bufs[b].size \in Nat
      BY <1>S
    <3>6. s \in InTransit(u) => tmp'[s] = tmp[s]
      BY <2>1
    <3> HIDE DEF KeptBufs, KeptNodes, KeptSeen
    <3> QED  BY <2>1, <3>1, <3>2, <3>3, <3>4, <3>5, <3>6, ComesFrame
  <2> QED  BY <1>1, <2>2 DEF OrderInv
<1>2. ASSUME bufs' = bufs, KeptNodes, KeptSeen, drops' = 0 => drops = 0,
             \A s \in Senders : ~FinishSwap(s) /\ ~SendProfileData(s)
      PROVE  OrderInv'
  <2>1. KeptBufs
    BY <1>2
  <2> HIDE DEF KeptBufs, KeptNodes, KeptSeen
  <2> QED  BY <1>1, <1>2, <2>1
<1>3. ASSUME UNCHANGED spc PROVE \A s \in Senders : ~FinishSwap(s) /\ ~SendProfileData(s)
  BY <1>3, <1>I DEF FinishSwap, SendProfileData, TypeOK
<1>4. ASSUME NEW t \in Threads, NEW name \in Names, CallEnter(t, name) PROVE OrderInv'
  <2>1. /\ \A u \in Threads \ {t} : nodes'[u] = nodes[u]
        /\ \A n \in 1 .. Len(nodes[t]) : nodes'[t][n] = nodes[t][n]
        /\ \A n \in 1 .. Len(nodes'[t]) :
             n \notin 1 .. Len(nodes[t]) => nodes'[t][n] = NewNode(cur[t], name)
    BY <1>I, <1>4, EnterFacts
  <2>2. UNCHANGED <<bufs, seen, spc, drops>>
    BY <1>4 DEF CallEnter
  <2>3. ASSUME NEW u \in Threads, NEW n \in 1 .. Len(nodes'[u]), nodes'[u][n].gen # 0
        PROVE  n \in 1 .. Len(nodes[u]) /\ nodes[u][n].gen # 0
    <3>1. CASE u # t
      BY <2>1, <2>3, <3>1
    <3>2. CASE u = t /\ n \in 1 .. Len(nodes[t])
      BY <2>1, <2>3, <3>2
    <3>3. CASE u = t /\ n \notin 1 .. Len(nodes[t])
      <4>1. nodes'[u][n].gen = 0
        BY <2>1, <2>3, <3>3 DEF NewNode
      <4> QED  BY <2>3, <4>1
    <3> QED  BY <3>1, <3>2, <3>3
  <2>4. KeptNodes
    BY <2>3
  <2>5. KeptSeen
    BY <2>2
  <2> HIDE DEF KeptNodes, KeptSeen
  <2> QED  BY <1>2, <1>3, <2>2, <2>4, <2>5
<1>5. ASSUME NEW t \in Threads, CallCount(t) \/ CallStart(t) \/ ReturnAccum(t) PROVE OrderInv'
  <2>1. \A b \in Buffers :
          /\ bufs'[b].size = bufs[b].size
          /\ \A i \in 1 .. Len(bufs[b].slots) :
               /\ bufs'[b].slots[i].node = bufs[b].slots[i].node
               /\ bufs'[b].slots[i].parent = bufs[b].slots[i].parent
    BY <1>I, <1>5, WriteFacts
  <2>2. \A b \in Buffers : \A i \in 1 .. bufs[b].size : i \in 1 .. Len(bufs[b].slots)
    BY <1>S
  <2>3. KeptBufs
    BY <2>1, <2>2
  <2>4. UNCHANGED <<seen, spc, drops>>
    BY <1>5 DEF CallCount, CallStart, ReturnAccum
  <2>5. KeptNodes
    <3>1. CASE CallStart(t)
      <4>1. \A u \in Threads :
              /\ Len(nodes'[u]) = Len(nodes[u])
              /\ \A n \in 1 .. Len(nodes[u]) : nodes'[u][n].gen = nodes[u][n].gen
        BY <1>I, <3>1, StartFacts
      <4> QED  BY <4>1
    <3>2. CASE CallCount(t) \/ ReturnAccum(t)
      BY <3>2 DEF CallCount, ReturnAccum
    <3> QED  BY <1>5, <3>1, <3>2
  <2>6. KeptSeen
    BY <2>4
  <2> HIDE DEF KeptBufs, KeptNodes, KeptSeen
  <2> QED  BY <1>1, <1>3, <2>3, <2>4, <2>5, <2>6
<1>6. ASSUME UNCHANGED <<bufs, nodes>>, KeptSeen, drops' = 0 => drops = 0,
             \A s \in Senders : ~FinishSwap(s) /\ ~SendProfileData(s)
      PROVE  OrderInv'
  <2>1. KeptNodes
    BY <1>6
  <2> HIDE DEF KeptNodes, KeptSeen
  <2> QED  BY <1>2, <1>6, <2>1
<1>7. ASSUME UNCHANGED <<bufs, nodes, seen, drops>>,
             \A s \in Senders : ~FinishSwap(s) /\ ~SendProfileData(s)
      PROVE  OrderInv'
  <2>1. KeptSeen
    BY <1>7
  <2> HIDE DEF KeptSeen
  <2> QED  BY <1>6, <1>7, <2>1
<1>8. ASSUME NEW t \in Threads, Attach(t) \/ ReturnEnter(t) \/ ReturnPop(t) PROVE OrderInv'
  <2>1. UNCHANGED <<bufs, nodes, seen, drops, spc>>
    BY <1>8 DEF Attach, ReturnEnter, ReturnPop
  <2> QED  BY <1>3, <1>7, <2>1
<1>9. ASSUME NEW s \in Senders, Connect(s) PROVE OrderInv'
  <2>1. UNCHANGED <<bufs, nodes, drops, spc>> /\ ~up[s]
        /\ seen' = [seen EXCEPT ![s] = [t \in Threads |-> {}]]
    BY <1>9 DEF Connect
  <2>2. KeptSeen
    <3>1. seen \in [Senders -> [Threads -> SUBSET Nat]]
      BY <1>I DEF TypeOK
    <3> QED  BY <2>1, <3>1 DEF FirstInv, OneSender
  <2> HIDE DEF KeptSeen
  <2> QED  BY <1>3, <1>6, <2>1, <2>2
<1>10. ASSUME NEW s \in Senders, Drop(s) PROVE OrderInv'
  <2>1. drops' # 0
    BY <1>10, <1>I DEF Drop, TypeOK
  <2> QED  BY <2>1 DEF OrderInv
<1>11. ASSUME NEW s \in Senders,
              ReqProfileData(s) \/ LockAndSwap(s) \/ TakeBuffer(s) \/ SendNowInfo(s)
       PROVE  OrderInv'
  <2>1. UNCHANGED <<bufs, nodes, seen, drops>>
    BY <1>11 DEF ReqProfileData, LockAndSwap, TakeBuffer, SendNowInfo
  <2>2. spc[s] \in {"wait", "lock", "take", "now"} /\ spc'[s] \in {"wait", "lock", "swap", "send"}
    BY <1>11, <1>I DEF ReqProfileData, LockAndSwap, TakeBuffer, SendNowInfo, TypeOK
  <2>3. \A r \in Senders : r = s
    BY DEF OneSender
  <2>4. ~FinishSwap(s) /\ ~SendProfileData(s)
    BY <2>2 DEF FinishSwap, SendProfileData
  <2> QED  BY <1>7, <2>1, <2>3, <2>4
<1>12. CASE Tick \/ UNCHANGED vars
  <2>1. UNCHANGED <<bufs, nodes, seen, drops, spc>>
    BY <1>12 DEF Tick, vars
  <2> QED  BY <1>3, <1>7, <2>1
<1>13. ASSUME NEW t \in Threads, CallRecord(t) \/ ReturnRecord(t) PROVE OrderInv'
  BY <1>13, OrderPair
<1>14. ASSUME NEW s \in Senders, FinishSwap(s) \/ SendProfileData(s) PROVE OrderInv'
  BY <1>14, OrderSwap, OrderSend
<1> QED  BY <1>4, <1>5, <1>8, <1>9, <1>10, <1>11, <1>12, <1>13, <1>14 DEF Next

\* The invariant holds at the start, when nothing is recorded.
LEMMA InitSInv == Init => SInv
<1> SUFFICES ASSUME Init PROVE SInv
  OBVIOUS
<1>1. RInv
  BY InitRInv
<1>2. /\ \A t \in Threads : /\ nodes[t] = <<NewNode(0, NullName)>> /\ stack[t] = << >>
                            /\ front[t] \in Buffers
      /\ \A s \in Senders : spc[s] = "wait" /\ \A t \in Threads : seen[s][t] = {}
      /\ \A b \in Buffers : bufs[b].size = 0 /\ bufs[b].slots = << >>
      /\ NullName \in nameTable
  BY DEF Init, EmptyBuffer, Buffers
<1>3. PICK root : root = NewNode(0, NullName)
  OBVIOUS
<1>4. root.gen = 0 /\ root.name = NullName /\ Len(<<root>>) = 1 /\ <<root>>[1] = root
  BY <1>3 DEF NewNode
<1>5. \A t \in Threads : nodes[t] = <<root>>
  BY <1>2, <1>3
<1>6. \A t \in Threads : \A n \in 1 .. Len(nodes[t]) : nodes[t][n] = root
  <2> SUFFICES ASSUME NEW t \in Threads, NEW n \in 1 .. Len(nodes[t]) PROVE nodes[t][n] = root
    OBVIOUS
  <2>1. n \in 1 .. 1
    <3>1. Len(nodes[t]) = 1
      BY <1>4, <1>5
    <3> QED  BY <3>1
  <2> QED  BY <1>4, <1>5, <2>1
<1>7. OrderInv
  <2>1. ASSUME NEW s \in Senders, NEW t \in Threads PROVE ComesInOrder(s, t)
    <3>1. HomeBuffer(t) = front[t] /\ InTransit(t) = {}
      BY <1>2 DEF HomeBuffer, Swapping, InTransit
    <3>2. Ordered(bufs[HomeBuffer(t)], Known(s, t))
      BY <1>2, <3>1, EmptyOrdered
    <3>3. Complete(nodes[t], Known(s, t) \cup Told(bufs[HomeBuffer(t)]))
      BY <1>4, <1>6 DEF Complete
    <3> QED  BY <3>1, <3>2, <3>3 DEF ComesInOrder
  <2> QED  BY <2>1 DEF OrderInv
<1>8. CallersInv
  <2>1. \A t \in Threads : Len(stack[t]) = 0
    BY <1>2, EmptySeq
  <2> QED  BY <2>1 DEF CallersInv, Recorded
<1>9. FirstInv
  BY <1>2 DEF FirstInv
<1>10. NamedInv
  <2>1. \A t \in Threads : \A n \in 1 .. Len(nodes[t]) : nodes[t][n].name \in nameTable
    BY <1>2, <1>4, <1>6
  <2>2. \A b \in Buffers : Len(bufs[b].slots) = 0
    BY <1>2, EmptySeq
  <2> QED  BY <2>1, <2>2 DEF NamedInv
<1> QED  BY <1>1, <1>7, <1>8, <1>9, <1>10 DEF SInv

\* The order of the records is an invariant of the recorder with one dispatch
\* thread.
THEOREM SInvariance == ASSUME OneSender PROVE Spec => []SInv
<1>1. Init => SInv
  BY InitSInv
<1>2. SInv /\ [Next]_vars => SInv'
  <2> SUFFICES ASSUME SInv, [Next]_vars PROVE SInv'
    OBVIOUS
  <2>1. RInv /\ OrderInv /\ CallersInv /\ FirstInv /\ NamedInv
    BY DEF SInv
  <2>2. RInv' /\ OrderInv' /\ CallersInv' /\ FirstInv' /\ NamedInv'
    BY <2>1, StepRInv, OrderStep, CallersStep, FirstStep, NamedStep
  <2> QED  BY <2>2 DEF SInv
<1> QED  BY <1>1, <1>2, PTL DEF Spec

\* Until a connection is lost, every record that is sent can be filed by a
\* monitor: its parent was sent before, or comes earlier in the same buffer, and
\* its name can be queried.
THEOREM StorableUntilDropped == ASSUME OneSender PROVE Spec => [](drops = 0 => StorableStream)
<1>1. SInv => (drops = 0 => StorableStream)
  <2> SUFFICES ASSUME SInv, drops = 0, NEW s \in Senders, spc[s] = "send", up[s],
                      NEW t, t = Target(s), NEW i \in 1 .. bufs[sbuf[s]].size
               PROVE  LET b == bufs[sbuf[s]] IN
                      /\ b.slots[i].name \in nameTable
                      /\ \/ b.slots[i].parent \in seen[s][t] \cup {Root}
                         \/ \E j \in 1 .. (i - 1) : b.slots[j].node = b.slots[i].parent
    BY DEF StorableStream
  <2>1. RInv /\ OrderInv /\ NamedInv
    BY DEF SInv
  <2>2. TypeOK /\ LockInv /\ BufferInv /\ CacheInv
    BY <2>1 DEF RInv, IInv
  <2>3. t \in Threads /\ s \in InTransit(t)
    BY <2>2, ElementOfSeq DEF TypeOK, LockInv, Target, InTransit
  <2>4. tmp[s] = sbuf[s] /\ sbuf[s] \in Buffers
    BY <2>2 DEF BufferInv, TypeOK
  <2>5. Ordered(bufs[sbuf[s]], seen[s][t] \cup {Root})
    BY <2>1, <2>3, <2>4 DEF OrderInv, ComesInOrder
  <2>6. i \in 1 .. Len(bufs[sbuf[s]].slots)
    BY <2>2, <2>4, LenProperties DEF CacheInv, TypeOK, RecordBuffer
  <2> QED  BY <2>1, <2>4, <2>5, <2>6 DEF Ordered, NamedInv
<1> QED  BY <1>1, SInvariance, PTL

\* Where no connection is ever lost, every record that is sent can be filed.
THEOREM StorableWithoutDrops ==
  ASSUME OneSender, MaxDrops = 0 PROVE Spec => []StorableStream
<1> DEFINE None == drops = 0
<1>1. Init => None
  BY DEF Init
<1>2. None /\ [Next]_vars => None'
  <2> USE DEF listVars, treeVars, bufferVars, hookVars, sendVars, linkVars
  <2> SUFFICES ASSUME drops = 0, [Next]_vars PROVE drops' = 0
    OBVIOUS
  <2>1. \A s \in Senders : ~Drop(s)
    BY DEF Drop
  <2>2. ASSUME NEW t \in Threads,
               \/ Attach(t) \/ Hook(t) \/ ReturnEnter(t)
               \/ \E name \in Names : CallEnter(t, name)
        PROVE  drops' = drops
    BY <2>2 DEF Attach, Hook, CallEnter, CallRecord, CallCount, CallStart, ReturnEnter, ReturnRecord,
                ReturnAccum, ReturnPop
  <2>3. ASSUME NEW s \in Senders,
               Connect(s) \/ ReqProfileData(s) \/ LockAndSwap(s) \/ FinishSwap(s)
                \/ TakeBuffer(s) \/ SendProfileData(s) \/ SendNowInfo(s)
        PROVE  drops' = drops
    BY <2>3 DEF Connect, ReqProfileData, LockAndSwap, FinishSwap, TakeBuffer, SendProfileData,
                SendNowInfo
  <2>4. ASSUME Tick \/ UNCHANGED vars PROVE drops' = drops
    BY <2>4 DEF Tick, vars
  <2> QED  BY <2>1, <2>2, <2>3, <2>4 DEF Next, Hook
<1>3. Spec => [](None => StorableStream)
  BY StorableUntilDropped
<1> HIDE DEF None
<1> QED  BY <1>1, <1>2, <1>3, PTL DEF Spec
=============================================================================
