---------------------------- MODULE ProfileStream ----------------------------
(***************************************************************************)
(* What the recorder promises its monitors (llprofcommon/call_tree.cpp),   *)
(* without buffers, locks and generations: of everything the hooks measure *)
(* at a call node a part is held back and a part was delivered, nothing is *)
(* in both, and a measurement is missed only where a drain overlapped a    *)
(* hook, at most one call for each such drain.                             *)
(***************************************************************************)
EXTENDS Naturals

CONSTANTS
  Threads,   \* threads of the profiled program
  Nodes,     \* call nodes of a thread
  MaxStep    \* the longest time one return can measure

VARIABLES made,   \* calls and time measured, per thread and node
          held,   \* the part the recorder still has
          sent,   \* the part handed to a socket
          cuts    \* drains that overlapped a hook, per thread and node

vars == <<made, held, sent, cuts>>

Amount == [count : Nat, time : Nat]
Totals == [Threads -> [Nodes -> Amount]]
Zero   == [count |-> 0, time |-> 0]
Plus(x, y)  == [count |-> x.count + y.count, time |-> x.time + y.time]
AtMost(x, y) == x.count <= y.count /\ x.time <= y.time

\* What one hook measures: a call, or the time of one.
Call     == [count |-> 1, time |-> 0]
Time(d)  == [count |-> 0, time |-> d]
Measures == {Call} \cup {Time(d) : d \in 0 .. MaxStep}

Init ==
  /\ made = [t \in Threads |-> [n \in Nodes |-> Zero]]
  /\ held = [t \in Threads |-> [n \in Nodes |-> Zero]]
  /\ sent = [t \in Threads |-> [n \in Nodes |-> Zero]]
  /\ cuts = [t \in Threads |-> [n \in Nodes |-> 0]]

Record(t, n, m) ==
  /\ made' = [made EXCEPT ![t][n] = Plus(@, m)]
  /\ held' = [held EXCEPT ![t][n] = Plus(@, m)]
  /\ UNCHANGED <<sent, cuts>>

\* Only a call or a time whose hook met a drain can be missed.
Miss(t, n, m) ==
  /\ cuts[t][n] > 0
  /\ made[t][n].count + m.count <=
       (sent[t][n].count + held[t][n].count) + cuts[t][n]
  /\ made' = [made EXCEPT ![t][n] = Plus(@, m)]
  /\ UNCHANGED <<held, sent, cuts>>

Cut(t, n) ==
  /\ cuts' = [cuts EXCEPT ![t][n] = @ + 1]
  /\ UNCHANGED <<made, held, sent>>

\* One buffer: some of what a thread holds, all its nodes at once.
Deliver(t) ==
  /\ sent' \in Totals /\ held' \in Totals
  /\ UNCHANGED <<made, cuts>>
  /\ \A u \in Threads, n \in Nodes :
       /\ Plus(sent'[u][n], held'[u][n]) = Plus(sent[u][n], held[u][n])
       /\ AtMost(sent[u][n], sent'[u][n])
       /\ u # t => sent'[u][n] = sent[u][n]

Next ==
  \/ \E t \in Threads, n \in Nodes, m \in Measures : Record(t, n, m) \/ Miss(t, n, m)
  \/ \E t \in Threads, n \in Nodes : Cut(t, n)
  \/ \E t \in Threads : Deliver(t)

Spec == Init /\ [][Next]_vars

\* The types of the four totals.
TypeOK ==
  /\ made \in Totals
  /\ held \in Totals
  /\ sent \in Totals
  /\ cuts \in [Threads -> [Nodes -> Nat]]

\* Nothing is reported twice, and a node no drain has cut has lost nothing.
Conserved ==
  \A t \in Threads, n \in Nodes :
    LET reported == Plus(sent[t][n], held[t][n]) IN
      /\ AtMost(reported, made[t][n])
      /\ made[t][n].count <= reported.count + cuts[t][n]
      /\ cuts[t][n] = 0 => reported = made[t][n]
=============================================================================
