----------------------------- MODULE RecordTypes -----------------------------
(***************************************************************************)
(* The record types of the recorder (llprofcommon/call_tree.cpp).  An      *)
(* adapter registers counters and events, LLPROF_RECORDS names the ones to *)
(* activate, and from then on each call and return of a node walks the     *)
(* active records: a counter has two, its accumulated value and its start  *)
(* value, an event has one.                                                *)
(*                                                                         *)
(* One node of the call tree is followed.  All counters read one clock.    *)
(* Arrays are indexed from 0 as in the code.  What lies behind them belongs *)
(* to something else: a write there is noted and a read there gives Junk.  *)
(***************************************************************************)
EXTENDS Integers, Sequences, SequencesExt, FiniteSets

CONSTANTS
  Counters,   \* ids an adapter may register with a counter function
  Events,     \* ids it may register without
  Strangers,  \* words of LLPROF_RECORDS that name no record type
  Repeats,    \* may LLPROF_RECORDS name a type twice?
  MaxWords,   \* bound: words of LLPROF_RECORDS
  MaxTime,    \* bound: readings of the clock
  Junk,       \* what a read behind an array may give
  MaxCalls,   \* bound: calls of the node
  MaxTold     \* bound: what the program reports of an event

ASSUME RecordTypeConstants ==
  /\ Counters \cap Events = {}
  /\ Strangers \cap (Counters \cup Events) = {}
  /\ Repeats \in BOOLEAN
  /\ Junk \subseteq Int /\ Junk # {}
  /\ {MaxWords, MaxTime, MaxCalls, MaxTold} \subseteq Nat

VARIABLES
  phase,      \* the adapter's initialisation, then the profiled run
  records,    \* g_records
  active,     \* g_active_records
  words,      \* history: the words of LLPROF_RECORDS that were looked at
  value,      \* profile_value of the node's record
  startv,     \* start_value of the node
  inside,     \* is a call of the node outstanding?
  entered,    \* history: when that call was made
  calls,      \* history: calls made
  spent,      \* history: the time spent in the node
  told,       \* history: what the program reported of each event
  touched,    \* history: elements of profile_value and start_value used
  clock

setupVars == <<phase, records, active, words>>
nodeVars  == <<value, startv, inside, entered, calls, spent, told, touched>>
vars == <<setupVars, nodeVars, clock>>

-----------------------------------------------------------------------------

Ids     == Counters \cup Events
PvType  == [id : Ids, counter : BOOLEAN, index : Int]
Cells   == 0 .. 2 * MaxWords
Ordinal == 0 .. Len(active) - 1

\* g_records[g_active_records[i]]
TypeAt(i) == records[active[i + 1]]

Init ==
  /\ phase   = "register"
  /\ records = << >>
  /\ active  = << >>
  /\ words   = << >>
  /\ value   = [i \in Cells |-> 0]
  /\ startv  = [i \in Cells |-> 0]
  /\ inside  = FALSE
  /\ entered = 0
  /\ calls   = 0
  /\ spent   = 0
  /\ told    = [e \in Events |-> 0]
  /\ touched = {}
  /\ clock   = 1

-----------------------------------------------------------------------------
(* Initialisation.                                                         *)

\* llprof_add_counter_pv, llprof_add_event_pv; an adapter registers an id once.
AddPv(id) ==
  /\ phase = "register"
  /\ \A i \in 1 .. Len(records) : records[i].id # id
  /\ records' = Append(records,
                       [id |-> id, counter |-> id \in Counters, index |-> -1])
  /\ UNCHANGED <<phase, active, words, nodeVars, clock>>

\* The adapter goes on to llprof_set_record_string(getenv("LLPROF_RECORDS")).
ReadRecordString ==
  /\ phase = "register"
  /\ phase' = "select"
  /\ UNCHANGED <<records, active, words, nodeVars, clock>>

\* MUTANT: the start value belongs to the next type.
Elements_Next(i) == IF records[i].counter THEN <<i, i + 1>> ELSE <<i>>

\* The active records of a type: a counter has a start value besides.
Elements(i) == IF records[i].counter THEN <<i, i>> ELSE <<i>>

\* llprof_get_pvt_index_from_name
IndexOf(word) == {i \in 1 .. Len(records) : records[i].id = word}

\* llprof_add_active_record for the next word of the string.  A type that is
\* active already (record_index # -1) would be refused.
AddActiveRecord(word) ==
  /\ phase = "select"
  /\ Len(words) < MaxWords
  /\ Repeats \/ ~Contains(words, word)
  /\ words' = Append(words, word)
  /\ active' = active \o
       (IF \E i \in IndexOf(word) : records[i].index = -1
        THEN Elements(CHOOSE i \in IndexOf(word) : TRUE)
        ELSE << >>)
  /\ UNCHANGED <<phase, records, nodeVars, clock>>

\* The end of the string; llprof_init and the first call of the node.
StartProfile ==
  /\ phase = "select"
  /\ phase' = "run"
  /\ UNCHANGED <<records, active, words, nodeVars, clock>>

-----------------------------------------------------------------------------
(* The walks over the active records.                                      *)

\* MUTANT: the start value is kept where the elapsed time belongs.
StartCell_First(i) == i

\* The element that takes the start value of the counter met at i.
StartCell(i) == i + 1

\* The elements a walk stops at that are a counter's: the index is advanced
\* by the loop, at the end of its body, and for a counter in between.
Stops ==
  LET from[i \in 0 .. 2 * MaxWords + 2] ==
        IF i \notin Ordinal THEN {}
        ELSE IF TypeAt(i).counter THEN {i} \cup from[i + 3]
        ELSE from[i + 2]
  IN  from[0]

\* The elements a walk touches, those behind the array included.
Reached == {StartCell(i) : i \in Stops}

\* llprof_rtype_start_node, and the copy of the active values to start_value.
StartNode ==
  LET new == [c \in Cells |-> IF c \in Reached \cap Ordinal THEN clock ELSE value[c]]
  IN  /\ phase = "run"
      /\ ~inside
      /\ calls < MaxCalls
      /\ calls'   = calls + 1
      /\ inside'  = TRUE
      /\ value'   = new
      /\ startv'  = [c \in Cells |-> IF c \in Ordinal THEN new[c] ELSE startv[c]]
      /\ touched' = touched \cup Reached
      /\ entered' = clock
      /\ UNCHANGED <<setupVars, spent, told, clock>>

\* llprof_rtype_end_node: whatever the counter, the sum is in profile_value[0].
EndNode ==
  /\ phase = "run"
  /\ inside
  /\ inside' = FALSE
  /\ \E junk \in Junk :
       LET start(c) == IF c \in Ordinal THEN startv[c] ELSE junk
           gain == SumFunction([c \in Reached |-> clock - start(c)])
       IN  value' = [value EXCEPT ![0] = @ + gain]
  /\ touched' = touched \cup Reached
  /\ spent' = (spent + clock) - entered
  /\ UNCHANGED <<setupVars, startv, entered, calls, told, clock>>

\* llprof_icl_profile_value, called by the program inside the node.
Icl(i, amount) ==
  /\ phase = "run"
  /\ inside
  /\ records[i].id \in Events
  /\ told[records[i].id] + amount <= MaxTold
  /\ told' = [told EXCEPT ![records[i].id] = @ + amount]
  /\ value' = IF records[i].index = -1
              THEN value
              ELSE [value EXCEPT ![records[i].index] = @ + amount]
  /\ UNCHANGED <<setupVars, startv, inside, entered, calls, spent, touched, clock>>

Tick ==
  /\ phase = "run"
  /\ clock < MaxTime
  /\ clock' = clock + 1
  /\ UNCHANGED <<setupVars, nodeVars>>

Next ==
  \/ \E id \in Ids : AddPv(id)
  \/ ReadRecordString
  \/ \E word \in Ids \cup Strangers : AddActiveRecord(word)
  \/ StartProfile
  \/ StartNode
  \/ EndNode
  \/ \E i \in 1 .. Len(records) : Icl(i, 1)
  \/ Tick

Spec == Init /\ [][Next]_vars

-----------------------------------------------------------------------------
(* What the monitor is told of the active records.                         *)

\* MUTANT: equal neighbours are recognised from the other side.
Flag_Before(i) ==
  IF i + 1 \in Ordinal /\ active[i + 2] = active[i + 1] THEN "S"
  ELSE IF TypeAt(i).counter THEN "A" ELSE ""

\* llprof_get_record_info: the flag of the active record i.
Flag(i) ==
  IF i > 0 /\ active[i] = active[i + 1] THEN "S"
  ELSE IF TypeAt(i).counter THEN "A" ELSE ""

-----------------------------------------------------------------------------
(* Properties.                                                             *)

\* The type of every variable.
TypeOK ==
  /\ phase \in {"register", "select", "run"}
  /\ records \in Seq(PvType)
  /\ active \in Seq(1 .. Len(records))
  /\ Len(words) <= MaxWords
  /\ value \in [Cells -> Int]
  /\ startv \in [Cells -> Int]
  /\ inside \in BOOLEAN
  /\ {entered, calls, spent, clock} \subseteq Nat
  /\ told \in [Events -> Nat]
  /\ touched \subseteq Cells

\* The layout the words ask for: how many records each word has, and where they
\* begin.
Width(word) == IF IndexOf(word) = {} THEN 0 ELSE IF word \in Counters THEN 2 ELSE 1
Place(k) == SumFunction([j \in 1 .. k - 1 |-> Width(words[j])])

\* The monitor reads the values by their flags (RecordMetadata): every counter
\* that was asked for is an Accumulated value followed by its Static start
\* value, every event one value without a flag, in the order of the words,
\* whichever were registered and in whatever order.
FlagsMatchLayout ==
  /\ Len(active) = Place(Len(words) + 1)
  /\ \A k \in 1 .. Len(words) :
       LET p == Place(k)
       IN  IndexOf(words[k]) # {} =>
             /\ TypeAt(p).id = words[k]
             /\ words[k] \in Counters => Flag(p) = "A" /\ Flag(p + 1) = "S"
             /\ words[k] \in Events   => Flag(p) = ""

\* When the first active record is a counter and the only one, its value is
\* the time spent in the node, whatever events follow it, and the walks stay
\* within the array.
LoneCounterMeasures ==
  (/\ active # << >>
   /\ TypeAt(0).counter
   /\ \A i \in Ordinal : TypeAt(i).counter => i < 2)
  => value[0] = spent /\ touched \subseteq Ordinal

\* What the program reported of an active event is in its value.
EventsCounted ==
  \A i \in Ordinal : TypeAt(i).id \in Events => value[i] = told[TypeAt(i).id]
=============================================================================
