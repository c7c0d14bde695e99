------------------------------ MODULE Session ------------------------------
(***************************************************************************)
(* The conversation between a DataStore of the monitor                     *)
(* (webmon/data_store.cpp) and a dispatch thread of one profiled program   *)
(* (llprofcommon/server.cpp), from the connection to the last fetch.       *)
(*                                                                         *)
(* The monitor asks three questions about the program once, and then       *)
(* fetches: it asks for the records of all threads, asks for the names it  *)
(* has not heard of, and stores what it got.  Nothing is ever resent.  A   *)
(* message is a header and a body; the monitor tests whether a header      *)
(* arrived, not whether a body did, and not every caller tests the result. *)
(* Send errors are ignored on both sides.                                  *)
(*                                                                         *)
(* A record stands for one call and is the id of a name.  What a fetch     *)
(* does with records is in ThreadStore, how they come to be in CallTree.   *)
(***************************************************************************)
EXTENDS Integers, Sequences, FiniteSets, SequencesExt

CONSTANTS
  Threads,      \* the threads of the profiled program
  Names,        \* name ids
  Asking,       \* the placeholder "<Asking>"
  Junk,         \* whatever the memory of a body that did not arrive holds
  Told,         \* the information about the program that was asked for
  NameCap,      \* how many names fit in name_buf
  RequestCap,   \* how many 8-byte words of a request make it too large
  MaxAddresses, \* bound: addresses a host name resolves to
  MaxCalls,     \* bound: calls of the program
  MaxPolls      \* bound: fetches

ASSUME SessionConstants ==
  /\ {Asking, Junk, Told} \cap Names = {} /\ Asking \notin {Junk, Told, ""} /\ Told # Junk
  /\ IsFiniteSet(Threads)
  /\ NameCap \in Nat /\ RequestCap \in Nat /\ NameCap < RequestCap
  /\ {MaxAddresses, MaxCalls, MaxPolls} \subseteq Nat

VARIABLES
  made,     \* history: calls the program made
  front,    \* the records of each thread since the last drain
  table,    \* the ids in the program's name table
  agent,    \* the dispatch thread: where it is and what it still has to send
  up,       \* the connection is there
  toAgent, toMonitor,  \* what has been sent and not yet read
  sock,     \* socket_: "none", the connection the program serves, or a "stray" one
  pc,       \* where the receive thread is; recv_ is pc # "stopped"
  polls,    \* current_time_number_
  bufs, nows,  \* buf_for_threads, nowinfo_buf_for_threads
  query,    \* query_names without its first element
  names,    \* name_table_
  stored    \* calls per name in the thread stores

agentVars == <<made, front, table, agent>>
netVars   == <<up, toAgent, toMonitor>>
fetchVars == <<bufs, nows, query>>
vars == <<agentVars, netVars, sock, pc, polls, fetchVars, names, stored>>

-----------------------------------------------------------------------------
(* Messages.                                                               *)

Empty == ""   \* the name a missing line of the answer gives
Memory == Names \cup {Junk}
Word   == Memory \cup {Told}

Message(kind, thread, body) == [kind |-> kind, thread |-> thread, body |-> body]
Plain(kind) == Message(kind, Junk, << >>)

Arrived == toMonitor # << >>
Lost    == toMonitor = << >> /\ ~up
Got     == Head(toMonitor)

\* The header and some words of the body; the rest is what the memory held
\* before, an old message maybe.
CutShort(m) ==
  UNION {{[m EXCEPT !.body = [j \in DOMAIN m.body |-> IF j <= i THEN m.body[j] ELSE old]] :
          old \in Memory} : i \in 0 .. Len(m.body) - 1}

\* What may be left of messages under way when the connection breaks: some,
\* and a part of the next one.
Remains(q) ==
  {SubSeq(q, 1, k) : k \in 0 .. Len(q)} \cup
  UNION {{Append(SubSeq(q, 1, k - 1), m) : m \in CutShort(q[k])} : k \in DOMAIN q}

\* SendFull: what is written to a connection that has gone is lost.
SendTo(q, messages) == IF up THEN q \o messages ELSE q

CallsIn(body, n) == Cardinality({i \in DOMAIN body : body[i] = n})

Init ==
  /\ made = [x \in Threads \X Names |-> 0]
  /\ front = [t \in Threads |-> << >>]
  /\ table = {}
  /\ agent = [pc |-> "recv", todo |-> << >>]
  /\ up = TRUE /\ toAgent = << >> /\ toMonitor = << >>
  /\ sock \in {"none", "served"}   \* to be connected, or accepted
  /\ pc = "new" /\ polls = 0
  /\ bufs = << >> /\ nows = {} /\ query = << >>
  /\ names = << >>
  /\ stored = [t \in Threads |-> [n \in Word |-> 0]]

-----------------------------------------------------------------------------
(* The profiled program.                                                   *)

\* Every call made so far.
Calls == {x \in (Threads \X Names) \X (1 .. MaxCalls) : x[2] <= made[x[1]]}

Call(t, n) ==
  /\ agent.pc # "aborted"
  /\ Cardinality(Calls) < MaxCalls
  /\ made'  = [made EXCEPT ![<<t, n>>] = @ + 1]
  /\ front' = [front EXCEPT ![t] = Append(@, n)]
  /\ table' = table \cup {n}
  /\ UNCHANGED <<agent, netVars, sock, pc, polls, fetchVars, names, stored>>

-----------------------------------------------------------------------------
(* The dispatch thread.                                                    *)

\* MUTANT: the information about the running node is sent for one thread only.
Parts_OneNow(ts) == [i \in 1 .. Len(ts) + 1 |->
  IF i <= Len(ts) THEN <<ts[i], "data">> ELSE <<ts[1], "now">>]

\* MUTANT: the stack is sent too, which the monitor knows no buffer for.
Parts_Stack(ts) == [i \in 1 .. 2 * Len(ts) |->
  <<ts[(i + 1) \div 2], IF i % 2 = 1 THEN "data" ELSE "stack">>]

\* BufferIteration_NextBuffer: two messages for every thread.
Parts(ts) == [i \in 1 .. 2 * Len(ts) |->
  <<ts[(i + 1) \div 2], IF i % 2 = 1 THEN "data" ELSE "now">>]

\* The request has a word in front that says how many names follow.
Oversize(q) == Len(q) + 1 >= RequestCap

\* MUTANT: too many names are refused without a word.
NameAnswer_Silent(q) ==
  IF Len(q) > NameCap THEN << >> ELSE <<Message("names", Junk, q)>>

\* The names, one per line, or MSG_ERROR when they do not fit.
NameAnswer(q) ==
  IF Len(q) > NameCap THEN <<Plain("error")>>
  ELSE <<Message("names", Junk, [i \in DOMAIN q |-> IF q[i] \in table THEN q[i] ELSE Junk])>>

Reads == agent.pc = "recv" /\ sock = "served" /\ toAgent # << >>
Request == Head(toAgent)

AgentRest == UNCHANGED <<made, table, sock, pc, polls, fetchVars, names, stored>>

AnswerInfo ==
  /\ Reads /\ Request.kind = "info"
  /\ toAgent' = Tail(toAgent)
  /\ toMonitor' = SendTo(toMonitor, <<Message("info", Junk, <<Told>>)>>)
  /\ UNCHANGED <<front, agent, up>> /\ AgentRest

AnswerNames ==
  /\ Reads /\ Request.kind = "query"
  /\ toAgent' = Tail(toAgent)
  /\ IF Oversize(Request.body)
     THEN /\ agent' = [agent EXCEPT !.pc = "aborted"]   \* abort()
          /\ up' = FALSE
          /\ UNCHANGED toMonitor
     ELSE /\ toMonitor' = SendTo(toMonitor, NameAnswer(Request.body))
          /\ UNCHANGED <<agent, up>>
  /\ UNCHANGED front /\ AgentRest

BeginAnswer ==
  /\ Reads /\ Request.kind = "req"
  /\ toAgent' = Tail(toAgent)
  /\ agent' = [pc |-> "send", todo |-> Parts(SetToSeq(Threads))]
  /\ UNCHANGED <<front, up, toMonitor>> /\ AgentRest

\* A drained buffer is gone even if the connection is.
SendPart ==
  /\ agent.pc = "send" /\ agent.todo # << >>
  /\ LET t == Head(agent.todo)[1] kind == Head(agent.todo)[2] IN
     /\ toMonitor' = SendTo(toMonitor,
                       <<Message(kind, t, IF kind = "data" THEN front[t] ELSE << >>)>>)
     /\ front' = IF kind = "data" THEN [front EXCEPT ![t] = << >>] ELSE front
  /\ agent' = [agent EXCEPT !.todo = Tail(@)]
  /\ UNCHANGED <<up, toAgent>> /\ AgentRest

EndAnswer ==
  /\ agent.pc = "send" /\ agent.todo = << >>
  /\ toMonitor' = SendTo(toMonitor, <<Plain("succeed")>>)
  /\ agent' = [agent EXCEPT !.pc = "recv"]
  /\ UNCHANGED <<front, up, toAgent>> /\ AgentRest

\* llprof_message_dispatch returns when it can read no more.
Hangup ==
  /\ agent.pc = "recv" /\ sock = "served" /\ toAgent = << >> /\ ~up
  /\ agent' = [agent EXCEPT !.pc = "gone"]
  /\ UNCHANGED <<front, netVars>> /\ AgentRest

\* The network, or the profiled program being killed.
Break ==
  /\ up /\ sock # "none"
  /\ up' = FALSE
  /\ toMonitor' \in Remains(toMonitor)
  /\ toAgent' \in {SubSeq(toAgent, 1, k) : k \in 0 .. Len(toAgent)}
  /\ UNCHANGED <<agentVars, sock, pc, polls, fetchVars, names, stored>>

-----------------------------------------------------------------------------
(* The monitor: the first exchange.                                        *)

\* SocketConnectTo tries every address, keeps the socket of the last one, and
\* closes only those that refused.  The program accepts connections in order
\* and serves the first until it ends.
ConnectedTo(answers) ==
  IF ~Last(answers) THEN "none"
  ELSE IF TRUE \in Range(Front(answers)) THEN "stray" ELSE "served"

Ask(kind, body, next) ==
  /\ toAgent' = SendTo(toAgent, <<Message(kind, Junk, body)>>)
  /\ pc' = next
  /\ UNCHANGED up

MonitorRest == UNCHANGED <<agentVars, polls, stored>>

Start ==
  /\ pc = "new"
  /\ IF sock # "none"
     THEN UNCHANGED sock
     ELSE \E k \in 1 .. MaxAddresses : \E answers \in [1 .. k -> BOOLEAN] :
            sock' = ConnectedTo(answers)
  /\ IF sock' = "none"
     THEN pc' = "stopped" /\ UNCHANGED netVars
     ELSE Ask("info", << >>, "slide") /\ UNCHANGED toMonitor
  /\ UNCHANGED <<fetchVars, names>> /\ MonitorRest

InfoArrives ==
  /\ pc \in {"slide", "meta", "target"} /\ Arrived
  /\ toMonitor' = Tail(toMonitor)
  /\ CASE pc = "slide"  -> Ask("info", << >>, "meta")
       [] pc = "meta"   -> Ask("info", << >>, "target")
       [] pc = "target" -> pc' = "idle" /\ UNCHANGED <<up, toAgent>>
  /\ UNCHANGED <<sock, fetchVars, names>> /\ MonitorRest

\* An answer cut short may stop the loop over its lines from reading on, which
\* then never ends; the number or the index of a record may be any.
Unreadable == Got.body # <<Told>>

InfoUnreadable ==
  /\ pc \in {"slide", "meta"} /\ Arrived /\ Unreadable
  /\ toMonitor' = Tail(toMonitor)
  /\ pc' \in IF pc = "slide" THEN {"spinning"} ELSE {"spinning", "crashed"}
  /\ UNCHANGED <<up, toAgent, sock, fetchVars, names>> /\ MonitorRest

\* Only the first of the three answers is tested before it is used.
InfoLost ==
  /\ pc \in {"slide", "meta", "target"} /\ Lost
  /\ pc' = IF pc = "slide" THEN "stopped" ELSE "crashed"
  /\ UNCHANGED <<netVars, sock, fetchVars, names>> /\ MonitorRest

-----------------------------------------------------------------------------
(* The monitor: GetProfileData, which holds the store's lock from Poll to  *)
(* the end of the fetch.                                                   *)

Poll ==
  /\ pc = "idle" /\ polls < MaxPolls
  /\ polls' = polls + 1
  /\ bufs' = << >> /\ nows' = {} /\ query' = << >>
  /\ Ask("req", << >>, "fetch")
  /\ UNCHANGED <<agentVars, toMonitor, sock, names, stored>>

\* Every name of the answer so far is marked as asked for.
Marked(ns) == [n \in DOMAIN names \cup ns |-> IF n \in DOMAIN names THEN names[n] ELSE Asking]

\* MUTANT: of the new names of a message only the first is asked for.
Unheard_First(body) ==
  LET new == SelectSeq(body, LAMBDA n : n \notin DOMAIN names)
  IN  IF new = << >> THEN << >> ELSE <<Head(new)>>

\* MUTANT: a name is asked for as often as it occurs.
Unheard_Twice(body) == SelectSeq(body, LAMBDA n : n \notin DOMAIN names)

\* The new names of a message, each once.
Unheard(body) ==
  LET new[i \in 0 .. Len(body)] ==
        IF i = 0 THEN << >>
        ELSE IF body[i] \in DOMAIN names \cup Range(new[i - 1]) THEN new[i - 1]
        ELSE Append(new[i - 1], body[i])
  IN  new[Len(body)]

DataArrives ==
  /\ pc = "fetch" /\ Arrived /\ Got.kind = "data"
  /\ query' = query \o Unheard(Got.body)
  /\ names' = Marked(Range(Unheard(Got.body)))
  /\ bufs'  = [t \in DOMAIN bufs \cup {Got.thread} |-> IF t = Got.thread THEN Got.body ELSE bufs[t]]
  /\ toMonitor' = Tail(toMonitor)
  /\ UNCHANGED <<up, toAgent, sock, pc, nows>> /\ MonitorRest

NowInfoArrives ==
  /\ pc = "fetch" /\ Arrived /\ Got.kind = "now"
  /\ nows' = nows \cup {Got.thread}
  /\ toMonitor' = Tail(toMonitor)
  /\ UNCHANGED <<up, toAgent, sock, pc, bufs, query, names>> /\ MonitorRest

\* MSG_ERROR, or no message at all.
FetchFails ==
  /\ pc = "fetch"
  /\ IF Arrived THEN Got.kind = "error" ELSE ~up
  /\ pc' = "stopped"
  /\ UNCHANGED <<netVars, sock, fetchVars, names>> /\ MonitorRest

\* MUTANT: the buffer of the first thread is stored in all of them.
Sum_First(t, n) == stored[t][n] + CallsIn(bufs[CHOOSE u \in DOMAIN bufs : TRUE], n)

Sum(t, n) == stored[t][n] + IF t \in DOMAIN bufs THEN CallsIn(bufs[t], n) ELSE 0

\* ThreadStore::Store for every thread that sent a buffer; it uses the
\* thread's MSG_NOWINFO without a test.
StoreAll ==
  /\ IF DOMAIN bufs \subseteq nows
     THEN pc' = "idle" /\ stored' = [t \in Threads |-> [n \in Word |-> Sum(t, n)]]
     ELSE pc' = "crashed" /\ UNCHANGED stored
  /\ bufs' = << >> /\ nows' = {} /\ query' = << >>

FetchEnds ==
  /\ pc = "fetch" /\ Arrived /\ Got.kind = "succeed"
  /\ toMonitor' = Tail(toMonitor)
  /\ IF query = << >>
     THEN StoreAll /\ UNCHANGED <<up, toAgent>>
     ELSE Ask("query", query, "names") /\ UNCHANGED <<fetchVars, stored>>
  /\ UNCHANGED <<agentVars, sock, polls, names>>

\* MUTANT: the lines are counted from the word in front of the names.
Line_Shifted(body, i) == IF i - 1 \in DOMAIN body THEN body[i - 1] ELSE Empty

Line(body, i) == IF i \in DOMAIN body THEN body[i] ELSE Empty

\* The answer is taken line by line whatever its type is.
NamesArrive ==
  /\ pc = "names" /\ Arrived
  /\ names' = [n \in DOMAIN names |->
                 IF n \in Range(query)
                 THEN Line(Got.body, CHOOSE i \in DOMAIN query : query[i] = n)
                 ELSE names[n]]
  /\ toMonitor' = Tail(toMonitor)
  /\ StoreAll
  /\ UNCHANGED <<agentVars, up, toAgent, sock, polls>>

\* The answer is used without a test.
NamesLost ==
  /\ pc = "names" /\ Lost
  /\ pc' = "crashed"
  /\ UNCHANGED <<netVars, sock, fetchVars, names>> /\ MonitorRest

AgentStep == AnswerInfo \/ AnswerNames \/ BeginAnswer \/ SendPart \/ EndAnswer
MonitorStep ==
  \/ Start \/ InfoArrives \/ InfoUnreadable \/ InfoLost
  \/ DataArrives \/ NowInfoArrives \/ FetchFails \/ FetchEnds
  \/ NamesArrive \/ NamesLost

Next ==
  \/ \E t \in Threads, n \in Names : Call(t, n)
  \/ AgentStep \/ Hangup \/ Break
  \/ MonitorStep \/ Poll

\* Both threads run straight-line code between two messages.  Nothing obliges
\* the program to call, the connection to break or the monitor to poll.
Spec == Init /\ [][Next]_vars /\ WF_vars(AgentStep) /\ WF_vars(MonitorStep)

-----------------------------------------------------------------------------
(* Properties.                                                             *)

Settled == Names \cup {Empty}

\* The state of both ends is of the expected kind.
TypeOK ==
  /\ made \in [Threads \X Names -> 0 .. MaxCalls]
  /\ front \in [Threads -> Seq(Names)]
  /\ table \subseteq Names
  /\ agent.pc \in {"recv", "send", "gone", "aborted"}
  /\ agent.todo \in Seq(Threads \X {"data", "now"})
  /\ up \in BOOLEAN
  /\ sock \in {"none", "served", "stray"}
  /\ pc \in {"new", "slide", "meta", "target", "idle", "fetch", "names", "stopped",
            "spinning", "crashed"}
  /\ polls \in 0 .. MaxPolls
  /\ DOMAIN bufs \subseteq Threads /\ nows \subseteq Threads
  /\ query \in Seq(Word)
  /\ DOMAIN names \subseteq Word /\ Range(names) \subseteq Settled \cup {Asking, Junk, Told}
  /\ stored \in [Threads -> [Word -> Nat]]

\* The messages of thread t with records that the monitor has not read, and the
\* calls of name n in them.
DataOf(t) == {k \in DOMAIN toMonitor : toMonitor[k].kind = "data" /\ toMonitor[k].thread = t}

OnTheWire(t, n) ==
  Cardinality(UNION {{k} \X {i \in DOMAIN toMonitor[k].body : toMonitor[k].body[i] = n} :
                       k \in DataOf(t)})

\* The calls of name n by thread t that are on their way to its store.
UnderWay(t, n) ==
  CallsIn(front[t], n) + OnTheWire(t, n) + IF t \in DOMAIN bufs THEN CallsIn(bufs[t], n) ELSE 0

\* Every call the program made is in its buffer, on the way, or stored, once;
\* only a broken connection loses any.  Although nobody tests whether a body
\* arrived, nothing of a body cut short is stored (RecvMessage, GetProfileData).
NothingLost ==
  \A t \in Threads :
    /\ stored[t][Junk] = 0
    /\ \A n \in Names :
         IF up THEN stored[t][n] + UnderWay(t, n) = made[t, n]
         ELSE stored[t][n] + CallsIn(front[t], n) <= made[t, n]

\* Between two fetches of a connection that holds every id has its own name:
\* no answer is filed under another id and no placeholder stays, except that
\* a query with too many names leaves all of them empty (GetProfileData).
NamesRight ==
  up /\ pc = "idle" =>
    \A n \in DOMAIN names :
      names[n] = n \/ (names[n] = Empty /\ Cardinality(DOMAIN names) > NameCap)

\* A node of the thread stores has a name, and not the placeholder, whatever
\* happened to the connection: what a failed fetch asked for is not stored.
NodesNamed ==
  \A t \in Threads, n \in Names :
    stored[t][n] > 0 => n \in DOMAIN names /\ names[n] # Asking

\* The monitor follows a null pointer only if the connection broke, in the
\* first exchange or while it waited for names, and reads an answer for ever
\* only if it broke in the first exchange (ReceiveLoop, GetProfileData).
CrashNeedsBreak ==
  /\ pc = "crashed" => ~up /\ (polls = 0 \/ query # << >>)
  /\ pc = "spinning" => ~up /\ polls = 0

\* A request makes the profiled program abort only if that many names are new
\* in one answer (llprof_message_dispatch).
AbortNeedsFlood ==
  agent.pc = "aborted" => Cardinality(table) + 1 >= RequestCap

\* An exchange with a program that serves the monitor's connection comes to an
\* end, and with it the time its store is locked; only one that broke within
\* the first or second answer may be read for ever (ReceiveLoop).
ExchangeEnds ==
  pc \in {"slide", "meta", "target", "fetch", "names"} /\ sock = "served"
    ~> pc \in {"idle", "stopped", "crashed"} \/ (pc = "spinning" /\ ~up)
=============================================================================
