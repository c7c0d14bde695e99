------------------------------ MODULE Monitor ------------------------------
(***************************************************************************)
(* The threads of the monitor and the map of stores they share: the thread *)
(* that accepts connections of profiled programs, the one that fetches     *)
(* from all of them in turn (webmon/data_store.cpp), and one thread for    *)
(* every HTTP request (webmon/http.cpp).                                   *)
(*                                                                         *)
(* The counter of ids and the map have no lock: NewDataStore reads the     *)
(* counter three times and writes it once, each a step of its own here; an *)
(* insertion into the map is one step.  A store's lock is held by its      *)
(* creator while it is configured, by the receive thread during a fetch,   *)
(* but not during the first exchange, and by a list or tree request while  *)
(* the store is formatted.                                                 *)
(*                                                                         *)
(* An exchange with a target, the subject of Session, is one step.  It     *)
(* succeeds, or fails and stops the store, or the connection breaks where  *)
(* the answer is used without a test: the monitor ends, with all its       *)
(* threads.  It may also never end, if the target is silent or what        *)
(* arrived of the first answers is read for ever.                          *)
(***************************************************************************)
EXTENDS Integers, FiniteSets

CONSTANTS
  Openers,     \* threads that handle a request for a new target
  Readers,     \* threads that handle a list or tree request
  Acceptor,    \* the accept thread
  Receiver,    \* the receive thread
  Nobody,      \* holds a lock that is free
  MaxAccepts   \* bound: connections of profiled programs

ASSUME MonitorConstants ==
  /\ Acceptor # Receiver /\ Nobody \notin {Acceptor, Receiver}
  /\ {Acceptor, Receiver, Nobody} \cap (Openers \cup Readers) = {}
  /\ Openers \cap Readers = {} /\ IsFiniteSet(Openers) /\ MaxAccepts \in Nat

Handlers == Openers \cup Readers
Creators == Openers \cup {Acceptor}
Workers  == Readers \cup Creators \cup {Receiver}
MaxStores == MaxAccepts + Cardinality(Openers)
Pointers  == 1 .. MaxStores

VARIABLES
  seq,       \* gDataStoreIDSeq
  all,       \* gAllDataStore, a function from ids to pointers
  store,     \* the stores allocated so far, by pointer
  lock,      \* who holds the lock of a store
  pc,        \* where each thread is
  reg,       \* a creator's copy of the counter
  ds,        \* the store a thread works on, a pointer
  key,       \* the id an iteration over the map is at
  request,   \* what each reader was asked for
  got,       \* the parts of the request received so far
  silent,    \* the receive thread will never be done with the target it asks
  accepts,   \* connections of profiled programs so far
  met,       \* history: the creation under way overlapped with another
  clash      \* history: stores whose creation overlapped with another

creation == <<seq, all, store, reg, met, clash>>
requests == <<request, got>>
vars == <<creation, lock, pc, ds, key, requests, silent, accepts>>

-----------------------------------------------------------------------------
Go(t, to) == pc' = [pc EXCEPT ![t] = to]

\* The process ends.
Die == pc' = [t \in Workers |-> "killed"]
Dead == \E t \in Workers : pc[t] = "killed"

Acquire(t, o) == lock[o] = Nobody /\ lock' = [lock EXCEPT ![o] = t]
Release(o) == lock' = [lock EXCEPT ![o] = Nobody]

\* MUTANT: an iteration skips an id.
NextKey_Skip(k) == {i \in DOMAIN all : i > k + 1 /\ \A j \in DOMAIN all : j > k + 1 => i <= j}

\* Where an iterator of the map goes from an id: a set, empty at the end.
NextKey(k) == {i \in DOMAIN all : i > k /\ \A j \in DOMAIN all : j > k => i <= j}

Init ==
  /\ seq = 0 /\ all = << >> /\ store = << >>
  /\ lock = [o \in Pointers |-> Nobody]
  /\ pc = [t \in Workers |->
             CASE t = Acceptor -> "accept" [] t = Receiver -> "sleep" [] OTHER -> "head"]
  /\ reg = [c \in Creators |-> 0]
  /\ ds = [t \in Workers |-> 0] /\ key = [t \in Readers \cup {Receiver} |-> 0]
  /\ request \in [Readers -> {"list", "tree"}]
  /\ got = [h \in Handlers |-> 0]
  /\ silent = FALSE /\ accepts = 0
  /\ met = [c \in Creators |-> FALSE] /\ clash = {}

-----------------------------------------------------------------------------
(* NewDataStore and the configuration of the new store, by the accept      *)
(* thread and by handlers of a "new" request.                              *)

Accept ==
  /\ pc[Acceptor] = "accept" /\ accepts < MaxAccepts
  /\ accepts' = accepts + 1
  /\ Go(Acceptor, "load")
  /\ UNCHANGED <<creation, lock, ds, key, requests, silent>>

CreatorRest == UNCHANGED <<key, requests, silent, accepts>>

Creating == {c \in Creators : pc[c] \in {"increment", "construct", "insert"}}

\* gDataStoreIDSeq++, the load and the store.
Load(c) ==
  /\ pc[c] = "load"
  /\ reg' = [reg EXCEPT ![c] = seq]
  /\ met' = [d \in Creators |->
       IF d = c THEN Creating # {} ELSE met[d] \/ d \in Creating]
  /\ Go(c, "increment")
  /\ UNCHANGED <<seq, all, store, clash, lock, ds>> /\ CreatorRest

Increment(c) ==
  /\ pc[c] = "increment"
  /\ seq' = reg[c] + 1
  /\ Go(c, "construct")
  /\ UNCHANGED <<all, store, reg, met, clash, lock, ds>> /\ CreatorRest

Construct(c) ==
  /\ pc[c] = "construct"
  /\ LET o == Cardinality(DOMAIN store) + 1 IN
     /\ store' = [p \in DOMAIN store \cup {o} |-> IF p # o THEN store[p]
           ELSE [id |-> seq, target |-> FALSE, recv |-> FALSE, first |-> FALSE]]
     /\ ds' = [ds EXCEPT ![c] = o]
  /\ Go(c, "insert")
  /\ UNCHANGED <<seq, all, reg, met, clash, lock>> /\ CreatorRest

\* MUTANT: the store is filed under the id before the increment.
Filed_Before(c) == reg[c]

\* MUTANT: the counter is incremented once more.
Filed_Next(c) == seq + 1

\* The key is the counter, read once more.
Filed(c) == seq

\* The lock NewDataStore takes is free, the store being unknown to others; it
\* is released when the function returns.
Insert(c) ==
  /\ pc[c] = "insert"
  /\ all' = [i \in DOMAIN all \cup {Filed(c)} |-> IF i = Filed(c) THEN ds[c] ELSE all[i]]
  /\ clash' = IF met[c] THEN clash \cup {ds[c]} ELSE clash
  /\ Go(c, "configure")
  /\ UNCHANGED <<seq, store, reg, met, lock, ds>> /\ CreatorRest

LockNew(c) ==
  /\ pc[c] = "configure"
  /\ Acquire(c, ds[c])
  /\ Go(c, "target")
  /\ UNCHANGED <<creation, ds>> /\ CreatorRest

\* MUTANT: the store may receive before it has its target.
Configured_Early(s, step) == IF step = "target" THEN [s EXCEPT !.recv = TRUE] ELSE [s EXCEPT !.target = TRUE]

\* SetConnectedSocket or SetConnectTo, then StartReceive.
Configured(s, step) == IF step = "target" THEN [s EXCEPT !.target = TRUE] ELSE [s EXCEPT !.recv = TRUE]

SetTarget(c) ==
  /\ pc[c] = "target"
  /\ store' = [store EXCEPT ![ds[c]] = Configured(@, "target")]
  /\ Go(c, "start")
  /\ UNCHANGED <<seq, all, reg, met, clash, lock, ds>> /\ CreatorRest

StartReceive(c) ==
  /\ pc[c] = "start"
  /\ store' = [store EXCEPT ![ds[c]] = Configured(@, "start")]
  /\ Release(ds[c])
  /\ Go(c, IF c = Acceptor THEN "accept" ELSE "done")
  /\ reg' = [reg EXCEPT ![c] = 0] /\ met' = [met EXCEPT ![c] = FALSE]
  /\ ds' = [ds EXCEPT ![c] = 0]
  /\ UNCHANGED <<seq, all, clash>> /\ CreatorRest

Create(c) ==
  \/ Load(c) \/ Increment(c) \/ Construct(c) \/ Insert(c)
  \/ LockNew(c) \/ SetTarget(c) \/ StartReceive(c)

-----------------------------------------------------------------------------
(* The receive thread: DataStore_ReceiveThread and ReceiveLoop.            *)

ReceiverRest == UNCHANGED <<seq, all, reg, met, clash, requests, silent, accepts>>

Wake ==
  /\ pc[Receiver] = "sleep"
  /\ Go(Receiver, "next")
  /\ UNCHANGED <<store, lock, ds, key>> /\ ReceiverRest

\* The next store of the map; recv_ and first_received_ are read without lock.
Visit ==
  /\ pc[Receiver] = "next"
  /\ IF NextKey(key[Receiver]) = {}
     THEN /\ Go(Receiver, "sleep")
          /\ ds' = [ds EXCEPT ![Receiver] = 0] /\ key' = [key EXCEPT ![Receiver] = 0]
          /\ UNCHANGED store
     ELSE \E i \in NextKey(key[Receiver]) :
            /\ key' = [key EXCEPT ![Receiver] = i]
            /\ ds' = [ds EXCEPT ![Receiver] = all[i]]
            /\ LET s == store[all[i]] IN
               /\ Go(Receiver, IF ~s.recv THEN "next" ELSE IF s.first THEN "lock" ELSE "first")
               /\ store' = IF s.recv THEN [store EXCEPT ![all[i]].first = TRUE] ELSE store
  /\ UNCHANGED lock /\ ReceiverRest

Current == ds[Receiver]
Stopped == [store EXCEPT ![Current].recv = FALSE]

\* Connecting and the three questions of the first exchange; only a failure
\* to connect and a lost first answer stop the store.
FirstExchange ==
  /\ pc[Receiver] = "first" /\ ~silent
  /\ \/ Go(Receiver, "lock") /\ UNCHANGED store
     \/ Go(Receiver, "next") /\ store' = Stopped
  /\ UNCHANGED <<lock, ds, key>> /\ ReceiverRest

\* MUTANT: a fetch does not wait for the lock.
Guarded_Not(o) == lock' = [lock EXCEPT ![o] = Receiver]

Guarded(o) == Acquire(Receiver, o)

BeginFetch ==
  /\ pc[Receiver] = "lock"
  /\ Guarded(Current)
  /\ Go(Receiver, "fetch")
  /\ UNCHANGED <<store, ds, key>> /\ ReceiverRest

EndFetch ==
  /\ pc[Receiver] = "fetch" /\ ~silent
  /\ store' \in {store, Stopped}
  /\ Release(Current)
  /\ Go(Receiver, "next")
  /\ UNCHANGED <<ds, key>> /\ ReceiverRest

\* The answer to the second or the third question, or to the name query, did
\* not come: a null pointer is followed.
NullAnswer ==
  /\ pc[Receiver] \in {"first", "fetch"} /\ ~silent
  /\ Die
  /\ UNCHANGED <<creation, lock, ds, key, requests, silent, accepts>>

\* A profiled program is stopped, or a network is, without the connection
\* ending; or the first or second answer of the first exchange was cut short
\* and the loop over its lines never ends.
FallSilent ==
  /\ pc[Receiver] \in {"first", "fetch"} /\ ~silent
  /\ silent' = TRUE
  /\ UNCHANGED <<creation, lock, pc, ds, key, requests, accepts>>

Receive == Wake \/ Visit \/ FirstExchange \/ BeginFetch \/ EndFetch

-----------------------------------------------------------------------------
(* client_handler.  A request comes in three parts: the header, the two    *)
(* halves of the empty line that ends it, and for "new" a body.            *)

Parts(h) == IF h \in Openers THEN 4 ELSE 3

HandlerRest == UNCHANGED <<creation, request, silent, accepts>>

Route(h) == IF h \in Openers THEN "load" ELSE IF request[h] = "list" THEN "list" ELSE "find"

\* One call of recv gives any of the parts that are still to come; the empty
\* line is looked for in what that call gave.  A header that cannot be parsed
\* ends the thread without an answer and without a close.
RecvHead(h) ==
  /\ pc[h] = "head"
  /\ \E to \in got[h] + 1 .. Parts(h) :
       /\ got' = [got EXCEPT ![h] = to]
       /\ \/ Go(h, IF to = 2 THEN "split"
                   ELSE IF to = 1 THEN "head"
                   ELSE IF to < Parts(h) THEN "body" ELSE Route(h))
          \/ to >= 3 /\ Go(h, "refused")
  /\ UNCHANGED <<lock, ds, key>> /\ HandlerRest

RecvBody(h) ==
  /\ pc[h] = "body"
  /\ got' = [got EXCEPT ![h] = Parts(h)]
  /\ Go(h, Route(h))
  /\ UNCHANGED <<lock, ds, key>> /\ HandlerRest

\* recv gives 0: the thread ends without an answer and without a close.
ClientCloses(h) ==
  /\ pc[h] \in {"head", "split", "body"}
  /\ Go(h, "left")
  /\ UNCHANGED <<lock, ds, key, got>> /\ HandlerRest

\* The next store of a list request; its answer is sent when there is none.
ListNext(h) ==
  /\ pc[h] = "list"
  /\ IF NextKey(key[h]) = {}
     THEN Go(h, "done") /\ UNCHANGED <<ds, key>>
     ELSE \E i \in NextKey(key[h]) :
            /\ key' = [key EXCEPT ![h] = i]
            /\ ds' = [ds EXCEPT ![h] = all[i]]
            /\ Go(h, "wait")
  /\ UNCHANGED <<lock, got>> /\ HandlerRest

\* The viewer asks for the tree of any id it was told of.
Find(h) ==
  /\ pc[h] = "find"
  /\ \/ \E i \in DOMAIN all : ds' = [ds EXCEPT ![h] = all[i]] /\ Go(h, "wait")
     \/ Go(h, "done") /\ UNCHANGED ds
  /\ UNCHANGED <<lock, key, got>> /\ HandlerRest

BeginRead(h) ==
  /\ pc[h] = "wait"
  /\ Acquire(h, ds[h])
  /\ Go(h, "read")
  /\ UNCHANGED <<ds, key, got>> /\ HandlerRest


Unlocked(o) == Release(o)

EndRead(h) ==
  /\ pc[h] = "read"
  /\ Unlocked(ds[h])
  /\ Go(h, IF request[h] = "list" THEN "list" ELSE "done")
  /\ UNCHANGED <<ds, key, got>> /\ HandlerRest

\* A length, or the times of a tree request, that are no numbers: nobody
\* catches the exception.
BadNumber(h) ==
  /\ \/ h \in Openers /\ pc[h] = "head"
     \/ h \in Readers /\ pc[h] = "read" /\ request[h] = "tree"
  /\ Die
  /\ UNCHANGED <<lock, ds, key, got>> /\ HandlerRest

Read(h) == ListNext(h) \/ Find(h) \/ BeginRead(h) \/ EndRead(h)
Handle(h) == RecvHead(h) \/ RecvBody(h) \/ (h \in Readers /\ Read(h))

Work ==
  \/ Accept
  \/ \E c \in Creators : Create(c)
  \/ Receive
  \/ FallSilent
  \/ \E h \in Handlers : Handle(h) \/ ClientCloses(h)

Next == Work \/ NullAnswer \/ \E h \in Handlers : BadNumber(h)

\* Every thread runs.  A thread that waits for a lock gets it if it is free
\* again and again: the receive thread sleeps between two rounds, and takes
\* the lock of a store once in a round.
Fairness ==
  /\ \A c \in Creators : WF_vars(Create(c)) /\ SF_vars(LockNew(c))
  /\ WF_vars(Receive)
  /\ \A h \in Handlers : WF_vars(Handle(h))
  /\ \A h \in Readers : SF_vars(BeginRead(h))

Spec == Init /\ [][Next]_vars /\ Fairness

-----------------------------------------------------------------------------
(* Properties.                                                             *)

\* The state of the threads, the stores and the map is of the expected kind.
TypeOK ==
  /\ seq \in 0 .. MaxStores
  /\ DOMAIN all \subseteq 0 .. MaxStores /\ \A i \in DOMAIN all : all[i] \in DOMAIN store
  /\ DOMAIN store \subseteq Pointers
  /\ \A o \in DOMAIN store :
       store[o] \in [id : 0 .. MaxStores, target : BOOLEAN, recv : BOOLEAN, first : BOOLEAN]
  /\ lock \in [Pointers -> Workers \cup {Nobody}]
  /\ ds \in [Workers -> 0 .. MaxStores]
  /\ clash \subseteq Pointers /\ silent \in BOOLEAN

\* A store that was configured can be found under its own id, unless it was
\* created while another was being created (NewDataStore).
LostNeedsOverlap ==
  \A o \in DOMAIN store :
    store[o].target /\ o \notin clash => store[o].id \in DOMAIN all /\ all[store[o].id] = o

\* The receive thread starts with a store only when it has its socket or its
\* host, though it reads recv_ without the lock (ReceiveLoop).
StartedWithTarget == \A o \in DOMAIN store : store[o].first => store[o].target

\* A request never formats a store while a fetch changes it (GetProfileData,
\* DataStoreRequest).
FetchExcludesReaders ==
  \A h \in Readers : pc[h] = "read" /\ pc[Receiver] = "fetch" => ds[h] # Current


\* A configured target is asked, unless its creation overlapped with another,
\* the receive thread is held up for ever by some target, or the monitor has
\* died: then no other is asked either.
Receiving(o) == o \in DOMAIN store /\ store[o].recv
Asked(o) == o \in DOMAIN store /\ store[o].first
TargetsServed == \A o \in Pointers : Receiving(o) ~> Asked(o) \/ o \in clash \/ silent \/ Dead
=============================================================================
