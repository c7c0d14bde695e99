---------------------------- MODULE SessionProofs ----------------------------
(***************************************************************************)
(* What the conversation between monitor and program guarantees although   *)
(* bodies and many results are not tested: for any threads, names, limits  *)
(* and bounds, and a connection that may break anywhere,                   *)
(*   - the monitor follows a null pointer only in the first exchange or    *)
(*     while it waits for names, and only after a break,                   *)
(*   - a node it stores has been given a name,                             *)
(*   - between two fetches of a live connection every name is right,       *)
(*   - the program aborts only for a flood of new names,                   *)
(*   - every call is stored once while the connection lives, and nothing   *)
(*     that was not made is stored when it breaks,                         *)
(*   - every variable keeps its type and its bound.                        *)
(***************************************************************************)
EXTENDS Session, FiniteSetTheorems, TLAPS

(***************************************************************************)
(* The invariant.                                                          *)
(***************************************************************************)

Pcs == {"new", "slide", "meta", "target", "idle", "fetch", "names", "stopped",
        "spinning", "crashed"}

Messages == [kind : {"info", "query", "req", "data", "now", "succeed", "names", "error"},
             thread : Threads \cup {Junk}, body : Seq(Word)]

TypeInv ==
  /\ front \in [Threads -> Seq(Names)]
  /\ table \subseteq Names /\ IsFiniteSet(table)
  /\ agent \in [pc : {"recv", "send", "gone", "aborted"}, todo : Seq(Threads \X {"data", "now"})]
  /\ up \in BOOLEAN
  /\ toAgent \in Seq(Messages) /\ toMonitor \in Seq(Messages)
  /\ pc \in Pcs /\ polls \in Nat
  /\ \A t \in DOMAIN bufs : bufs[t] \in Seq(Word)
  /\ query \in Seq(Word)
  /\ DOMAIN names \subseteq Word
  /\ \A n \in DOMAIN names : names[n] \in Word \cup {Empty, Asking}
  /\ stored \in [Threads -> [Word -> Nat]]

(* One question is under way at a time.                                    *)

AgentRests == agent.pc # "send"
Quiet == toAgent = << >> /\ toMonitor = << >> /\ AgentRests
Hushed == Quiet /\ ~up
Asked(kind) ==
  Len(toAgent) = 1 /\ toAgent[1].kind = kind /\ toMonitor = << >> /\ AgentRests
Answered == toAgent = << >> /\ Len(toMonitor) = 1 /\ AgentRests

\* A message of a thread is on the way.
Among(q, kind, t) == \E k \in 1 .. Len(q) : q[k].kind = kind /\ q[k].thread = t

\* The thread's records have arrived or are on the way; its running node, too.
HasData(t) == t \in DOMAIN bufs \/ Among(toMonitor, "data", t)
HasNow(t)  == t \in nows \/ Among(toMonitor, "now", t)

\* What is still to be sent of a thread whose records have been sent.
OneLeft(t) == agent.todo # << >> /\ agent.todo[1] = <<t, "now">>

\* Records are followed by the running node of their thread.
Paired(todo) ==
  \A i \in 1 .. Len(todo) :
    todo[i][2] = "data" => i + 1 <= Len(todo) /\ todo[i + 1] = <<todo[i][1], "now">>

\* An answer with records: the message that ends it comes last, after both
\* messages of every thread.
Streaming ==
  /\ toAgent = << >>
  /\ \A k \in 1 .. Len(toMonitor) : toMonitor[k].kind = "succeed" =>
       k = Len(toMonitor) /\ AgentRests /\ \A t : HasData(t) => HasNow(t)
  /\ up /\ agent.pc = "send" =>
       Paired(agent.todo) /\ \A t : HasData(t) => HasNow(t) \/ OneLeft(t)

TurnInv ==
  /\ pc \in {"new", "slide", "meta", "target"} => polls = 0
  /\ pc \in {"new", "idle"} => Quiet
  /\ pc \in {"slide", "meta", "target"} => Asked("info") \/ Answered \/ Hushed
  /\ pc = "fetch" => (Asked("req") /\ DOMAIN bufs = {}) \/ Streaming
  /\ pc = "names" => /\ query # << >> /\ DOMAIN bufs \subseteq nows
                     /\ Asked("query") \/ Answered \/ Hushed

\* What a fetch asked for is settled before anything is stored.
NamingInv ==
  /\ pc \notin {"fetch", "names", "stopped", "spinning", "crashed"} => query = << >>
  /\ Range(query) \subseteq DOMAIN names /\ IsInjective(query)
  /\ \A t \in DOMAIN bufs : Range(bufs[t]) \subseteq DOMAIN names
  /\ pc \notin {"stopped", "spinning", "crashed"} =>
       \A n \in DOMAIN names : names[n] = Asking => n \in Range(query)

\* What the monitor has heard of is in the program's table, as long as no
\* body is cut short.
KnownInv ==
  /\ \A t \in Threads : Range(front[t]) \subseteq table
  /\ up => /\ DOMAIN names \subseteq table
           /\ \A k \in 1 .. Len(toMonitor) :
                toMonitor[k].kind = "data" => Range(toMonitor[k].body) \subseteq table
  /\ \A k \in 1 .. Len(toAgent) : toAgent[k].kind = "query" =>
       Range(toAgent[k].body) \subseteq table /\ IsInjective(toAgent[k].body)

\* Every name is right, or all are empty for want of room.
Right(n) == names[n] = n \/ (names[n] = Empty /\ Cardinality(DOMAIN names) > NameCap)

RightInv ==
  up =>
    /\ pc \notin {"stopped", "spinning", "crashed"} => \A n \in DOMAIN names \ Range(query) : Right(n)
    /\ pc = "names" =>
         /\ \A k \in 1 .. Len(toAgent) : toAgent[k].body = query
         /\ \A k \in 1 .. Len(toMonitor) :
              \/ toMonitor[k].body = query
              \/ toMonitor[k].body = << >> /\ Len(query) > NameCap

IInv ==
  /\ TypeInv /\ TurnInv /\ NamingInv /\ KnownInv /\ RightInv
  /\ NodesNamed /\ CrashNeedsBreak /\ AbortNeedsFlood

\* While the connection holds, an answer of the first exchange is whole.
ToldInv ==
  up /\ pc \in {"slide", "meta", "target"} =>
    \A k \in 1 .. Len(toMonitor) : toMonitor[k].body = <<Told>>

(***************************************************************************)
(* Numbers and sequences.                                                  *)
(***************************************************************************)

\* The order of the numbers, as a relation.
LEMMA Descent ==
  \E R : IsWellFoundedOn(R, Nat) /\ \A k, m \in Nat : k < m => <<k, m>> \in R
<1>1. IsWellFoundedOn(OpToRel(<, Nat), Nat)
  BY NatLessThanWellFounded
<1>2. \A k, m \in Nat : k < m => <<k, m>> \in OpToRel(<, Nat)
  BY DEF OpToRel
<1> QED  BY <1>1, <1>2

\* Of the numbers without a property there is a least one; it is all that the
\* inductions below need.
LEMMA Least == ASSUME NEW S, S \subseteq Nat, S # {} PROVE \E m \in S : \A k \in S : m <= k
<1>1. PICK R : IsWellFoundedOn(R, Nat) /\ \A k, m \in Nat : k < m => <<k, m>> \in R
  BY Descent
<1>2. PICK m \in S : \A k \in S : ~ (<<k, m>> \in R)
  <2>1. \A RR, SS, TT : IsWellFoundedOn(RR, SS) /\ TT \subseteq SS /\ TT # {}
                          => \E x \in TT : \A y \in TT : ~ (<<y, x>> \in RR)
    BY WFMin
  <2>2. S \subseteq Nat /\ S # {} /\ IsWellFoundedOn(R, Nat)
    BY <1>1
  <2> QED  BY <2>1, <2>2
<1>3. ASSUME NEW k \in S PROVE m <= k
  <2>1. m \in Nat /\ k \in Nat
    OBVIOUS
  <2>2. ~(k < m)
    BY <1>1, <1>2, <2>1
  <2> QED  BY <2>1, <2>2
<1> QED  BY <1>3

\* An induction: what holds of 0 and passes on from a number to the next, up to
\* a bound, holds up to the bound.
LEMMA Induction ==
  ASSUME NEW last \in Nat, NEW T, 0 \in T, \A k \in 1 .. last : k - 1 \in T => k \in T
  PROVE  0 .. last \subseteq T
<1>1. PICK S : S = {k \in 0 .. last : k \notin T}
  OBVIOUS
<1>2. SUFFICES ASSUME S # {} PROVE FALSE
  BY <1>1
<1>3. PICK m \in S : \A k \in S : m <= k
  <2>1. S \subseteq Nat
    BY <1>1
  <2> QED  BY <1>2, <2>1, Least
<1>6. m \in 1 .. last /\ m \notin T
  BY <1>1, <1>3
<1>4. m - 1 \in 0 .. last /\ ~(m <= m - 1)
  BY <1>6
<1>5. m - 1 \in T
  BY <1>1, <1>3, <1>4
<1> QED  BY <1>5, <1>6

(***************************************************************************)
(* The new names of a message.                                             *)
(***************************************************************************)

\* One turn of the loop over a message: the names asked for so far, and one
\* that may be known.
Extended(known, asked, n) == IF n \in known \cup Range(asked) THEN asked ELSE Append(asked, n)

Loop(known, body, k, new) ==
  new = [i \in 0 .. k |-> IF i = 0 THEN << >> ELSE Extended(known, new[i - 1], body[i])]

\* The loop can be run.
LEMMA LoopRuns ==
  ASSUME NEW known, NEW body, NEW last \in Nat
  PROVE  \E new : Loop(known, body, last, new)
<1> DEFINE Runs == {k \in 0 .. last : \E new : Loop(known, body, k, new)}
<1>1. 0 \in Runs
  <2>1. PICK new : new = [i \in 0 .. 0 |-> << >>]
    OBVIOUS
  <2>2. new = [i \in 0 .. 0 |-> IF i = 0 THEN << >> ELSE Extended(known, new[i - 1], body[i])]
    BY <2>1
  <2> QED  BY <2>2 DEF Loop
<1>2. ASSUME NEW k \in 1 .. last, k - 1 \in Runs PROVE k \in Runs
  <2>1. PICK new : Loop(known, body, k - 1, new)
    BY <1>2
  <2>2. PICK more : more = [i \in 0 .. k |-> IF i < k THEN new[i]
                                             ELSE Extended(known, new[k - 1], body[k])]
    OBVIOUS
  <2>3. ASSUME NEW i \in 0 .. k
        PROVE  more[i] = IF i = 0 THEN << >> ELSE Extended(known, more[i - 1], body[i])
    <3>1. CASE i = 0
      BY <2>1, <2>2, <3>1 DEF Loop
    <3>2. CASE i \in 1 .. k - 1
      <4>1. more[i] = new[i] /\ more[i - 1] = new[i - 1]
        BY <2>2, <3>2
      <4>2. new[i] = Extended(known, new[i - 1], body[i])
        BY <2>1, <3>2 DEF Loop
      <4> QED  BY <3>2, <4>1, <4>2
    <3>3. CASE i = k
      <4>1. more[k] = Extended(known, new[k - 1], body[k]) /\ more[k - 1] = new[k - 1]
        BY <2>2
      <4> QED  BY <3>3, <4>1
    <3> QED  BY <3>1, <3>2, <3>3
  <2>4. more = [i \in 0 .. k |-> more[i]]
    BY <2>2
  <2>5. Loop(known, body, k, more)
    BY <2>3, <2>4 DEF Loop
  <2> QED  BY <2>5
<1> HIDE DEF Runs
<1>3. 0 .. last \subseteq Runs
  BY <1>1, <1>2, Induction
<1> QED  BY <1>3 DEF Runs

\* It asks for each new name of the message once.
LEMMA LoopFacts ==
  ASSUME NEW known, NEW body \in Seq(Word), NEW new, Loop(known, body, Len(body), new)
  PROVE  /\ new[Len(body)] \in Seq(Word) /\ IsInjective(new[Len(body)])
         /\ Range(new[Len(body)]) = Range(body) \ known
<1> DEFINE Good(k) ==
      /\ new[k] \in Seq(Word) /\ IsInjective(new[k])
      /\ \A x : x \in Range(new[k]) <=> x \notin known /\ \E j \in 1 .. k : body[j] = x
<1> DEFINE Ks == {k \in 0 .. Len(body) : Good(k)}
<1>L. Len(body) \in Nat /\ DOMAIN body = 1 .. Len(body)
  OBVIOUS
<1>1. 0 \in Ks
  <2>1. new[0] = << >>
    BY <1>L DEF Loop
  <2>2. Range(new[0]) = {} /\ IsInjective(new[0])
    BY <2>1 DEF Range, IsInjective
  <2>3. new[0] \in Seq(Word)
    BY <2>1
  <2>4. Good(0)
    BY <2>2, <2>3
  <2> QED  BY <1>L, <2>4
<1>2. ASSUME NEW k \in 1 .. Len(body), k - 1 \in Ks PROVE k \in Ks
  <2>1. PICK q : q = new[k - 1]
    OBVIOUS
  <2>2. /\ q \in Seq(Word) /\ IsInjective(q)
        /\ \A x : x \in Range(q) <=> x \notin known /\ \E j \in 1 .. k - 1 : body[j] = x
    BY <1>2, <2>1
  <2>3. new[k] = IF body[k] \in known \cup Range(q) THEN q ELSE Append(q, body[k])
    <3>1. k \in 0 .. Len(body) /\ k # 0
      OBVIOUS
    <3>2. new[k] = Extended(known, new[k - 1], body[k])
      BY <3>1 DEF Loop
    <3> QED  BY <2>1, <3>2 DEF Extended
  <2>4. \A x : (\E j \in 1 .. k : body[j] = x)
                 <=> (\E j \in 1 .. k - 1 : body[j] = x) \/ x = body[k]
    OBVIOUS
  <2>5. CASE body[k] \in known \cup Range(q)
    <3>1. new[k] = q
      BY <2>3, <2>5
    <3> QED  BY <2>2, <2>4, <2>5, <3>1
  <2>6. CASE body[k] \notin known \cup Range(q)
    <3>1. new[k] = Append(q, body[k]) /\ body[k] \in Word
      BY <2>3, <2>6
    <3>2. new[k] \in Seq(Word)
      BY <2>2, <3>1
    <3>3. /\ DOMAIN new[k] = 1 .. Len(q) + 1 /\ DOMAIN q = 1 .. Len(q) /\ Len(q) \in Nat
          /\ \A i \in 1 .. Len(q) : new[k][i] = q[i]
          /\ new[k][Len(q) + 1] = body[k]
      BY <2>2, <3>1
    <3>4. \A x : x \in Range(new[k]) <=> x \in Range(q) \/ x = body[k]
      BY <3>3 DEF Range
    <3>5. IsInjective(new[k])
      <4>1. SUFFICES ASSUME NEW a \in 1 .. Len(q) + 1, NEW b \in 1 .. Len(q) + 1, a # b,
                            new[k][a] = new[k][b]
                     PROVE  FALSE
        BY <3>3 DEF IsInjective
      <4>2. \A i \in 1 .. Len(q) : q[i] \in Range(q)
        BY <3>3 DEF Range
      <4>3. CASE a = Len(q) + 1 \/ b = Len(q) + 1
        BY <2>6, <3>3, <4>1, <4>2, <4>3
      <4>4. CASE a \in 1 .. Len(q) /\ b \in 1 .. Len(q)
        BY <2>2, <3>3, <4>1, <4>4 DEF IsInjective
      <4> QED  BY <3>3, <4>3, <4>4
    <3> QED  BY <2>2, <2>4, <2>6, <3>2, <3>4, <3>5
  <2> QED  BY <2>5, <2>6
<1> HIDE DEF Ks, Good
<1>3. 0 .. Len(body) \subseteq Ks
  BY <1>1, <1>2, <1>L, Induction
<1>4. Good(Len(body))
  BY <1>3, <1>L DEF Ks
<1>5. \A x : x \in Range(body) <=> \E j \in 1 .. Len(body) : body[j] = x
  BY DEF Range
<1> QED  BY <1>4, <1>5 DEF Good

LEMMA UnheardFacts ==
  ASSUME NEW body \in Seq(Word)
  PROVE  /\ Unheard(body) \in Seq(Word) /\ IsInjective(Unheard(body))
         /\ Range(Unheard(body)) = Range(body) \ DOMAIN names
<1>1. PICK some : Loop(DOMAIN names, body, Len(body), some)
  <2>1. Len(body) \in Nat
    OBVIOUS
  <2> QED  BY <2>1, LoopRuns
<1>2. some = [i \in 0 .. Len(body) |->
         IF i = 0 THEN << >>
         ELSE IF body[i] \in DOMAIN names \cup Range(some[i - 1]) THEN some[i - 1]
         ELSE Append(some[i - 1], body[i])]
  BY <1>1 DEF Loop, Extended
<1>3. PICK new :
        /\ new = [i \in 0 .. Len(body) |->
             IF i = 0 THEN << >>
             ELSE IF body[i] \in DOMAIN names \cup Range(new[i - 1]) THEN new[i - 1]
             ELSE Append(new[i - 1], body[i])]
        /\ Unheard(body) = new[Len(body)]
  BY <1>2 DEF Unheard
<1>4. Loop(DOMAIN names, body, Len(body), new)
  BY <1>3 DEF Loop, Extended
<1>5. \A known : Loop(known, body, Len(body), new) =>
        /\ new[Len(body)] \in Seq(Word) /\ IsInjective(new[Len(body)])
        /\ Range(new[Len(body)]) = Range(body) \ known
  BY LoopFacts
<1> QED  BY <1>3, <1>4, <1>5

(***************************************************************************)
(* Messages.                                                               *)
(***************************************************************************)

LEMMA SendFacts ==
  ASSUME up \in BOOLEAN, NEW S, NEW q \in Seq(S), NEW m \in S
  PROVE  /\ SendTo(q, <<m>>) \in Seq(S)
         /\ up => SendTo(q, <<m>>) = Append(q, m)
         /\ ~up => SendTo(q, <<m>>) = q
BY DEF SendTo

\* An injective sequence is no longer than the set of its elements.
LEMMA InjectiveBound ==
  ASSUME NEW W, NEW q \in Seq(W), IsInjective(q), NEW T, IsFiniteSet(T), Range(q) \subseteq T
  PROVE  Len(q) <= Cardinality(T)
<1>1. PICK S : S = 1 .. Len(q)
  OBVIOUS
<1>2. q \in Injection(S, T)
  <2>1. DOMAIN q = S /\ \A i \in S : q[i] \in T
    BY <1>1 DEF Range
  <2>2. q \in [S -> T]
    BY <2>1
  <2>3. \A a, b \in S : q[a] = q[b] => a = b
    BY <2>1 DEF IsInjective
  <2> QED  BY <2>2, <2>3 DEF Injection, IsInjective
<1>3. Cardinality(S) <= Cardinality(T)
  BY <1>2, FS_Injection
<1>4. Cardinality(S) = Len(q)
  <2>1. Len(q) \in Nat
    OBVIOUS
  <2> QED  BY SMTT(30), <1>1, <2>1, FS_Interval
<1> QED  BY <1>3, <1>4

\* A message that is cut short keeps its header.
LEMMA CutShortFacts ==
  ASSUME NEW m \in Messages, NEW c \in CutShort(m)
  PROVE  c \in Messages /\ c.kind = m.kind /\ c.thread = m.thread
<1> DEFINE Body(i, old) == [j \in DOMAIN m.body |-> IF j <= i THEN m.body[j] ELSE old]
           Cut(i, old)  == [m EXCEPT !.body = Body(i, old)]
           Cuts(i)      == {Cut(i, old) : old \in Memory}
<1>1. c \in UNION {Cuts(i) : i \in 0 .. Len(m.body) - 1}
  BY DEF CutShort
<1> HIDE DEF Cuts
<1>2. PICK i \in 0 .. Len(m.body) - 1 : c \in Cuts(i)
  BY <1>1
<1>3. PICK old \in Word : c = Cut(i, old)
  BY <1>2 DEF Cuts, Word
<1>4. PICK body : body = Body(i, old)
  OBVIOUS
<1>5. body \in Seq(Word)
  <2>1. m.body \in Seq(Word)
    BY DEF Messages
  <2>2. DOMAIN m.body = 1 .. Len(m.body) /\ Len(m.body) \in Nat
    BY <2>1
  <2>3. \A j \in 1 .. Len(m.body) : (IF j <= i THEN m.body[j] ELSE old) \in Word
    BY <2>1
  <2> QED  BY <1>4, <2>2, <2>3
<1>6. c = [m EXCEPT !.body = body]
  BY <1>3, <1>4
<1> QED  BY <1>5, <1>6 DEF Messages

\* What is left of the messages under way when the connection breaks.
LEMMA RemainsFacts ==
  ASSUME NEW q \in Seq(Messages), NEW r \in Remains(q)
  PROVE  /\ r \in Seq(Messages) /\ Len(r) <= Len(q)
         /\ \A k \in 1 .. Len(r) : r[k].kind = q[k].kind /\ r[k].thread = q[k].thread
<1> DEFINE WholeOnes == {SubSeq(q, 1, k) : k \in 0 .. Len(q)}
           Broken(k) == {Append(SubSeq(q, 1, k - 1), m) : m \in CutShort(q[k])}
<1>0. DOMAIN q = 1 .. Len(q) /\ Len(q) \in Nat
  OBVIOUS
<1>1. r \in WholeOnes \/ r \in UNION {Broken(k) : k \in DOMAIN q}
  BY DEF Remains
<1>2. CASE r \in WholeOnes
  <2>1. PICK k \in 0 .. Len(q) : r = SubSeq(q, 1, k)
    BY <1>2
  <2> QED  BY <1>0, <2>1
<1> HIDE DEF Broken
<1>3. CASE r \in UNION {Broken(k) : k \in DOMAIN q}
  <2>1. PICK k \in DOMAIN q : r \in Broken(k)
    BY <1>3
  <2>2. PICK m \in CutShort(q[k]) : r = Append(SubSeq(q, 1, k - 1), m)
    BY <2>1 DEF Broken
  <2>3. q[k] \in Messages /\ k \in 1 .. Len(q)
    BY <1>0, <2>1
  <2>4. m \in Messages /\ m.kind = q[k].kind /\ m.thread = q[k].thread
    BY <2>2, <2>3, CutShortFacts
  <2>5. PICK s : s = SubSeq(q, 1, k - 1)
    OBVIOUS
  <2>6. s \in Seq(Messages) /\ Len(s) = k - 1 /\ \A j \in 1 .. k - 1 : s[j] = q[j]
    BY <1>0, <2>3, <2>5
  <2>7. r = Append(s, m)
    BY <2>2, <2>5
  <2> QED  BY <1>0, <2>3, <2>4, <2>6, <2>7
<1> HIDE DEF WholeOnes
<1> QED  BY <1>1, <1>2, <1>3

\* The answer to a name query: one message, which names what it asked for or
\* is empty.
LEMMA NameAnswerFacts ==
  ASSUME NEW q \in Seq(Word)
  PROVE  \E m \in Messages :
           /\ NameAnswer(q) = <<m>> /\ m.kind # "data"
           /\ Range(q) \subseteq table => m.body = q \/ (m.body = << >> /\ Len(q) > NameCap)
<1>0. NameCap \in Nat
  BY SessionConstants
<1>1. CASE Len(q) > NameCap
  <2>1. PICK m : m = Plain("error")
    OBVIOUS
  <2>2. m \in Messages /\ m.kind = "error" /\ m.body = << >>
    BY <2>1 DEF Plain, Message, Messages
  <2> QED  BY <1>1, <2>1, <2>2 DEF NameAnswer
<1>2. CASE ~(Len(q) > NameCap)
  <2>1. PICK body : body = [i \in DOMAIN q |-> IF q[i] \in table THEN q[i] ELSE Junk]
    OBVIOUS
  <2>2. body \in Seq(Word)
    <3>1. DOMAIN q = 1 .. Len(q) /\ Len(q) \in Nat
      OBVIOUS
    <3>2. \A i \in 1 .. Len(q) : (IF q[i] \in table THEN q[i] ELSE Junk) \in Word
      BY DEF Word, Memory
    <3> QED  BY <2>1, <3>1, <3>2
  <2>3. ASSUME Range(q) \subseteq table PROVE body = q
    <3>1. \A i \in DOMAIN q : q[i] \in table
      BY <2>3 DEF Range
    <3> QED  BY <2>1, <3>1
  <2>4. PICK m : m = Message("names", Junk, body)
    OBVIOUS
  <2>5. m \in Messages /\ m.kind = "names" /\ m.body = body
    BY <2>2, <2>4 DEF Message, Messages
  <2> QED  BY <1>2, <2>1, <2>3, <2>4, <2>5 DEF NameAnswer
<1> QED  BY <1>1, <1>2

\* Every thread has two messages in an answer.
LEMMA PartsFacts ==
  /\ Parts(SetToSeq(Threads)) \in Seq(Threads \X {"data", "now"})
  /\ Paired(Parts(SetToSeq(Threads)))
<1>1. PICK ts \in Seq(Threads) : ts = SetToSeq(Threads)
  <2>1. IsFiniteSet(Threads)
    BY SessionConstants
  <2>2. Cardinality(Threads) \in Nat /\ ExistsBijection(1 .. Cardinality(Threads), Threads)
    BY <2>1, FS_CardinalityType
  <2>3. \E f \in [1 .. Cardinality(Threads) -> Threads] : IsInjective(f)
    BY <2>2 DEF ExistsBijection, Bijection, Injection
  <2>4. SetToSeq(Threads) \in [1 .. Cardinality(Threads) -> Threads]
    BY <2>3 DEF SetToSeq
  <2> QED  BY <2>2, <2>4
<1>2. PICK w : w = Parts(ts)
  OBVIOUS
<1>3. w = [i \in 1 .. 2 * Len(ts) |-> <<ts[(i + 1) \div 2], IF i % 2 = 1 THEN "data" ELSE "now">>]
  BY <1>2 DEF Parts
<1>4. Len(ts) \in Nat /\ 2 * Len(ts) \in Nat
  OBVIOUS
<1>5. \A i \in 1 .. 2 * Len(ts) : (i + 1) \div 2 \in 1 .. Len(ts)
  BY <1>4
<1>6. \A i \in 1 .. 2 * Len(ts) :
        <<ts[(i + 1) \div 2], IF i % 2 = 1 THEN "data" ELSE "now">> \in Threads \X {"data", "now"}
  BY <1>5
<1>7. w \in Seq(Threads \X {"data", "now"}) /\ Len(w) = 2 * Len(ts)
  BY <1>3, <1>4, <1>6
<1>8. ASSUME NEW i \in 1 .. Len(w), w[i][2] = "data"
      PROVE  i + 1 <= Len(w) /\ w[i + 1] = <<w[i][1], "now">>
  <2>1. i \in 1 .. 2 * Len(ts) /\ i \in Int
    BY <1>7
  <2>2. w[i] = <<ts[(i + 1) \div 2], IF i % 2 = 1 THEN "data" ELSE "now">>
    BY <1>3, <2>1
  <2>3. i % 2 = 1
    BY <1>8, <2>2
  <2>4. i + 1 <= 2 * Len(ts) /\ (i + 1) % 2 = 0 /\ (i + 2) \div 2 = (i + 1) \div 2
    BY <1>4, <2>1, <2>3
  <2>5. i + 1 \in 1 .. 2 * Len(ts) /\ (i + 1) + 1 = i + 2
    BY <2>1, <2>4
  <2>6. w[i + 1] = <<ts[(i + 2) \div 2], "now">>
    BY <1>3, <2>4, <2>5
  <2> QED  BY <1>7, <2>2, <2>4, <2>6
<1>9. Paired(w)
  BY <1>8 DEF Paired
<1> QED  BY <1>1, <1>2, <1>7, <1>9

\* The calls of a name among the records of a thread.
LEMMA CallsFacts ==
  ASSUME NEW body \in Seq(Word), NEW n
  PROVE  CallsIn(body, n) \in Nat /\ (CallsIn(body, n) > 0 => n \in Range(body))
<1>1. PICK S : S = {i \in DOMAIN body : body[i] = n}
  OBVIOUS
<1>2. IsFiniteSet(S)
  <2>1. Len(body) \in Nat /\ S \in SUBSET (1 .. Len(body))
    BY <1>1
  <2>2. IsFiniteSet(1 .. Len(body))
    BY <2>1, FS_Interval
  <2> QED  BY <2>1, <2>2, FS_Subset
<1>3. Cardinality(S) \in Nat /\ (S = {} => Cardinality(S) = 0)
  BY <1>2, FS_CardinalityType, FS_EmptySet
<1>4. S # {} => n \in Range(body)
  BY <1>1 DEF Range
<1> QED  BY <1>1, <1>3, <1>4 DEF CallsIn

(***************************************************************************)
(* Whose turn it is.                                                       *)
(***************************************************************************)

\* One more message, or none, was sent.
LEMMA Sent ==
  ASSUME NEW q \in Seq(Messages), NEW m, NEW r, r = Append(q, m) \/ r = q
  PROVE  \A k \in 1 .. Len(r) : r[k] = m \/ (k \in 1 .. Len(q) /\ r[k] = q[k])
<1>1. CASE r = q
  BY <1>1
<1>2. CASE r = Append(q, m)
  <2>1. /\ Len(q) \in Nat /\ Len(r) = Len(q) + 1 /\ r[Len(q) + 1] = m
        /\ \A k \in 1 .. Len(q) : r[k] = q[k]
    BY <1>2
  <2>2. ASSUME NEW k \in 1 .. Len(r)
        PROVE  r[k] = m \/ (k \in 1 .. Len(q) /\ r[k] = q[k])
    <3>1. k = Len(q) + 1 \/ k \in 1 .. Len(q)
      BY <2>1
    <3> QED  BY <2>1, <3>1
  <2> QED  BY <2>2
<1> QED  BY <1>1, <1>2

LEMMA EmptySeq == ASSUME NEW S, NEW s \in Seq(S), Len(s) = 0 PROVE s = << >>
OBVIOUS

\* The program reads a request: nothing else is under way.
LEMMA AgentsTurn ==
  ASSUME TypeInv, TurnInv, Reads
  PROVE  /\ Request = toAgent[1] /\ Request \in Messages /\ Len(toAgent) >= 1
         /\ Tail(toAgent) \in Seq(Messages)
         /\ \A k \in 1 .. Len(Tail(toAgent)) : \E j \in 1 .. Len(toAgent) :
              Tail(toAgent)[k] = toAgent[j]
         /\ pc \notin {"stopped", "spinning", "crashed"} =>
              /\ Tail(toAgent) = << >> /\ toMonitor = << >>
              /\ \/ pc \in {"slide", "meta", "target"} /\ Request.kind = "info"
                 \/ pc = "fetch" /\ Request.kind = "req" /\ DOMAIN bufs = {}
                 \/ pc = "names" /\ Request.kind = "query"
<1>1. toAgent \in Seq(Messages) /\ toAgent # << >> /\ pc \in Pcs
  BY DEF TypeInv, Reads
<1>2. /\ Request = toAgent[1] /\ Request \in Messages /\ Len(toAgent) >= 1
      /\ Tail(toAgent) \in Seq(Messages) /\ Len(Tail(toAgent)) = Len(toAgent) - 1
      /\ \A k \in 1 .. Len(Tail(toAgent)) : Tail(toAgent)[k] = toAgent[k + 1]
  BY <1>1 DEF Request
<1>3. \A k \in 1 .. Len(Tail(toAgent)) : \E j \in 1 .. Len(toAgent) :
        Tail(toAgent)[k] = toAgent[j]
  <2>1. \A k \in 1 .. Len(Tail(toAgent)) : k + 1 \in 1 .. Len(toAgent)
    BY <1>1, <1>2
  <2> QED  BY <1>2, <2>1
<1>4. ASSUME NEW kind, Asked(kind)
      PROVE  Tail(toAgent) = << >> /\ toMonitor = << >> /\ Request.kind = kind
  <2>1. Len(Tail(toAgent)) = 0 /\ toMonitor = << >> /\ toAgent[1].kind = kind
    BY <1>2, <1>4 DEF Asked
  <2> QED  BY <1>2, <2>1, EmptySeq
<1>5. ~Quiet /\ ~Hushed /\ ~Answered /\ ~Streaming
  BY <1>1 DEF Quiet, Hushed, Answered, Streaming
<1>6. ASSUME pc \notin {"stopped", "spinning", "crashed"}
      PROVE  /\ Tail(toAgent) = << >> /\ toMonitor = << >>
             /\ \/ pc \in {"slide", "meta", "target"} /\ Request.kind = "info"
                \/ pc = "fetch" /\ Request.kind = "req" /\ DOMAIN bufs = {}
                \/ pc = "names" /\ Request.kind = "query"
  BY <1>1, <1>4, <1>5, <1>6 DEF TurnInv, Pcs
<1> QED  BY <1>2, <1>3, <1>6

\* The monitor reads an answer.
LEMMA MonitorsTurn ==
  ASSUME TypeInv, TurnInv, Arrived
  PROVE  /\ Got = toMonitor[1] /\ Got \in Messages /\ Len(toMonitor) \in Nat \ {0}
         /\ Tail(toMonitor) \in Seq(Messages) /\ Len(Tail(toMonitor)) = Len(toMonitor) - 1
         /\ \A k \in 1 .. Len(Tail(toMonitor)) : Tail(toMonitor)[k] = toMonitor[k + 1]
         /\ pc \in {"slide", "meta", "target", "names"} =>
              toAgent = << >> /\ Tail(toMonitor) = << >> /\ AgentRests
         /\ pc = "fetch" => Streaming
         /\ pc \notin {"new", "idle"}
<1>1. toMonitor \in Seq(Messages) /\ toMonitor # << >> /\ pc \in Pcs
  BY DEF TypeInv, Arrived
<1>2. /\ Got = toMonitor[1] /\ Got \in Messages /\ Len(toMonitor) \in Nat \ {0}
      /\ Tail(toMonitor) \in Seq(Messages) /\ Len(Tail(toMonitor)) = Len(toMonitor) - 1
      /\ \A k \in 1 .. Len(Tail(toMonitor)) : Tail(toMonitor)[k] = toMonitor[k + 1]
  BY <1>1 DEF Got
<1>3. ~Quiet /\ ~Hushed /\ \A kind : ~Asked(kind)
  BY <1>1 DEF Quiet, Hushed, Asked
<1>4. Answered => toAgent = << >> /\ Tail(toMonitor) = << >> /\ AgentRests
  <2>1. SUFFICES ASSUME Answered PROVE Tail(toMonitor) = << >>
    BY DEF Answered
  <2>2. Len(Tail(toMonitor)) = 0
    BY <1>2, <2>1 DEF Answered
  <2> QED  BY <1>2, <2>2, EmptySeq
<1> QED  BY <1>2, <1>3, <1>4 DEF TurnInv

\* One more message was sent to the monitor.
LEMMA SentMore ==
  ASSUME toMonitor \in Seq(Messages), NEW m \in Messages, toMonitor' = Append(toMonitor, m),
         UNCHANGED <<bufs, nows>>
  PROVE  \A t : /\ HasData(t)' <=> HasData(t) \/ (m.kind = "data" /\ m.thread = t)
                /\ HasNow(t)' <=> HasNow(t) \/ (m.kind = "now" /\ m.thread = t)
<1>1. PICK q, r : q = toMonitor /\ r = toMonitor' /\ q \in Seq(Messages) /\ r = Append(q, m)
  OBVIOUS
<1>2. /\ Len(q) \in Nat /\ Len(r) = Len(q) + 1 /\ r[Len(q) + 1] = m
      /\ \A k \in 1 .. Len(q) : r[k] = q[k]
  BY <1>1
<1>3. ASSUME NEW kind, NEW t
      PROVE  Among(r, kind, t) <=> Among(q, kind, t) \/ (m.kind = kind /\ m.thread = t)
  <2>1. 1 .. Len(r) = 1 .. Len(q) \cup {Len(q) + 1}
    BY <1>2
  <2> QED  BY <1>2, <2>1 DEF Among
<1>4. ASSUME NEW t PROVE HasData(t)' <=> HasData(t) \/ (m.kind = "data" /\ m.thread = t)
  <2>1. HasData(t)' <=> t \in DOMAIN bufs \/ Among(r, "data", t)
    BY <1>1 DEF HasData
  <2> QED  BY <1>1, <1>3, <2>1 DEF HasData
<1>5. ASSUME NEW t PROVE HasNow(t)' <=> HasNow(t) \/ (m.kind = "now" /\ m.thread = t)
  <2>1. HasNow(t)' <=> t \in nows \/ Among(r, "now", t)
    BY <1>1 DEF HasNow
  <2> QED  BY <1>1, <1>3, <2>1 DEF HasNow
<1> QED  BY <1>4, <1>5

\* The first message was read, and kept if it is one of the two of a thread.
LEMMA ReadOne ==
  ASSUME toMonitor \in Seq(Messages), toMonitor # << >>, toMonitor' = Tail(toMonitor),
         DOMAIN bufs' = DOMAIN bufs \cup (IF Got.kind = "data" THEN {Got.thread} ELSE {}),
         nows' = nows \cup (IF Got.kind = "now" THEN {Got.thread} ELSE {})
  PROVE  \A t : (HasData(t)' <=> HasData(t)) /\ (HasNow(t)' <=> HasNow(t))
<1>1. PICK q, r, m : /\ q = toMonitor /\ r = toMonitor' /\ m = Got
                     /\ q \in Seq(Messages) /\ q # << >> /\ r = Tail(q) /\ m = q[1]
  BY DEF Got
<1>2. /\ Len(q) \in Nat \ {0} /\ Len(r) = Len(q) - 1
      /\ \A k \in 1 .. Len(q) - 1 : r[k] = q[k + 1]
  BY <1>1
<1>3. ASSUME NEW kind, NEW t
      PROVE  Among(q, kind, t) <=> Among(r, kind, t) \/ (m.kind = kind /\ m.thread = t)
  <2>1. ASSUME NEW k \in 1 .. Len(q), q[k].kind = kind, q[k].thread = t
        PROVE  Among(r, kind, t) \/ (m.kind = kind /\ m.thread = t)
    <3>1. CASE k = 1
      BY <1>1, <2>1, <3>1
    <3>2. CASE k # 1
      <4>1. k - 1 \in 1 .. Len(r) /\ (k - 1) + 1 = k
        BY <1>2, <3>2
      <4>2. r[k - 1] = q[k]
        BY <1>2, <4>1
      <4> QED  BY <2>1, <4>1, <4>2 DEF Among
    <3> QED  BY <3>1, <3>2
  <2>2. ASSUME NEW k \in 1 .. Len(r), r[k].kind = kind, r[k].thread = t
        PROVE  Among(q, kind, t)
    <3>1. k + 1 \in 1 .. Len(q) /\ r[k] = q[k + 1]
      BY <1>2
    <3> QED  BY <2>2, <3>1 DEF Among
  <2>3. ASSUME m.kind = kind, m.thread = t PROVE Among(q, kind, t)
    BY <1>1, <1>2, <2>3 DEF Among
  <2> QED  BY <2>1, <2>2, <2>3 DEF Among
<1>4. ASSUME NEW t PROVE HasData(t)' <=> HasData(t)
  <2>1. HasData(t)' <=> t \in DOMAIN bufs' \/ Among(r, "data", t)
    BY <1>1 DEF HasData
  <2>2. t \in DOMAIN bufs' <=> t \in DOMAIN bufs \/ (m.kind = "data" /\ t = m.thread)
    BY <1>1
  <2>3. Among(q, "data", t) <=> Among(r, "data", t) \/ (m.kind = "data" /\ m.thread = t)
    BY <1>3
  <2> QED  BY <1>1, <2>1, <2>2, <2>3 DEF HasData
<1>5. ASSUME NEW t PROVE HasNow(t)' <=> HasNow(t)
  <2>1. HasNow(t)' <=> t \in nows' \/ Among(r, "now", t)
    BY <1>1 DEF HasNow
  <2>2. t \in nows' <=> t \in nows \/ (m.kind = "now" /\ t = m.thread)
    BY <1>1
  <2>3. Among(q, "now", t) <=> Among(r, "now", t) \/ (m.kind = "now" /\ m.thread = t)
    BY <1>3
  <2> QED  BY <1>1, <2>1, <2>2, <2>3 DEF HasNow
<1> QED  BY <1>4, <1>5

(***************************************************************************)
(* The steps of the program.                                               *)
(***************************************************************************)

\* What the dispatch thread leaves alone.
LEMMA AgentKeeps ==
  ASSUME IInv, AgentRest, ~up => ~up'
  PROVE  NamingInv' /\ NodesNamed' /\ CrashNeedsBreak'
BY DEF IInv, AgentRest, fetchVars, NamingInv, NodesNamed, CrashNeedsBreak

LEMMA CallStep == ASSUME IInv, NEW t \in Threads, NEW n \in Names, Call(t, n) PROVE IInv'
<1>1. /\ UNCHANGED <<agent, up, toAgent, toMonitor, sock, pc, polls, bufs, nows, query,
                     names, stored>>
      /\ front' = [front EXCEPT ![t] = Append(front[t], n)] /\ table' = table \cup {n}
      /\ agent.pc # "aborted"
  BY DEF Call, netVars, fetchVars
<1>2. TypeInv'
  <2>1. front' \in [Threads -> Seq(Names)]
    BY <1>1 DEF IInv, TypeInv
  <2>2. table' \subseteq Names /\ IsFiniteSet(table')
    BY <1>1, FS_AddElement DEF IInv, TypeInv
  <2> QED  BY <1>1, <2>1, <2>2 DEF IInv, TypeInv
<1>3. TurnInv'
  BY <1>1 DEF IInv, TurnInv, Quiet, Hushed, Asked, Answered, AgentRests, Streaming,
     HasData, HasNow, OneLeft
<1>4. NamingInv' /\ NodesNamed' /\ CrashNeedsBreak' /\ AbortNeedsFlood'
  BY <1>1 DEF IInv, NamingInv, NodesNamed, CrashNeedsBreak, AbortNeedsFlood
<1>5. KnownInv'
  <2>1. ASSUME NEW u \in Threads PROVE Range(front'[u]) \subseteq table'
    <3>1. CASE u # t
      BY <1>1, <3>1 DEF IInv, TypeInv, KnownInv
    <3>2. CASE u = t
      <4>1. PICK q \in Seq(Names) : q = front[t]
        BY DEF IInv, TypeInv
      <4>2. front'[t] = Append(q, n)
        BY <1>1, <4>1 DEF IInv, TypeInv
      <4>3. Range(q) \subseteq table
        BY <4>1 DEF IInv, KnownInv
      <4>4. Range(Append(q, n)) \subseteq Range(q) \cup {n}
        <5>1. /\ DOMAIN Append(q, n) = 1 .. Len(q) + 1 /\ Append(q, n)[Len(q) + 1] = n
              /\ \A i \in 1 .. Len(q) : Append(q, n)[i] = q[i] /\ i \in DOMAIN q
          BY <4>1
        <5> QED  BY <5>1 DEF Range
      <4> QED  BY <1>1, <3>2, <4>2, <4>3, <4>4
    <3> QED  BY <3>1, <3>2
  <2>2. table \subseteq table'
    BY <1>1
  <2> QED  BY <1>1, <2>1, <2>2 DEF IInv, KnownInv
<1>6. RightInv'
  BY <1>1 DEF IInv, RightInv, Right
<1> QED  BY <1>2, <1>3, <1>4, <1>5, <1>6 DEF IInv

\* An answer of one message, to a question of the first exchange or for names.
LEMMA AnswerStep ==
  ASSUME IInv, Reads, Request.kind \in {"info", "query"}, AgentRest,
         NEW m \in Messages, m.kind # "data",
         Request.kind = "query" =>
           m.body = Request.body \/ (m.body = << >> /\ Len(Request.body) > NameCap),
         toAgent' = Tail(toAgent), toMonitor' = SendTo(toMonitor, <<m>>),
         UNCHANGED <<front, agent, up>>
  PROVE  IInv'
<1>1. /\ UNCHANGED <<table, pc, polls, bufs, nows, query, names, stored>>
      /\ AgentRests /\ AgentRests'
  BY DEF AgentRest, fetchVars, Reads, AgentRests
<1>2. /\ Request = toAgent[1] /\ Request \in Messages /\ Len(toAgent) >= 1
      /\ Tail(toAgent) \in Seq(Messages)
      /\ \A k \in 1 .. Len(Tail(toAgent)) : \E j \in 1 .. Len(toAgent) :
           Tail(toAgent)[k] = toAgent[j]
      /\ pc \notin {"stopped", "spinning", "crashed"} =>
           /\ Tail(toAgent) = << >> /\ toMonitor = << >>
           /\ pc \in {"slide", "meta", "target"} \/ (pc = "names" /\ Request.kind = "query")
  BY AgentsTurn DEF IInv
<1>3. /\ toMonitor \in Seq(Messages) /\ up \in BOOLEAN /\ toMonitor' \in Seq(Messages)
      /\ up => toMonitor' = Append(toMonitor, m)
      /\ ~up => toMonitor' = toMonitor
  BY SendFacts DEF IInv, TypeInv
<1>4. TypeInv'
  BY <1>1, <1>2, <1>3 DEF IInv, TypeInv
<1>5. ASSUME pc \notin {"stopped", "spinning", "crashed"} PROVE Answered' \/ Hushed'
  <2>1. toAgent' = << >> /\ toMonitor = << >>
    BY <1>2, <1>5
  <2>2. CASE up
    <3>1. Len(toMonitor') = 1
      BY <1>3, <2>1, <2>2
    <3> QED  BY <1>1, <2>1, <3>1 DEF Answered
  <2>3. CASE ~up
    BY <1>1, <1>3, <2>1, <2>3 DEF Hushed, Quiet
  <2> QED  BY <1>3, <2>2, <2>3
<1>6. TurnInv'
  BY <1>1, <1>2, <1>5 DEF IInv, TurnInv
<1>7. NamingInv' /\ NodesNamed' /\ CrashNeedsBreak'
  BY AgentKeeps
<1>8. AbortNeedsFlood'
  BY <1>1 DEF IInv, AbortNeedsFlood
<1>9. \A k \in 1 .. Len(toMonitor') :
        toMonitor'[k] = m \/ (k \in 1 .. Len(toMonitor) /\ toMonitor'[k] = toMonitor[k])
  <2>1. PICK q, r : q = toMonitor /\ r = toMonitor' /\ q \in Seq(Messages)
    BY DEF IInv, TypeInv
  <2>2. r = Append(q, m) \/ r = q
    BY <2>1 DEF SendTo
  <2>3. \A k \in 1 .. Len(r) : r[k] = m \/ (k \in 1 .. Len(q) /\ r[k] = q[k])
    BY <2>1, <2>2, Sent
  <2> QED  BY <2>1, <2>3
<1>10. KnownInv'
  BY <1>1, <1>2, <1>9 DEF IInv, KnownInv
<1>11. RightInv'
  <2>1. SUFFICES ASSUME up, pc = "names"
                 PROVE  /\ \A k \in 1 .. Len(toAgent') : toAgent'[k].body = query
                        /\ \A k \in 1 .. Len(toMonitor') :
                             \/ toMonitor'[k].body = query
                             \/ toMonitor'[k].body = << >> /\ Len(query) > NameCap
    BY <1>1 DEF IInv, RightInv, Right
  <2>2. Request.kind = "query" /\ Request.body = query /\ toAgent' = << >> /\ toMonitor = << >>
    BY <1>2, <2>1 DEF IInv, RightInv
  <2> QED  BY <1>9, <2>2
<1> QED  BY <1>4, <1>6, <1>7, <1>8, <1>10, <1>11 DEF IInv

LEMMA AnswerInfoStep == ASSUME IInv, AnswerInfo PROVE IInv'
<1>1. PICK m : m = Message("info", Junk, <<Told>>)
  OBVIOUS
<1>2. m \in Messages /\ m.kind = "info"
  BY <1>1 DEF Message, Messages, Word, Memory
<1>3. /\ Reads /\ Request.kind = "info" /\ AgentRest
      /\ toAgent' = Tail(toAgent) /\ toMonitor' = SendTo(toMonitor, <<m>>)
      /\ UNCHANGED <<front, agent, up>>
  BY <1>1 DEF AnswerInfo
<1> QED  BY <1>2, <1>3, AnswerStep

LEMMA AnswerNamesStep == ASSUME IInv, AnswerNames PROVE IInv'
<1>1. /\ Reads /\ Request.kind = "query" /\ AgentRest /\ toAgent' = Tail(toAgent)
      /\ UNCHANGED front
  BY DEF AnswerNames
<1>2. /\ Request = toAgent[1] /\ Request \in Messages /\ Len(toAgent) >= 1
      /\ Tail(toAgent) \in Seq(Messages)
      /\ \A k \in 1 .. Len(Tail(toAgent)) : \E j \in 1 .. Len(toAgent) :
           Tail(toAgent)[k] = toAgent[j]
      /\ pc \notin {"stopped", "spinning", "crashed"} =>
           Tail(toAgent) = << >> /\ toMonitor = << >> /\ pc = "names"
  BY <1>1, AgentsTurn DEF IInv
<1>3. PICK q \in Seq(Word) : q = Request.body
  BY <1>2 DEF Messages
<1>4. Range(q) \subseteq table /\ IsInjective(q)
  BY <1>1, <1>2, <1>3 DEF IInv, KnownInv
<1>5. CASE ~Oversize(q)
  <2>1. toMonitor' = SendTo(toMonitor, NameAnswer(q)) /\ UNCHANGED <<agent, up>>
    BY <1>3, <1>5 DEF AnswerNames
  <2>2. PICK m \in Messages :
          /\ NameAnswer(q) = <<m>> /\ m.kind # "data"
          /\ m.body = q \/ (m.body = << >> /\ Len(q) > NameCap)
    BY <1>4, NameAnswerFacts
  <2> QED  BY <1>1, <1>3, <2>1, <2>2, AnswerStep
<1>6. CASE Oversize(q)
  <2>1. /\ agent' = [agent EXCEPT !.pc = "aborted"] /\ up' = FALSE /\ toMonitor' = toMonitor
        /\ UNCHANGED <<table, pc, polls, bufs, nows, query, names, stored, front>>
    BY <1>1, <1>3, <1>6 DEF AnswerNames, AgentRest, fetchVars
  <2>2. agent' \in [pc : {"recv", "send", "gone", "aborted"}, todo : Seq(Threads \X {"data", "now"})]
        /\ agent'.pc = "aborted"
    BY <2>1 DEF IInv, TypeInv
  <2>3. TypeInv'
    <3>1. toAgent' \in Seq(Messages) /\ up' \in BOOLEAN
      BY <1>1, <1>2, <2>1
    <3> QED  BY <2>1, <2>2, <3>1 DEF IInv, TypeInv
  <2>4. TurnInv'
    BY <1>1, <1>2, <2>1, <2>2 DEF IInv, TurnInv, Hushed, Quiet, AgentRests
  <2>5. NamingInv' /\ NodesNamed' /\ CrashNeedsBreak'
    BY <1>1, <2>1, AgentKeeps
  <2>6. AbortNeedsFlood'
    <3>1. Len(q) <= Cardinality(table)
      BY <1>4, InjectiveBound DEF IInv, TypeInv
    <3>2. Len(q) + 1 >= RequestCap
      BY <1>6 DEF Oversize
    <3>3. Cardinality(table) \in Nat /\ Len(q) \in Nat /\ RequestCap \in Nat
      <4>1. IsFiniteSet(table)
        BY DEF IInv, TypeInv
      <4>2. Cardinality(table) \in Nat
        BY <4>1, FS_CardinalityType
      <4>3. RequestCap \in Nat
        BY SessionConstants
      <4> QED  BY <4>2, <4>3
    <3>4. Cardinality(table) + 1 >= RequestCap
      BY <3>1, <3>2, <3>3
    <3> QED  BY <2>1, <3>4 DEF AbortNeedsFlood
  <2>7. KnownInv'
    BY <1>1, <1>2, <2>1 DEF IInv, KnownInv
  <2>8. RightInv'
    BY <2>1 DEF RightInv
  <2> QED  BY <2>3, <2>4, <2>5, <2>6, <2>7, <2>8 DEF IInv
<1> QED  BY <1>5, <1>6

LEMMA BeginAnswerStep == ASSUME IInv, BeginAnswer PROVE IInv'
<1>1. /\ Reads /\ Request.kind = "req" /\ AgentRest /\ toAgent' = Tail(toAgent)
      /\ agent' = [pc |-> "send", todo |-> Parts(SetToSeq(Threads))]
      /\ UNCHANGED <<table, pc, polls, bufs, nows, query, names, stored, front, up, toMonitor>>
  BY DEF BeginAnswer, AgentRest, fetchVars
<1>2. /\ Tail(toAgent) \in Seq(Messages)
      /\ \A k \in 1 .. Len(Tail(toAgent)) : \E j \in 1 .. Len(toAgent) :
           Tail(toAgent)[k] = toAgent[j]
      /\ pc \notin {"stopped", "spinning", "crashed"} =>
           Tail(toAgent) = << >> /\ toMonitor = << >> /\ pc = "fetch" /\ DOMAIN bufs = {}
  BY <1>1, AgentsTurn DEF IInv
<1>3. /\ agent'.pc = "send" /\ agent'.todo \in Seq(Threads \X {"data", "now"})
      /\ Paired(agent'.todo)
  BY <1>1, PartsFacts
<1>4. TypeInv'
  <2>1. agent' \in [pc : {"recv", "send", "gone", "aborted"}, todo : Seq(Threads \X {"data", "now"})]
    BY <1>1, <1>3
  <2> QED  BY <1>1, <1>2, <2>1 DEF IInv, TypeInv
<1>5. TurnInv'
  <2>1. ASSUME pc \notin {"stopped", "spinning", "crashed"} PROVE pc = "fetch" /\ Streaming'
    <3>1. toAgent' = << >> /\ toMonitor' = << >> /\ DOMAIN bufs' = {} /\ pc = "fetch"
      BY <1>1, <1>2, <2>1
    <3>2. Len(toMonitor') = 0
      BY <3>1
    <3>3. \A t : ~HasData(t)'
      BY <3>1, <3>2 DEF HasData, Among
    <3> QED  BY <1>3, <3>1, <3>2, <3>3 DEF Streaming
  <2> QED  BY <1>1, <2>1 DEF TurnInv
<1>6. NamingInv' /\ NodesNamed' /\ CrashNeedsBreak'
  BY <1>1, AgentKeeps
<1>7. AbortNeedsFlood'
  BY <1>3 DEF AbortNeedsFlood
<1>8. KnownInv'
  BY <1>1, <1>2 DEF IInv, KnownInv
<1>9. RightInv'
  <2>1. up /\ pc = "names" => FALSE
    BY <1>2
  <2> QED  BY <1>1, <2>1 DEF IInv, RightInv, Right
<1> QED  BY <1>4, <1>5, <1>6, <1>7, <1>8, <1>9 DEF IInv

\* The dispatch thread is in the middle of an answer.
LEMMA SendersTurn ==
  ASSUME TypeInv, TurnInv, agent.pc = "send"
  PROVE  pc \in {"stopped", "spinning", "crashed"} \/ (pc = "fetch" /\ Streaming)
<1>1. ~Quiet /\ ~Hushed /\ ~Answered /\ \A kind : ~Asked(kind)
  BY DEF Quiet, Hushed, Answered, Asked, AgentRests
<1> QED  BY <1>1 DEF TypeInv, TurnInv, Pcs

\* A message with records has names of the table only.
KnownBody(m, known) == m.kind = "data" => Range(m.body) \subseteq known

LEMMA SentKnown ==
  ASSUME toMonitor \in Seq(Messages), NEW m, toMonitor' = Append(toMonitor, m), NEW known,
         \A k \in 1 .. Len(toMonitor) : KnownBody(toMonitor[k], known), KnownBody(m, known)
  PROVE  \A k \in 1 .. Len(toMonitor') : KnownBody(toMonitor'[k], known)
<1>1. PICK q, r : q = toMonitor /\ r = toMonitor' /\ q \in Seq(Messages) /\ r = Append(q, m)
  OBVIOUS
<1>2. \A k \in 1 .. Len(r) : r[k] = m \/ (k \in 1 .. Len(q) /\ r[k] = q[k])
  BY <1>1, Sent
<1>3. \A k \in 1 .. Len(q) : KnownBody(q[k], known)
  BY <1>1
<1>4. \A k \in 1 .. Len(r) : KnownBody(r[k], known)
  BY <1>2, <1>3
<1> QED  BY <1>1, <1>4

\* The next message of an answer.
LEMMA SendStep ==
  ASSUME IInv, agent.pc = "send", AgentRest, NEW m \in Messages,
         m.kind \in {"data", "now", "succeed"},
         m.kind = "data" => m.thread \in Threads /\ m.body = front[m.thread],
         toMonitor' = SendTo(toMonitor, <<m>>), UNCHANGED <<up, toAgent>>,
         front' \in [Threads -> Seq(Names)],
         \A t \in Threads : Range(front'[t]) \subseteq Range(front[t]),
         agent' \in [pc : {"recv", "send"}, todo : Seq(Threads \X {"data", "now"})],
         pc = "fetch" => Streaming'
  PROVE  IInv'
<1>1. UNCHANGED <<table, pc, polls, bufs, nows, query, names, stored>>
  BY DEF AgentRest, fetchVars
<1>2. /\ toMonitor \in Seq(Messages) /\ up \in BOOLEAN /\ toMonitor' \in Seq(Messages)
      /\ up => toMonitor' = Append(toMonitor, m)
      /\ ~up => toMonitor' = toMonitor
  BY SendFacts DEF IInv, TypeInv
<1>3. TypeInv'
  BY <1>1, <1>2 DEF IInv, TypeInv
<1>4. pc \in {"stopped", "spinning", "crashed", "fetch"}
  BY SendersTurn DEF IInv
<1>5. TurnInv'
  BY <1>1, <1>4 DEF TurnInv
<1>6. NamingInv' /\ NodesNamed' /\ CrashNeedsBreak'
  BY AgentKeeps
<1>7. AbortNeedsFlood'
  BY DEF AbortNeedsFlood
<1>8. KnownInv'
  <2>1. \A t \in Threads : Range(front'[t]) \subseteq table'
    BY <1>1 DEF IInv, KnownInv
  <2>2. up => \A k \in 1 .. Len(toMonitor') :
          toMonitor'[k].kind = "data" => Range(toMonitor'[k].body) \subseteq table'
    <3>1. ASSUME up
          PROVE  \A k \in 1 .. Len(toMonitor') : KnownBody(toMonitor'[k], table)
      <4>1. toMonitor \in Seq(Messages) /\ toMonitor' = Append(toMonitor, m)
        BY <1>2, <3>1
      <4>2. \A k \in 1 .. Len(toMonitor) : KnownBody(toMonitor[k], table)
        BY <3>1 DEF IInv, KnownInv, KnownBody
      <4>3. KnownBody(m, table)
        BY DEF IInv, KnownInv, KnownBody
      <4> QED  BY <4>1, <4>2, <4>3, SentKnown
    <3> QED  BY <1>1, <3>1 DEF KnownBody
  <2> QED  BY <1>1, <2>1, <2>2 DEF IInv, KnownInv
<1>9. RightInv'
  BY <1>1, <1>4 DEF IInv, RightInv, Right
<1> QED  BY <1>3, <1>5, <1>6, <1>7, <1>8, <1>9 DEF IInv

LEMMA SendPartStep == ASSUME IInv, SendPart PROVE IInv'
<1>1. agent.pc = "send" /\ agent.todo # << >> /\ agent.todo \in Seq(Threads \X {"data", "now"})
  BY DEF SendPart, IInv, TypeInv
<1>2. PICK todo \in Seq(Threads \X {"data", "now"}) : todo = agent.todo
  BY <1>1
<1>3. /\ Len(todo) \in Nat \ {0} /\ Head(todo) = todo[1]
      /\ todo[1] \in Threads \X {"data", "now"}
      /\ Tail(todo) \in Seq(Threads \X {"data", "now"}) /\ Len(Tail(todo)) = Len(todo) - 1
      /\ \A i \in 1 .. Len(todo) - 1 : Tail(todo)[i] = todo[i + 1]
  BY <1>1, <1>2
<1>4. PICK t \in Threads, kind \in {"data", "now"} : todo[1] = <<t, kind>>
  BY <1>3
<1>5. front \in [Threads -> Seq(Names)]
  BY DEF IInv, TypeInv
<1>6. PICK m : m = Message(kind, t, IF kind = "data" THEN front[t] ELSE << >>)
  OBVIOUS
<1>7. /\ m \in Messages /\ m.kind = kind /\ m.thread = t
      /\ m.kind = "data" => m.body = front[t]
  <2>1. (IF kind = "data" THEN front[t] ELSE << >>) \in Seq(Word)
    <3>1. front[t] \in Seq(Names)
      BY <1>5
    <3>2. front[t] \in Seq(Word)
      BY <3>1 DEF Word, Memory
    <3> QED  BY <3>2
  <2> QED  BY <1>6, <2>1 DEF Message, Messages
<1>8. /\ toMonitor' = SendTo(toMonitor, <<m>>) /\ UNCHANGED <<up, toAgent>> /\ AgentRest
      /\ front' = (IF kind = "data" THEN [front EXCEPT ![t] = << >>] ELSE front)
      /\ agent' = [agent EXCEPT !.todo = Tail(todo)]
  <2>1. Head(agent.todo)[1] = t /\ Head(agent.todo)[2] = kind /\ Tail(agent.todo) = Tail(todo)
    BY <1>2, <1>3, <1>4
  <2>2. toMonitor' = SendTo(toMonitor, <<m>>)
    BY <1>6, <2>1 DEF SendPart
  <2>3. front' = (IF kind = "data" THEN [front EXCEPT ![t] = << >>] ELSE front)
    BY <2>1 DEF SendPart
  <2>4. agent' = [agent EXCEPT !.todo = Tail(todo)]
    BY <2>1 DEF SendPart
  <2> QED  BY <2>2, <2>3, <2>4 DEF SendPart
<1>9. agent' \in [pc : {"recv", "send"}, todo : Seq(Threads \X {"data", "now"})]
      /\ agent'.pc = "send" /\ agent'.todo = Tail(todo)
  BY <1>1, <1>2, <1>3, <1>8 DEF IInv, TypeInv
<1>10. front' \in [Threads -> Seq(Names)]
       /\ \A u \in Threads : front'[u] = front[u] \/ front'[u] = << >>
  <2>1. << >> \in Seq(Names)
    OBVIOUS
  <2> QED  BY <1>5, <1>8, <2>1
<1>11. \A u \in Threads : Range(front'[u]) \subseteq Range(front[u])
  <2>1. Range(<< >>) = {}
    BY DEF Range
  <2> QED  BY <1>10, <2>1
<1>12. ASSUME Streaming PROVE Streaming'
  <2>1. /\ toAgent' = << >>
        /\ \A k \in 1 .. Len(toMonitor) : toMonitor[k].kind # "succeed"
    BY <1>1, <1>8, <1>12 DEF Streaming, AgentRests
  <2>2. /\ toMonitor \in Seq(Messages) /\ up \in BOOLEAN
        /\ up => toMonitor' = Append(toMonitor, m)
        /\ ~up => toMonitor' = toMonitor
    BY <1>7, <1>8, SendFacts DEF IInv, TypeInv
  <2>3. \A k \in 1 .. Len(toMonitor') : toMonitor'[k].kind # "succeed"
    <3>1. \A k \in 1 .. Len(toMonitor') :
            toMonitor'[k] = m \/ (k \in 1 .. Len(toMonitor) /\ toMonitor'[k] = toMonitor[k])
      BY <2>2
    <3> QED  BY <1>7, <2>1, <3>1
  <2>4. ASSUME up
        PROVE  Paired(agent'.todo) /\ \A u : HasData(u)' => HasNow(u)' \/ OneLeft(u)'
    <3>1. Paired(todo) /\ \A u : HasData(u) => HasNow(u) \/ (todo # << >> /\ todo[1] = <<u, "now">>)
      BY <1>1, <1>2, <1>12, <2>4 DEF Streaming, OneLeft
    <3>2. UNCHANGED <<bufs, nows>>
      BY <1>8 DEF AgentRest, fetchVars
    <3>3. \A u : /\ HasData(u)' <=> HasData(u) \/ (kind = "data" /\ t = u)
                 /\ HasNow(u)' <=> HasNow(u) \/ (kind = "now" /\ t = u)
      BY <1>7, <2>2, <2>4, <3>2, SentMore
    <3>4. Paired(Tail(todo))
      <4>1. SUFFICES ASSUME NEW i \in 1 .. Len(Tail(todo)), Tail(todo)[i][2] = "data"
                     PROVE  i + 1 <= Len(Tail(todo)) /\ Tail(todo)[i + 1] = <<Tail(todo)[i][1], "now">>
        BY DEF Paired
      <4>2. Tail(todo)[i] = todo[i + 1] /\ i + 1 \in 1 .. Len(todo)
        BY <1>3
      <4>3. i + 2 <= Len(todo) /\ todo[i + 2] = <<todo[i + 1][1], "now">>
        BY <3>1, <4>1, <4>2 DEF Paired
      <4>4. i + 1 \in 1 .. Len(todo) - 1
        BY <1>3, <4>3
      <4>5. Tail(todo)[i + 1] = todo[i + 2]
        BY <1>3, <4>4
      <4> QED  BY <1>3, <4>2, <4>3, <4>4, <4>5
    <3>5. ASSUME NEW u, HasData(u)' PROVE HasNow(u)' \/ OneLeft(u)'
      <4>1. CASE kind = "now"
        <5>1. HasData(u)
          BY <3>3, <3>5, <4>1
        <5>2. HasNow(u) \/ t = u
          BY <1>4, <3>1, <5>1
        <5> QED  BY <3>3, <4>1, <5>2
      <4>2. CASE kind = "data"
        <5>1. ASSUME HasData(u) PROVE HasNow(u)
          <6>1. todo[1] # <<u, "now">>
            BY <1>4, <4>2
          <6> QED  BY <3>1, <5>1, <6>1
        <5>2. CASE u = t
          <6>1. 2 <= Len(todo) /\ todo[2] = <<t, "now">>
            <7>1. 1 \in 1 .. Len(todo) /\ todo[1][2] = "data" /\ todo[1][1] = t
              BY <1>3, <1>4, <4>2
            <7>2. 1 + 1 <= Len(todo) /\ todo[1 + 1] = <<todo[1][1], "now">>
              BY <3>1, <7>1 DEF Paired
            <7> QED  BY <7>1, <7>2
          <6>2. 1 \in 1 .. Len(todo) - 1
            BY <1>3, <6>1
          <6>3. Tail(todo)[1] = <<t, "now">> /\ Tail(todo) # << >>
            <7>1. Tail(todo)[1] = todo[1 + 1]
              BY <1>3, <6>2
            <7>2. Len(Tail(todo)) >= 1
              BY <1>3, <6>1
            <7>3. Tail(todo) # << >>
              <8>1. PICK rest : rest = Tail(todo)
                OBVIOUS
              <8>2. rest = << >> => Len(rest) = 0
                OBVIOUS
              <8> QED  BY <7>2, <8>1, <8>2
            <7> QED  BY <6>1, <7>1, <7>3
          <6> QED  BY <1>9, <5>2, <6>3 DEF OneLeft
        <5>3. CASE u # t
          BY <3>3, <3>5, <5>1, <5>3
        <5> QED  BY <5>2, <5>3
      <4> QED  BY <4>1, <4>2
    <3> QED  BY <1>9, <3>4, <3>5
  <2> QED  BY <1>8, <2>1, <2>3, <2>4 DEF Streaming
<1>13. pc = "fetch" => Streaming'
  BY <1>1, <1>12, SendersTurn DEF IInv
<1> QED  BY <1>1, <1>7, <1>8, <1>9, <1>10, <1>11, <1>13, SendStep

LEMMA EndAnswerStep == ASSUME IInv, EndAnswer PROVE IInv'
<1>1. PICK m : m = Plain("succeed")
  OBVIOUS
<1>2. m \in Messages /\ m.kind = "succeed"
  BY <1>1 DEF Plain, Message, Messages
<1>3. /\ agent.pc = "send" /\ agent.todo = << >> /\ AgentRest
      /\ toMonitor' = SendTo(toMonitor, <<m>>) /\ UNCHANGED <<up, toAgent, front>>
      /\ agent' = [agent EXCEPT !.pc = "recv"]
  BY <1>1 DEF EndAnswer
<1>4. agent' \in [pc : {"recv", "send"}, todo : Seq(Threads \X {"data", "now"})]
      /\ agent'.pc = "recv"
  BY <1>3 DEF IInv, TypeInv
<1>5. ASSUME Streaming PROVE Streaming'
  <2>1. /\ toAgent' = << >> /\ AgentRests'
        /\ \A k \in 1 .. Len(toMonitor) : toMonitor[k].kind # "succeed"
    BY <1>3, <1>4, <1>5 DEF Streaming, AgentRests
  <2>2. /\ toMonitor \in Seq(Messages) /\ up \in BOOLEAN
        /\ up => toMonitor' = Append(toMonitor, m)
        /\ ~up => toMonitor' = toMonitor
    BY <1>2, <1>3, SendFacts DEF IInv, TypeInv
  <2>3. ASSUME NEW k \in 1 .. Len(toMonitor'), toMonitor'[k].kind = "succeed"
        PROVE  k = Len(toMonitor') /\ \A t : HasData(t)' => HasNow(t)'
    <3>1. up
      BY <2>1, <2>2, <2>3
    <3>2. k = Len(toMonitor')
      BY <2>1, <2>2, <2>3, <3>1
    <3>3. \A t : HasData(t) => HasNow(t)
      BY <1>3, <1>5, <3>1 DEF Streaming, OneLeft
    <3>4. UNCHANGED <<bufs, nows>>
      BY <1>3 DEF AgentRest, fetchVars
    <3>5. \A t : (HasData(t)' <=> HasData(t)) /\ (HasNow(t)' <=> HasNow(t))
      BY <1>2, <2>2, <3>1, <3>4, SentMore
    <3> QED  BY <3>2, <3>3, <3>5
  <2> QED  BY <1>4, <2>1, <2>3 DEF Streaming
<1>6. pc = "fetch" => Streaming'
  BY <1>3, <1>5, SendersTurn DEF IInv
<1>7. front' \in [Threads -> Seq(Names)] /\ \A t \in Threads : Range(front'[t]) \subseteq Range(front[t])
  BY <1>3 DEF IInv, TypeInv
<1> QED  BY <1>2, <1>3, <1>4, <1>6, <1>7, SendStep

LEMMA HangupStep == ASSUME IInv, Hangup PROVE IInv'
<1>1. /\ agent' = [agent EXCEPT !.pc = "gone"] /\ agent.pc = "recv" /\ AgentRest
      /\ UNCHANGED <<table, pc, polls, bufs, nows, query, names, stored, front, up, toAgent,
                     toMonitor>>
  BY DEF Hangup, AgentRest, fetchVars, netVars
<1>2. agent' \in [pc : {"recv", "send", "gone", "aborted"}, todo : Seq(Threads \X {"data", "now"})]
      /\ agent'.pc = "gone"
  BY <1>1 DEF IInv, TypeInv
<1>3. TypeInv'
  BY <1>1, <1>2 DEF IInv, TypeInv
<1>4. TurnInv'
  <2>1. AgentRests /\ AgentRests'
    BY <1>1, <1>2 DEF AgentRests
  <2>2. \A t : (HasData(t)' <=> HasData(t)) /\ (HasNow(t)' <=> HasNow(t))
    BY <1>1 DEF HasData, HasNow
  <2>3. Streaming => Streaming'
    BY <1>1, <1>2, <2>1, <2>2 DEF Streaming
  <2> QED  BY <1>1, <2>1, <2>3 DEF IInv, TurnInv, Quiet, Hushed, Asked, Answered
<1>5. NamingInv' /\ NodesNamed' /\ CrashNeedsBreak'
  BY <1>1, AgentKeeps
<1>6. AbortNeedsFlood' /\ KnownInv' /\ RightInv'
  BY <1>1, <1>2 DEF IInv, AbortNeedsFlood, KnownInv, RightInv, Right
<1> QED  BY <1>3, <1>4, <1>5, <1>6 DEF IInv

\* A connection that breaks.
LEMMA BreakStep == ASSUME IInv, Break PROVE IInv'
<1>1. /\ up /\ ~up' /\ up' \in BOOLEAN /\ toMonitor' \in Remains(toMonitor)
      /\ UNCHANGED <<front, table, agent, pc, polls, bufs, nows, query, names, stored>>
  BY DEF Break, agentVars, fetchVars
<1>2. PICK k \in 0 .. Len(toAgent) : toAgent' = SubSeq(toAgent, 1, k)
  BY DEF Break
<1>3. toAgent \in Seq(Messages) /\ toMonitor \in Seq(Messages)
  BY DEF IInv, TypeInv
<1>4. /\ toAgent' \in Seq(Messages) /\ Len(toAgent') = k
      /\ \A j \in 1 .. k : toAgent'[j] = toAgent[j] /\ j \in 1 .. Len(toAgent)
  BY <1>2, <1>3
<1>5. /\ toMonitor' \in Seq(Messages) /\ Len(toMonitor') <= Len(toMonitor)
      /\ \A j \in 1 .. Len(toMonitor') :
           toMonitor'[j].kind = toMonitor[j].kind /\ toMonitor'[j].thread = toMonitor[j].thread
  BY <1>1, <1>3, RemainsFacts
<1>6. TypeInv'
  BY <1>1, <1>4, <1>5 DEF IInv, TypeInv
<1>7. TurnInv'
  <2>1. AgentRests' <=> AgentRests
    BY <1>1 DEF AgentRests
  <2>2. toMonitor = << >> => toMonitor' = << >>
    <3>1. ASSUME toMonitor = << >> PROVE Len(toMonitor') = 0
      BY <1>5, <3>1
    <3> QED  BY <1>5, <3>1, EmptySeq
  <2>3. toAgent = << >> => toAgent' = << >>
    BY <1>2, <1>4
  <2>4. Quiet => Hushed'
    BY <1>1, <2>1, <2>2, <2>3 DEF Quiet, Hushed
  <2>5. ASSUME NEW kind, Asked(kind) PROVE Asked(kind)' \/ Hushed'
    <3>1. toMonitor' = << >> /\ AgentRests' /\ k \in {0, 1}
      BY <1>2, <2>1, <2>2, <2>5 DEF Asked
    <3>2. CASE k = 0
      <4>1. toAgent' = << >>
        BY <1>4, <3>2, EmptySeq
      <4> QED  BY <1>1, <3>1, <4>1 DEF Hushed, Quiet
    <3>3. CASE k = 1
      BY <1>4, <2>5, <3>1, <3>3 DEF Asked
    <3> QED  BY <3>1, <3>2, <3>3
  <2>6. ASSUME Answered PROVE Answered' \/ Hushed'
    <3>1. toAgent' = << >> /\ AgentRests' /\ Len(toMonitor') \in {0, 1}
      <4>1. Len(toMonitor') \in Nat /\ Len(toMonitor') <= 1
        BY <1>5, <2>6 DEF Answered
      <4> QED  BY <2>1, <2>3, <2>6, <4>1 DEF Answered
    <3>2. CASE Len(toMonitor') = 0
      <4>1. toMonitor' = << >>
        BY <1>5, <3>2, EmptySeq
      <4> QED  BY <1>1, <3>1, <4>1 DEF Hushed, Quiet
    <3> QED  BY <3>1, <3>2 DEF Answered
  <2>7. Hushed' => Streaming'
    BY <1>1 DEF Hushed, Quiet, Streaming
  <2>8. ASSUME Streaming PROVE Streaming'
    <3>1. ASSUME NEW j \in 1 .. Len(toMonitor'), toMonitor'[j].kind = "succeed"
          PROVE  j = Len(toMonitor') /\ AgentRests' /\ \A t : HasData(t)' => HasNow(t)'
      <4>1. j \in 1 .. Len(toMonitor) /\ toMonitor[j].kind = "succeed"
        BY <1>3, <1>5, <3>1
      <4>2. j = Len(toMonitor) /\ AgentRests /\ \A t : HasData(t) => HasNow(t)
        BY <2>8, <4>1 DEF Streaming
      <4>3. Len(toMonitor') = Len(toMonitor)
        BY <1>3, <1>5, <4>2
      <4>4. \A t : \A kind : Among(toMonitor', kind, t) <=> Among(toMonitor, kind, t)
        BY <1>5, <4>3 DEF Among
      <4>5. \A t : (HasData(t)' <=> HasData(t)) /\ (HasNow(t)' <=> HasNow(t))
        BY <1>1, <4>4 DEF HasData, HasNow
      <4> QED  BY <2>1, <4>2, <4>3, <4>5
    <3> QED  BY <1>1, <2>3, <2>8, <3>1 DEF Streaming
  <2> QED  BY <1>1, <2>4, <2>5, <2>6, <2>7, <2>8 DEF IInv, TurnInv, Hushed
<1>8. NamingInv' /\ NodesNamed' /\ AbortNeedsFlood'
  BY <1>1 DEF IInv, NamingInv, NodesNamed, AbortNeedsFlood
<1>9. CrashNeedsBreak'
  BY <1>1 DEF IInv, CrashNeedsBreak
<1>10. KnownInv' /\ RightInv'
  BY <1>1, <1>4 DEF IInv, KnownInv, RightInv
<1> QED  BY <1>6, <1>7, <1>8, <1>9, <1>10 DEF IInv

(***************************************************************************)
(* The steps of the monitor.                                               *)
(***************************************************************************)

\* The monitor asks: its question is under way, or lost.
LEMMA AskFacts ==
  ASSUME up \in BOOLEAN, toAgent = << >>, AgentRests, agent' = agent, toMonitor' = << >>,
         NEW kind \in {"info", "req", "query"}, NEW body \in Seq(Word), NEW next,
         Ask(kind, body, next)
  PROVE  /\ toAgent' \in Seq(Messages) /\ up' = up /\ pc' = next
         /\ Asked(kind)' \/ Hushed'
         /\ \A k \in 1 .. Len(toAgent') :
              up /\ toAgent'[k].kind = kind /\ toAgent'[k].body = body
<1>1. PICK m : m = Message(kind, Junk, body)
  OBVIOUS
<1>2. m \in Messages /\ m.kind = kind /\ m.body = body
  BY <1>1 DEF Message, Messages
<1>3. toAgent' = SendTo(<< >>, <<m>>) /\ up' = up /\ pc' = next /\ AgentRests'
  BY <1>1 DEF Ask, AgentRests
<1>4. CASE up
  <2>1. toAgent' = <<m>>
    BY <1>3, <1>4 DEF SendTo
  <2>2. Len(toAgent') = 1 /\ toAgent'[1] = m
    BY <2>1
  <2>3. Asked(kind)'
    BY <1>2, <1>3, <2>2 DEF Asked
  <2>4. toAgent' \in Seq(Messages)
    BY <1>2, <2>1
  <2> QED  BY <1>2, <1>3, <1>4, <2>2, <2>3, <2>4
<1>5. CASE ~up
  <2>1. toAgent' = << >>
    BY <1>3, <1>5 DEF SendTo
  <2>2. Hushed'
    BY <1>3, <1>5, <2>1 DEF Hushed, Quiet
  <2>3. toAgent' \in Seq(Messages) /\ Len(toAgent') = 0
    BY <2>1
  <2> QED  BY <1>3, <2>2, <2>3
<1> QED  BY <1>4, <1>5

\* A step of the first exchange.
LEMMA ExchangeStep ==
  ASSUME IInv, pc \in {"new", "slide", "meta", "target"}, MonitorRest,
         UNCHANGED <<up, fetchVars, names>>,
         pc' \in {"slide", "meta", "target", "idle"},
         toAgent' \in Seq(Messages), \A k \in 1 .. Len(toAgent') : toAgent'[k].kind = "info",
         toMonitor' = << >>,
         pc' = "idle" => Quiet', pc' # "idle" => Asked("info")' \/ Hushed'
  PROVE  IInv'
<1>1. UNCHANGED <<front, table, agent, up, polls, stored, bufs, nows, query, names>>
  BY DEF MonitorRest, agentVars, fetchVars
<1>2. TypeInv'
  <2>1. << >> \in Seq(Messages)
    OBVIOUS
  <2> QED  BY <1>1, <2>1 DEF IInv, TypeInv, Pcs
<1>3. TurnInv'
  BY <1>1 DEF IInv, TurnInv
<1>4. NamingInv' /\ NodesNamed' /\ CrashNeedsBreak' /\ AbortNeedsFlood'
  BY <1>1 DEF IInv, NamingInv, NodesNamed, CrashNeedsBreak, AbortNeedsFlood
<1>5. KnownInv'
  <2>1. Len(toMonitor') = 0
    OBVIOUS
  <2>2. \A k \in 1 .. Len(toMonitor') : FALSE
    BY <2>1
  <2> QED  BY <1>1, <2>2 DEF IInv, KnownInv
<1>6. RightInv'
  BY <1>1 DEF IInv, RightInv, Right
<1> QED  BY <1>2, <1>3, <1>4, <1>5, <1>6 DEF IInv

\* The monitor gives up, reads for ever, or follows a null pointer.
LEMMA StopStep ==
  ASSUME IInv, MonitorRest, UNCHANGED <<up, toAgent, fetchVars, names>>,
         toMonitor' \in {toMonitor, << >>},
         pc' \in {"stopped", "spinning", "crashed"},
         pc' = "crashed" => ~up /\ (polls = 0 \/ query # << >>),
         pc' = "spinning" => ~up /\ polls = 0
  PROVE  IInv'
<1>1. UNCHANGED <<front, table, agent, up, toAgent, polls, stored, bufs, nows, query, names>>
  BY DEF MonitorRest, agentVars, fetchVars
<1>2. TypeInv'
  <2>1. << >> \in Seq(Messages)
    OBVIOUS
  <2>2. toMonitor' \in Seq(Messages) /\ pc' \in Pcs
    BY <2>1 DEF IInv, TypeInv, Pcs
  <2> QED  BY <1>1, <2>2 DEF IInv, TypeInv
<1>3. TurnInv'
  BY DEF TurnInv
<1>4. NamingInv' /\ NodesNamed' /\ CrashNeedsBreak' /\ AbortNeedsFlood'
  BY <1>1 DEF IInv, NamingInv, NodesNamed, CrashNeedsBreak, AbortNeedsFlood
<1>5. KnownInv'
  <2>1. CASE toMonitor' = << >>
    <3>1. Len(toMonitor') = 0
      BY <2>1
    <3>2. \A k \in 1 .. Len(toMonitor') : FALSE
      BY <3>1
    <3> QED  BY <1>1, <3>2 DEF IInv, KnownInv
  <2>2. CASE toMonitor' = toMonitor
    BY <1>1, <2>2 DEF IInv, KnownInv
  <2> QED  BY <2>1, <2>2
<1>6. RightInv'
  BY DEF RightInv
<1> QED  BY <1>2, <1>3, <1>4, <1>5, <1>6 DEF IInv

LEMMA StartStep == ASSUME IInv, Start PROVE IInv'
<1>1. /\ pc = "new" /\ MonitorRest /\ UNCHANGED <<fetchVars, names>>
      /\ \/ pc' = "stopped" /\ UNCHANGED netVars
         \/ Ask("info", << >>, "slide") /\ UNCHANGED toMonitor
  BY DEF Start
<1>2. CASE pc' = "stopped" /\ UNCHANGED netVars
  BY <1>1, <1>2, StopStep DEF netVars
<1>3. CASE Ask("info", << >>, "slide") /\ UNCHANGED toMonitor
  <2>1. Quiet /\ up \in BOOLEAN
    BY <1>1 DEF IInv, TypeInv, TurnInv
  <2>2. /\ toAgent = << >> /\ AgentRests /\ agent' = agent /\ toMonitor' = << >>
        /\ << >> \in Seq(Word)
    BY <1>1, <1>3, <2>1 DEF Quiet, MonitorRest, agentVars
  <2>3. /\ toAgent' \in Seq(Messages) /\ up' = up /\ pc' = "slide"
        /\ Asked("info")' \/ Hushed'
        /\ \A k \in 1 .. Len(toAgent') : toAgent'[k].kind = "info"
    BY <1>3, <2>1, <2>2, AskFacts
  <2> QED  BY <1>1, <2>2, <2>3, ExchangeStep
<1> QED  BY <1>1, <1>2, <1>3

LEMMA InfoArrivesStep == ASSUME IInv, InfoArrives PROVE IInv'
<1>1. /\ pc \in {"slide", "meta", "target"} /\ Arrived /\ MonitorRest
      /\ toMonitor' = Tail(toMonitor) /\ UNCHANGED <<fetchVars, names>>
  BY DEF InfoArrives
<1>2. toAgent = << >> /\ toMonitor' = << >> /\ AgentRests
  BY <1>1, MonitorsTurn DEF IInv
<1>3. agent' = agent /\ up \in BOOLEAN /\ << >> \in Seq(Word)
  BY <1>1 DEF IInv, TypeInv, MonitorRest, agentVars
<1>4. CASE pc = "target"
  <2>1. pc' = "idle" /\ UNCHANGED <<up, toAgent>>
    BY <1>4 DEF InfoArrives
  <2>2. toAgent' \in Seq(Messages) /\ Len(toAgent') = 0 /\ Quiet'
    BY <1>2, <1>3, <2>1 DEF Quiet, AgentRests
  <2> QED  BY <1>1, <1>2, <2>1, <2>2, ExchangeStep
<1>5. ASSUME NEW next \in {"meta", "target"}, Ask("info", << >>, next) PROVE IInv'
  <2>1. /\ toAgent' \in Seq(Messages) /\ up' = up /\ pc' = next
        /\ Asked("info")' \/ Hushed'
        /\ \A k \in 1 .. Len(toAgent') : toAgent'[k].kind = "info"
    BY <1>2, <1>3, <1>5, AskFacts
  <2> QED  BY <1>1, <1>2, <1>5, <2>1, ExchangeStep
<1>6. CASE pc \in {"slide", "meta"}
  BY <1>5, <1>6 DEF InfoArrives
<1> QED  BY <1>1, <1>4, <1>6

LEMMA InfoLostStep == ASSUME IInv, InfoLost PROVE IInv'
<1>1. polls = 0
  BY DEF InfoLost, IInv, TurnInv
<1> QED  BY <1>1, StopStep DEF InfoLost, Lost, netVars

\* An answer is cut short only by a break; nothing else is under way then.
LEMMA InfoUnreadableStep ==
  ASSUME IInv, ToldInv, InfoUnreadable
  PROVE  IInv' /\ pc' \in {"spinning", "crashed"}
<1>1. /\ pc \in {"slide", "meta"} /\ Arrived /\ Got.body # <<Told>> /\ MonitorRest
      /\ toMonitor' = Tail(toMonitor) /\ pc' \in {"spinning", "crashed"}
      /\ UNCHANGED <<up, toAgent, fetchVars, names>>
  BY DEF InfoUnreadable, Unreadable
<1>2. Got = toMonitor[1] /\ Len(toMonitor) \in Nat \ {0} /\ toMonitor' = << >>
  BY <1>1, MonitorsTurn DEF IInv
<1>3. ~up /\ polls = 0
  <2>1. 1 \in 1 .. Len(toMonitor)
    BY <1>2
  <2> QED  BY <1>1, <1>2, <2>1 DEF ToldInv, IInv, TurnInv
<1> QED  BY <1>1, <1>2, <1>3, StopStep

LEMMA PollStep == ASSUME IInv, Poll PROVE IInv'
<1>1. /\ pc = "idle" /\ polls' = polls + 1 /\ bufs' = << >> /\ nows' = {} /\ query' = << >>
      /\ Ask("req", << >>, "fetch")
      /\ UNCHANGED <<front, table, agent, toMonitor, names, stored>>
  BY DEF Poll, agentVars
<1>2. Quiet /\ query = << >> /\ up \in BOOLEAN
  BY <1>1 DEF IInv, TypeInv, TurnInv, NamingInv
<1>3. /\ toAgent = << >> /\ AgentRests /\ toMonitor' = << >> /\ << >> \in Seq(Word)
      /\ DOMAIN bufs' = {} /\ Range(query') = {} /\ Range(query) = {} /\ IsInjective(query')
  BY <1>1, <1>2 DEF Quiet, Range, IsInjective
<1>4. /\ toAgent' \in Seq(Messages) /\ up' = up /\ pc' = "fetch"
      /\ Asked("req")' \/ Hushed'
      /\ \A k \in 1 .. Len(toAgent') : toAgent'[k].kind = "req"
  BY <1>1, <1>2, <1>3, AskFacts
<1>5. TypeInv'
  BY <1>1, <1>3, <1>4 DEF IInv, TypeInv, Pcs
<1>6. TurnInv'
  <2>1. Hushed' => Streaming'
    BY DEF Hushed, Quiet, Streaming
  <2> QED  BY <1>3, <1>4, <2>1 DEF TurnInv
<1>7. NamingInv'
  BY <1>1, <1>3, <1>4 DEF IInv, NamingInv
<1>8. NodesNamed' /\ CrashNeedsBreak' /\ AbortNeedsFlood'
  BY <1>1, <1>4 DEF IInv, NodesNamed, CrashNeedsBreak, AbortNeedsFlood
<1>9. KnownInv'
  BY <1>1, <1>4 DEF IInv, KnownInv
<1>10. RightInv'
  BY <1>1, <1>3, <1>4 DEF IInv, RightInv, Right
<1> QED  BY <1>5, <1>6, <1>7, <1>8, <1>9, <1>10 DEF IInv

\* A message of an answer with records is read, and noted if it is one of the
\* two of a thread.
LEMMA StreamRead ==
  ASSUME TypeInv, TurnInv, Arrived, pc = "fetch", toMonitor' = Tail(toMonitor),
         UNCHANGED <<agent, up, toAgent>>,
         DOMAIN bufs' = DOMAIN bufs \cup (IF Got.kind = "data" THEN {Got.thread} ELSE {}),
         nows' = nows \cup (IF Got.kind = "now" THEN {Got.thread} ELSE {})
  PROVE  Streaming'
<1>1. /\ Streaming /\ Len(toMonitor) \in Nat \ {0} /\ Len(toMonitor') = Len(toMonitor) - 1
      /\ \A k \in 1 .. Len(toMonitor') : toMonitor'[k] = toMonitor[k + 1]
  BY MonitorsTurn
<1>2. \A t : (HasData(t)' <=> HasData(t)) /\ (HasNow(t)' <=> HasNow(t))
  BY ReadOne DEF TypeInv, Arrived
<1>3. toAgent' = << >>
  BY <1>1 DEF Streaming
<1>4. ASSUME NEW k \in 1 .. Len(toMonitor'), toMonitor'[k].kind = "succeed"
      PROVE  k = Len(toMonitor') /\ AgentRests' /\ \A t : HasData(t)' => HasNow(t)'
  <2>1. k + 1 \in 1 .. Len(toMonitor) /\ toMonitor[k + 1].kind = "succeed"
    BY <1>1, <1>4
  <2>2. k + 1 = Len(toMonitor) /\ AgentRests /\ \A t : HasData(t) => HasNow(t)
    BY <1>1, <2>1 DEF Streaming
  <2>3. AgentRests'
    BY <2>2 DEF AgentRests
  <2>4. k = Len(toMonitor')
    <3>1. PICK a, b : a = Len(toMonitor) /\ b = Len(toMonitor') /\ a \in Nat /\ b = a - 1
      BY <1>1
    <3>2. k \in Nat /\ k + 1 = a
      BY <2>2, <3>1
    <3> QED  BY <3>1, <3>2
  <2>5. \A t : HasData(t)' => HasNow(t)'
    BY <1>2, <2>2
  <2> QED  BY <2>3, <2>4, <2>5
<1>5. up' /\ agent'.pc = "send" =>
        Paired(agent'.todo) /\ \A t : HasData(t)' => HasNow(t)' \/ OneLeft(t)'
  BY <1>1, <1>2 DEF Streaming, OneLeft
<1> QED  BY <1>3, <1>4, <1>5 DEF Streaming

LEMMA NowInfoArrivesStep == ASSUME IInv, NowInfoArrives PROVE IInv'
<1>1. /\ pc = "fetch" /\ Arrived /\ Got.kind = "now" /\ nows' = nows \cup {Got.thread}
      /\ toMonitor' = Tail(toMonitor)
      /\ UNCHANGED <<front, table, agent, up, toAgent, pc, polls, bufs, query, names, stored>>
  BY DEF NowInfoArrives, MonitorRest, agentVars
<1>2. /\ toMonitor' \in Seq(Messages) /\ Len(toMonitor') = Len(toMonitor) - 1
      /\ Len(toMonitor) \in Nat
      /\ \A k \in 1 .. Len(toMonitor') : toMonitor'[k] = toMonitor[k + 1]
  BY <1>1, MonitorsTurn DEF IInv
<1>3. Streaming'
  BY <1>1, StreamRead DEF IInv
<1>4. TypeInv'
  BY <1>1, <1>2 DEF IInv, TypeInv
<1>5. TurnInv'
  BY <1>1, <1>3 DEF TurnInv
<1>6. NamingInv' /\ NodesNamed' /\ CrashNeedsBreak' /\ AbortNeedsFlood'
  BY <1>1 DEF IInv, NamingInv, NodesNamed, CrashNeedsBreak, AbortNeedsFlood
<1>7. KnownInv'
  BY <1>1, <1>2 DEF IInv, KnownInv
<1>8. RightInv'
  BY <1>1 DEF IInv, RightInv, Right
<1> QED  BY <1>4, <1>5, <1>6, <1>7, <1>8 DEF IInv

\* Two sequences without repetitions and without a common element.
LEMMA Joined ==
  ASSUME NEW W, NEW a \in Seq(W), NEW b \in Seq(W), IsInjective(a), IsInjective(b),
         Range(a) \cap Range(b) = {}
  PROVE  a \o b \in Seq(W) /\ IsInjective(a \o b) /\ Range(a \o b) = Range(a) \cup Range(b)
<1>1. PICK c : c = a \o b
  OBVIOUS
<1>2. /\ c \in Seq(W) /\ DOMAIN c = 1 .. Len(a) + Len(b)
      /\ DOMAIN a = 1 .. Len(a) /\ DOMAIN b = 1 .. Len(b) /\ Len(a) \in Nat /\ Len(b) \in Nat
  BY <1>1
<1>3. /\ \A i \in 1 .. Len(a) : c[i] = a[i]
      /\ \A i \in Len(a) + 1 .. Len(a) + Len(b) : c[i] = b[i - Len(a)]
  BY <1>1
<1>4. /\ \A i \in 1 .. Len(a) : c[i] \in Range(a)
      /\ \A i \in Len(a) + 1 .. Len(a) + Len(b) : i - Len(a) \in 1 .. Len(b) /\ c[i] \in Range(b)
  <2>1. \A i \in Len(a) + 1 .. Len(a) + Len(b) : i - Len(a) \in 1 .. Len(b)
    BY <1>2
  <2>2. \A i \in DOMAIN a : a[i] \in Range(a)
    BY DEF Range
  <2>3. \A i \in DOMAIN b : b[i] \in Range(b)
    BY DEF Range
  <2> QED  BY <1>2, <1>3, <2>1, <2>2, <2>3
<1>5. Range(c) = Range(a) \cup Range(b)
  <2>1. ASSUME NEW i \in DOMAIN c PROVE c[i] \in Range(a) \cup Range(b)
    <3>1. i \in 1 .. Len(a) \/ i \in Len(a) + 1 .. Len(a) + Len(b)
      BY <1>2
    <3> QED  BY <1>4, <3>1
  <2>2. ASSUME NEW i \in DOMAIN a PROVE a[i] \in Range(c)
    <3>1. i \in DOMAIN c /\ c[i] = a[i]
      BY <1>2, <1>3
    <3> QED  BY <3>1 DEF Range
  <2>3. ASSUME NEW i \in DOMAIN b PROVE b[i] \in Range(c)
    <3>1. i + Len(a) \in DOMAIN c /\ c[i + Len(a)] = b[(i + Len(a)) - Len(a)]
      BY <1>2, <1>3
    <3>2. (i + Len(a)) - Len(a) = i
      BY <1>2
    <3> QED  BY <3>1, <3>2 DEF Range
  <2> QED  BY <2>1, <2>2, <2>3 DEF Range
<1>6. ASSUME NEW i \in DOMAIN c, NEW j \in DOMAIN c, c[i] = c[j] PROVE i = j
  <2>1. /\ i \in 1 .. Len(a) \/ i \in Len(a) + 1 .. Len(a) + Len(b)
        /\ j \in 1 .. Len(a) \/ j \in Len(a) + 1 .. Len(a) + Len(b)
    BY <1>2
  <2>2. CASE i \in 1 .. Len(a) /\ j \in 1 .. Len(a)
    BY <1>2, <1>3, <1>6, <2>2 DEF IsInjective
  <2>3. CASE i \in Len(a) + 1 .. Len(a) + Len(b) /\ j \in Len(a) + 1 .. Len(a) + Len(b)
    <3>1. b[i - Len(a)] = b[j - Len(a)]
      BY <1>3, <1>6, <2>3
    <3>2. i - Len(a) = j - Len(a)
      BY <1>2, <1>4, <2>3, <3>1 DEF IsInjective
    <3> QED  BY <1>2, <2>3, <3>2
  <2> QED  BY <1>4, <1>6, <2>1, <2>2, <2>3
<1> QED  BY <1>1, <1>2, <1>5, <1>6 DEF IsInjective

LEMMA DataArrivesStep == ASSUME IInv, DataArrives PROVE IInv'
<1>1. /\ pc = "fetch" /\ Arrived /\ Got.kind = "data" /\ toMonitor' = Tail(toMonitor)
      /\ UNCHANGED <<front, table, agent, up, toAgent, pc, polls, nows, stored>>
  BY DEF DataArrives, MonitorRest, agentVars
<1>2. /\ Got = toMonitor[1] /\ Got \in Messages
      /\ toMonitor' \in Seq(Messages) /\ Len(toMonitor') = Len(toMonitor) - 1
      /\ Len(toMonitor) \in Nat \ {0}
      /\ \A k \in 1 .. Len(toMonitor') : toMonitor'[k] = toMonitor[k + 1]
  BY <1>1, MonitorsTurn DEF IInv
<1>3. PICK body \in Seq(Word) : body = Got.body
  BY <1>2 DEF Messages
<1>4. PICK new : new = Unheard(body)
  OBVIOUS
<1>5. new \in Seq(Word) /\ IsInjective(new) /\ Range(new) = Range(body) \ DOMAIN names
  BY <1>4, UnheardFacts
<1>6. /\ query' = query \o new
      /\ names' = [n \in DOMAIN names \cup Range(new) |->
                     IF n \in DOMAIN names THEN names[n] ELSE Asking]
      /\ bufs' = [t \in DOMAIN bufs \cup {Got.thread} |-> IF t = Got.thread THEN body ELSE bufs[t]]
  BY <1>3, <1>4 DEF DataArrives, Marked
<1>7. /\ query \in Seq(Word) /\ Range(query) \subseteq DOMAIN names /\ IsInjective(query)
  BY DEF IInv, TypeInv, NamingInv
<1>8. query' \in Seq(Word) /\ IsInjective(query') /\ Range(query') = Range(query) \cup Range(new)
  <2>1. Range(query) \cap Range(new) = {}
    BY <1>5, <1>7
  <2> QED  BY <1>5, <1>6, <1>7, <2>1, Joined
<1>9. DOMAIN names' = DOMAIN names \cup Range(new) /\ Range(body) \subseteq DOMAIN names'
  BY <1>5, <1>6
<1>10. TypeInv'
  <2>1. \A t \in DOMAIN bufs' : bufs'[t] \in Seq(Word)
    BY <1>6 DEF IInv, TypeInv
  <2>2. Range(body) \subseteq Word
    BY DEF Range
  <2>3. DOMAIN names' \subseteq Word
    BY <1>5, <1>9, <2>2 DEF IInv, TypeInv
  <2>4. \A n \in DOMAIN names' : names'[n] \in Word \cup {Empty, Asking}
    BY <1>6 DEF IInv, TypeInv
  <2> QED  BY <1>1, <1>2, <1>8, <2>1, <2>3, <2>4 DEF IInv, TypeInv
<1>11. TurnInv'
  <2>1. DOMAIN bufs' = DOMAIN bufs \cup (IF Got.kind = "data" THEN {Got.thread} ELSE {})
    BY <1>1, <1>6
  <2>2. nows' = nows \cup (IF Got.kind = "now" THEN {Got.thread} ELSE {})
    BY <1>1
  <2>3. Streaming'
    BY <1>1, <2>1, <2>2, StreamRead DEF IInv
  <2> QED  BY <1>1, <2>3 DEF TurnInv
<1>12. NamingInv'
  <2>1. Range(query') \subseteq DOMAIN names'
    BY <1>7, <1>8, <1>9
  <2>2. \A t \in DOMAIN bufs' : Range(bufs'[t]) \subseteq DOMAIN names'
    BY <1>6, <1>9 DEF IInv, NamingInv
  <2>3. ASSUME NEW n \in DOMAIN names', names'[n] = Asking PROVE n \in Range(query')
    BY <1>1, <1>6, <1>8, <1>9, <2>3 DEF IInv, NamingInv
  <2> QED  BY <1>1, <1>8, <2>1, <2>2, <2>3 DEF NamingInv
<1>13. NodesNamed'
  BY <1>1, <1>6 DEF IInv, NodesNamed
<1>14. CrashNeedsBreak' /\ AbortNeedsFlood'
  BY <1>1 DEF IInv, CrashNeedsBreak, AbortNeedsFlood
<1>15. up => DOMAIN names' \subseteq table
  BY <1>1, <1>2, <1>3, <1>5, <1>9 DEF IInv, KnownInv
<1>16. KnownInv'
  <2>1. \A k \in 1 .. Len(toMonitor') : k + 1 \in 1 .. Len(toMonitor)
    BY <1>2
  <2>2. up => \A k \in 1 .. Len(toMonitor') :
          toMonitor'[k].kind = "data" => Range(toMonitor'[k].body) \subseteq table
    BY <1>2, <2>1 DEF IInv, KnownInv
  <2> QED  BY <1>1, <1>15, <2>2 DEF IInv, KnownInv
<1>17. RightInv'
  <2>1. SUFFICES ASSUME up, NEW n \in DOMAIN names' \ Range(query') PROVE Right(n)'
    BY <1>1 DEF RightInv
  <2>2. n \in DOMAIN names \ Range(query) /\ names'[n] = names[n]
    BY <1>6, <1>8, <1>9
  <2>3. Right(n)
    BY <1>1, <2>1, <2>2 DEF IInv, RightInv
  <2>4. CASE Cardinality(DOMAIN names) > NameCap
    <3>1. IsFiniteSet(DOMAIN names') /\ DOMAIN names \in SUBSET (DOMAIN names')
      <4>1. IsFiniteSet(table) /\ DOMAIN names' \in SUBSET table
        BY <1>15, <2>1 DEF IInv, TypeInv
      <4> QED  BY <1>9, <4>1, FS_Subset
    <3>2. /\ Cardinality(DOMAIN names) <= Cardinality(DOMAIN names')
          /\ Cardinality(DOMAIN names) \in Nat /\ Cardinality(DOMAIN names') \in Nat
      BY <3>1, FS_Subset, FS_CardinalityType
    <3>3. NameCap \in Nat
      BY SessionConstants
    <3>4. Cardinality(DOMAIN names') > NameCap
      BY <2>4, <3>2, <3>3
    <3> QED  BY <2>2, <2>3, <3>4 DEF Right
  <2> QED  BY <2>2, <2>3, <2>4 DEF Right
<1> QED  BY <1>10, <1>11, <1>12, <1>13, <1>14, <1>16, <1>17 DEF IInv

\* The answers of a fetch are complete: they are stored.
LEMMA StoreStep ==
  ASSUME IInv, pc \in {"fetch", "names"}, DOMAIN bufs \subseteq nows, StoreAll,
         UNCHANGED <<agentVars, up, polls>>,
         AgentRests, toAgent' = << >>, toMonitor' = << >>,
         DOMAIN names' = DOMAIN names,
         \A n \in DOMAIN names : names'[n] \in Word \cup {Empty} /\ names'[n] # Asking,
         up => \A n \in DOMAIN names : Right(n)'
  PROVE  IInv'
<1>1. /\ pc' = "idle" /\ bufs' = << >> /\ nows' = {} /\ query' = << >>
      /\ stored' = [t \in Threads |-> [n \in Word |-> Sum(t, n)]]
      /\ UNCHANGED <<front, table, agent, up, polls>>
  BY DEF StoreAll, agentVars
<1>2. /\ DOMAIN bufs' = {} /\ Range(query') = {} /\ IsInjective(query')
      /\ query' \in Seq(Word) /\ toAgent' \in Seq(Messages) /\ toMonitor' \in Seq(Messages)
      /\ Len(toAgent') = 0 /\ Len(toMonitor') = 0
  BY <1>1 DEF Range, IsInjective
<1>3. ASSUME NEW t \in Threads, NEW n \in Word
      PROVE  /\ Sum(t, n) \in Nat
             /\ Sum(t, n) > 0 => stored[t][n] > 0 \/ n \in DOMAIN names
  <2>1. stored[t][n] \in Nat
    BY DEF IInv, TypeInv
  <2>2. CASE t \notin DOMAIN bufs
    <3>1. Sum(t, n) = stored[t][n] + 0
      BY <2>2 DEF Sum
    <3> QED  BY <2>1, <3>1
  <2>3. CASE t \in DOMAIN bufs
    <3>1. PICK body \in Seq(Word) : body = bufs[t]
      BY <2>3 DEF IInv, TypeInv
    <3>2. Sum(t, n) = stored[t][n] + CallsIn(body, n)
      BY <2>3, <3>1 DEF Sum
    <3>3. CallsIn(body, n) \in Nat /\ (CallsIn(body, n) > 0 => n \in Range(body))
      BY CallsFacts
    <3>4. Range(body) \subseteq DOMAIN names
      BY <2>3, <3>1 DEF IInv, NamingInv
    <3>5. stored[t][n] > 0 \/ stored[t][n] = 0
      BY <2>1
    <3> QED  BY <2>1, <3>2, <3>3, <3>4, <3>5
  <2> QED  BY <2>2, <2>3
<1>4. TypeInv'
  <2>1. stored' \in [Threads -> [Word -> Nat]]
    BY <1>1, <1>3
  <2> QED  BY <1>1, <1>2, <2>1 DEF IInv, TypeInv, Pcs
<1>5. TurnInv'
  <2>1. Quiet'
    BY <1>1 DEF Quiet, AgentRests
  <2> QED  BY <1>1, <2>1 DEF TurnInv
<1>6. NamingInv'
  BY <1>1, <1>2 DEF NamingInv
<1>7. NodesNamed'
  <2>1. SUFFICES ASSUME NEW t \in Threads, NEW n \in Names, stored'[t][n] > 0
                 PROVE  n \in DOMAIN names
    BY DEF NodesNamed
  <2>2. n \in Word /\ stored'[t][n] = Sum(t, n)
    BY <1>1 DEF Word, Memory
  <2> QED  BY <1>3, <2>1, <2>2 DEF IInv, NodesNamed
<1>8. CrashNeedsBreak' /\ AbortNeedsFlood'
  BY <1>1 DEF IInv, CrashNeedsBreak, AbortNeedsFlood
<1>9. KnownInv'
  <2>1. \A k \in 1 .. Len(toAgent') : FALSE
    BY <1>2
  <2>2. \A k \in 1 .. Len(toMonitor') : FALSE
    BY <1>2
  <2> QED  BY <1>1, <2>1, <2>2 DEF IInv, KnownInv
<1>10. RightInv'
  BY <1>1 DEF RightInv
<1> QED  BY <1>4, <1>5, <1>6, <1>7, <1>8, <1>9, <1>10 DEF IInv

\* The last message of an answer is read: both messages of each thread were.
LEMMA FetchDone ==
  ASSUME IInv, FetchEnds
  PROVE  /\ toAgent = << >> /\ AgentRests /\ toMonitor' = << >> /\ DOMAIN bufs \subseteq nows
<1>1. /\ pc = "fetch" /\ Arrived /\ Got.kind = "succeed" /\ toMonitor' = Tail(toMonitor)
  BY DEF FetchEnds
<1>2. /\ Streaming /\ Got = toMonitor[1] /\ Len(toMonitor) \in Nat \ {0}
      /\ Tail(toMonitor) \in Seq(Messages) /\ Len(Tail(toMonitor)) = Len(toMonitor) - 1
  BY <1>1, MonitorsTurn DEF IInv
<1>3. /\ toAgent = << >> /\ AgentRests /\ Len(toMonitor) = 1 /\ toMonitor[1].kind = "succeed"
      /\ \A t : HasData(t) => HasNow(t)
  <2>1. 1 \in 1 .. Len(toMonitor) /\ toMonitor[1].kind = "succeed"
    BY <1>1, <1>2
  <2> QED  BY <1>2, <2>1 DEF Streaming
<1>4. toMonitor' = << >>
  <2>1. Len(Tail(toMonitor)) = 0
    BY <1>2, <1>3
  <2> QED  BY <1>1, <1>2, <2>1, EmptySeq
<1>5. DOMAIN bufs \subseteq nows
  <2>1. \A t : ~Among(toMonitor, "now", t)
    BY <1>3 DEF Among
  <2> QED  BY <1>3, <2>1 DEF HasData, HasNow
<1> QED  BY <1>3, <1>4, <1>5

LEMMA FetchEndsStep == ASSUME IInv, FetchEnds PROVE IInv'
<1>1. /\ pc = "fetch" /\ Arrived /\ Got.kind = "succeed" /\ toMonitor' = Tail(toMonitor)
      /\ UNCHANGED <<agentVars, polls, names>>
      /\ UNCHANGED <<front, table, agent>>
  BY DEF FetchEnds, agentVars
<1>3. toAgent = << >> /\ AgentRests
  BY FetchDone
<1>4. toMonitor' = << >>
  BY FetchDone
<1>5. DOMAIN bufs \subseteq nows
  BY FetchDone
<1>6. CASE query = << >>
  <2>1. StoreAll /\ UNCHANGED <<up, toAgent>>
    BY <1>6 DEF FetchEnds
  <2>2. Range(query) = {}
    BY <1>6 DEF Range
  <2>3. \A n \in DOMAIN names : names'[n] \in Word \cup {Empty} /\ names'[n] # Asking
    BY <1>1, <2>2 DEF IInv, TypeInv, NamingInv
  <2>4. up => \A n \in DOMAIN names : Right(n)'
    BY <1>1, <2>2 DEF IInv, RightInv, Right
  <2> QED  BY <1>1, <1>3, <1>4, <1>5, <2>1, <2>3, <2>4, StoreStep
<1>7. CASE query # << >>
  <2>1. Ask("query", query, "names") /\ UNCHANGED <<bufs, nows, query, stored>>
    BY <1>7 DEF FetchEnds, fetchVars
  <2>2. up \in BOOLEAN /\ query \in Seq(Word)
    BY DEF IInv, TypeInv
  <2>3. /\ toAgent' \in Seq(Messages) /\ up' = up /\ pc' = "names"
        /\ Asked("query")' \/ Hushed'
        /\ \A k \in 1 .. Len(toAgent') :
             up /\ toAgent'[k].kind = "query" /\ toAgent'[k].body = query
    BY <1>1, <1>3, <1>4, <2>1, <2>2, AskFacts
  <2>4. toMonitor' \in Seq(Messages) /\ \A k \in 1 .. Len(toMonitor') : FALSE
    <3>1. toMonitor' \in Seq(Messages) /\ Len(toMonitor') = 0
      BY <1>4
    <3> QED  BY <3>1
  <2>5. TypeInv'
    BY <1>1, <2>1, <2>3, <2>4 DEF IInv, TypeInv, Pcs
  <2>6. TurnInv'
    BY <1>5, <1>7, <2>1, <2>3 DEF TurnInv
  <2>7. NamingInv'
    BY <1>1, <2>1, <2>3 DEF IInv, NamingInv
  <2>8. NodesNamed' /\ CrashNeedsBreak' /\ AbortNeedsFlood'
    BY <1>1, <2>1, <2>3 DEF IInv, NodesNamed, CrashNeedsBreak, AbortNeedsFlood
  <2>9. KnownInv'
    <3>1. up => Range(query) \subseteq table /\ IsInjective(query)
      BY DEF IInv, KnownInv, NamingInv
    <3> QED  BY <1>1, <2>3, <2>4, <3>1 DEF IInv, KnownInv
  <2>10. RightInv'
    BY <1>1, <2>1, <2>3, <2>4 DEF IInv, RightInv, Right
  <2> QED  BY <2>5, <2>6, <2>7, <2>8, <2>9, <2>10 DEF IInv
<1> QED  BY <1>6, <1>7

LEMMA NamesArriveStep == ASSUME IInv, NamesArrive PROVE IInv'
<1>1. /\ pc = "names" /\ Arrived /\ toMonitor' = Tail(toMonitor) /\ StoreAll
      /\ UNCHANGED <<agentVars, up, polls>> /\ toAgent' = toAgent
  BY DEF NamesArrive
<1>2. /\ toAgent = << >> /\ Tail(toMonitor) = << >> /\ AgentRests
      /\ Got = toMonitor[1] /\ Got \in Messages /\ Len(toMonitor) \in Nat \ {0}
  BY <1>1, MonitorsTurn DEF IInv
<1>3. PICK body \in Seq(Word) : body = Got.body
  BY <1>2 DEF Messages
<1>4. PICK at : at = [n \in DOMAIN names |-> CHOOSE i \in DOMAIN query : query[i] = n]
  OBVIOUS
<1>5. \A n \in DOMAIN names :
        names'[n] = IF n \in Range(query) THEN Line(body, at[n]) ELSE names[n]
  BY <1>3, <1>4 DEF NamesArrive
<1>6. DOMAIN names' = DOMAIN names
  BY DEF NamesArrive
<1>7. \A n \in DOMAIN names : n \in Range(query) =>
        at[n] \in DOMAIN query /\ query[at[n]] = n
  BY <1>4 DEF Range
<1>8. \A i : Line(body, i) \in Word \cup {Empty}
  BY DEF Line
<1>9. Asking \notin Word \cup {Empty}
  BY SessionConstants DEF Word, Memory, Empty
<1>10. ASSUME NEW n \in DOMAIN names
       PROVE  names'[n] \in Word \cup {Empty} /\ names'[n] # Asking
  <2>1. CASE n \in Range(query)
    BY <1>5, <1>8, <1>9, <2>1
  <2>2. CASE n \notin Range(query)
    BY <1>1, <1>5, <2>2 DEF IInv, TypeInv, NamingInv
  <2> QED  BY <2>1, <2>2
<1>11. ASSUME up, NEW n \in DOMAIN names PROVE Right(n)'
  <2>1. body = query \/ (body = << >> /\ Len(query) > NameCap)
    BY <1>1, <1>2, <1>3, <1>11 DEF IInv, RightInv
  <2>2. CASE n \notin Range(query)
    <3>1. Right(n)
      BY <1>1, <1>11, <2>2 DEF IInv, RightInv
    <3>2. names'[n] = names[n]
      BY <1>5, <2>2
    <3> QED  BY <1>6, <3>1, <3>2 DEF Right
  <2>3. CASE n \in Range(query) /\ body = query
    BY <1>5, <1>7, <2>3 DEF Line, Right
  <2>4. CASE n \in Range(query) /\ body = << >> /\ Len(query) > NameCap
    <3>1. names'[n] = Empty
      BY <1>5, <2>4 DEF Line
    <3>2. IsFiniteSet(DOMAIN names)
      <4>1. IsFiniteSet(table) /\ DOMAIN names \in SUBSET table
        BY <1>11 DEF IInv, TypeInv, KnownInv
      <4> QED  BY <4>1, FS_Subset
    <3>3. Len(query) <= Cardinality(DOMAIN names)
      <4>1. query \in Seq(Word) /\ IsInjective(query) /\ Range(query) \subseteq DOMAIN names
        BY DEF IInv, TypeInv, NamingInv
      <4> QED  BY <3>2, <4>1, InjectiveBound
    <3>4. Cardinality(DOMAIN names) \in Nat /\ NameCap \in Nat /\ Len(query) \in Nat
      <4>1. Cardinality(DOMAIN names) \in Nat
        BY <3>2, FS_CardinalityType
      <4>2. Len(query) \in Nat
        BY DEF IInv, TypeInv
      <4> QED  BY <4>1, <4>2, SessionConstants
    <3>5. Cardinality(DOMAIN names) > NameCap
      BY <2>4, <3>3, <3>4
    <3> QED  BY <1>6, <3>1, <3>5 DEF Right
  <2> QED  BY <2>1, <2>2, <2>3, <2>4
<1>12. DOMAIN bufs \subseteq nows
  BY <1>1 DEF IInv, TurnInv
<1> QED  BY <1>1, <1>2, <1>6, <1>10, <1>11, <1>12, StoreStep

(***************************************************************************)
(* The theorems.                                                           *)
(***************************************************************************)

LEMMA InitStep == ASSUME Init PROVE IInv
<1>1. /\ toAgent = << >> /\ toMonitor = << >> /\ agent = [pc |-> "recv", todo |-> << >>]
      /\ up = TRUE /\ pc = "new" /\ polls = 0 /\ table = {}
      /\ bufs = << >> /\ nows = {} /\ query = << >> /\ names = << >>
      /\ front = [t \in Threads |-> << >>] /\ stored = [t \in Threads |-> [n \in Word |-> 0]]
  BY DEF Init
<1>2. /\ Range(<< >>) = {} /\ IsInjective(<< >>) /\ DOMAIN bufs = {} /\ DOMAIN names = {}
      /\ Len(toAgent) = 0 /\ Len(toMonitor) = 0
  BY <1>1 DEF Range, IsInjective
<1>3. TypeInv
  <2>1. IsFiniteSet(table)
    BY <1>1, FS_EmptySet
  <2>2. \A S : << >> \in Seq(S)
    OBVIOUS
  <2>3. agent \in [pc : {"recv", "send", "gone", "aborted"}, todo : Seq(Threads \X {"data", "now"})]
    BY <1>1, <2>2
  <2>4. front \in [Threads -> Seq(Names)] /\ stored \in [Threads -> [Word -> Nat]]
    BY <1>1, <2>2
  <2> QED  BY <1>1, <1>2, <2>1, <2>2, <2>3, <2>4 DEF TypeInv, Pcs
<1>4. TurnInv
  BY <1>1 DEF TurnInv, Quiet, AgentRests
<1>5. NamingInv
  BY <1>1, <1>2 DEF NamingInv
<1>6. KnownInv
  BY <1>1, <1>2 DEF KnownInv
<1>7. RightInv
  BY <1>1, <1>2 DEF RightInv
<1>8. NodesNamed
  BY <1>1 DEF NodesNamed, Word, Memory
<1>9. CrashNeedsBreak /\ AbortNeedsFlood
  BY <1>1 DEF CrashNeedsBreak, AbortNeedsFlood
<1> QED  BY <1>3, <1>4, <1>5, <1>6, <1>7, <1>8, <1>9 DEF IInv

LEMMA NextStep == ASSUME IInv, ToldInv, [Next]_vars PROVE IInv'
<1>1. CASE UNCHANGED vars
  <2>1. /\ UNCHANGED <<front, table, agent, up, toAgent, toMonitor, pc, polls, bufs, nows, query,
                       names, stored>>
    BY <1>1 DEF vars, agentVars, netVars, fetchVars
  <2>2. TypeInv' /\ NamingInv' /\ KnownInv'
    BY <2>1 DEF IInv, TypeInv, NamingInv, KnownInv
  <2>3. TurnInv'
    BY <2>1 DEF IInv, TurnInv, Quiet, Hushed, Asked, Answered, AgentRests, Streaming,
       HasData, HasNow, OneLeft
  <2>4. RightInv' /\ NodesNamed' /\ CrashNeedsBreak' /\ AbortNeedsFlood'
    BY <2>1 DEF IInv, RightInv, Right, NodesNamed, CrashNeedsBreak, AbortNeedsFlood
  <2> QED  BY <2>2, <2>3, <2>4 DEF IInv
<1>2. ASSUME NEW t \in Threads, NEW n \in Names, Call(t, n) PROVE IInv'
  BY <1>2, CallStep
<1>3. CASE AgentStep
  BY <1>3, AnswerInfoStep, AnswerNamesStep, BeginAnswerStep, SendPartStep, EndAnswerStep
     DEF AgentStep
<1>4. CASE Hangup \/ Break
  BY <1>4, HangupStep, BreakStep
<1>5. CASE Start \/ InfoArrives \/ InfoUnreadable \/ InfoLost
  BY <1>5, StartStep, InfoArrivesStep, InfoUnreadableStep, InfoLostStep
<1>6. CASE DataArrives \/ NowInfoArrives \/ FetchEnds
  BY <1>6, DataArrivesStep, NowInfoArrivesStep, FetchEndsStep
<1>7. CASE FetchFails
  BY <1>7, StopStep DEF FetchFails, netVars
<1>8. CASE NamesLost
  <2>1. query # << >>
    BY <1>8 DEF NamesLost, IInv, TurnInv
  <2> QED  BY <1>8, <2>1, StopStep DEF NamesLost, Lost, netVars
<1>9. CASE NamesArrive \/ Poll
  BY <1>9, NamesArriveStep, PollStep
<1> QED  BY <1>1, <1>2, <1>3, <1>4, <1>5, <1>6, <1>7, <1>8, <1>9 DEF Next, MonitorStep

\* Answers of the first exchange stay whole.
LEMMA ToldStep == ASSUME IInv, ToldInv, [Next]_vars PROVE ToldInv'
<1> DEFINE Telling == {"slide", "meta", "target"}
<1>1. CASE UNCHANGED <<pc, up, toMonitor>>
  BY <1>1 DEF ToldInv
<1>2. CASE pc' \notin Telling
  BY <1>2 DEF ToldInv
<1>3. CASE toMonitor' = << >>
  <2>1. Len(toMonitor') = 0
    BY <1>3
  <2>2. \A k \in 1 .. Len(toMonitor') : FALSE
    BY <2>1
  <2> QED  BY <2>2 DEF ToldInv
<1>4. CASE Start
  <2>1. toMonitor' = toMonitor /\ Quiet
    BY <1>4 DEF Start, netVars, IInv, TurnInv
  <2> QED  BY <1>3, <2>1 DEF Quiet
<1>5. CASE InfoArrives
  <2>1. toMonitor' = << >>
    BY <1>5, MonitorsTurn DEF InfoArrives, IInv
  <2> QED  BY <1>3, <2>1
<1>6. CASE AgentStep /\ pc' \in Telling
  <2>1. pc' = pc
    BY <1>6 DEF AgentStep, AnswerInfo, AnswerNames, BeginAnswer, SendPart, EndAnswer, AgentRest
  <2>2. AgentRests
    BY <1>6, <2>1 DEF IInv, TurnInv, Asked, Answered, Hushed, Quiet
  <2>3. ~SendPart /\ ~EndAnswer
    BY <2>2 DEF SendPart, EndAnswer, AgentRests
  <2>4. Reads => Request.kind = "info" /\ toMonitor = << >>
    BY <1>6, <2>1, AgentsTurn DEF IInv
  <2>5. PICK m : m = Message("info", Junk, <<Told>>)
    OBVIOUS
  <2>6. AnswerInfo /\ toMonitor = << >>
    BY <1>6, <2>3, <2>4 DEF AgentStep, AnswerNames, BeginAnswer, AnswerInfo
  <2>7. toMonitor' \in {<< >>, <<m>>} /\ m.body = <<Told>>
    BY <2>5, <2>6 DEF AnswerInfo, SendTo, Message
  <2>8. CASE toMonitor' = <<m>>
    <3>1. Len(toMonitor') = 1 /\ toMonitor'[1] = m
      BY <2>8
    <3>2. \A k \in 1 .. Len(toMonitor') : toMonitor'[k].body = <<Told>>
      BY <2>7, <3>1
    <3> QED  BY <3>2 DEF ToldInv
  <2> QED  BY <1>3, <2>7, <2>8
<1>7. CASE Break
  BY <1>7 DEF Break, ToldInv
<1>8. CASE \/ \E t \in Threads, n \in Names : Call(t, n)
           \/ Hangup \/ UNCHANGED vars
  <2>1. UNCHANGED <<pc, up, toMonitor>>
    BY <1>8 DEF Call, Hangup, AgentRest, netVars, vars
  <2> QED  BY <1>1, <2>1
<1>9. CASE InfoUnreadable \/ InfoLost \/ FetchFails \/ FetchEnds \/ NamesArrive
           \/ NamesLost \/ Poll
  <2>1. pc' \notin Telling
    BY <1>9 DEF InfoUnreadable, InfoLost, FetchFails, FetchEnds, NamesArrive, NamesLost, Poll,
       Ask, StoreAll
  <2> QED  BY <1>2, <2>1
<1>10. CASE DataArrives \/ NowInfoArrives
  <2>1. pc' \notin Telling
    BY <1>10 DEF DataArrives, NowInfoArrives
  <2> QED  BY <1>2, <2>1
<1> HIDE DEF Telling
<1> QED  BY <1>2, <1>4, <1>5, <1>6, <1>7, <1>8, <1>9, <1>10 DEF Next, MonitorStep

\* The invariant holds (webmon/data_store.cpp, llprofcommon/server.cpp).
THEOREM Invariance == Spec => []IInv
<1>1. Init => IInv /\ ToldInv
  BY InitStep DEF Init, ToldInv
<1>2. IInv /\ ToldInv /\ [Next]_vars => IInv' /\ ToldInv'
  BY NextStep, ToldStep
<1> QED  BY <1>1, <1>2, PTL DEF Spec

\* A node of the thread stores has a name that is not the placeholder, however
\* many calls there are and wherever the connection breaks (GetProfileData).
THEOREM NodesAreNamed == Spec => []NodesNamed
<1>1. IInv => NodesNamed
  BY DEF IInv
<1> QED  BY <1>1, Invariance, PTL

\* The monitor follows a null pointer only if the connection broke, in the
\* first exchange or while it waited for names (ReceiveLoop, GetProfileData).
THEOREM CrashAfterBreak == Spec => []CrashNeedsBreak
<1>1. IInv => CrashNeedsBreak
  BY DEF IInv
<1> QED  BY <1>1, Invariance, PTL

\* Only as many new names as fill a request make the program abort
\* (llprof_message_dispatch).
THEOREM AbortAfterFlood == Spec => []AbortNeedsFlood
<1>1. IInv => AbortNeedsFlood
  BY DEF IInv
<1> QED  BY <1>1, Invariance, PTL

\* Between two fetches of a live connection every name is right, or all are
\* empty for want of room (GetProfileData).
THEOREM NamesAreRight == Spec => []NamesRight
<1>1. ASSUME IInv PROVE NamesRight
  <2>1. SUFFICES ASSUME up, pc = "idle", NEW n \in DOMAIN names PROVE Right(n)
    BY DEF NamesRight, Right
  <2>2. Range(query) = {}
    BY <1>1, <2>1 DEF IInv, NamingInv, Range
  <2> QED  BY <1>1, <2>1, <2>2 DEF IInv, RightInv
<1> QED  BY <1>1, Invariance, PTL

(***************************************************************************)
(* Every call is stored once.  The records of a thread are in one place at *)
(* a time, and after a break no body that was cut short is followed by the *)
(* message that has it stored.                                             *)
(***************************************************************************)

\* No thread has two messages with records.
Once(q) ==
  \A k, l \in 1 .. Len(q) :
    q[k].kind = "data" /\ q[l].kind = "data" /\ q[k].thread = q[l].thread => k = l

OnceInv == Once(toMonitor) /\ \A t \in DOMAIN bufs : ~Among(toMonitor, "data", t)

\* Nothing is there yet of the threads whose records are still to be sent.
TodoInv ==
  up /\ agent.pc = "send" =>
    \A i \in 1 .. Len(agent.todo) : agent.todo[i][2] = "data" =>
      /\ ~HasData(agent.todo[i][1])
      /\ \A j \in 1 .. Len(agent.todo) : agent.todo[j] = agent.todo[i] => j = i

\* Records are under way during a fetch only, and kept until they are stored.
CalmInv ==
  /\ pc \notin {"fetch", "stopped", "spinning", "crashed"} =>
       \A k \in 1 .. Len(toMonitor) : toMonitor[k].kind # "data"
  /\ pc \notin {"fetch", "names", "stopped", "spinning", "crashed"} => DOMAIN bufs = {}
  /\ up /\ pc = "stopped" => toAgent = << >>

\* The message that ends an answer has no body that could be cut short.
EndInv ==
  \A k \in 1 .. Len(toMonitor) : toMonitor[k].kind = "succeed" => toMonitor[k].body = << >>

MadeInv == made \in [Threads \X Names -> Nat]

\* The calls of a name a thread made, those in its buffer or stored, and these
\* with those on their way.
Made(t, n)    == IF n \in Names THEN made[<<t, n>>] ELSE 0
Filed(t, n)   == stored[t][n] + CallsIn(front[t], n)
InBufs(t, n)  == IF t \in DOMAIN bufs THEN CallsIn(bufs[t], n) ELSE 0
Balance(t, n) == stored[t][n] + (CallsIn(front[t], n) + OnTheWire(t, n) + InBufs(t, n))

Exact == \A t \in Threads, n \in Word : Balance(t, n) = Made(t, n)
Sound == \A t \in Threads, n \in Word : Balance(t, n) <= Made(t, n)
Kept  == \A t \in Threads, n \in Word : Filed(t, n) <= Made(t, n)

\* The answer will not be completed.
Unfinished ==
  pc = "fetch" /\ ~up /\ \A k \in 1 .. Len(toMonitor) : toMonitor[k].kind # "succeed"

LedgerInv ==
  /\ up => Exact
  /\ Kept
  /\ pc \notin {"stopped", "spinning", "crashed"} => Sound \/ Unfinished

WInv == OnceInv /\ TodoInv /\ CalmInv /\ EndInv /\ MadeInv /\ LedgerInv

(***************************************************************************)
(* Counting calls.                                                         *)
(***************************************************************************)

LEMMA CallsMore ==
  ASSUME NEW body \in Seq(Word), NEW m \in Word, NEW n
  PROVE  CallsIn(Append(body, m), n) = CallsIn(body, n) + (IF m = n THEN 1 ELSE 0)
<1>1. PICK S : S = {i \in DOMAIN body : body[i] = n}
  OBVIOUS
<1>2. PICK more : more = Append(body, m)
  OBVIOUS
<1>3. PICK T : T = {i \in DOMAIN more : more[i] = n}
  OBVIOUS
<1>4. /\ Len(body) \in Nat /\ DOMAIN body = 1 .. Len(body)
      /\ DOMAIN more = 1 .. Len(body) \cup {Len(body) + 1}
      /\ more[Len(body) + 1] = m /\ \A i \in 1 .. Len(body) : more[i] = body[i]
      /\ Len(body) + 1 \notin 1 .. Len(body)
  BY <1>2
<1>5. IsFiniteSet(S) /\ Len(body) + 1 \notin S
  <2>1. S \in SUBSET (1 .. Len(body))
    BY <1>1, <1>4
  <2>2. IsFiniteSet(1 .. Len(body))
    BY <1>4, FS_Interval
  <2> QED  BY <1>4, <2>1, <2>2, FS_Subset
<1>6. Cardinality(S) \in Nat
  BY <1>5, FS_CardinalityType
<1>7. CallsIn(body, n) = Cardinality(S) /\ CallsIn(more, n) = Cardinality(T)
  BY <1>1, <1>3 DEF CallsIn
<1>8. CASE m = n
  <2>1. T = S \cup {Len(body) + 1}
    BY <1>1, <1>3, <1>4, <1>8
  <2>2. Cardinality(T) = Cardinality(S) + 1
    BY <1>5, <2>1, FS_AddElement
  <2> QED  BY <1>2, <1>7, <1>8, <2>2
<1>9. CASE m # n
  <2>1. T = S
    BY <1>1, <1>3, <1>4, <1>9
  <2> QED  BY <1>2, <1>6, <1>7, <1>9, <2>1
<1> QED  BY <1>8, <1>9

LEMMA CallsNone == \A n : CallsIn(<< >>, n) = 0
<1>1. ASSUME NEW n PROVE {i \in DOMAIN << >> : << >>[i] = n} = {}
  OBVIOUS
<1> QED  BY <1>1, FS_EmptySet DEF CallsIn

LEMMA Pairs ==
  ASSUME NEW k, NEW T, IsFiniteSet(T) PROVE Cardinality({k} \X T) = Cardinality(T)
<1>1. PICK f : f = [i \in T |-> <<k, i>>]
  OBVIOUS
<1>2. f \in [T -> {k} \X T] /\ \A i \in T : f[i] = <<k, i>>
  BY <1>1
<1>3. \A i, j \in T : f[i] = f[j] => i = j
  BY <1>2
<1>4. \A p \in {k} \X T : \E i \in T : f[i] = p
  BY <1>2
<1>5. f \in Bijection(T, {k} \X T)
  BY <1>2, <1>3, <1>4 DEF Bijection, Injection, Surjection, IsInjective
<1>6. ExistsBijection(T, {k} \X T)
  BY <1>5 DEF ExistsBijection
<1> QED  BY <1>6, FS_Bijection

\* The calls in the messages of a thread.
Bears(m, t) == m.kind = "data" /\ m.thread = t

Wire(q, t, n) ==
  Cardinality(UNION {{k} \X {i \in DOMAIN q[k].body : q[k].body[i] = n} :
                       k \in {k \in DOMAIN q : Bears(q[k], t)}})

LEMMA WireFacts ==
  ASSUME NEW q \in Seq(Messages), Once(q), NEW t, NEW n
  PROVE  /\ (\A k \in 1 .. Len(q) : ~Bears(q[k], t)) => Wire(q, t, n) = 0
         /\ \A k \in 1 .. Len(q) : Bears(q[k], t) => Wire(q, t, n) = CallsIn(q[k].body, n)
<1>1. PICK S : S = {k \in DOMAIN q : Bears(q[k], t)}
  OBVIOUS
<1> DEFINE Slots(k) == {i \in DOMAIN q[k].body : q[k].body[i] = n}
<1>2. Wire(q, t, n) = Cardinality(UNION {{k} \X Slots(k) : k \in S})
  BY <1>1 DEF Wire
<1>3. DOMAIN q = 1 .. Len(q)
  OBVIOUS
<1>4. ASSUME \A k \in 1 .. Len(q) : ~Bears(q[k], t) PROVE Wire(q, t, n) = 0
  <2>1. S = {}
    BY <1>1, <1>3, <1>4
  <2> HIDE DEF Slots
  <2>2. UNION {{k} \X Slots(k) : k \in S} = {}
    BY <2>1
  <2> QED  BY <1>2, <2>2, FS_EmptySet
<1>5. ASSUME NEW k \in 1 .. Len(q), Bears(q[k], t)
      PROVE  Wire(q, t, n) = CallsIn(q[k].body, n)
  <2>1. S = {k}
    <3>1. k \in S
      BY <1>1, <1>3, <1>5
    <3>2. ASSUME NEW l \in S PROVE l = k
      BY <1>1, <1>3, <1>5, <3>2 DEF Once, Bears
    <3> QED  BY <3>1, <3>2
  <2>2. IsFiniteSet(Slots(k))
    <3>0. q[k] \in Messages
      OBVIOUS
    <3>1. PICK body \in Seq(Word) : body = q[k].body
      BY <3>0 DEF Messages
    <3>2. Len(body) \in Nat /\ Slots(k) \in SUBSET (1 .. Len(body))
      BY <3>1
    <3>3. IsFiniteSet(1 .. Len(body))
      BY <3>2, FS_Interval
    <3> QED  BY <3>2, <3>3, FS_Subset
  <2>3. CallsIn(q[k].body, n) = Cardinality(Slots(k))
    BY DEF CallsIn
  <2> HIDE DEF Slots
  <2>4. UNION {{l} \X Slots(l) : l \in S} = {k} \X Slots(k)
    BY <2>1
  <2>5. Cardinality({k} \X Slots(k)) = Cardinality(Slots(k))
    BY <2>2, Pairs
  <2> QED  BY <1>2, <2>3, <2>4, <2>5
<1> QED  BY <1>4, <1>5

LEMMA WireOf == \A t, n : OnTheWire(t, n) = Wire(toMonitor, t, n)
BY DEF OnTheWire, DataOf, Wire, Bears

\* A message is appended to the queue.
LEMMA WireAppend ==
  ASSUME NEW q \in Seq(Messages), Once(q), NEW m \in Messages,
         m.kind = "data" => ~Among(q, "data", m.thread), NEW r, r = Append(q, m)
  PROVE  /\ Once(r)
         /\ \A t, n : Wire(r, t, n) = IF Bears(m, t) THEN CallsIn(m.body, n) ELSE Wire(q, t, n)
<1>1. /\ Len(q) \in Nat /\ Len(r) = Len(q) + 1 /\ r[Len(q) + 1] = m /\ r \in Seq(Messages)
      /\ \A k \in 1 .. Len(q) : r[k] = q[k]
  OBVIOUS
<1>2. \A k \in 1 .. Len(r) : k = Len(q) + 1 \/ k \in 1 .. Len(q)
  BY <1>1
<1>3. Once(r)
  <2>1. SUFFICES ASSUME NEW k \in 1 .. Len(r), NEW l \in 1 .. Len(r),
                        r[k].kind = "data", r[l].kind = "data", r[k].thread = r[l].thread
                 PROVE  k = l
    BY DEF Once
  <2>2. CASE k \in 1 .. Len(q) /\ l \in 1 .. Len(q)
    BY <1>1, <2>1, <2>2 DEF Once
  <2>3. CASE k = Len(q) + 1 /\ l \in 1 .. Len(q)
    <3>1. r[k] = m /\ r[l] = q[l]
      BY <1>1, <2>3
    <3>2. Among(q, "data", m.thread)
      BY <2>1, <2>3, <3>1 DEF Among
    <3> QED  BY <2>1, <3>1, <3>2
  <2>4. CASE l = Len(q) + 1 /\ k \in 1 .. Len(q)
    <3>1. r[l] = m /\ r[k] = q[k]
      BY <1>1, <2>4
    <3>2. Among(q, "data", m.thread)
      BY <2>1, <2>4, <3>1 DEF Among
    <3> QED  BY <2>1, <3>1, <3>2
  <2> QED  BY <1>2, <2>2, <2>3, <2>4
<1>4. ASSUME NEW t, NEW n
      PROVE  Wire(r, t, n) = IF Bears(m, t) THEN CallsIn(m.body, n) ELSE Wire(q, t, n)
  <2>1. CASE Bears(m, t)
    <3>1. Len(q) + 1 \in 1 .. Len(r) /\ Bears(r[Len(q) + 1], t)
      BY <1>1, <2>1
    <3>2. Wire(r, t, n) = CallsIn(r[Len(q) + 1].body, n)
      BY <1>1, <1>3, <3>1, WireFacts
    <3> QED  BY <1>1, <2>1, <3>2
  <2>2. CASE ~Bears(m, t) /\ \E k \in 1 .. Len(q) : Bears(q[k], t)
    <3>1. PICK k \in 1 .. Len(q) : Bears(q[k], t)
      BY <2>2
    <3>2. k \in 1 .. Len(r) /\ r[k] = q[k] /\ Bears(r[k], t)
      BY <1>1, <3>1
    <3>3. Wire(q, t, n) = CallsIn(q[k].body, n)
      BY <3>1, WireFacts
    <3>4. Wire(r, t, n) = CallsIn(r[k].body, n)
      BY <1>1, <1>3, <3>2, WireFacts
    <3> QED  BY <2>2, <3>2, <3>3, <3>4
  <2>3. CASE ~Bears(m, t) /\ \A k \in 1 .. Len(q) : ~Bears(q[k], t)
    <3>1. \A k \in 1 .. Len(r) : ~Bears(r[k], t)
      BY <1>1, <1>2, <2>3
    <3>2. Wire(q, t, n) = 0
      BY <2>3, WireFacts
    <3>3. Wire(r, t, n) = 0
      BY <1>1, <1>3, <3>1, WireFacts
    <3> QED  BY <2>3, <3>2, <3>3
  <2> QED  BY <2>1, <2>2, <2>3
<1> QED  BY <1>3, <1>4

\* The first message is taken from the queue.
LEMMA WireTail ==
  ASSUME NEW q \in Seq(Messages), q # << >>, Once(q), NEW r, r = Tail(q)
  PROVE  /\ Once(r) /\ (q[1].kind = "data" => ~Among(r, "data", q[1].thread))
         /\ \A t, n : IF Bears(q[1], t)
                      THEN Wire(q, t, n) = CallsIn(q[1].body, n) /\ Wire(r, t, n) = 0
                      ELSE Wire(r, t, n) = Wire(q, t, n)
<1>1. /\ Len(q) \in Nat \ {0} /\ Len(r) = Len(q) - 1 /\ r \in Seq(Messages)
      /\ \A k \in 1 .. Len(r) : r[k] = q[k + 1]
  OBVIOUS
<1>2. /\ \A k \in 1 .. Len(r) : k + 1 \in 1 .. Len(q) /\ k + 1 # 1
      /\ \A k \in 1 .. Len(q) : k = 1 \/ (k - 1 \in 1 .. Len(r) /\ (k - 1) + 1 = k)
      /\ 1 \in 1 .. Len(q)
  BY <1>1
<1>3. Once(r)
  <2>1. SUFFICES ASSUME NEW k \in 1 .. Len(r), NEW l \in 1 .. Len(r),
                        r[k].kind = "data", r[l].kind = "data", r[k].thread = r[l].thread
                 PROVE  k = l
    BY DEF Once
  <2>2. k + 1 = l + 1
    BY <1>1, <1>2, <2>1 DEF Once
  <2> QED  BY <2>2
<1>4. \A k \in 1 .. Len(r) : \A t : ~(Bears(q[1], t) /\ Bears(r[k], t))
  BY <1>1, <1>2 DEF Once, Bears
<1>5. q[1].kind = "data" => ~Among(r, "data", q[1].thread)
  BY <1>4 DEF Among, Bears
<1>6. ASSUME NEW t, NEW n
      PROVE  IF Bears(q[1], t)
             THEN Wire(q, t, n) = CallsIn(q[1].body, n) /\ Wire(r, t, n) = 0
             ELSE Wire(r, t, n) = Wire(q, t, n)
  <2>1. CASE Bears(q[1], t)
    <3>1. Wire(q, t, n) = CallsIn(q[1].body, n)
      BY <1>2, <2>1, WireFacts
    <3>2. Wire(r, t, n) = 0
      BY <1>1, <1>3, <1>4, <2>1, WireFacts
    <3> QED  BY <2>1, <3>1, <3>2
  <2>2. CASE ~Bears(q[1], t) /\ \E k \in 1 .. Len(r) : Bears(r[k], t)
    <3>1. PICK k \in 1 .. Len(r) : Bears(r[k], t)
      BY <2>2
    <3>2. k + 1 \in 1 .. Len(q) /\ r[k] = q[k + 1] /\ Bears(q[k + 1], t)
      BY <1>1, <1>2, <3>1
    <3>3. Wire(q, t, n) = CallsIn(q[k + 1].body, n)
      BY <3>2, WireFacts
    <3>4. Wire(r, t, n) = CallsIn(r[k].body, n)
      BY <1>1, <1>3, <3>1, WireFacts
    <3> QED  BY <2>2, <3>2, <3>3, <3>4
  <2>3. CASE ~Bears(q[1], t) /\ \A k \in 1 .. Len(r) : ~Bears(r[k], t)
    <3>1. ASSUME NEW k \in 1 .. Len(q) PROVE ~Bears(q[k], t)
      BY <1>1, <1>2, <2>3
    <3>2. Wire(q, t, n) = 0
      BY <3>1, WireFacts
    <3>3. Wire(r, t, n) = 0
      BY <1>1, <1>3, <2>3, WireFacts
    <3> QED  BY <2>3, <3>2, <3>3
  <2> QED  BY <2>1, <2>2, <2>3
<1> QED  BY <1>3, <1>5, <1>6

(***************************************************************************)
(* What a step does to the messages and to the ledger.                     *)
(***************************************************************************)

\* A message is sent to the monitor, or lost.
LEMMA WireSent ==
  ASSUME TypeInv, OnceInv, EndInv, NEW m \in Messages, toMonitor' = SendTo(toMonitor, <<m>>),
         UNCHANGED <<up, bufs>>, up /\ m.kind = "data" => ~HasData(m.thread),
         m.kind = "succeed" => m.body = << >>
  PROVE  /\ OnceInv' /\ EndInv'
         /\ ~up => toMonitor' = toMonitor
         /\ \A t, n : OnTheWire(t, n)' =
                        IF up /\ Bears(m, t) THEN CallsIn(m.body, n) ELSE OnTheWire(t, n)
<1>1. PICK q, r : /\ q = toMonitor /\ r = toMonitor' /\ q \in Seq(Messages) /\ up \in BOOLEAN
                  /\ up => r = Append(q, m)
                  /\ ~up => r = q
  BY SendFacts DEF TypeInv
<1>2. Once(q) /\ \A t \in DOMAIN bufs : ~Among(q, "data", t)
  BY <1>1 DEF OnceInv
<1>3. \A t, n : OnTheWire(t, n) = Wire(q, t, n)
  BY <1>1, WireOf
<1>4. \A t, n : OnTheWire(t, n)' = Wire(r, t, n)
  BY <1>1 DEF OnTheWire, DataOf, Wire, Bears
<1>5. CASE up
  <2>1. m.kind = "data" => ~Among(q, "data", m.thread) /\ m.thread \notin DOMAIN bufs
    BY <1>1, <1>5 DEF HasData
  <2>2. /\ Once(r)
        /\ \A t, n : Wire(r, t, n) = IF Bears(m, t) THEN CallsIn(m.body, n) ELSE Wire(q, t, n)
    BY SMTT(30), <1>1, <1>2, <1>5, <2>1, WireAppend
  <2>3. \A k \in 1 .. Len(r) : r[k] = m \/ (k \in 1 .. Len(q) /\ r[k] = q[k])
    BY <1>1, <1>5, Sent
  <2>4. \A t \in DOMAIN bufs : ~Among(r, "data", t)
    BY <1>2, <2>1, <2>3 DEF Among
  <2>5. OnceInv'
    BY <1>1, <2>2, <2>4 DEF OnceInv
  <2>6. EndInv'
    BY <1>1, <2>3 DEF EndInv
  <2> QED  BY <1>3, <1>4, <1>5, <2>2, <2>5, <2>6
<1>6. CASE ~up
  BY <1>1, <1>2, <1>3, <1>4, <1>6 DEF OnceInv, EndInv
<1> QED  BY <1>1, <1>5, <1>6

\* A message is read.
LEMMA WireRead ==
  ASSUME TypeInv, OnceInv, EndInv, Arrived, toMonitor' = Tail(toMonitor),
         DOMAIN bufs' \subseteq DOMAIN bufs \cup (IF Got.kind = "data" THEN {Got.thread} ELSE {})
  PROVE  /\ OnceInv' /\ EndInv' /\ \A t : HasData(t)' => HasData(t)
         /\ \A t, n : IF Bears(Got, t)
                      THEN /\ OnTheWire(t, n) = CallsIn(Got.body, n) /\ OnTheWire(t, n)' = 0
                           /\ t \notin DOMAIN bufs
                      ELSE OnTheWire(t, n)' = OnTheWire(t, n)
<1>0. toMonitor \in Seq(Messages) /\ toMonitor # << >> /\ Got = toMonitor[1]
  BY DEF TypeInv, Arrived, Got
<1>1. PICK q, r : /\ q = toMonitor /\ r = toMonitor' /\ q \in Seq(Messages) /\ q # << >>
                  /\ r = Tail(q) /\ Got = q[1]
  BY <1>0
<1>2. Once(q) /\ \A t \in DOMAIN bufs : ~Among(q, "data", t)
  BY <1>1 DEF OnceInv
<1>3. \A t, n : OnTheWire(t, n) = Wire(q, t, n)
  BY <1>1, WireOf
<1>4. \A t, n : OnTheWire(t, n)' = Wire(r, t, n)
  BY <1>1 DEF OnTheWire, DataOf, Wire, Bears
<1>5. /\ Once(r) /\ (q[1].kind = "data" => ~Among(r, "data", q[1].thread))
      /\ \A t, n : IF Bears(q[1], t)
                   THEN Wire(q, t, n) = CallsIn(q[1].body, n) /\ Wire(r, t, n) = 0
                   ELSE Wire(r, t, n) = Wire(q, t, n)
  BY ZenonT(40), <1>1, <1>2, WireTail
<1>6. /\ \A k \in 1 .. Len(r) : k + 1 \in 1 .. Len(q) /\ r[k] = q[k + 1]
      /\ 1 \in 1 .. Len(q)
  BY <1>1
<1>7. \A t : Among(r, "data", t) => Among(q, "data", t)
  BY <1>6 DEF Among
<1>8. q[1].kind = "data" => Among(q, "data", q[1].thread)
  BY <1>6 DEF Among
<1>9. \A t \in DOMAIN bufs' : ~Among(r, "data", t)
  BY <1>1, <1>2, <1>5, <1>7
<1>10. OnceInv'
  BY <1>1, <1>5, <1>9 DEF OnceInv
<1>11. EndInv'
  BY <1>1, <1>6 DEF EndInv
<1>12. ASSUME NEW t, HasData(t)' PROVE HasData(t)
  <2>1. t \in DOMAIN bufs' \/ Among(r, "data", t)
    BY <1>1, <1>12 DEF HasData
  <2> QED  BY <1>1, <1>7, <1>8, <2>1 DEF HasData
<1>13. \A t : Bears(q[1], t) => t \notin DOMAIN bufs
  BY <1>2, <1>8 DEF Bears
<1> QED  BY <1>1, <1>3, <1>4, <1>5, <1>10, <1>11, <1>12, <1>13

\* The entries of the ledger are numbers.
LEMMA Entries ==
  ASSUME TypeInv, OnceInv, MadeInv, NEW t \in Threads, NEW n \in Word
  PROVE  /\ stored[t][n] \in Nat /\ CallsIn(front[t], n) \in Nat /\ OnTheWire(t, n) \in Nat
         /\ InBufs(t, n) \in Nat /\ Made(t, n) \in Nat
<1>1. stored[t][n] \in Nat /\ front[t] \in Seq(Word)
  <2>1. front[t] \in Seq(Names)
    BY DEF TypeInv
  <2>2. front[t] \in Seq(Word)
    BY <2>1 DEF Word, Memory
  <2> QED  BY <2>2 DEF TypeInv
<1>2. CallsIn(front[t], n) \in Nat
  BY <1>1, CallsFacts
<1>3. OnTheWire(t, n) \in Nat
  <2>1. PICK q \in Seq(Messages) : q = toMonitor
    BY DEF TypeInv
  <2>2. Once(q) /\ OnTheWire(t, n) = Wire(q, t, n)
    BY <2>1, WireOf DEF OnceInv
  <2>3. CASE \A k \in 1 .. Len(q) : ~Bears(q[k], t)
    BY <2>2, <2>3, WireFacts
  <2>4. CASE \E k \in 1 .. Len(q) : Bears(q[k], t)
    <3>1. PICK k \in 1 .. Len(q) : Bears(q[k], t)
      BY <2>4
    <3>2. OnTheWire(t, n) = CallsIn(q[k].body, n)
      BY <2>2, <3>1, WireFacts
    <3>3. q[k] \in Messages
      OBVIOUS
    <3>4. q[k].body \in Seq(Word)
      BY <3>3 DEF Messages
    <3> QED  BY <3>2, <3>4, CallsFacts
  <2> QED  BY <2>3, <2>4
<1>4. InBufs(t, n) \in Nat
  <2>1. CASE t \in DOMAIN bufs
    <3>1. bufs[t] \in Seq(Word)
      BY <2>1 DEF TypeInv
    <3> QED  BY <2>1, <3>1, CallsFacts DEF InBufs
  <2> QED  BY <2>1 DEF InBufs
<1>5. Made(t, n) \in Nat
  BY DEF Made, MadeInv
<1> QED  BY <1>1, <1>2, <1>3, <1>4, <1>5

\* What is complete includes what is sound, and that what is kept.
LEMMA ExactIsSound ==
  ASSUME TypeInv, OnceInv, MadeInv, Exact PROVE Sound
<1>1. ASSUME NEW t \in Threads, NEW n \in Word PROVE Balance(t, n) <= Made(t, n)
  <2>1. Made(t, n) \in Nat /\ Balance(t, n) = Made(t, n)
    BY Entries DEF Exact
  <2> QED  BY <2>1
<1> QED  BY <1>1 DEF Sound

\* The ledger balances as before.
LEMMA StillBalanced ==
  ASSUME TypeInv, OnceInv, MadeInv, LedgerInv, UNCHANGED <<made, front, stored>>, up' => up,
         \A t \in Threads, n \in Word :
           OnTheWire(t, n)' = OnTheWire(t, n) /\ InBufs(t, n)' = InBufs(t, n),
         pc' \notin {"stopped", "spinning", "crashed"} =>
           pc \notin {"stopped", "spinning", "crashed"} /\ (Unfinished => Unfinished')
  PROVE  MadeInv' /\ LedgerInv'
<1>1. ASSUME NEW t \in Threads, NEW n \in Word
      PROVE  /\ Balance(t, n)' = Balance(t, n) /\ Filed(t, n)' = Filed(t, n)
             /\ Made(t, n)' = Made(t, n)
  BY DEF Balance, Filed, Made
<1>2. (Exact => Exact') /\ (Sound => Sound') /\ (Kept => Kept')
  BY <1>1 DEF Exact, Sound, Kept
<1>3. MadeInv'
  BY DEF MadeInv
<1> QED  BY <1>2, <1>3 DEF LedgerInv

\* The dispatch thread sends a message without records.
LEMMA SentLedger ==
  ASSUME IInv, WInv, NEW m \in Messages, m.kind # "data", m.kind = "succeed" => m.body = << >>,
         toMonitor' = SendTo(toMonitor, <<m>>), UNCHANGED <<up, made, front, stored, bufs, pc>>
  PROVE  OnceInv' /\ EndInv' /\ MadeInv' /\ LedgerInv'
<1>1. /\ OnceInv' /\ EndInv' /\ (~up => toMonitor' = toMonitor)
      /\ \A t, n : OnTheWire(t, n)' = OnTheWire(t, n)
  BY WireSent DEF IInv, WInv, Bears
<1>2. \A t, n : InBufs(t, n)' = InBufs(t, n)
  BY DEF InBufs
<1>3. Unfinished => Unfinished'
  BY <1>1 DEF Unfinished
<1>4. TypeInv /\ OnceInv /\ MadeInv /\ LedgerInv
  BY DEF IInv, WInv
<1> QED  BY <1>1, <1>2, <1>3, <1>4, StillBalanced

\* The monitor reads a message without records.
LEMMA ReadLedger ==
  ASSUME IInv, WInv, Arrived, Got.kind # "data", toMonitor' = Tail(toMonitor),
         UNCHANGED <<up, made, front, stored, bufs>>,
         pc \in {"slide", "meta", "target", "fetch", "names"},
         pc = "fetch" => pc' = "fetch" \/ Got.kind = "succeed"
  PROVE  OnceInv' /\ EndInv' /\ MadeInv' /\ LedgerInv' /\ \A t : HasData(t)' => HasData(t)
<1>1. /\ OnceInv' /\ EndInv' /\ \A t : HasData(t)' => HasData(t)
      /\ \A t, n : OnTheWire(t, n)' = OnTheWire(t, n)
  BY WireRead DEF IInv, WInv, Bears
<1>2. \A t, n : InBufs(t, n)' = InBufs(t, n)
  BY DEF InBufs
<1>3. Unfinished => Unfinished'
  <2>1. /\ Got = toMonitor[1] /\ Len(toMonitor) \in Nat \ {0}
        /\ Len(toMonitor') = Len(toMonitor) - 1
        /\ \A k \in 1 .. Len(toMonitor') : toMonitor'[k] = toMonitor[k + 1]
    BY MonitorsTurn DEF IInv
  <2>2. \A k \in 1 .. Len(toMonitor') : k + 1 \in 1 .. Len(toMonitor)
    BY <2>1
  <2> QED  BY <2>1, <2>2 DEF Unfinished
<1>4. TypeInv /\ OnceInv /\ MadeInv /\ LedgerInv
  BY DEF IInv, WInv
<1> QED  BY <1>1, <1>2, <1>3, <1>4, StillBalanced

\* Nothing moves.
LEMMA StillLedger ==
  ASSUME IInv, WInv, UNCHANGED <<toMonitor, made, front, stored, bufs>>, up' => up,
         pc' \notin {"stopped", "spinning", "crashed"} =>
           pc \notin {"stopped", "spinning", "crashed"} /\ (pc = "fetch" => pc' = "fetch")
  PROVE  OnceInv' /\ EndInv' /\ MadeInv' /\ LedgerInv' /\ \A t : HasData(t)' <=> HasData(t)
<1>1. /\ OnceInv' /\ EndInv' /\ \A t : HasData(t)' <=> HasData(t)
  BY DEF WInv, OnceInv, EndInv, HasData
<1>2. \A t, n : OnTheWire(t, n)' = OnTheWire(t, n) /\ InBufs(t, n)' = InBufs(t, n)
  BY DEF OnTheWire, DataOf, InBufs
<1>3. pc' \notin {"stopped", "spinning", "crashed"} => (Unfinished => Unfinished')
  BY DEF Unfinished
<1>4. TypeInv /\ OnceInv /\ MadeInv /\ LedgerInv
  BY DEF IInv, WInv
<1> QED  BY <1>1, <1>2, <1>3, <1>4, StillBalanced

\* What is still to be sent has not arrived.
LEMMA TodoKept ==
  ASSUME TodoInv, UNCHANGED agent, up' => up, \A t : HasData(t)' => HasData(t)
  PROVE  TodoInv'
BY DEF TodoInv

(***************************************************************************)
(* The steps of the program.                                               *)
(***************************************************************************)

LEMMA OneMore ==
  ASSUME NEW S, NEW f \in [S -> Nat], NEW x \in S, NEW g, g = [f EXCEPT ![x] = f[x] + 1]
  PROVE  g \in [S -> Nat] /\ \A y \in S : g[y] = f[y] + (IF y = x THEN 1 ELSE 0)
<1>1. ASSUME NEW y \in S PROVE g[y] = f[y] + (IF y = x THEN 1 ELSE 0)
  <2>1. f[y] \in Nat
    OBVIOUS
  <2> QED  BY <2>1
<1> QED  BY <1>1

\* A call is counted and recorded.
LEMMA CallCounts ==
  ASSUME IInv, MadeInv, NEW t \in Threads, NEW n \in Names, Call(t, n)
  PROVE  /\ MadeInv'
         /\ \A u \in Threads, m \in Word :
              LET more == IF u = t /\ m = n THEN 1 ELSE 0 IN
              /\ Made(u, m)' = Made(u, m) + more
              /\ CallsIn(front[u], m)' = CallsIn(front[u], m) + more
<1>1. /\ made' = [made EXCEPT ![<<t, n>>] = made[<<t, n>>] + 1]
      /\ front' = [front EXCEPT ![t] = Append(front[t], n)]
  BY DEF Call
<1>2. PICK S, x : S = Threads \X Names /\ x = <<t, n>> /\ x \in S
  <2>1. <<t, n>> \in Threads \X Names
    OBVIOUS
  <2>2. PICK S : S = Threads \X Names
    OBVIOUS
  <2> QED  BY <2>1, <2>2
<1>3. made \in [S -> Nat] /\ made' = [made EXCEPT ![x] = made[x] + 1]
  BY <1>1, <1>2 DEF MadeInv
<1>4. made' \in [S -> Nat] /\ \A y \in S : made'[y] = made[y] + (IF y = x THEN 1 ELSE 0)
  BY SMTT(30), <1>2, <1>3, OneMore
<1>5. front \in [Threads -> Seq(Names)]
  BY DEF IInv, TypeInv
<1>6. ASSUME NEW u \in Threads, NEW m \in Word
      PROVE  LET more == IF u = t /\ m = n THEN 1 ELSE 0 IN
             /\ Made(u, m)' = Made(u, m) + more
             /\ CallsIn(front[u], m)' = CallsIn(front[u], m) + more
  <2>1. Made(u, m)' = Made(u, m) + (IF u = t /\ m = n THEN 1 ELSE 0)
    <3>1. CASE m \in Names
      <4>1. <<u, m>> \in S /\ (<<u, m>> = x <=> u = t /\ m = n)
        BY <1>2, <3>1
      <4>2. made'[<<u, m>>] = made[<<u, m>>] + (IF <<u, m>> = x THEN 1 ELSE 0)
        BY <1>4, <4>1
      <4> QED  BY <3>1, <4>1, <4>2 DEF Made
    <3>2. CASE m \notin Names
      BY <3>2 DEF Made
    <3> QED  BY <3>1, <3>2
  <2>2. CallsIn(front'[u], m) = CallsIn(front[u], m) + (IF u = t /\ m = n THEN 1 ELSE 0)
    <3>1. front[u] \in Seq(Word) /\ n \in Word
      <4>1. front[u] \in Seq(Names)
        BY <1>5
      <4> QED  BY <4>1 DEF Word, Memory
    <3>2. CASE u = t
      <4>1. front'[u] = Append(front[u], n)
        BY <1>1, <1>5, <3>2
      <4>2. CallsIn(Append(front[u], n), m) = CallsIn(front[u], m) + (IF n = m THEN 1 ELSE 0)
        BY <3>1, CallsMore
      <4> QED  BY <3>2, <4>1, <4>2
    <3>3. CASE u # t
      <4>1. front'[u] = front[u]
        BY <1>1, <1>5, <3>3
      <4>2. CallsIn(front[u], m) \in Nat
        BY <3>1, CallsFacts
      <4> QED  BY <3>3, <4>1, <4>2
    <3> QED  BY <3>2, <3>3
  <2> QED  BY <2>1, <2>2
<1>7. MadeInv'
  BY <1>2, <1>4 DEF MadeInv
<1> QED  BY <1>6, <1>7

LEMMA CallKeeps == ASSUME IInv, WInv, NEW t \in Threads, NEW n \in Names, Call(t, n) PROVE WInv'
<1>1. UNCHANGED <<agent, up, toAgent, toMonitor, pc, bufs, nows, stored>>
  BY DEF Call, netVars, fetchVars
<1>2. OnceInv' /\ TodoInv' /\ CalmInv' /\ EndInv'
  BY <1>1 DEF WInv, OnceInv, TodoInv, CalmInv, EndInv, HasData
<1>3. MadeInv'
  BY CallCounts DEF WInv
<1>4. ASSUME NEW u \in Threads, NEW m \in Word
      PROVE  /\ Balance(u, m) = Made(u, m) => Balance(u, m)' = Made(u, m)'
             /\ Balance(u, m) <= Made(u, m) => Balance(u, m)' <= Made(u, m)'
             /\ Filed(u, m) <= Made(u, m) => Filed(u, m)' <= Made(u, m)'
  <2>1. PICK more \in {0, 1} :
          /\ Made(u, m)' = Made(u, m) + more
          /\ CallsIn(front[u], m)' = CallsIn(front[u], m) + more
    BY CallCounts DEF WInv
  <2>2. PICK s, f, w, b, k \in Nat :
          /\ s = stored[u][m] /\ f = CallsIn(front[u], m) /\ w = OnTheWire(u, m)
          /\ b = InBufs(u, m) /\ k = Made(u, m)
    BY Entries DEF IInv, WInv
  <2>3. stored'[u][m] = s /\ OnTheWire(u, m)' = w /\ InBufs(u, m)' = b
    BY <1>1, <2>2 DEF OnTheWire, DataOf, InBufs
  <2>4. /\ Balance(u, m) = s + (f + w + b) /\ Balance(u, m)' = s + ((f + more) + w + b)
        /\ Filed(u, m) = s + f /\ Filed(u, m)' = s + (f + more)
        /\ Made(u, m) = k /\ Made(u, m)' = k + more
    BY <2>1, <2>2, <2>3 DEF Balance, Filed
  <2> QED  BY <2>1, <2>2, <2>4
<1>5. (Exact => Exact') /\ (Sound => Sound') /\ (Kept => Kept')
  BY <1>4 DEF Exact, Sound, Kept
<1>6. LedgerInv'
  BY <1>1, <1>5 DEF WInv, LedgerInv, Unfinished
<1> QED  BY <1>2, <1>3, <1>6 DEF WInv

\* The monitor that has stopped on a live connection asked nothing.
LEMMA Unasked ==
  ASSUME IInv, WInv, Reads
  PROVE  up /\ pc \in {"stopped", "spinning", "crashed"} => FALSE
<1>1. toAgent # << >> /\ (pc \in {"spinning", "crashed"} => ~up)
  BY DEF Reads, IInv, CrashNeedsBreak
<1> QED  BY <1>1 DEF WInv, CalmInv

LEMMA AnswerInfoKeeps == ASSUME IInv, WInv, AnswerInfo PROVE WInv'
<1>1. PICK m : m = Message("info", Junk, <<Told>>)
  OBVIOUS
<1>2. m \in Messages /\ m.kind = "info"
  <2>1. <<Told>> \in Seq(Word)
    BY DEF Word, Memory
  <2> QED  BY <1>1, <2>1 DEF Message, Messages
<1>3. /\ Reads /\ Request.kind = "info" /\ toMonitor' = SendTo(toMonitor, <<m>>)
      /\ UNCHANGED <<front, agent, up, made, pc, bufs, nows, stored>>
  BY <1>1 DEF AnswerInfo, AgentRest, fetchVars
<1>4. OnceInv' /\ EndInv' /\ MadeInv' /\ LedgerInv'
  BY <1>2, <1>3, SentLedger
<1>5. TodoInv'
  BY <1>3 DEF TodoInv, Reads
<1>6. CalmInv'
  <2>1. ~(up /\ pc \in {"stopped", "spinning", "crashed"})
    BY <1>3, Unasked
  <2>2. /\ toMonitor \in Seq(Messages)
        /\ toMonitor' = Append(toMonitor, m) \/ toMonitor' = toMonitor
    BY <1>2, <1>3, SendFacts DEF IInv, TypeInv
  <2>3. \A k \in 1 .. Len(toMonitor') :
          toMonitor'[k] = m \/ (k \in 1 .. Len(toMonitor) /\ toMonitor'[k] = toMonitor[k])
    BY <2>2, Sent
  <2> QED  BY <1>2, <1>3, <2>1, <2>3 DEF WInv, CalmInv
<1> QED  BY <1>4, <1>5, <1>6 DEF WInv

LEMMA AnswerNamesKeeps == ASSUME IInv, WInv, AnswerNames PROVE WInv'
<1>1. /\ Reads /\ Request.kind = "query"
      /\ UNCHANGED <<front, made, pc, bufs, nows, stored>>
  BY DEF AnswerNames, AgentRest, fetchVars
<1>2. ~(up /\ pc \in {"stopped", "spinning", "crashed"})
  BY <1>1, Unasked
<1>3. CASE Oversize(Request.body)
  <2>1. agent' = [agent EXCEPT !.pc = "aborted"] /\ ~up' /\ UNCHANGED toMonitor
    BY <1>3 DEF AnswerNames
  <2>2. OnceInv' /\ EndInv' /\ MadeInv' /\ LedgerInv'
    BY <1>1, <2>1, StillLedger
  <2>3. TodoInv' /\ CalmInv'
    BY <1>1, <2>1 DEF WInv, TodoInv, CalmInv
  <2> QED  BY <2>2, <2>3 DEF WInv
<1>4. CASE ~Oversize(Request.body)
  <2>1. toMonitor' = SendTo(toMonitor, NameAnswer(Request.body)) /\ UNCHANGED <<agent, up>>
    BY <1>4 DEF AnswerNames
  <2>2. Request \in Messages
    BY <1>1, AgentsTurn DEF IInv
  <2>3. Request.body \in Seq(Word)
    BY <2>2 DEF Messages
  <2>4. PICK m \in Messages :
          NameAnswer(Request.body) = <<m>> /\ m.kind # "data" /\ m.kind # "succeed"
    <3>1. PICK m \in Messages : NameAnswer(Request.body) = <<m>> /\ m.kind # "data"
      BY <2>3, NameAnswerFacts
    <3>2. m.kind # "succeed"
      <4>1. NameAnswer(Request.body)[1].kind \in {"error", "names"}
        BY DEF NameAnswer, Plain, Message
      <4> QED  BY <3>1, <4>1
    <3> QED  BY <3>1, <3>2
  <2>5. toMonitor' = SendTo(toMonitor, <<m>>)
    BY <2>1, <2>4
  <2>6. OnceInv' /\ EndInv' /\ MadeInv' /\ LedgerInv'
    BY <1>1, <2>1, <2>4, <2>5, SentLedger
  <2>7. TodoInv'
    BY <1>1, <2>1 DEF TodoInv, Reads
  <2>8. CalmInv'
    <3>1. /\ toMonitor \in Seq(Messages)
          /\ toMonitor' = Append(toMonitor, m) \/ toMonitor' = toMonitor
      BY <2>5, SendFacts DEF IInv, TypeInv
    <3>2. \A k \in 1 .. Len(toMonitor') :
            toMonitor'[k] = m \/ (k \in 1 .. Len(toMonitor) /\ toMonitor'[k] = toMonitor[k])
      BY <3>1, Sent
    <3> QED  BY <1>1, <1>2, <2>1, <2>4, <3>2 DEF WInv, CalmInv
  <2> QED  BY <2>6, <2>7, <2>8 DEF WInv
<1> QED  BY <1>3, <1>4

\* An answer has the records of each thread once.
LEMMA PartsOnce ==
  \E todo : /\ Parts(SetToSeq(Threads)) = todo
            /\ \A i, j \in 1 .. Len(todo) : todo[i][2] = "data" /\ todo[j] = todo[i] => j = i
<1>1. PICK ts \in Seq(Threads) : ts = SetToSeq(Threads) /\ IsInjective(ts)
  <2>1. IsFiniteSet(Threads)
    BY SessionConstants
  <2>2. Cardinality(Threads) \in Nat /\ ExistsBijection(1 .. Cardinality(Threads), Threads)
    BY <2>1, FS_CardinalityType
  <2>3. \E f \in [1 .. Cardinality(Threads) -> Threads] : IsInjective(f)
    BY <2>2 DEF ExistsBijection, Bijection, Injection
  <2>4. /\ SetToSeq(Threads) \in [1 .. Cardinality(Threads) -> Threads]
        /\ IsInjective(SetToSeq(Threads))
    BY <2>3 DEF SetToSeq
  <2> QED  BY <2>2, <2>4
<1>2. PICK w : w = Parts(ts)
  OBVIOUS
<1>3. w = [i \in 1 .. 2 * Len(ts) |-> <<ts[(i + 1) \div 2], IF i % 2 = 1 THEN "data" ELSE "now">>]
  BY <1>2 DEF Parts
<1>4. Len(ts) \in Nat /\ 2 * Len(ts) \in Nat /\ DOMAIN ts = 1 .. Len(ts) /\ Len(w) = 2 * Len(ts)
  BY <1>3
<1>5. \A i \in 1 .. 2 * Len(ts) : (i + 1) \div 2 \in 1 .. Len(ts)
  BY <1>4
<1>6. ASSUME NEW i \in 1 .. Len(w), NEW j \in 1 .. Len(w), w[i][2] = "data", w[j] = w[i]
      PROVE  j = i
  <2>1. /\ w[i] = <<ts[(i + 1) \div 2], IF i % 2 = 1 THEN "data" ELSE "now">>
        /\ w[j] = <<ts[(j + 1) \div 2], IF j % 2 = 1 THEN "data" ELSE "now">>
    BY <1>3, <1>4
  <2>2. i % 2 = 1 /\ j % 2 = 1 /\ ts[(i + 1) \div 2] = ts[(j + 1) \div 2]
    BY <1>6, <2>1
  <2>3. (i + 1) \div 2 = (j + 1) \div 2
    BY <1>1, <1>4, <1>5, <2>2 DEF IsInjective
  <2>4. i \in Int /\ j \in Int
    BY <1>4
  <2> QED  BY <2>2, <2>3, <2>4
<1> QED  BY <1>1, <1>2, <1>6

LEMMA BeginAnswerKeeps == ASSUME IInv, WInv, BeginAnswer PROVE WInv'
<1>1. /\ Reads /\ Request.kind = "req"
      /\ agent' = [pc |-> "send", todo |-> Parts(SetToSeq(Threads))]
      /\ UNCHANGED <<front, up, toMonitor, made, pc, bufs, nows, stored>>
  BY DEF BeginAnswer, AgentRest, fetchVars
<1>2. ~(up /\ pc \in {"stopped", "spinning", "crashed"})
  BY <1>1, Unasked
<1>3. up => toMonitor = << >> /\ DOMAIN bufs = {} /\ pc = "fetch"
  BY <1>1, <1>2, AgentsTurn DEF IInv
<1>4. OnceInv' /\ EndInv' /\ MadeInv' /\ LedgerInv' /\ \A t : HasData(t)' <=> HasData(t)
  BY <1>1, StillLedger
<1>5. CalmInv'
  BY <1>1, <1>2 DEF WInv, CalmInv
<1>6. TodoInv'
  <2>1. PICK todo :
          /\ agent'.todo = todo
          /\ \A i, j \in 1 .. Len(todo) : todo[i][2] = "data" /\ todo[j] = todo[i] => j = i
    BY <1>1, PartsOnce
  <2>2. up => \A t : ~HasData(t)
    <3>1. ASSUME up PROVE \A t : ~Among(toMonitor, "data", t)
      <4>1. Len(toMonitor) = 0
        BY <1>3, <3>1
      <4> QED  BY <4>1 DEF Among
    <3> QED  BY <1>3, <3>1 DEF HasData
  <2> QED  BY <1>1, <1>4, <2>1, <2>2 DEF TodoInv
<1> QED  BY <1>4, <1>5, <1>6 DEF WInv

\* The records of a thread go from its buffer to the connection, or are lost
\* with it.
LEMMA DrainLedger ==
  ASSUME IInv, WInv, NEW t \in Threads, NEW m \in Messages,
         m.kind = "data", m.thread = t, m.body = front[t], up => ~HasData(t),
         toMonitor' = SendTo(toMonitor, <<m>>), front' = [front EXCEPT ![t] = << >>],
         UNCHANGED <<up, made, stored, bufs, pc>>
  PROVE  OnceInv' /\ EndInv' /\ MadeInv' /\ LedgerInv'
<1>1. /\ OnceInv' /\ EndInv' /\ (~up => toMonitor' = toMonitor)
      /\ \A u, n : OnTheWire(u, n)' =
                     IF up /\ Bears(m, u) THEN CallsIn(m.body, n) ELSE OnTheWire(u, n)
  BY WireSent DEF IInv, WInv
<1>2. \A u : Bears(m, u) <=> u = t
  BY DEF Bears
<1>3. \A n : up => OnTheWire(t, n) = 0
  <2>1. SUFFICES ASSUME up PROVE \A n : OnTheWire(t, n) = 0
    OBVIOUS
  <2>2. PICK q \in Seq(Messages) : q = toMonitor
    BY DEF IInv, TypeInv
  <2>3. Once(q) /\ \A k \in 1 .. Len(q) : ~Bears(q[k], t)
    BY <2>1, <2>2 DEF WInv, OnceInv, HasData, Among, Bears
  <2> QED  BY <2>2, <2>3, WireFacts, WireOf
<1>4. ASSUME NEW u \in Threads, NEW n \in Word
      PROVE  /\ Balance(u, n)' <= Balance(u, n) /\ (up => Balance(u, n)' = Balance(u, n))
             /\ Filed(u, n)' <= Filed(u, n)
             /\ Made(u, n)' = Made(u, n) /\ Made(u, n) \in Nat
             /\ Balance(u, n) \in Nat /\ Balance(u, n)' \in Nat
             /\ Filed(u, n) \in Nat /\ Filed(u, n)' \in Nat
  <2>1. PICK s, f, w, b \in Nat :
          /\ s = stored[u][n] /\ f = CallsIn(front[u], n) /\ w = OnTheWire(u, n)
          /\ b = InBufs(u, n)
    BY Entries DEF IInv, WInv
  <2>2. stored'[u][n] = s /\ InBufs(u, n)' = b /\ Made(u, n)' = Made(u, n) /\ Made(u, n) \in Nat
    BY <2>1, Entries DEF IInv, WInv, InBufs, Made
  <2>3. /\ Balance(u, n) = s + (f + w + b) /\ Filed(u, n) = s + f
        /\ Balance(u, n)' = s + (CallsIn(front'[u], n) + OnTheWire(u, n)' + b)
        /\ Filed(u, n)' = s + CallsIn(front'[u], n)
    BY <2>1, <2>2 DEF Balance, Filed
  <2>4. front \in [Threads -> Seq(Names)]
    BY DEF IInv, TypeInv
  <2>7. /\ s + (0 + w + b) <= s + (f + w + b) /\ s + (f + w + b) <= s + (f + w + b)
        /\ s + (0 + w + b) \in Nat /\ s + (f + w + b) \in Nat
        /\ s + 0 <= s + f /\ s + f <= s + f /\ s + 0 \in Nat /\ s + f \in Nat
    OBVIOUS
  <2>5. CASE u = t
    <3>1. CallsIn(front'[u], n) = 0
      BY <2>4, <2>5, CallsNone
    <3>2. OnTheWire(u, n)' = IF up THEN f ELSE w
      BY <1>1, <1>2, <2>1, <2>5
    <3>3. up => w = 0
      BY <1>3, <2>1, <2>5
    <3>4. Balance(u, n)' = s + (0 + (IF up THEN f ELSE w) + b) /\ Filed(u, n)' = s + 0
      BY <2>3, <3>1, <3>2
    <3>5. CASE up
      BY <2>1, <2>2, <2>3, <3>3, <3>4, <3>5
    <3>6. CASE ~up
      <4>1. Balance(u, n)' = s + (0 + w + b) /\ Filed(u, n)' = s + 0
        BY <3>4, <3>6
      <4> QED  BY <2>2, <2>3, <2>7, <3>6, <4>1
    <3> QED  BY <3>5, <3>6
  <2>6. CASE u # t
    <3>1. front'[u] = front[u] /\ OnTheWire(u, n)' = w
      BY <1>1, <1>2, <2>1, <2>4, <2>6
    <3>2. Balance(u, n)' = s + (f + w + b) /\ Filed(u, n)' = s + f
      BY <2>1, <2>3, <3>1
    <3> QED  BY <2>2, <2>3, <2>7, <3>2
  <2> QED  BY <2>5, <2>6
<1>5. up /\ Exact => Exact'
  BY <1>4 DEF Exact
<1>6. Sound => Sound'
  <2>1. ASSUME Sound, NEW u \in Threads, NEW n \in Word PROVE Balance(u, n)' <= Made(u, n)'
    <3>1. Balance(u, n) <= Made(u, n)
      BY <2>1 DEF Sound
    <3> QED  BY <1>4, <3>1
  <2> QED  BY <2>1 DEF Sound
<1>7. Kept => Kept'
  <2>1. ASSUME Kept, NEW u \in Threads, NEW n \in Word PROVE Filed(u, n)' <= Made(u, n)'
    <3>1. Filed(u, n) <= Made(u, n)
      BY <2>1 DEF Kept
    <3> QED  BY <1>4, <3>1
  <2> QED  BY <2>1 DEF Kept
<1>8. Unfinished => Unfinished'
  BY <1>1 DEF Unfinished
<1>9. MadeInv' /\ LedgerInv'
  BY <1>5, <1>6, <1>7, <1>8 DEF WInv, MadeInv, LedgerInv
<1> QED  BY <1>1, <1>9

LEMMA SendPartKeeps == ASSUME IInv, WInv, SendPart PROVE WInv'
<1>1. agent.pc = "send" /\ agent.todo # << >> /\ agent.todo \in Seq(Threads \X {"data", "now"})
  BY DEF SendPart, IInv, TypeInv
<1>2. PICK todo \in Seq(Threads \X {"data", "now"}) : todo = agent.todo
  BY <1>1
<1>3. /\ Len(todo) \in Nat \ {0} /\ Head(todo) = todo[1]
      /\ todo[1] \in Threads \X {"data", "now"}
      /\ Len(Tail(todo)) = Len(todo) - 1
      /\ \A i \in 1 .. Len(todo) - 1 : Tail(todo)[i] = todo[i + 1]
  BY <1>1, <1>2
<1>4. PICK t \in Threads, kind \in {"data", "now"} : todo[1] = <<t, kind>>
  BY <1>3
<1>5. PICK m : m = Message(kind, t, IF kind = "data" THEN front[t] ELSE << >>)
  OBVIOUS
<1>6. /\ m \in Messages /\ m.kind = kind /\ m.thread = t
      /\ m.kind = "data" => m.body = front[t]
  <2>1. (IF kind = "data" THEN front[t] ELSE << >>) \in Seq(Word)
    <3>1. front[t] \in Seq(Names)
      BY DEF IInv, TypeInv
    <3>2. front[t] \in Seq(Word)
      BY <3>1 DEF Word, Memory
    <3> QED  BY <3>2
  <2> QED  BY <1>5, <2>1 DEF Message, Messages
<1>7. /\ toMonitor' = SendTo(toMonitor, <<m>>)
      /\ UNCHANGED <<up, toAgent, made, pc, bufs, nows, stored>>
      /\ front' = (IF kind = "data" THEN [front EXCEPT ![t] = << >>] ELSE front)
      /\ agent' = [agent EXCEPT !.todo = Tail(todo)]
  <2>1. Head(agent.todo)[1] = t /\ Head(agent.todo)[2] = kind /\ Tail(agent.todo) = Tail(todo)
    BY <1>2, <1>3, <1>4
  <2>2. toMonitor' = SendTo(toMonitor, <<m>>)
    BY <1>5, <2>1 DEF SendPart
  <2>3. front' = (IF kind = "data" THEN [front EXCEPT ![t] = << >>] ELSE front)
    BY <2>1 DEF SendPart
  <2>4. agent' = [agent EXCEPT !.todo = Tail(todo)]
    BY <2>1 DEF SendPart
  <2> QED  BY <2>2, <2>3, <2>4 DEF SendPart, AgentRest, fetchVars
<1>8. 1 \in 1 .. Len(todo) /\ todo[1][1] = t /\ todo[1][2] = kind
  BY <1>3, <1>4
<1>9. up => \A i \in 1 .. Len(todo) : todo[i][2] = "data" =>
        ~HasData(todo[i][1]) /\ \A j \in 1 .. Len(todo) : todo[j] = todo[i] => j = i
  BY <1>1, <1>2 DEF WInv, TodoInv
<1>10. up /\ kind = "data" => ~HasData(t)
  BY <1>8, <1>9
<1>11. OnceInv' /\ EndInv' /\ MadeInv' /\ LedgerInv'
  <2>1. CASE kind = "data"
    BY <1>6, <1>7, <1>10, <2>1, DrainLedger
  <2>2. CASE kind = "now"
    BY <1>6, <1>7, <2>2, SentLedger
  <2> QED  BY <2>1, <2>2
<1>12. pc \in {"fetch", "stopped", "spinning", "crashed"}
  BY <1>1, SendersTurn DEF IInv
<1>13. CalmInv'
  BY <1>7, <1>12 DEF WInv, CalmInv
<1>14. TodoInv'
  <2>1. agent'.todo = Tail(todo)
    BY <1>7 DEF IInv, TypeInv
  <2>2. ASSUME up, NEW i \in 1 .. Len(Tail(todo)), Tail(todo)[i][2] = "data"
        PROVE  /\ ~HasData(Tail(todo)[i][1])'
               /\ \A j \in 1 .. Len(Tail(todo)) : Tail(todo)[j] = Tail(todo)[i] => j = i
    <3>1. i + 1 \in 1 .. Len(todo) /\ i + 1 # 1 /\ Tail(todo)[i] = todo[i + 1]
      BY <1>3
    <3>2. /\ ~HasData(todo[i + 1][1])
          /\ \A j \in 1 .. Len(todo) : todo[j] = todo[i + 1] => j = i + 1
      BY <1>9, <2>2, <3>1
    <3>3. ~(kind = "data" /\ t = todo[i + 1][1])
      <4>1. todo[i + 1] \in Threads \X {"data", "now"}
        BY <3>1
      <4>2. todo[i + 1] = <<todo[i + 1][1], "data">>
        BY <2>2, <3>1, <4>1
      <4> QED  BY <1>4, <1>8, <3>1, <3>2, <4>2
    <3>4. /\ toMonitor \in Seq(Messages) /\ toMonitor' = Append(toMonitor, m)
          /\ UNCHANGED <<bufs, nows>>
      <4>1. toMonitor \in Seq(Messages) /\ up \in BOOLEAN
        BY DEF IInv, TypeInv
      <4>2. up => SendTo(toMonitor, <<m>>) = Append(toMonitor, m)
        BY <1>6, <4>1, SendFacts
      <4> QED  BY <1>7, <2>2, <4>1, <4>2
    <3>5. \A u : HasData(u)' <=> HasData(u) \/ (kind = "data" /\ t = u)
      BY <1>6, <3>4, SentMore
    <3>6. ~HasData(Tail(todo)[i][1])'
      <4>1. PICK u : u = Tail(todo)[i][1]
        OBVIOUS
      <4>2. ~HasData(u)'
        BY <3>1, <3>2, <3>3, <3>5, <4>1
      <4> QED  BY <1>7, <4>1, <4>2 DEF HasData
    <3>7. ASSUME NEW j \in 1 .. Len(Tail(todo)), Tail(todo)[j] = Tail(todo)[i] PROVE j = i
      <4>1. j + 1 \in 1 .. Len(todo) /\ Tail(todo)[j] = todo[j + 1]
        BY <1>3
      <4>2. j + 1 = i + 1
        BY <3>1, <3>2, <3>7, <4>1
      <4>3. i \in Int /\ j \in Int
        OBVIOUS
      <4> QED  BY <4>2, <4>3
    <3> QED  BY <3>6, <3>7
  <2> QED  BY <1>7, <2>1, <2>2 DEF TodoInv, HasData
<1> QED  BY <1>11, <1>13, <1>14 DEF WInv

LEMMA EndAnswerKeeps == ASSUME IInv, WInv, EndAnswer PROVE WInv'
<1>1. PICK m : m = Plain("succeed")
  OBVIOUS
<1>2. m \in Messages /\ m.kind = "succeed" /\ m.body = << >>
  BY <1>1 DEF Plain, Message, Messages
<1>3. /\ agent.pc = "send" /\ toMonitor' = SendTo(toMonitor, <<m>>)
      /\ agent' = [agent EXCEPT !.pc = "recv"]
      /\ UNCHANGED <<up, toAgent, front, made, pc, bufs, nows, stored>>
  BY <1>1 DEF EndAnswer, AgentRest, fetchVars
<1>4. OnceInv' /\ EndInv' /\ MadeInv' /\ LedgerInv'
  BY <1>2, <1>3, SentLedger
<1>5. TodoInv'
  <2>1. agent'.pc = "recv"
    BY <1>3 DEF IInv, TypeInv
  <2> QED  BY <2>1 DEF TodoInv
<1>6. CalmInv'
  <2>1. pc \in {"fetch", "stopped", "spinning", "crashed"}
    BY <1>3, SendersTurn DEF IInv
  <2> QED  BY <1>3, <2>1 DEF WInv, CalmInv
<1> QED  BY <1>4, <1>5, <1>6 DEF WInv

LEMMA HangupKeeps == ASSUME IInv, WInv, Hangup PROVE WInv'
<1>1. /\ agent' = [agent EXCEPT !.pc = "gone"]
      /\ UNCHANGED <<front, up, toAgent, toMonitor, made, pc, bufs, nows, stored>>
  BY DEF Hangup, AgentRest, netVars, fetchVars
<1>2. OnceInv' /\ EndInv' /\ MadeInv' /\ LedgerInv'
  BY <1>1, StillLedger
<1>3. TodoInv'
  <2>1. agent'.pc = "gone"
    BY <1>1 DEF IInv, TypeInv
  <2> QED  BY <2>1 DEF TodoInv
<1>4. CalmInv'
  BY <1>1 DEF WInv, CalmInv
<1> QED  BY <1>2, <1>3, <1>4 DEF WInv

\* A message that is cut short had a body.
LEMMA Uncut == ASSUME NEW m, m.body = << >> PROVE CutShort(m) = {}
<1> DEFINE Body(i, old) == [j \in DOMAIN m.body |-> IF j <= i THEN m.body[j] ELSE old]
           Cuts(i)      == {[m EXCEPT !.body = Body(i, old)] : old \in Memory}
<1>1. 0 .. Len(m.body) - 1 = {}
  <2>1. Len(m.body) = 0
    OBVIOUS
  <2> QED  BY <2>1
<1>2. CutShort(m) = UNION {Cuts(i) : i \in 0 .. Len(m.body) - 1}
  BY DEF CutShort
<1> HIDE DEF Cuts
<1> QED  BY <1>1, <1>2

\* Of what is left only the last message may be garbled, and only in its body.
LEMMA RemainsMore ==
  ASSUME NEW q \in Seq(Messages), NEW r \in Remains(q)
  PROVE  \A k \in 1 .. Len(r) : k < Len(r) \/ q[k].body = << >> => r[k] = q[k]
<1> DEFINE WholeOnes == {SubSeq(q, 1, k) : k \in 0 .. Len(q)}
           Broken(k) == {Append(SubSeq(q, 1, k - 1), m) : m \in CutShort(q[k])}
<1>0. DOMAIN q = 1 .. Len(q) /\ Len(q) \in Nat
  OBVIOUS
<1>1. r \in WholeOnes \/ r \in UNION {Broken(k) : k \in DOMAIN q}
  BY DEF Remains
<1>2. CASE r \in WholeOnes
  <2>1. PICK k \in 0 .. Len(q) : r = SubSeq(q, 1, k)
    BY <1>2
  <2> QED  BY <1>0, <2>1
<1> HIDE DEF Broken
<1>3. CASE r \in UNION {Broken(k) : k \in DOMAIN q}
  <2>1. PICK k \in DOMAIN q : r \in Broken(k)
    BY <1>3
  <2>2. PICK m \in CutShort(q[k]) : r = Append(SubSeq(q, 1, k - 1), m)
    BY <2>1 DEF Broken
  <2>3. q[k] \in Messages /\ k \in 1 .. Len(q)
    BY <1>0, <2>1
  <2>4. q[k].body # << >>
    BY <2>2, Uncut
  <2>5. PICK s : s = SubSeq(q, 1, k - 1)
    OBVIOUS
  <2>6. s \in Seq(Messages) /\ Len(s) = k - 1 /\ \A j \in 1 .. k - 1 : s[j] = q[j]
    BY <1>0, <2>3, <2>5
  <2>7. r = Append(s, m) /\ k \in Nat
    BY <2>2, <2>3, <2>5
  <2>8. Len(r) = k /\ \A j \in 1 .. k - 1 : r[j] = s[j]
    BY <2>6, <2>7
  <2>9. ASSUME NEW j \in 1 .. Len(r), j < Len(r) \/ q[j].body = << >> PROVE r[j] = q[j]
    <3>1. j # k
      BY <2>4, <2>8, <2>9
    <3>2. j \in 1 .. k - 1
      BY <2>7, <2>8, <3>1
    <3> QED  BY <2>6, <2>8, <3>2
  <2> QED  BY <2>9
<1> HIDE DEF WholeOnes
<1> QED  BY <1>1, <1>2, <1>3

\* If the message that ends an answer is left, everything is.
LEMMA RemainsWhole ==
  ASSUME NEW q \in Seq(Messages), NEW r \in Remains(q), NEW k \in 1 .. Len(r),
         k = Len(q), q[k].body = << >>
  PROVE  r = q
<1>1. /\ r \in Seq(Messages) /\ Len(r) <= Len(q)
      /\ \A j \in 1 .. Len(r) : j < Len(r) \/ q[j].body = << >> => r[j] = q[j]
  BY RemainsFacts, RemainsMore
<1>2. Len(r) \in Nat /\ Len(q) \in Nat /\ k \in Nat /\ k <= Len(r)
  BY <1>1
<1>3. Len(r) = Len(q) /\ k = Len(r)
  BY <1>1, <1>2
<1>4. ASSUME NEW j \in 1 .. Len(q) PROVE r[j] = q[j]
  <2>1. j \in 1 .. Len(r) /\ (j < Len(r) \/ j = k)
    BY <1>2, <1>3
  <2> QED  BY <1>1, <2>1
<1> QED  BY <1>1, <1>3, <1>4

LEMMA BreakKeeps == ASSUME IInv, WInv, Break PROVE WInv'
<1>1. /\ up /\ ~up' /\ toMonitor' \in Remains(toMonitor)
      /\ UNCHANGED <<made, front, agent, pc, bufs, nows, stored>>
  BY DEF Break, agentVars, fetchVars
<1>2. PICK q, r : /\ q = toMonitor /\ r = toMonitor' /\ q \in Seq(Messages)
                  /\ r \in Remains(q)
  BY <1>1 DEF IInv, TypeInv
<1>3. /\ r \in Seq(Messages) /\ Len(r) <= Len(q)
      /\ \A k \in 1 .. Len(r) : r[k].kind = q[k].kind /\ r[k].thread = q[k].thread
      /\ \A k \in 1 .. Len(r) : k < Len(r) \/ q[k].body = << >> => r[k] = q[k]
  BY <1>2, RemainsFacts, RemainsMore
<1>4. \A k \in 1 .. Len(r) : k \in 1 .. Len(q)
  BY <1>2, <1>3
<1>5. Once(q) /\ Once(r)
  BY SMTT(30), <1>2, <1>3, <1>4 DEF WInv, OnceInv, Once
<1>6. OnceInv'
  <2>1. \A t \in DOMAIN bufs : ~Among(r, "data", t)
    BY <1>2, <1>3, <1>4 DEF WInv, OnceInv, Among
  <2> QED  BY <1>1, <1>2, <1>5, <2>1 DEF OnceInv
<1>7. EndInv'
  <2>1. \A k \in 1 .. Len(r) : r[k].kind = "succeed" => r[k].body = << >>
    BY <1>2, <1>3, <1>4 DEF WInv, EndInv
  <2> QED  BY <1>2, <2>1 DEF EndInv
<1>8. TodoInv' /\ MadeInv'
  BY <1>1 DEF WInv, TodoInv, MadeInv
<1>9. CalmInv'
  BY <1>1, <1>2, <1>3, <1>4 DEF WInv, CalmInv
<1>10. Exact /\ Kept /\ Sound
  BY <1>1, ExactIsSound DEF IInv, WInv, LedgerInv
<1>11. Kept'
  BY <1>1, <1>10 DEF Kept, Filed, Made
<1>12. ASSUME \A t, n : OnTheWire(t, n)' = OnTheWire(t, n) PROVE Sound'
  <2>1. \A t, n : Balance(t, n)' = Balance(t, n) /\ Made(t, n)' = Made(t, n)
    BY <1>1, <1>12 DEF Balance, InBufs, Made
  <2> QED  BY <1>10, <2>1 DEF Sound
<1>13. /\ \A t, n : OnTheWire(t, n) = Wire(q, t, n)
       /\ \A t, n : OnTheWire(t, n)' = Wire(r, t, n)
  BY <1>2, WireOf DEF OnTheWire, DataOf, Wire, Bears
<1>14. ASSUME pc \notin {"fetch", "stopped", "spinning", "crashed"} PROVE Sound'
  <2>1. /\ \A k \in 1 .. Len(q) : \A t : ~Bears(q[k], t)
        /\ \A k \in 1 .. Len(r) : \A t : ~Bears(r[k], t)
    BY <1>2, <1>3, <1>4, <1>14 DEF WInv, CalmInv, Bears
  <2>2. \A t, n : Wire(q, t, n) = 0 /\ Wire(r, t, n) = 0
    BY <1>2, <1>3, <1>5, <2>1, WireFacts
  <2> QED  BY <1>12, <1>13, <2>2
<1>15. ASSUME pc = "fetch", NEW k \in 1 .. Len(r), r[k].kind = "succeed" PROVE Sound'
  <2>1. k \in 1 .. Len(q) /\ q[k].kind = "succeed"
    BY <1>3, <1>4, <1>15
  <2>2. toMonitor # << >>
    <3>1. q = << >> => Len(q) = 0
      OBVIOUS
    <3> QED  BY <1>2, <2>1, <3>1
  <2>3. Streaming
    BY <1>15, <2>2 DEF IInv, TurnInv, Asked
  <2>4. k = Len(q) /\ q[k].body = << >>
    BY <1>2, <2>1, <2>3 DEF Streaming, WInv, EndInv
  <2>5. r = q
    BY <1>2, <2>4, RemainsWhole
  <2> QED  BY <1>12, <1>13, <2>5
<1>16. pc \notin {"stopped", "spinning", "crashed"} => Sound' \/ Unfinished'
  <2>1. CASE pc # "fetch"
    BY <1>14, <2>1
  <2>2. CASE pc = "fetch" /\ \E k \in 1 .. Len(r) : r[k].kind = "succeed"
    BY <1>15, <2>2
  <2>3. CASE pc = "fetch" /\ \A k \in 1 .. Len(r) : r[k].kind # "succeed"
    BY <1>1, <1>2, <2>3 DEF Unfinished
  <2> QED  BY <2>1, <2>2, <2>3
<1>17. LedgerInv'
  BY <1>1, <1>11, <1>16 DEF LedgerInv
<1> QED  BY <1>6, <1>7, <1>8, <1>9, <1>17 DEF WInv

(***************************************************************************)
(* The steps of the monitor.                                               *)
(***************************************************************************)

\* The records of a thread go from the connection to its buffer.
LEMMA DataArrivesKeeps == ASSUME IInv, WInv, DataArrives PROVE WInv'
<1>1. /\ pc = "fetch" /\ Arrived /\ Got.kind = "data" /\ toMonitor' = Tail(toMonitor)
      /\ bufs' = [t \in DOMAIN bufs \cup {Got.thread} |->
                    IF t = Got.thread THEN Got.body ELSE bufs[t]]
      /\ UNCHANGED <<made, front, agent, up, toAgent, pc, stored>>
  BY DEF DataArrives, MonitorRest, agentVars
<1>2. DOMAIN bufs' \subseteq DOMAIN bufs \cup (IF Got.kind = "data" THEN {Got.thread} ELSE {})
  BY <1>1
<1>3. /\ OnceInv' /\ EndInv' /\ \A t : HasData(t)' => HasData(t)
      /\ \A t, n : IF Bears(Got, t)
                   THEN /\ OnTheWire(t, n) = CallsIn(Got.body, n) /\ OnTheWire(t, n)' = 0
                        /\ t \notin DOMAIN bufs
                   ELSE OnTheWire(t, n)' = OnTheWire(t, n)
  BY <1>1, <1>2, WireRead DEF IInv, WInv
<1>4. TodoInv' /\ CalmInv' /\ MadeInv'
  BY <1>1, <1>3, TodoKept DEF WInv, CalmInv, MadeInv
<1>5. ASSUME NEW t \in Threads, NEW n \in Word
      PROVE  /\ Balance(t, n)' = Balance(t, n) /\ Filed(t, n)' = Filed(t, n)
             /\ Made(t, n)' = Made(t, n)
  <2>1. PICK s, f, w, b \in Nat :
          /\ s = stored[t][n] /\ f = CallsIn(front[t], n) /\ w = OnTheWire(t, n)
          /\ b = InBufs(t, n)
    BY Entries DEF IInv, WInv
  <2>2. /\ Balance(t, n) = s + (f + w + b)
        /\ Balance(t, n)' = s + (f + OnTheWire(t, n)' + InBufs(t, n)')
    BY <1>1, <2>1 DEF Balance
  <2>3. CASE t = Got.thread
    <3>1. Bears(Got, t)
      BY <1>1, <2>3 DEF Bears
    <3>2. w = CallsIn(Got.body, n) /\ OnTheWire(t, n)' = 0 /\ t \notin DOMAIN bufs
      BY <1>3, <2>1, <3>1
    <3>3. b = 0 /\ InBufs(t, n)' = w
      BY <1>1, <2>1, <2>3, <3>2 DEF InBufs
    <3> QED  BY <1>1, <2>1, <2>2, <3>2, <3>3 DEF Filed, Made
  <2>4. CASE t # Got.thread
    <3>1. ~Bears(Got, t)
      BY <2>4 DEF Bears
    <3>2. OnTheWire(t, n)' = w
      BY <1>3, <2>1, <3>1
    <3>3. InBufs(t, n)' = b
      BY <1>1, <2>1, <2>4 DEF InBufs
    <3> QED  BY <1>1, <2>2, <3>2, <3>3 DEF Filed, Made
  <2> QED  BY <2>3, <2>4
<1>6. (Exact => Exact') /\ (Sound => Sound') /\ (Kept => Kept')
  BY <1>5 DEF Exact, Sound, Kept
<1>7. Unfinished => Unfinished'
  <2>1. /\ \A k \in 1 .. Len(toMonitor') : toMonitor'[k] = toMonitor[k + 1]
        /\ \A k \in 1 .. Len(toMonitor') : k + 1 \in 1 .. Len(toMonitor)
    <3>1. /\ Len(toMonitor) \in Nat \ {0} /\ Len(toMonitor') = Len(toMonitor) - 1
          /\ \A k \in 1 .. Len(toMonitor') : toMonitor'[k] = toMonitor[k + 1]
      BY <1>1, MonitorsTurn DEF IInv
    <3> QED  BY <3>1
  <2> QED  BY <1>1, <2>1 DEF Unfinished
<1>8. LedgerInv'
  BY <1>1, <1>6, <1>7 DEF WInv, LedgerInv
<1> QED  BY <1>3, <1>4, <1>8 DEF WInv

LEMMA NowInfoArrivesKeeps == ASSUME IInv, WInv, NowInfoArrives PROVE WInv'
<1>1. /\ pc = "fetch" /\ Arrived /\ Got.kind = "now" /\ toMonitor' = Tail(toMonitor)
      /\ UNCHANGED <<made, front, agent, up, toAgent, pc, bufs, stored>>
  BY DEF NowInfoArrives, MonitorRest, agentVars
<1>2. OnceInv' /\ EndInv' /\ MadeInv' /\ LedgerInv' /\ \A t : HasData(t)' => HasData(t)
  BY <1>1, ReadLedger
<1>3. TodoInv' /\ CalmInv'
  BY <1>1, <1>2, TodoKept DEF WInv, CalmInv
<1> QED  BY <1>2, <1>3 DEF WInv

\* A step of the first exchange, or one that ends in failure.
LEMMA StartKeeps == ASSUME IInv, WInv, Start PROVE WInv'
<1>1. /\ pc = "new" /\ UNCHANGED <<made, front, agent, up, toMonitor, bufs, stored>>
      /\ (pc' = "stopped" /\ toAgent' = toAgent) \/ pc' = "slide"
  BY DEF Start, Ask, MonitorRest, agentVars, netVars, fetchVars
<1>2. OnceInv' /\ EndInv' /\ MadeInv' /\ LedgerInv' /\ \A t : HasData(t)' <=> HasData(t)
  BY <1>1, StillLedger
<1>3. TodoInv'
  BY <1>1, <1>2, TodoKept DEF WInv
<1>4. CalmInv'
  <2>1. toAgent = << >>
    BY <1>1 DEF IInv, TurnInv, Quiet
  <2> QED  BY <1>1, <2>1 DEF WInv, CalmInv
<1> QED  BY <1>2, <1>3, <1>4 DEF WInv

LEMMA InfoArrivesKeeps == ASSUME IInv, WInv, InfoArrives PROVE WInv'
<1>1. /\ pc \in {"slide", "meta", "target"} /\ Arrived /\ toMonitor' = Tail(toMonitor)
      /\ pc' \in {"meta", "target", "idle"}
      /\ UNCHANGED <<made, front, agent, up, bufs, stored>>
  BY DEF InfoArrives, Ask, MonitorRest, agentVars, fetchVars
<1>2. Got.kind # "data"
  <2>1. Got = toMonitor[1] /\ Len(toMonitor) \in Nat \ {0}
    BY <1>1, MonitorsTurn DEF IInv
  <2> QED  BY <1>1, <2>1 DEF WInv, CalmInv
<1>3. OnceInv' /\ EndInv' /\ MadeInv' /\ LedgerInv' /\ \A t : HasData(t)' => HasData(t)
  BY <1>1, <1>2, ReadLedger
<1>4. TodoInv'
  BY <1>1, <1>3, TodoKept DEF WInv
<1>5. CalmInv'
  <2>1. toMonitor' = << >> /\ Len(toMonitor') = 0
    BY <1>1, MonitorsTurn DEF IInv
  <2>2. \A k \in 1 .. Len(toMonitor') : FALSE
    BY <2>1
  <2> QED  BY <1>1, <2>2 DEF WInv, CalmInv
<1> QED  BY <1>3, <1>4, <1>5 DEF WInv

LEMMA InfoUnreadableKeeps == ASSUME IInv, WInv, InfoUnreadable PROVE WInv'
<1>1. /\ pc \in {"slide", "meta"} /\ Arrived /\ toMonitor' = Tail(toMonitor)
      /\ pc' \in {"spinning", "crashed"}
      /\ UNCHANGED <<made, front, agent, up, toAgent, bufs, stored>>
  BY DEF InfoUnreadable, MonitorRest, agentVars, fetchVars
<1>2. Got.kind # "data"
  <2>1. Got = toMonitor[1] /\ Len(toMonitor) \in Nat \ {0}
    BY <1>1, MonitorsTurn DEF IInv
  <2> QED  BY <1>1, <2>1 DEF WInv, CalmInv
<1>3. OnceInv' /\ EndInv' /\ MadeInv' /\ LedgerInv' /\ \A t : HasData(t)' => HasData(t)
  BY <1>1, <1>2, ReadLedger
<1>4. TodoInv'
  BY <1>1, <1>3, TodoKept DEF WInv
<1>5. CalmInv'
  <2>1. toMonitor' = << >> /\ Len(toMonitor') = 0 /\ toAgent = << >>
    BY <1>1, MonitorsTurn DEF IInv
  <2>2. \A k \in 1 .. Len(toMonitor') : FALSE
    BY <2>1
  <2> QED  BY <1>1, <2>1, <2>2 DEF WInv, CalmInv
<1> QED  BY <1>3, <1>4, <1>5 DEF WInv

LEMMA StopKeeps == ASSUME IInv, WInv, InfoLost \/ FetchFails \/ NamesLost PROVE WInv'
<1>1. /\ pc' \in {"stopped", "spinning", "crashed"}
      /\ UNCHANGED <<made, front, agent, up, toAgent, toMonitor, bufs, stored>>
      /\ up => pc = "fetch" /\ Arrived
  BY DEF InfoLost, FetchFails, NamesLost, Lost, MonitorRest, agentVars, netVars, fetchVars
<1>2. OnceInv' /\ EndInv' /\ MadeInv' /\ LedgerInv' /\ \A t : HasData(t)' <=> HasData(t)
  BY <1>1, StillLedger
<1>3. TodoInv'
  BY <1>1, <1>2, TodoKept DEF WInv
<1>4. CalmInv'
  <2>1. up => toAgent = << >>
    BY <1>1, MonitorsTurn DEF IInv, Streaming
  <2> QED  BY <1>1, <2>1 DEF CalmInv
<1> QED  BY <1>2, <1>3, <1>4 DEF WInv

LEMMA PollKeeps == ASSUME IInv, WInv, Poll PROVE WInv'
<1>1. /\ pc = "idle" /\ pc' = "fetch" /\ bufs' = << >>
      /\ UNCHANGED <<made, front, agent, up, toMonitor, stored>>
  BY DEF Poll, Ask, agentVars
<1>2. DOMAIN bufs = {} /\ DOMAIN bufs' = {}
  BY <1>1 DEF WInv, CalmInv
<1>3. OnceInv' /\ EndInv' /\ \A t : HasData(t)' => HasData(t)
  BY <1>1, <1>2 DEF WInv, OnceInv, EndInv, HasData
<1>4. \A t, n : OnTheWire(t, n)' = OnTheWire(t, n) /\ InBufs(t, n)' = InBufs(t, n)
  BY <1>1, <1>2 DEF OnTheWire, DataOf, InBufs
<1>5. MadeInv' /\ LedgerInv'
  <2>1. TypeInv /\ OnceInv /\ MadeInv /\ LedgerInv
    BY DEF IInv, WInv
  <2>2. Unfinished => Unfinished'
    BY <1>1 DEF Unfinished
  <2> QED  BY <1>1, <1>4, <2>1, <2>2, StillBalanced
<1>6. TodoInv' /\ CalmInv'
  BY <1>1, <1>3, TodoKept DEF WInv, CalmInv
<1> QED  BY <1>3, <1>5, <1>6 DEF WInv

LEMMA NoneLeft == ASSUME NEW q, q = << >> PROVE \A k \in 1 .. Len(q) : FALSE
<1>1. Len(q) = 0
  OBVIOUS
<1> QED  BY <1>1

\* The buffers are stored: nothing has been cut short.
LEMMA StoreKeeps ==
  ASSUME IInv, WInv, pc \in {"fetch", "names"}, Arrived, Got.kind # "data",
         pc = "fetch" => Got.kind = "succeed",
         StoreAll, DOMAIN bufs \subseteq nows,
         toMonitor' = Tail(toMonitor), toMonitor' = << >>,
         UNCHANGED <<made, front, agent, up>>
  PROVE  WInv'
<1>1. /\ pc' = "idle" /\ bufs' = << >> /\ DOMAIN bufs' = {}
      /\ stored' = [t \in Threads |-> [n \in Word |-> Sum(t, n)]]
  BY DEF StoreAll
<1>2. /\ OnceInv' /\ EndInv' /\ \A t : HasData(t)' => HasData(t)
      /\ \A t, n : OnTheWire(t, n)' = OnTheWire(t, n)
  BY <1>1, WireRead DEF IInv, WInv, Bears
<1>3. MadeInv' /\ TodoInv'
  BY <1>2, TodoKept DEF WInv, MadeInv
<1>4. CalmInv'
  <2>1. \A k \in 1 .. Len(toMonitor') : FALSE
    BY NoneLeft
  <2> QED  BY <1>1, <2>1 DEF CalmInv
<1>5. Sound
  <2>1. ~Unfinished
    <3>1. Got = toMonitor[1] /\ Len(toMonitor) \in Nat \ {0}
      BY MonitorsTurn DEF IInv
    <3>2. 1 \in 1 .. Len(toMonitor)
      BY <3>1
    <3> QED  BY <3>1, <3>2 DEF Unfinished
  <2> QED  BY <2>1 DEF WInv, LedgerInv
<1>6. ASSUME NEW t \in Threads, NEW n \in Word
      PROVE  /\ Balance(t, n)' = Balance(t, n) /\ Made(t, n)' = Made(t, n)
             /\ Balance(t, n) <= Made(t, n) => Filed(t, n)' <= Made(t, n)
  <2>1. PICK s, f, w, b, k \in Nat :
          /\ s = stored[t][n] /\ f = CallsIn(front[t], n) /\ w = OnTheWire(t, n)
          /\ b = InBufs(t, n) /\ k = Made(t, n)
    BY Entries DEF IInv, WInv
  <2>2. stored'[t][n] = s + b
    <3>1. Sum(t, n) = s + b
      BY <2>1 DEF Sum, InBufs
    <3> QED  BY <1>1, <3>1
  <2>3. InBufs(t, n)' = 0
    BY <1>1 DEF InBufs
  <2>4. /\ Balance(t, n) = s + (f + w + b) /\ Balance(t, n)' = (s + b) + (f + w + 0)
        /\ Filed(t, n)' = (s + b) + f /\ Made(t, n)' = k
    BY <1>2, <2>1, <2>2, <2>3 DEF Balance, Filed, Made
  <2>5. /\ (s + b) + (f + w + 0) = s + (f + w + b)
        /\ s + (f + w + b) <= k => (s + b) + f <= k
    OBVIOUS
  <2> QED  BY <2>1, <2>4, <2>5
<1>7. (Exact => Exact') /\ Sound' /\ Kept'
  <2>1. Exact => Exact'
    BY <1>6 DEF Exact
  <2>2. Sound'
    BY <1>5, <1>6 DEF Sound
  <2>3. Kept'
    BY <1>5, <1>6 DEF Sound, Kept
  <2> QED  BY <2>1, <2>2, <2>3
<1>8. LedgerInv'
  BY <1>7 DEF WInv, LedgerInv
<1> QED  BY <1>2, <1>3, <1>4, <1>8 DEF WInv

LEMMA FetchEndsKeeps == ASSUME IInv, WInv, FetchEnds PROVE WInv'
<1>1. /\ pc = "fetch" /\ Arrived /\ Got.kind = "succeed" /\ toMonitor' = Tail(toMonitor)
      /\ UNCHANGED <<made, front, agent, up>>
  BY DEF FetchEnds, Ask, agentVars
<1>2. toMonitor' = << >> /\ DOMAIN bufs \subseteq nows
  BY FetchDone
<1>3. CASE query = << >>
  BY <1>1, <1>2, <1>3, StoreKeeps DEF FetchEnds
<1>4. CASE query # << >>
  <2>1. pc' = "names" /\ UNCHANGED <<bufs, stored>>
    BY <1>4 DEF FetchEnds, Ask, fetchVars
  <2>2. OnceInv' /\ EndInv' /\ MadeInv' /\ LedgerInv' /\ \A t : HasData(t)' => HasData(t)
    BY <1>1, <2>1, ReadLedger
  <2>3. TodoInv'
    BY <1>1, <2>2, TodoKept DEF WInv
  <2>4. CalmInv'
    <3>1. Len(toMonitor') = 0
      BY <1>2
    <3>2. \A k \in 1 .. Len(toMonitor') : FALSE
      BY <3>1
    <3> QED  BY <2>1, <3>2 DEF CalmInv
  <2> QED  BY <2>2, <2>3, <2>4 DEF WInv
<1> QED  BY <1>3, <1>4

LEMMA NamesArriveKeeps == ASSUME IInv, WInv, NamesArrive PROVE WInv'
<1>1. /\ pc = "names" /\ Arrived /\ toMonitor' = Tail(toMonitor) /\ StoreAll
      /\ UNCHANGED <<made, front, agent, up>>
  BY DEF NamesArrive, agentVars
<1>2. /\ toMonitor' = << >> /\ Got = toMonitor[1] /\ Len(toMonitor) \in Nat \ {0}
      /\ DOMAIN bufs \subseteq nows
  BY <1>1, MonitorsTurn DEF IInv, TurnInv
<1>3. Got.kind # "data"
  BY <1>1, <1>2 DEF WInv, CalmInv
<1> QED  BY <1>1, <1>2, <1>3, StoreKeeps

(***************************************************************************)
(* The theorem.                                                            *)
(***************************************************************************)

LEMMA InitLedger == ASSUME Init PROVE WInv
<1>1. /\ made = [x \in Threads \X Names |-> 0] /\ toAgent = << >> /\ toMonitor = << >>
      /\ agent = [pc |-> "recv", todo |-> << >>] /\ up = TRUE /\ pc = "new" /\ bufs = << >>
      /\ front = [t \in Threads |-> << >>] /\ stored = [t \in Threads |-> [n \in Word |-> 0]]
  BY DEF Init
<1>2. DOMAIN bufs = {} /\ Len(toMonitor) = 0
  BY <1>1
<1>3. OnceInv /\ TodoInv /\ CalmInv /\ EndInv
  BY <1>1, <1>2 DEF OnceInv, Once, TodoInv, CalmInv, EndInv
<1>4. MadeInv
  BY <1>1 DEF MadeInv
<1>5. ASSUME NEW t \in Threads, NEW n \in Word
      PROVE  Balance(t, n) = 0 /\ Filed(t, n) = 0 /\ Made(t, n) = 0
  <2>1. stored[t][n] = 0 /\ CallsIn(front[t], n) = 0 /\ InBufs(t, n) = 0
    BY <1>1, <1>2, CallsNone DEF InBufs
  <2>2. OnTheWire(t, n) = 0
    <3>1. << >> \in Seq(Messages) /\ Once(<< >>) /\ \A k \in 1 .. Len(<< >>) : FALSE
      BY DEF Once
    <3>2. Wire(<< >>, t, n) = 0
      BY <3>1, WireFacts
    <3> QED  BY <1>1, <3>2, WireOf
  <2>3. Made(t, n) = 0
    <3>1. n \in Names => <<t, n>> \in Threads \X Names
      OBVIOUS
    <3> QED  BY <1>1, <3>1 DEF Made
  <2> QED  BY <2>1, <2>2, <2>3 DEF Balance, Filed
<1>6. Exact /\ Sound /\ Kept
  BY <1>5 DEF Exact, Sound, Kept
<1> QED  BY <1>3, <1>4, <1>6 DEF WInv, LedgerInv

LEMMA NextLedger == ASSUME IInv, WInv, [Next]_vars PROVE WInv'
<1>1. CASE UNCHANGED vars
  <2>1. UNCHANGED <<made, front, agent, up, toAgent, toMonitor, pc, bufs, stored>>
    BY <1>1 DEF vars, agentVars, netVars, fetchVars
  <2>2. OnceInv' /\ EndInv' /\ MadeInv' /\ LedgerInv' /\ \A t : HasData(t)' <=> HasData(t)
    BY <2>1, StillLedger
  <2>3. TodoInv' /\ CalmInv'
    BY <2>1, <2>2, TodoKept DEF WInv, CalmInv
  <2> QED  BY <2>2, <2>3 DEF WInv
<1>2. ASSUME NEW t \in Threads, NEW n \in Names, Call(t, n) PROVE WInv'
  BY <1>2, CallKeeps
<1>3. CASE AgentStep
  BY <1>3, AnswerInfoKeeps, AnswerNamesKeeps, BeginAnswerKeeps, SendPartKeeps, EndAnswerKeeps
     DEF AgentStep
<1>4. CASE Hangup \/ Break
  BY <1>4, HangupKeeps, BreakKeeps
<1>5. CASE MonitorStep
  BY <1>5, StartKeeps, InfoArrivesKeeps, InfoUnreadableKeeps, DataArrivesKeeps, NowInfoArrivesKeeps, FetchEndsKeeps,
     NamesArriveKeeps, StopKeeps DEF MonitorStep
<1>6. CASE Poll
  BY <1>6, PollKeeps
<1> QED  BY <1>1, <1>2, <1>3, <1>4, <1>5, <1>6 DEF Next

\* Every call is in its buffer, on its way or stored, once, and after a break
\* nothing is stored that was not made (SendMessage2, RecvMessage,
\* GetProfileData).
THEOREM NothingIsLost == Spec => []NothingLost
<1>1. Init => WInv
  BY InitLedger
<1>2. IInv /\ WInv /\ [Next]_vars => WInv'
  BY NextLedger
<1>3. ASSUME IInv, WInv PROVE NothingLost
  <2>1. SUFFICES ASSUME NEW t \in Threads
                 PROVE  /\ stored[t][Junk] = 0
                        /\ \A n \in Names :
                             IF up THEN stored[t][n] + UnderWay(t, n) = made[t, n]
                             ELSE stored[t][n] + CallsIn(front[t], n) <= made[t, n]
    BY DEF NothingLost
  <2>2. Kept /\ (up => Exact)
    BY <1>3 DEF WInv, LedgerInv
  <2>3. stored[t][Junk] = 0
    <3>1. Junk \in Word /\ Junk \notin Names
      BY SessionConstants DEF Word, Memory
    <3>2. PICK s, f \in Nat : s = stored[t][Junk] /\ f = CallsIn(front[t], Junk)
      BY <1>3, <3>1, Entries DEF IInv, WInv
    <3>3. s + f <= 0
      BY <2>2, <3>1, <3>2 DEF Kept, Filed, Made
    <3> QED  BY <3>2, <3>3
  <2>4. ASSUME NEW n \in Names
        PROVE  IF up THEN stored[t][n] + UnderWay(t, n) = made[t, n]
               ELSE stored[t][n] + CallsIn(front[t], n) <= made[t, n]
    <3>1. n \in Word /\ Made(t, n) = made[t, n]
      BY DEF Word, Memory, Made
    <3>2. UnderWay(t, n) = CallsIn(front[t], n) + OnTheWire(t, n) + InBufs(t, n)
      BY DEF UnderWay, InBufs
    <3> QED  BY <2>2, <3>1, <3>2 DEF Exact, Kept, Balance, Filed
  <2> QED  BY <2>3, <2>4
<1> QED  BY <1>1, <1>2, <1>3, Invariance, PTL DEF Spec

(***************************************************************************)
(* The types of the rest of the state, with the bounds.                    *)
(***************************************************************************)

\* Calls are of names in the table.
CallsInv ==
  /\ made \in [Threads \X Names -> 0 .. MaxCalls]
  /\ \A t \in Threads, n \in Names : made[t, n] > 0 => n \in table

\* What has a thread is of a thread of the program.
OfThreads(q) == \A k \in 1 .. Len(q) : q[k].kind \in {"data", "now"} => q[k].thread \in Threads
ThreadsInv == DOMAIN bufs \subseteq Threads /\ nows \subseteq Threads /\ OfThreads(toMonitor)

BoundsInv ==
  /\ sock \in {"none", "served", "stray"} /\ polls \in 0 .. MaxPolls
  /\ CallsInv /\ ThreadsInv

\* While fewer calls than the bound were made, no count has reached it.
LEMMA BelowBound ==
  ASSUME CallsInv, IsFiniteSet(table), NEW t \in Threads, NEW n \in Names,
         Cardinality(Calls) < MaxCalls
  PROVE  made[<<t, n>>] < MaxCalls
<1>1. made[<<t, n>>] \in 0 .. MaxCalls /\ MaxCalls \in Nat
  <2>1. <<t, n>> \in Threads \X Names
    OBVIOUS
  <2> QED  BY <2>1, SessionConstants DEF CallsInv
<1>2. SUFFICES ASSUME made[<<t, n>>] = MaxCalls PROVE FALSE
  BY <1>1
<1>3. PICK C, K : C = Calls /\ K = 1 .. MaxCalls
  OBVIOUS
<1>4. IsFiniteSet(C)
  <2>1. PICK A, D : A = Threads \X table /\ D = A \X K
    OBVIOUS
  <2>2. IsFiniteSet(A) /\ IsFiniteSet(K)
    <3>1. IsFiniteSet(Threads)
      BY SessionConstants
    <3>2. IsFiniteSet(A)
      BY <2>1, <3>1, FS_Product
    <3>3. IsFiniteSet(K)
      BY <1>1, <1>3, FS_Interval
    <3> QED  BY <3>2, <3>3
  <2>3. IsFiniteSet(D)
    BY <2>1, <2>2, FS_Product
  <2>4. ASSUME NEW x \in C PROVE x \in D
    <3>1. x \in (Threads \X Names) \X K /\ x[2] <= made[x[1]]
      BY <1>3, <2>4 DEF Calls
    <3>2. PICK y \in Threads \X Names, k \in K : x = <<y, k>>
      BY <3>1
    <3>3. k <= made[y] /\ made[y] \in 0 .. MaxCalls
      BY <3>1, <3>2 DEF CallsInv
    <3>4. made[y] > 0
      BY <1>1, <1>3, <3>3
    <3>5. PICK u \in Threads, m \in Names : y = <<u, m>>
      BY <3>2
    <3>6. m \in table
      BY <3>4, <3>5 DEF CallsInv
    <3> QED  BY <2>1, <3>2, <3>5, <3>6
  <2>5. C \subseteq D
    BY <2>4
  <2> QED  BY <2>3, <2>5, FS_Subset
<1>5. PICK g : g = [k \in K |-> <<<<t, n>>, k>>]
  OBVIOUS
<1>6. g \in Injection(K, C)
  <2>1. ASSUME NEW k \in K PROVE <<<<t, n>>, k>> \in C
    <3>1. k <= made[<<t, n>>]
      BY <1>1, <1>2, <1>3
    <3> QED  BY <1>3, <3>1 DEF Calls
  <2>2. g \in [K -> C]
    BY <1>5, <2>1
  <2>3. \A a, b \in K : g[a] = g[b] => a = b
    BY <1>5
  <2> QED  BY <2>2, <2>3 DEF Injection, IsInjective
<1>7. Cardinality(K) <= Cardinality(C)
  BY <1>4, <1>6, FS_Injection
<1>8. Cardinality(K) = MaxCalls
  BY <1>1, <1>3, FS_Interval
<1>9. Cardinality(C) \in Nat
  BY <1>4, FS_CardinalityType
<1> QED  BY <1>1, <1>3, <1>7, <1>8, <1>9

\* A call is counted.
LEMMA CallBound ==
  ASSUME IInv, CallsInv, NEW t \in Threads, NEW n \in Names, Call(t, n)
  PROVE  CallsInv'
<1>1. /\ made' = [made EXCEPT ![<<t, n>>] = made[<<t, n>>] + 1] /\ table' = table \cup {n}
      /\ Cardinality(Calls) < MaxCalls
  BY DEF Call
<1>2. PICK S, x : S = Threads \X Names /\ x = <<t, n>> /\ x \in S
  <2>1. <<t, n>> \in Threads \X Names
    OBVIOUS
  <2>2. PICK S : S = Threads \X Names
    OBVIOUS
  <2> QED  BY <2>1, <2>2
<1>3. made \in [S -> 0 .. MaxCalls] /\ MaxCalls \in Nat /\ made' = [made EXCEPT ![x] = made[x] + 1]
  BY <1>1, <1>2, SessionConstants DEF CallsInv
<1>4. made[x] < MaxCalls
  BY <1>1, <1>2, BelowBound DEF IInv, TypeInv
<1>5. made[x] + 1 \in 0 .. MaxCalls
  BY <1>2, <1>3, <1>4
<1>6. made' \in [S -> 0 .. MaxCalls] /\ \A y \in S \ {x} : made'[y] = made[y]
  BY <1>2, <1>3, <1>5
<1>7. ASSUME NEW u \in Threads, NEW m \in Names, made'[<<u, m>>] > 0 PROVE m \in table'
  <2>1. PICK y : y = <<u, m>>
    OBVIOUS
  <2>2. y \in S
    BY <1>2, <2>1
  <2>3. CASE y = x
    <3>1. m = n
      BY <1>2, <2>1, <2>3
    <3> QED  BY <1>1, <3>1
  <2>4. CASE y # x
    <3>1. made[<<u, m>>] > 0
      BY <1>6, <1>7, <2>1, <2>2, <2>4
    <3> QED  BY <1>1, <3>1 DEF CallsInv
  <2> QED  BY <2>3, <2>4
<1> QED  BY <1>2, <1>6, <1>7 DEF CallsInv

\* A message is sent to the monitor, or lost.
LEMMA ThreadsSent ==
  ASSUME IInv, ThreadsInv, NEW m, toMonitor' = SendTo(toMonitor, <<m>>), UNCHANGED <<bufs, nows>>,
         m.kind \in {"data", "now"} => m.thread \in Threads
  PROVE  ThreadsInv'
<1>1. PICK q, r : q = toMonitor /\ r = toMonitor' /\ q \in Seq(Messages)
  BY DEF IInv, TypeInv
<1>2. r = Append(q, m) \/ r = q
  BY <1>1 DEF SendTo
<1>3. OfThreads(q)
  BY <1>1 DEF ThreadsInv
<1>4. OfThreads(r)
  <2>1. ASSUME NEW k \in 1 .. Len(r), r[k].kind \in {"data", "now"} PROVE r[k].thread \in Threads
    <3>1. r[k] = m \/ (k \in 1 .. Len(q) /\ r[k] = q[k])
      BY <1>1, <1>2, Sent
    <3> QED  BY <1>3, <2>1, <3>1 DEF OfThreads
  <2> QED  BY <2>1 DEF OfThreads
<1> QED  BY <1>1, <1>4 DEF ThreadsInv, OfThreads

\* What is left of the messages is of threads of the program.
LEMMA ThreadsRead ==
  ASSUME IInv, ThreadsInv, toMonitor # << >>, toMonitor' = Tail(toMonitor),
         DOMAIN bufs' \subseteq DOMAIN bufs \cup (IF Got.kind = "data" THEN {Got.thread} ELSE {}),
         nows' \subseteq nows \cup (IF Got.kind = "now" THEN {Got.thread} ELSE {})
  PROVE  ThreadsInv'
<1>1. PICK q, r : q = toMonitor /\ r = toMonitor' /\ q \in Seq(Messages) /\ q # << >> /\ r = Tail(q)
  BY DEF IInv, TypeInv
<1>2. /\ Len(q) \in Nat \ {0} /\ Len(r) = Len(q) - 1 /\ Got = q[1]
      /\ \A k \in 1 .. Len(r) : r[k] = q[k + 1] /\ k + 1 \in 1 .. Len(q)
  BY <1>1 DEF Got
<1>3. OfThreads(q) /\ DOMAIN bufs \subseteq Threads /\ nows \subseteq Threads
  BY <1>1 DEF ThreadsInv
<1>4. Got.kind \in {"data", "now"} => Got.thread \in Threads
  <2>1. 1 \in 1 .. Len(q)
    BY <1>2
  <2> QED  BY <1>2, <1>3, <2>1 DEF OfThreads
<1>5. OfThreads(r)
  BY <1>2, <1>3 DEF OfThreads
<1>6. DOMAIN bufs' \subseteq Threads /\ nows' \subseteq Threads
  BY <1>3, <1>4
<1> QED  BY <1>1, <1>5, <1>6 DEF ThreadsInv, OfThreads

\* Steps of the dispatch thread and of the network.
LEMMA AgentBounds == ASSUME IInv, BoundsInv, AgentStep \/ Hangup \/ Break PROVE BoundsInv'
<1>1. UNCHANGED <<made, table, sock, polls, bufs, nows>>
  BY DEF AgentStep, AnswerInfo, AnswerNames, BeginAnswer, SendPart, EndAnswer, Hangup, Break,
         AgentRest, agentVars, fetchVars
<1>2. CASE BeginAnswer \/ Hangup
  <2>1. toMonitor' = toMonitor
    BY <1>2 DEF BeginAnswer, Hangup, netVars
  <2> QED  BY <1>1, <2>1 DEF BoundsInv, CallsInv, ThreadsInv, OfThreads
<1>3. CASE Break
  <2>1. PICK q, r : q = toMonitor /\ r = toMonitor' /\ q \in Seq(Messages) /\ r \in Remains(q)
    BY <1>3 DEF Break, IInv, TypeInv
  <2>2. Len(r) <= Len(q) /\ \A k \in 1 .. Len(r) : r[k].kind = q[k].kind /\ r[k].thread = q[k].thread
    BY <2>1, RemainsFacts
  <2>3. Len(q) \in Nat /\ Len(r) \in Nat
    BY <2>1, RemainsFacts
  <2>4. \A k \in 1 .. Len(r) : k \in 1 .. Len(q)
    BY <2>2, <2>3
  <2>5. OfThreads(q) => OfThreads(r)
    BY <2>2, <2>4 DEF OfThreads
  <2> QED  BY <1>1, <2>1, <2>5 DEF BoundsInv, CallsInv, ThreadsInv, OfThreads
<1>4. CASE AnswerInfo \/ AnswerNames \/ SendPart \/ EndAnswer
  <2>1. \/ toMonitor' = toMonitor
        \/ \E m : /\ toMonitor' = SendTo(toMonitor, <<m>>)
                  /\ m.kind \in {"data", "now"} => m.thread \in Threads
    <3>1. CASE AnswerInfo
      <4>1. PICK m : m = Message("info", Junk, <<Told>>)
        OBVIOUS
      <4>2. m.kind = "info" /\ toMonitor' = SendTo(toMonitor, <<m>>)
        BY <3>1, <4>1 DEF AnswerInfo, Message
      <4> QED  BY <4>2
    <3>2. CASE AnswerNames
      <4>1. toMonitor' = toMonitor \/ toMonitor' = SendTo(toMonitor, NameAnswer(Request.body))
        BY <3>2 DEF AnswerNames
      <4>2. PICK m : NameAnswer(Request.body) = <<m>> /\ m.kind \in {"error", "names"}
        <5>1. PICK body : body = [i \in DOMAIN Request.body |->
                                    IF Request.body[i] \in table THEN Request.body[i] ELSE Junk]
          OBVIOUS
        <5>2. PICK e, a : e = Plain("error") /\ a = Message("names", Junk, body)
          OBVIOUS
        <5>3. e.kind = "error" /\ a.kind = "names"
          BY <5>2 DEF Plain, Message
        <5>4. NameAnswer(Request.body) = <<e>> \/ NameAnswer(Request.body) = <<a>>
          BY <5>1, <5>2 DEF NameAnswer
        <5> QED  BY <5>3, <5>4
      <4>3. toMonitor' = toMonitor \/ toMonitor' = SendTo(toMonitor, <<m>>)
        BY <4>1, <4>2
      <4> QED  BY <4>2, <4>3
    <3>3. CASE SendPart
      <4>1. agent.todo # << >> /\ agent.todo \in Seq(Threads \X {"data", "now"})
        BY <3>3 DEF SendPart, IInv, TypeInv
      <4>2. PICK h \in Threads \X {"data", "now"} : h = Head(agent.todo)
        BY <4>1
      <4>3. PICK m : m = Message(h[2], h[1], IF h[2] = "data" THEN front[h[1]] ELSE << >>)
        OBVIOUS
      <4>4. m.thread \in Threads
        BY <4>2, <4>3 DEF Message
      <4>5. toMonitor' = SendTo(toMonitor, <<m>>)
        BY <3>3, <4>2, <4>3 DEF SendPart
      <4> QED  BY <4>4, <4>5
    <3>4. CASE EndAnswer
      <4>1. PICK m : m = Plain("succeed")
        OBVIOUS
      <4>2. m.kind = "succeed" /\ toMonitor' = SendTo(toMonitor, <<m>>)
        BY <3>4, <4>1 DEF EndAnswer, Plain, Message
      <4> QED  BY <4>2
    <3> QED  BY <1>4, <3>1, <3>2, <3>3, <3>4
  <2>2. ThreadsInv'
    <3>1. CASE toMonitor' = toMonitor
      BY <1>1, <3>1 DEF BoundsInv, ThreadsInv, OfThreads
    <3>2. CASE \E m : /\ toMonitor' = SendTo(toMonitor, <<m>>)
                      /\ m.kind \in {"data", "now"} => m.thread \in Threads
      BY <1>1, <3>2, ThreadsSent DEF BoundsInv
    <3> QED  BY <2>1, <3>1, <3>2
  <2> QED  BY <1>1, <2>2 DEF BoundsInv, CallsInv
<1> QED  BY <1>2, <1>3, <1>4 DEF AgentStep

\* Steps of the monitor.
LEMMA MonitorBounds == ASSUME IInv, BoundsInv, MonitorStep PROVE BoundsInv'
<1>1. UNCHANGED <<made, table, polls>>
  BY DEF MonitorStep, Start, InfoArrives, InfoUnreadable, InfoLost, DataArrives, NowInfoArrives, FetchFails,
         FetchEnds, NamesArrive, NamesLost, MonitorRest, agentVars
<1>2. sock' \in {"none", "served", "stray"}
  <2>1. CASE Start
    BY <2>1 DEF Start, ConnectedTo, BoundsInv
  <2>2. CASE ~Start
    <3>1. sock' = sock
      BY <2>2 DEF MonitorStep, InfoArrives, InfoUnreadable, InfoLost, DataArrives, NowInfoArrives, FetchFails,
         FetchEnds, NamesArrive, NamesLost
    <3> QED  BY <3>1 DEF BoundsInv
  <2> QED  BY <2>1, <2>2
<1>3. ThreadsInv'
  <2>1. CASE Start \/ InfoLost \/ FetchFails \/ NamesLost
    <3>1. UNCHANGED <<toMonitor, bufs, nows>>
      BY <2>1 DEF Start, InfoLost, FetchFails, NamesLost, netVars, fetchVars
    <3> QED  BY <3>1 DEF BoundsInv, ThreadsInv, OfThreads
  <2>2. CASE InfoArrives \/ InfoUnreadable \/ DataArrives \/ NowInfoArrives \/ FetchEnds \/ NamesArrive
    <3>1. toMonitor # << >> /\ toMonitor' = Tail(toMonitor)
      BY <2>2 DEF InfoArrives, InfoUnreadable, DataArrives, NowInfoArrives, FetchEnds, NamesArrive, Arrived
    <3>2. DOMAIN bufs' \subseteq DOMAIN bufs \cup (IF Got.kind = "data" THEN {Got.thread} ELSE {})
          /\ nows' \subseteq nows \cup (IF Got.kind = "now" THEN {Got.thread} ELSE {})
      <4>1. CASE InfoArrives \/ InfoUnreadable
        BY <4>1 DEF InfoArrives, InfoUnreadable, fetchVars
      <4>2. CASE DataArrives
        BY <4>2 DEF DataArrives
      <4>3. CASE NowInfoArrives
        BY <4>3 DEF NowInfoArrives
      <4>4. CASE FetchEnds \/ NamesArrive
        <5>1. UNCHANGED <<bufs, nows>> \/ (bufs' = << >> /\ nows' = {})
          BY <4>4 DEF FetchEnds, NamesArrive, StoreAll, fetchVars
        <5> QED  BY <5>1
      <4> QED  BY <2>2, <4>1, <4>2, <4>3, <4>4
    <3> QED  BY <3>1, <3>2, ThreadsRead DEF BoundsInv
  <2> QED  BY <2>1, <2>2 DEF MonitorStep
<1> QED  BY <1>1, <1>2, <1>3 DEF BoundsInv, CallsInv

\* The bounds hold in every state.
LEMMA NextBounds == ASSUME IInv, BoundsInv, [Next]_vars PROVE BoundsInv'
<1>1. ASSUME NEW t \in Threads, NEW n \in Names, Call(t, n) PROVE BoundsInv'
  <2>1. UNCHANGED <<sock, polls, bufs, nows, toMonitor>>
    BY <1>1 DEF Call, netVars, fetchVars
  <2>2. CallsInv'
    BY <1>1, CallBound DEF BoundsInv
  <2> QED  BY <2>1, <2>2 DEF BoundsInv, ThreadsInv, OfThreads
<1>2. CASE Poll
  <2>1. /\ UNCHANGED <<made, table, sock, toMonitor>> /\ bufs' = << >> /\ nows' = {}
        /\ polls < MaxPolls /\ polls' = polls + 1
    BY <1>2 DEF Poll, agentVars
  <2>2. polls' \in 0 .. MaxPolls
    <3>1. MaxPolls \in Nat /\ polls \in 0 .. MaxPolls
      BY SessionConstants DEF BoundsInv
    <3> QED  BY <2>1, <3>1
  <2>3. DOMAIN bufs' = {}
    BY <2>1
  <2>4. CallsInv' /\ ThreadsInv' /\ sock' \in {"none", "served", "stray"}
    BY <2>1, <2>3 DEF BoundsInv, CallsInv, ThreadsInv, OfThreads
  <2> QED  BY <2>2, <2>4 DEF BoundsInv
<1>3. CASE UNCHANGED vars
  BY <1>3 DEF vars, agentVars, netVars, fetchVars, BoundsInv, CallsInv, ThreadsInv, OfThreads
<1> QED  BY <1>1, <1>2, <1>3, AgentBounds, MonitorBounds DEF Next

\* Every variable of both ends keeps its type and its bound.
THEOREM SessionType == Spec => []TypeOK
<1>1. Init => BoundsInv
  <2> SUFFICES ASSUME Init PROVE BoundsInv
    OBVIOUS
  <2>0. MaxCalls \in Nat /\ MaxPolls \in Nat
    BY SessionConstants
  <2>1. CallsInv
    <3>1. made = [x \in Threads \X Names |-> 0] /\ 0 \in 0 .. MaxCalls
      BY <2>0 DEF Init
    <3>2. \A t \in Threads, n \in Names : made[<<t, n>>] = 0
      BY <3>1
    <3>3. made \in [Threads \X Names -> 0 .. MaxCalls]
      BY <3>1
    <3>4. ASSUME NEW t \in Threads, NEW n \in Names PROVE ~(made[t, n] > 0)
      <4>1. PICK k : k = made[t, n]
        OBVIOUS
      <4>2. k = 0
        BY <3>2, <4>1
      <4> QED  BY <4>1, <4>2
    <3> QED  BY <3>3, <3>4 DEF CallsInv
  <2>2. sock \in {"none", "served", "stray"} /\ polls \in 0 .. MaxPolls
    BY <2>0 DEF Init
  <2>3. ThreadsInv
    BY DEF Init, ThreadsInv, OfThreads
  <2> QED  BY <2>1, <2>2, <2>3 DEF BoundsInv
<1>2. IInv /\ BoundsInv /\ [Next]_vars => BoundsInv'
  BY NextBounds
<1>3. ASSUME IInv, BoundsInv PROVE TypeOK
  <2>1. /\ made \in [Threads \X Names -> 0 .. MaxCalls]
        /\ sock \in {"none", "served", "stray"} /\ polls \in 0 .. MaxPolls
        /\ DOMAIN bufs \subseteq Threads /\ nows \subseteq Threads
    BY <1>3 DEF BoundsInv, CallsInv, ThreadsInv
  <2>2. /\ front \in [Threads -> Seq(Names)] /\ table \subseteq Names /\ up \in BOOLEAN
        /\ agent.pc \in {"recv", "send", "gone", "aborted"}
        /\ agent.todo \in Seq(Threads \X {"data", "now"})
        /\ pc \in Pcs /\ query \in Seq(Word) /\ DOMAIN names \subseteq Word
        /\ stored \in [Threads -> [Word -> Nat]]
    BY <1>3 DEF IInv, TypeInv
  <2>3. Range(names) \subseteq Settled \cup {Asking, Junk, Told}
    BY <1>3 DEF IInv, TypeInv, Range, Settled, Word, Memory
  <2> QED  BY <2>1, <2>2, <2>3 DEF TypeOK, Pcs
<1> QED  BY <1>1, <1>2, <1>3, Invariance, PTL DEF Spec
=============================================================================
