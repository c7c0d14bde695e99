---- MODULE MCThreadStore ----
EXTENDS ThreadStore
AllFields == {"time", "start", "event"}
TimedCall(t, s, e, c) ==
  [val |-> [f \in AllFields |-> CASE f = "time" -> t [] f = "start" -> s [] f = "event" -> e],
   cc |-> c]
Entered  == TimedCall(0, 2, 1, 1)
Left     == TimedCall(1, 0, 0, 0)
Repeated == TimedCall(1, 2, 1, 2)
TwoPayloads == {Entered, Left}
====
