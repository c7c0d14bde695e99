--------------------------- MODULE MCSingleTree ---------------------------
(* Instances of SingleTree: call trees of three nodes, siblings of the     *)
(* same name and a chain of two names.                                     *)
EXTENDS SingleTree

CONSTANTS foo, bar

Siblings == <<[parent |-> 1, name |-> foo], [parent |-> 1, name |-> foo]>>
Chain    == <<[parent |-> 1, name |-> foo], [parent |-> 2, name |-> bar]>>
ThreeNodes == {Siblings, Chain}

\* Numbers of records are only compared: none has two where none has one.  At
\* most one program has siblings of the same name.
MCInit ==
  /\ Init
  /\ (\E i \in Stores : records[i] = 2) => \E i \in Stores : records[i] = 1
  /\ Cardinality({s \in Sources : shape[s] = Siblings}) <= 1
MCSpec == MCInit /\ [][Next]_vars
=============================================================================
