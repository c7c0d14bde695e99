----------------------------- MODULE MCCallTree -----------------------------
(* CallTree on small instances.                                            *)
EXTENDS CallTree, TLC

\* Name ids are only compared, so they may be permuted.
NameSymmetry == Permutations(Names)
=============================================================================
