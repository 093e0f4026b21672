---------------------------- MODULE MCFuTransactions ----------------------------
(* fu's write commands on small instances, for TLC. *)
EXTENDS Status, TLC

Symmetry == Permutations(Names) \cup Permutations(Upstream) \cup Permutations(Edits)
================================================================================
