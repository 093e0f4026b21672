------------------------------ MODULE MCTxnJournal ------------------------------
(* TxnJournal on two transactions; ids are interchangeable.              *)
EXTENDS TxnJournal, TLC

Symmetry == Permutations(Txns)
================================================================================
