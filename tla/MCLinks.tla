------------------------------ MODULE MCLinks ------------------------------
(* The links over directories whose inodes are interchangeable.            *)
EXTENDS Links, TLC

GenSymmetry == Permutations(Gens)
=============================================================================
