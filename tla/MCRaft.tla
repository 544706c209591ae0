------------------------------- MODULE MCRaft -------------------------------
(***************************************************************************)
(* Servers with storage, and servers without it, are interchangeable.      *)
(***************************************************************************)
EXTENDS Raft, TLC

ServerSymmetry == Permutations(Stored) \cup Permutations(Server \ Stored)
=============================================================================
