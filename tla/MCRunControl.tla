---------------------------- MODULE MCRunControl ----------------------------
(***************************************************************************)
(* RunControl with interchangeable monitor clients, for safety.            *)
(***************************************************************************)
EXTENDS RunControl, TLC

ClientSymmetry == Permutations(Clients)
=============================================================================
