---------------------------- MODULE MCUpdateStmt ----------------------------
(* UpdateStmt with its sessions interchangeable. *)
EXTENDS UpdateStmt, TLC

Symmetry == Permutations(Sessions)
=============================================================================
