---------------------------- MODULE MCLeaseTable ----------------------------
(* Small instances of LeaseTable for TLC. *)
EXTENDS LeaseTableProofs, TLC

Symmetry == Permutations(Thread) \cup Permutations(LeaseId)
=============================================================================
