------------------------------ MODULE MCManager ------------------------------
(* Manager with model values for its identifiers.                          *)
EXTENDS Manager, TLC

LeaseSymmetry == Permutations(Sessions) \cup Permutations(LeaseIds)

=============================================================================
