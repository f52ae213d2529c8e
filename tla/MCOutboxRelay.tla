--------------------------- MODULE MCOutboxRelay ---------------------------
(***************************************************************************)
(* Instances of OutboxRelay for TLC.                                       *)
(***************************************************************************)
EXTENDS OutboxRelay, TLC

PoolSymmetry == Permutations(Replicas) \cup Permutations(Workers)

=============================================================================
