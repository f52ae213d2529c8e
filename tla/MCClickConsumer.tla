--------------------------- MODULE MCClickConsumer ---------------------------
(***************************************************************************)
(* Instances of ClickConsumer for TLC.                                     *)
(***************************************************************************)
EXTENDS ClickConsumer, TLC

ReplicaSymmetry == Permutations(Consumers) \cup Permutations(Valid \ Repeated)

=============================================================================
