----------------------- MODULE MCCapacityReservation ------------------------
(* Small instances of CapacityReservation for TLC. *)
EXTENDS CapacityReservation, TLC

Symmetry == Permutations(Resolvers) \cup Permutations(Launches) \cup Permutations(Usages)
=============================================================================
