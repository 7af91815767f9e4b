------------------------ MODULE MCCapacityDiscovery -------------------------
(* Small instances of CapacityDiscovery for TLC. *)
EXTENDS CapacityDiscovery, TLC

CONSTANTS n1, n2

\* Two nodes that differ in memory.
MCMemory == (n1 :> 1) @@ (n2 :> 2)
=============================================================================
