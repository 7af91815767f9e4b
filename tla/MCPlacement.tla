----------------------------- MODULE MCPlacement ----------------------------
(* Small instances of Placement for TLC. *)
EXTENDS Placement, TLC

CONSTANTS adA, adB, pA, pB

\* One offering in each of two domains.
MCAdOf == (pA :> adA) @@ (pB :> adB)

\* The domains are alike too, each with its offering.
Symmetry ==
  Permutations(Claims) \cup Permutations(Instances)
  \cup {(adA :> adB) @@ (adB :> adA) @@ (pA :> pB) @@ (pB :> pA)}
=============================================================================
