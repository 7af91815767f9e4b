------------------------- MODULE MCNodeClassStatus --------------------------
(* Small instances of NodeClassStatus for TLC. *)
EXTENDS NodeClassStatus

\* One required and one optional sub-reconciler, in NewController's order.
MCOrder == <<"Image", "KmsKey">>

MCOneOrder == <<"Image">>
=============================================================================
