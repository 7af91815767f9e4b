-------------------------- MODULE MCGetOrLoadCache --------------------------
(* Small instances of GetOrLoadCache for TLC. *)
EXTENDS GetOrLoadCache
=============================================================================
