---------------------------- MODULE MCNpnRecovery ---------------------------
(* Small instances of NpnRecovery for TLC. *)
EXTENDS NpnRecovery
=============================================================================
