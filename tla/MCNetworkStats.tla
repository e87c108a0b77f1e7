--------------------------- MODULE MCNetworkStats ---------------------------
(***************************************************************************)
(* Small instances of NetworkStats for TLC.                                *)
(***************************************************************************)
EXTENDS NetworkStats, TLC

=============================================================================
