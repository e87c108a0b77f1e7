--------------------------- MODULE MCAsyncCommand ---------------------------
(***************************************************************************)
(* Small instances of AsyncCommand for TLC.                                *)
(***************************************************************************)
EXTENDS AsyncCommand, TLC

=============================================================================
