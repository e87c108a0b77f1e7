---------------------------- MODULE MCEventLoop ----------------------------
(***************************************************************************)
(* Small instances of EventLoop for TLC.                                   *)
(***************************************************************************)
EXTENDS EventLoop

Symmetry == Permutations(Co) \cup Permutations(FD)

=============================================================================
