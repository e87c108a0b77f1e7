------------------------------ MODULE MCFading ------------------------------
(***************************************************************************)
(* Small instances of Fading for TLC.                                      *)
(***************************************************************************)
EXTENDS Fading, TLC

CONSTANTS h1, h2, h3

\* Every host discovers all others.
MCNeighbour == [n \in Host |-> Host \ {n}]

=============================================================================
