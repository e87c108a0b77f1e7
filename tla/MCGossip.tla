------------------------------ MODULE MCGossip ------------------------------
(***************************************************************************)
(* Small instances of Gossip for TLC.                                      *)
(***************************************************************************)
EXTENDS Gossip, TLC

CONSTANTS h1, h2

\* h1's type is registered with shorter times than h2's.
MCBleachTTL == [n \in Host |-> IF n = h1 THEN 0 ELSE 1]
MCUpdateInterval == [n \in Host |-> 1]
MCNeighbour == [n \in Host |-> Host \ {n}]
\* Only h2 discovers its neighbour; a session carries state both ways.
MCOneWay == [n \in Host |-> IF n = h1 THEN {} ELSE {h1}]
MCSyncPeers == {<<h1>>}

DataSymmetry == Permutations(Data)

=============================================================================
