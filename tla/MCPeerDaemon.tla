---------------------------- MODULE MCPeerDaemon ----------------------------
(***************************************************************************)
(* Small instances of PeerDaemon for TLC.                                  *)
(***************************************************************************)
EXTENDS PeerDaemon, TLC

CONSTANTS h1, h2

\* Each host discovers the other.
MCCandidates == [h \in Host |-> IF h = h1 THEN <<h2>> ELSE <<h1>>]

\* The hooks that the accept loop of h1 runs synchronize with h1's daemon, and the
\* hooks of the peer loop of h2 may hang or jam.
AcceptCallsBack == {<<"accept", h1>>}
MCStick == {<<"peer", h2>>}

\* The links of a user on h1 and of the daemon of h2 may die.
MCSilent == {<<"cli", h1>>, <<"peer", h2>>}

=============================================================================
