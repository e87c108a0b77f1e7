----------------------------- MODULE PeerDaemon -----------------------------
(***************************************************************************)
(* The accept and the peer loop of the daemons of a network and what they  *)
(* wait for.  The accept loop serves one connection at a time and then     *)
(* runs the hooks of a changed type; the peer loop runs the discovery      *)
(* command, one syncWithPeer after another, and hooks too.  Nothing has a  *)
(* timeout.  (The third loop, bleachDataLoop, waits for its timer only;    *)
(* Fading has it.)                                                         *)
(*                                                                         *)
(* Sockets are opened without CLOEXEC: a child holds the listening socket  *)
(* of its daemon open, and the connection the other loop had at the fork,  *)
(* and goes on to do so when the daemon has closed them or is gone.  A     *)
(* hook may run a command of its own that connects to the local daemon.    *)
(*                                                                         *)
(* A session is one step that ends it at both ends (SyncSession has its    *)
(* inside), pipes are left out (AsyncCommand has them), and of the state   *)
(* only what hooks last saw of it is kept.                                 *)
(***************************************************************************)
EXTENDS Integers, Sequences, FiniteSets

CONSTANTS
    Host,
    Candidates,     \* what the discovery command prints on each host
    Console,        \* the hosts on which a user runs commands
    CallsBack,      \* loops and hosts whose hooks run a command of their own
    MayStick,       \* loops and hosts whose children may hang or jam
    MayFallSilent,  \* clients whose link may die without either end noticing
    Faults,         \* bound: what ends daemons in this instance
    Backlog,        \* DEFAULT_LISTEN_BACKLOG
    None,           \* no host, no client
    Gone,           \* a connection that its client has closed
    Silent          \* a connection whose link is dead

Loop == {"accept", "peer"}

\* The processes that connect to daemons: a daemon's own peer loop, a user's
\* command, and a command that a hook of one of the loops runs.
HookClient(l, h) == IF l = "accept" THEN <<"acceptHook", h>> ELSE <<"peerHook", h>>

Client ==
    ({"peer"} \X Host) \cup ({"cli"} \X Console)
        \cup {HookClient(lh[1], lh[2]) : lh \in CallsBack}

\* A connection that the peer loop of h has closed and a child of h has not.
Kept(h) == <<"kept", h>>

\* What a daemon may find at the other end of a connection.
Party == Client \cup {Kept(h) : h \in Host} \cup {Gone, Silent}

ASSUME ConstAssumption ==
    /\ Candidates \in [Host -> Seq(Host)]
    /\ Console \subseteq Host
    /\ CallsBack \subseteq Loop \X Host
    /\ MayStick \subseteq Loop \X Host
    /\ MayFallSilent \subseteq ({"peer"} \X Host) \cup ({"cli"} \X Console)
    /\ Faults \subseteq {"killed", "accept", "discover"}
    /\ Backlog \in Nat \ {0}
    /\ None \notin Host \cup Party /\ Silent \notin Host
    /\ Gone \notin Client /\ Silent \notin Client

VARIABLES
    alive,     \* per host: whether its daemon runs
    peerLoop,  \* per host: whether its peer loop is in a round
    todo,      \* per host: the addresses the peer loop has still to visit
    backlog,   \* per host: connections not yet accepted
    serving,   \* per host: the connection the accept loop has accepted
    conn,      \* per client: the host it is connected with
    child,     \* per loop and host: its child process, a hook by what it was given
    stuck,     \* per loop and host: what keeps the child from ending
    mayCall,   \* the hooks that may still run their command, of a type's hooks one (a bound)
    kept       \* per loop and host: the client of the connection its child inherited

loops == <<alive, peerLoop, todo>>
net == <<backlog, serving, conn, kept>>
children == <<child, stuck, mayCall>>
vars == <<loops, net, children>>

TypeOK ==
    /\ alive \in [Host -> BOOLEAN]
    /\ peerLoop \in [Host -> {"wait", "sync"}]
    /\ todo \in [Host -> Seq(Host)]
    /\ backlog \in [Host -> Seq(Party)]
    /\ \A h \in Host : Len(backlog[h]) <= Backlog
    /\ serving \in [Host -> Party \cup {None}]
    /\ conn \in [Client -> Host \cup {None, Silent}]
    /\ child \in [Loop \X Host -> {"none", "discover", "current", "old"}]
    /\ stuck \in [Loop \X Host -> {"no", "jammed", "hung"}]
    /\ mayCall \subseteq CallsBack
    /\ kept \in [Loop \X Host -> Client \cup {None}]

Init ==
    /\ alive = [h \in Host |-> TRUE]
    /\ peerLoop = [h \in Host |-> "wait"]
    /\ todo = [h \in Host |-> <<>>]
    /\ backlog = [h \in Host |-> <<>>]
    /\ serving = [h \in Host |-> None]
    /\ conn = [c \in Client |-> None]
    /\ child = [lh \in Loop \X Host |-> "none"]
    /\ stuck = [lh \in Loop \X Host |-> "no"]
    /\ mayCall = {}
    /\ kept = [lh \in Loop \X Host |-> None]

HasChild(h) == \E l \in Loop : child[<<l, h>>] # "none"

-----------------------------------------------------------------------------
(***************************************************************************)
(* Connections.                                                            *)
(***************************************************************************)

\* Mutant: listen is given no limit.
AcceptingAny(s) == alive[s] \/ HasChild(s)

\* There is a listening socket, if only in a child, and room in its queue.
Accepting(s) == (alive[s] \/ HasChild(s)) /\ Len(backlog[s]) < Backlog

\* Client c connects to s, and fails if it finds no listener there, or no room.
ConnectTo(c, s) ==
    IF Accepting(s)
    THEN /\ conn' = [conn EXCEPT ![c] = s]
         /\ backlog' = [backlog EXCEPT ![s] = Append(@, c)]
    ELSE UNCHANGED <<conn, backlog>>

\* A user's command connects to the local daemon.
CliConnects(h) ==
    LET c == <<"cli", h>>
    IN  /\ conn[c] = None
        /\ Accepting(h)
        /\ ConnectTo(c, h)
        /\ UNCHANGED <<loops, serving, kept, children>>

\* c is in the queue of the listening socket of s.
Queued(c, s) == \E i \in DOMAIN backlog[s] : backlog[s][i] = c

\* What servers find where c was, now that it has become x.
Waiting(c, x) ==
    [s \in Host |-> [i \in DOMAIN backlog[s] |-> IF backlog[s][i] = c THEN x ELSE backlog[s][i]]]
Served(c, x) == [s \in Host |-> IF serving[s] = c THEN x ELSE serving[s]]

\* What children have inherited once the connection of c is over.
KeptWithout(c) == [lh \in Loop \X Host |-> IF kept[lh] = c THEN None ELSE kept[lh]]

\* What c leaves at the other end when it closes its connection.
Remains(c) == IF c[1] = "peer" /\ kept[<<"accept", c[2]>>] = c THEN Kept(c[2]) ELSE Gone

\* A client gives up: an error, or its process dies.
ClientFails(c) ==
    /\ conn[c] # None
    /\ conn' = [conn EXCEPT ![c] = None]
    /\ backlog' = Waiting(c, Remains(c))
    /\ serving' = Served(c, Remains(c))
    /\ kept' = KeptWithout(c)
    /\ UNCHANGED <<loops, children>>

\* Whoever had the other end of the connection open has closed it, or is gone.
ClientReset(c) ==
    LET s == conn[c]
    IN  /\ s \in Host
        /\ serving[s] # c
        /\ ~Queued(c, s)
        /\ kept[<<"peer", s>>] # c
        /\ conn' = [conn EXCEPT ![c] = None]
        /\ kept' = KeptWithout(c)
        /\ UNCHANGED <<loops, backlog, serving, children>>

\* The link dies without a word to either end.
FallsSilent(c) ==
    /\ conn[c] \in Host
    /\ conn' = [conn EXCEPT ![c] = Silent]
    /\ backlog' = Waiting(c, Silent)
    /\ serving' = Served(c, Silent)
    /\ kept' = KeptWithout(c)
    /\ UNCHANGED <<loops, children>>

-----------------------------------------------------------------------------
(***************************************************************************)
(* The end of a daemon's process, and a new one.                           *)
(***************************************************************************)

\* The sockets of h's daemon are closed, the listening one, with the connections
\* in its queue, only if no child has it open.
EndDaemon(h, why) ==
    LET c == <<"peer", h>>
    IN  /\ why \in Faults
        /\ alive' = [alive EXCEPT ![h] = FALSE]
        /\ peerLoop' = [peerLoop EXCEPT ![h] = "wait"]
        /\ todo' = [todo EXCEPT ![h] = <<>>]
        /\ conn' = [conn EXCEPT ![c] = None]
        /\ backlog' = IF HasChild(h)' THEN Waiting(c, Remains(c))
                      ELSE [Waiting(c, Remains(c)) EXCEPT ![h] = <<>>]
        /\ serving' = [Served(c, Remains(c)) EXCEPT ![h] = None]
        /\ kept' = [lh \in Loop \X Host |->
                      IF child'[lh] = "none" THEN None ELSE KeptWithout(c)[lh]]

DaemonKilled(h) == alive[h] /\ UNCHANGED children /\ EndDaemon(h, "killed")

\* bind fails as long as a child of an earlier daemon has the port.
DaemonStarts(h) ==
    /\ ~alive[h]
    /\ ~HasChild(h)
    /\ alive' = [alive EXCEPT ![h] = TRUE]
    /\ UNCHANGED <<peerLoop, todo, net, children>>

-----------------------------------------------------------------------------
(***************************************************************************)
(* Child processes.                                                        *)
(***************************************************************************)

\* The connections that children of the loops of N inherit, those of the other
\* loop, where conns and served are what clients and accept loops have open.
Inherited(N, conns, served) ==
    [lh \in Loop \X Host |->
        CASE lh \notin N -> kept[lh]
          [] lh \in N /\ lh[1] = "accept" ->
                IF conns[<<"peer", lh[2]>>] \in Host THEN <<"peer", lh[2]>> ELSE None
          [] OTHER -> IF served[lh[2]] \in Client THEN served[lh[2]] ELSE None]

\* The child of loop l ends, and with it its hold on what it inherited; the last
\* child of a dead daemon takes the listening socket along.
ChildGone(l, h) ==
    /\ child' = [child EXCEPT ![<<l, h>>] = "none"]
    /\ stuck' = [stuck EXCEPT ![<<l, h>>] = "no"]
    /\ mayCall' = mayCall \ {<<l, h>>}
    /\ kept' = [kept EXCEPT ![<<l, h>>] = None]
    /\ serving' = IF l = "accept" THEN Served(Kept(h), Gone) ELSE serving
    /\ LET waiting == IF l = "accept" THEN Waiting(Kept(h), Gone) ELSE backlog
       IN  backlog' = IF alive[h] \/ HasChild(h)' THEN waiting
                      ELSE [waiting EXCEPT ![h] = <<>>]
    /\ UNCHANGED <<loops, conn>>

\* Nothing that the child has called is connected.
NoCall(l, h) == <<l, h>> \in CallsBack => conn[HookClient(l, h)] = None

\* Mutant: the child keeps the parent's ends of its own pipes, and with a reader of
\* its output left it stays jammed when the daemon is gone.
ChildEndsHeld(l, h) ==
    /\ child[<<l, h>>] # "none"
    /\ NoCall(l, h)
    /\ stuck[<<l, h>>] = "no"
    /\ ChildGone(l, h)

\* A child ends that is not stuck, or whose output has lost its reader.
ChildEnds(l, h) ==
    /\ child[<<l, h>>] # "none"
    /\ NoCall(l, h)
    /\ stuck[<<l, h>>] = "no" \/ (stuck[<<l, h>>] = "jammed" /\ ~alive[h])
    /\ ChildGone(l, h)

\* The hooks of a type are run one after another, with the same data.
NextHook(l, h) ==
    /\ alive[h]
    /\ child[<<l, h>>] \in {"current", "old"}
    /\ NoCall(l, h)
    /\ stuck[<<l, h>>] = "no"
    /\ kept' = Inherited({<<l, h>>}, conn, serving)
    /\ serving' = IF l = "accept" THEN Served(Kept(h), Gone) ELSE serving
    /\ backlog' = IF l = "accept" THEN Waiting(Kept(h), Gone) ELSE backlog
    /\ UNCHANGED <<loops, conn, children>>

\* A child hangs, or a hook has filled the pipe of its output, which nobody reads.
ChildSticks(l, h, how) ==
    /\ child[<<l, h>>] # "none"
    /\ how = "jammed" => child[<<l, h>>] # "discover" /\ alive[h]
    /\ stuck[<<l, h>>] = "no"
    /\ stuck' = [stuck EXCEPT ![<<l, h>>] = how]
    /\ UNCHANGED <<loops, net, child, mayCall>>

\* A hook runs a command that synchronizes with the local daemon.
HookCallsBack(l, h) ==
    LET c == HookClient(l, h)
    IN  /\ <<l, h>> \in mayCall
        /\ conn[c] = None
        /\ Accepting(h)
        /\ ConnectTo(c, h)
        /\ mayCall' = mayCall \ {<<l, h>>}
        /\ UNCHANGED <<loops, serving, kept, child, stuck>>

-----------------------------------------------------------------------------
(***************************************************************************)
(* The accept loop.                                                        *)
(***************************************************************************)

CanAccept(s) ==
    /\ alive[s]
    /\ serving[s] = None
    /\ child[<<"accept", s>>] = "none"
    /\ backlog[s] # <<>>

Accept(s) ==
    /\ CanAccept(s)
    /\ serving' = [serving EXCEPT ![s] = Head(backlog[s])]
    /\ backlog' = [backlog EXCEPT ![s] = Tail(@)]
    /\ UNCHANGED <<loops, conn, kept, children>>

\* accept fails for a connection, or for want of descriptors.  Its operation has
\* no errbub, and that ends the process.
AcceptFails(s) == CanAccept(s) /\ UNCHANGED children /\ EndDaemon(s, "accept")

\* What the hooks of the hosts H were given has become old.
Outdated(H) ==
    [lh \in Loop \X Host |->
        IF lh[2] \in H /\ child[lh] = "current" THEN "old" ELSE child[lh]]

\* Mutant: recv takes the end of the stream for a reason to try again.
SessionBreaksNever(s) ==
    /\ serving[s] # None
    /\ UNCHANGED vars

\* handleReqSyncConnection finds the connection closed or broken: before its merge
\* or after it, when the state has changed and no hook is called.  No matter what
\* it returns, the accept loop goes on.
SessionBreaks(s) ==
    /\ serving[s] # None
    /\ serving' = [serving EXCEPT ![s] = None]
    /\ child' \in {child, Outdated({s})}
    /\ UNCHANGED <<loops, backlog, conn, kept, stuck, mayCall>>

\* The hooks that notifyHooks starts for the loops of N, with the state as it is
\* now; what other hooks of those hosts were given has become old.
Notified(N) ==
    [lh \in Loop \X Host |->
        IF lh \in N THEN "current" ELSE Outdated({n[2] : n \in N})[lh]]

\* A session ends well.  The server and, if the client is a daemon, the client
\* may each have merged a significant change, and then run their hooks.
SessionEnds(s, serverChanged, clientChanged) ==
    LET c == serving[s]
        N == (IF serverChanged THEN {<<"accept", s>>} ELSE {}) \cup
             (IF clientChanged /\ c[1] = "peer" THEN {<<"peer", c[2]>>} ELSE {})
    IN  /\ c \in Client /\ conn[c] = s
        /\ conn' = [conn EXCEPT ![c] = None]
        /\ serving' = [serving EXCEPT ![s] = None]
        /\ child' = Notified(N)
        /\ mayCall' = mayCall \cup (N \cap CallsBack)
        /\ LET inherited == Inherited(N, conn', serving')
           IN  kept' = [lh \in Loop \X Host |->
                          IF inherited[lh] = c THEN None ELSE inherited[lh]]
        /\ UNCHANGED <<loops, backlog, stuck>>

-----------------------------------------------------------------------------
(***************************************************************************)
(* The peer loop.                                                          *)
(***************************************************************************)

\* The timer fires, some type is to be synchronized now, and the discovery command
\* is started, which will print the addresses to visit.
RoundBegins(h) ==
    /\ alive[h]
    /\ peerLoop[h] = "wait"
    /\ peerLoop' = [peerLoop EXCEPT ![h] = "sync"]
    /\ todo' = [todo EXCEPT ![h] = Candidates[h]]
    /\ child' = [child EXCEPT ![<<"peer", h>>] = "discover"]
    /\ kept' = Inherited({<<"peer", h>>}, conn, serving)
    /\ UNCHANGED <<alive, backlog, serving, conn, stuck, mayCall>>

\* The discovery command has ended, a line of its output is no address, and the
\* caller gave no errbub.
DiscoverBadLine(h) ==
    /\ alive[h]
    /\ child[<<"peer", h>>] = "discover"
    /\ stuck[<<"peer", h>>] = "no"
    /\ child' = [child EXCEPT ![<<"peer", h>>] = "none"]
    /\ UNCHANGED <<stuck, mayCall>>
    /\ EndDaemon(h, "discover")

\* The peer loop is neither in a session nor awaiting a child.
PeerLoopFree(h) ==
    /\ peerLoop[h] = "sync"
    /\ conn[<<"peer", h>>] = None
    /\ child[<<"peer", h>>] = "none"

\* Mutant: an address that cannot be reached is tried again.
SyncNextAgain(h) ==
    /\ PeerLoopFree(h)
    /\ todo[h] # <<>>
    /\ ConnectTo(<<"peer", h>>, Head(todo[h]))
    /\ todo' = [todo EXCEPT ![h] = IF Accepting(Head(@)) THEN Tail(@) ELSE @]
    /\ UNCHANGED <<alive, peerLoop, serving, kept, children>>

\* syncWithPeer is called for the next address; if it cannot connect it fails,
\* and the loop goes on.
SyncNext(h) ==
    /\ PeerLoopFree(h)
    /\ todo[h] # <<>>
    /\ ConnectTo(<<"peer", h>>, Head(todo[h]))
    /\ todo' = [todo EXCEPT ![h] = Tail(@)]
    /\ UNCHANGED <<alive, peerLoop, serving, kept, children>>

RoundEnds(h) ==
    /\ PeerLoopFree(h)
    /\ todo[h] = <<>>
    /\ peerLoop' = [peerLoop EXCEPT ![h] = "wait"]
    /\ UNCHANGED <<alive, todo, net, children>>

-----------------------------------------------------------------------------
AcceptLoop(h) ==
    \/ Accept(h)
    \/ serving[h] = Gone /\ SessionBreaks(h)
    \/ \E serverChanged, clientChanged \in BOOLEAN :
          SessionEnds(h, serverChanged, clientChanged)

PeerLoop(h) == SyncNext(h) \/ RoundEnds(h)

Failure(h) ==
    \/ AcceptFails(h)
    \/ SessionBreaks(h)
    \/ DiscoverBadLine(h)
    \/ DaemonKilled(h)

HostStep(h) ==
    \/ AcceptLoop(h)
    \/ PeerLoop(h)
    \/ RoundBegins(h)
    \/ \E l \in Loop : ChildEnds(l, h) \/ NextHook(l, h)
    \/ Failure(h)
    \/ DaemonStarts(h)

Next ==
    \/ \E h \in Host : HostStep(h)
    \/ \E h \in Console : CliConnects(h)
    \/ \E lh \in CallsBack : HookCallsBack(lh[1], lh[2])
    \/ \E lh \in MayStick, how \in {"jammed", "hung"} : ChildSticks(lh[1], lh[2], how)
    \/ \E c \in Client : ClientFails(c) \/ ClientReset(c)
    \/ \E c \in MayFallSilent : FallsSilent(c)

\* The event loop resumes whoever can go on; a session between two ends that go
\* on ends (SyncSession, SessionEnds), and so does a child that is not stuck and
\* waits for nobody (AsyncCommand, CommandsEnd).
Fairness ==
    /\ \A h \in Host : WF_vars(AcceptLoop(h)) /\ WF_vars(PeerLoop(h))
    /\ \A l \in Loop, h \in Host : WF_vars(ChildEnds(l, h))
    /\ \A c \in Client : WF_vars(ClientReset(c))

Spec == Init /\ [][Next]_vars /\ Fairness

-----------------------------------------------------------------------------
(***************************************************************************)
(* Properties.                                                             *)
(***************************************************************************)

\* The child of a loop never ends by itself: it hangs, it is jammed with the daemon
\* there, or it waits for a command that waits in a queue nobody will take it from:
\* that of the loop which awaits this hook, or of a listener the hook has open.
ChildStuck(l, h) ==
    /\ child[<<l, h>>] # "none"
    /\ \/ stuck[<<l, h>>] = "hung"
       \/ stuck[<<l, h>>] = "jammed" /\ alive[h]
       \/ /\ <<l, h>> \in CallsBack
          /\ Queued(HookClient(l, h), h)
          /\ l = "accept" \/ ~alive[h]

\* The ways in which an accept loop waits forever: for a client whose link died, for
\* its own stuck hook, and for the end of a connection that a stuck hook of the
\* client's daemon has inherited.
Wedged(s) ==
    \/ serving[s] = Silent
    \/ ChildStuck("accept", s)
    \/ \E g \in Host : serving[s] = Kept(g) /\ ChildStuck("accept", g)

\* A stuck child, or one whose command waits for a wedged loop.
WaitsForever(l, h) ==
    \/ ChildStuck(l, h)
    \/ <<l, h>> \in CallsBack /\ conn[HookClient(l, h)] = h /\ Wedged(h)

\* Client c is neither served nor told: its accept loop is wedged, or the daemon is
\* dead and a stuck child has the listener, or its connection, open.
Stranded(c) ==
    \E s \in Host :
        /\ conn[c] = s
        /\ \/ Wedged(s)
           \/ ~alive[s] /\ \E l \in Loop : WaitsForever(l, s)
           \/ kept[<<"peer", s>>] = c /\ WaitsForever("peer", s)

\* Every client that connects is served, or told that it is not, whatever the
\* loops of all daemons wait for and whichever daemon ends, unless its own link
\* died or it is stranded (acceptReqSyncConnectionsLoop, handleReqSyncConnection).
ClientsServed ==
    \A c \in Client : conn[c] # None ~> conn[c] \in {None, Silent} \/ Stranded(c)

\* No failure of a session, of a peer or of a daemon stops the rounds of the peer
\* loop: it gets back to its timer unless its link died, it is stranded, or its
\* child is stuck (SharedStateCli::peer).
RoundsEnd ==
    \A h \in Host : peerLoop[h] # "wait" ~>
        \/ peerLoop[h] = "wait"
        \/ conn[<<"peer", h>>] = Silent
        \/ Stranded(<<"peer", h>>)
        \/ WaitsForever("peer", h)

\* A daemon that ended can be started again once its children have ended, which
\* those do that are not stuck, or waiting for the port they keep (setupListener).
RestartPossible ==
    \A h \in Host : ~alive[h] ~>
        alive[h] \/ ~HasChild(h) \/ \E l \in Loop : ChildStuck(l, h)

\* A hook gets "the whole type's state" (protocol-spec-DRAFT.md, 6.4), and changes
\* fire hooks: when one ends that was given a state that has changed since, one
\* that was given the new state has still to end, so that what the last one leaves
\* behind is current (handleReqSyncConnection, notifyHooks).
HooksEndUpCurrent ==
    [][\A l \in Loop, h \in Host :
          child[<<l, h>>] = "old" /\ child'[<<l, h>>] = "none" =>
              \/ ~alive'[h]
              \/ \E m \in Loop : child'[<<m, h>>] = "current"]_vars

=============================================================================
