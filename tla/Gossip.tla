------------------------------- MODULE Gossip -------------------------------
(***************************************************************************)
(* The replication protocol of one data type between the daemons ("peer")  *)
(* of a network and the command line processes of its users.               *)
(*                                                                         *)
(* Every host runs one daemon.  Its accept loop serves one connection at a *)
(* time (acceptReqSyncConnectionsLoop awaits handleReqSyncConnection), its *)
(* peer loop runs one syncWithPeer at a time, its bleach loop ages the     *)
(* state.  A user may run one command per host at a time: a process with a *)
(* state of its own that exchanges slices with daemons by syncWithPeer.    *)
(* A session carries the client's slice to the server, which merges it and *)
(* answers with its merged state, which the client merges.  Either end may *)
(* fail at any point; the other may already have the slice and apply it    *)
(* later, when its state, or the process that sent the slice, has moved on.*)
(***************************************************************************)
EXTENDS StateMerge, Sequences

CONSTANTS
    mBleachTTL,       \* per host, from the registered type configuration
    mUpdateInterval,  \* per host, from the registered type configuration
    Neighbour,        \* what shared-state-async-discover prints on a host
    SyncPeers,        \* address lists the command "sync" is given
    Console,          \* bound: the hosts on which a user runs commands
    MaxBleach,        \* bound: the longest delay one bleach accounts for
    None              \* no host, no client, no slice

ASSUME ConfAssumption ==
    /\ mBleachTTL \in [Host -> Nat]
    /\ mUpdateInterval \in [Host -> Nat]

ASSUME NeighbourAssumption ==
    /\ Neighbour \in [Host -> SUBSET Host]
    /\ \A n \in Host : n \notin Neighbour[n]
    /\ SyncPeers \subseteq Seq(Host)
    /\ Console \subseteq Host

ASSUME MaxBleachAssumption == MaxBleach \in Nat \ {0}

\* The two processes of a host that run syncWithPeer.
Client == {"peer", "cli"} \X Host

ASSUME NoneAssumption == None \notin Host \cup Client \cup State

VARIABLES
    mStates,    \* the state each daemon holds
    command,    \* the command line process of each host, if one runs
    syncing,    \* per client: the daemon it talks to, the reply it received
    accepting,  \* per daemon: the client it serves, the request not yet merged
    published   \* history: who inserted what, never read by the protocol

vars == <<mStates, command, syncing, accepting, published>>

Command == [op : {"none", "insert", "dump", "sync"},
            todo : Seq(Host),       \* daemons still to be synchronized with
            mState : State]         \* the process' own mStates[typeName]

NoCommand == [op |-> "none", todo |-> <<>>, mState |-> EmptyState]

NotSyncing == [server |-> None, reply |-> None]

NotServing == [client |-> None, request |-> None]

TypeOK ==
    /\ mStates \in [Host -> State]
    /\ command \in [Host -> Command]
    /\ syncing \in [Client -> [server : Host \cup {None},
                               reply : State \cup {None}]]
    /\ accepting \in [Host -> [client : Client \cup {None},
                               request : State \cup {None}]]
    /\ published \subseteq Host \X StateKey \X Data

Init ==
    /\ mStates = [n \in Host |-> EmptyState]
    /\ command = [n \in Host |-> NoCommand]
    /\ syncing = [c \in Client |-> NotSyncing]
    /\ accepting = [n \in Host |-> NotServing]
    /\ published = {}

-----------------------------------------------------------------------------
(***************************************************************************)
(* Commands.  Each starts a process with an empty state.                   *)
(***************************************************************************)

\* Mutant: the margin is taken off the time to live.
InsertTtlShortened(n) == mBleachTTL[n] - mUpdateInterval[n] - 1

\* The TTL "insert" gives to an entry.
InsertTtl(n) == mBleachTTL[n] + mUpdateInterval[n] + 1

\* SharedStateCli::insert puts the members of the JSON object it reads into its
\* state as entries of this host, then synchronizes with the local daemon.
Insert(n, new) ==
    /\ command[n] = NoCommand
    /\ command' = [command EXCEPT ![n] =
          [op     |-> "insert",
           todo   |-> <<n>>,
           mState |-> [k \in StateKey |->
                         IF k \in DOMAIN new
                         THEN [mAuthor |-> n, mTtl |-> InsertTtl(n), mData |-> new[k]]
                         ELSE Absent]]]
    /\ published' = published \cup {<<n, k, new[k]>> : k \in DOMAIN new}
    /\ UNCHANGED <<mStates, syncing, accepting>>

\* SharedStateCli::dump and get synchronize an empty state with the local daemon
\* and print what they hold afterwards.
Dump(n) ==
    /\ command[n] = NoCommand
    /\ command' = [command EXCEPT ![n] =
          [op |-> "dump", todo |-> <<n>>, mState |-> EmptyState]]
    /\ UNCHANGED <<mStates, syncing, accepting, published>>

\* SharedStateCli::sync fetches the local state, visits the peers, and brings
\* what it collected back to the local daemon.
Sync(n, peers) ==
    /\ command[n] = NoCommand
    /\ command' = [command EXCEPT ![n] =
          [op     |-> "sync",
           todo   |-> <<n>> \o peers \o <<n>>,
           mState |-> EmptyState]]
    /\ UNCHANGED <<mStates, syncing, accepting, published>>

-----------------------------------------------------------------------------
(***************************************************************************)
(* A session, seen from both ends.                                         *)
(***************************************************************************)

\* peerAddr is not a loopback address: only a command reaches its own host.
IsRemote(c, s) == c[2] # s

ClientState(c) == IF c[1] = "peer" THEN mStates[c[2]] ELSE command[c[2]].mState

\* The daemons syncWithPeer may be called for next: the peer loop tries its
\* neighbours, a command the next address of its list.
Targets(c) ==
    IF c[1] = "peer" THEN Neighbour[c[2]]
    ELSE IF command[c[2]].todo = <<>> THEN {} ELSE {Head(command[c[2]].todo)}

\* Mutant: the daemon's client sends a state of its own, as a command does.
ConnectFresh(c, s) ==
    /\ s \in Targets(c)
    /\ syncing[c] = NotSyncing
    /\ accepting[s] = NotServing
    /\ syncing' = [syncing EXCEPT ![c] = [server |-> s, reply |-> None]]
    /\ accepting' = [accepting EXCEPT ![s] = [client |-> c, request |-> command[c[2]].mState]]
    /\ UNCHANGED <<mStates, command, published>>

\* connect and handshake succeed, which needs the accept loop of s to be free,
\* and the client's slice, serialized after the handshake, is on its way.
Connect(c, s) ==
    /\ s \in Targets(c)
    /\ syncing[c] = NotSyncing
    /\ accepting[s] = NotServing
    /\ syncing' = [syncing EXCEPT ![c] = [server |-> s, reply |-> None]]
    /\ accepting' = [accepting EXCEPT ![s] =
                        [client |-> c, request |-> ClientState(c)]]
    /\ UNCHANGED <<mStates, command, published>>

\* Mutant: the reply is the state as it was before merging the request.
HandleReqSyncConnectionReplyOld(s) ==
    LET c == accepting[s].client
        merged == merge(mStates[s], accepting[s].request, IsRemote(c, s), s)
    IN  /\ accepting[s].request # None
        /\ mStates' = [mStates EXCEPT ![s] = merged]
        /\ IF syncing[c].server = s
           THEN /\ syncing' = [syncing EXCEPT ![c].reply = mStates[s]]
                /\ accepting' = [accepting EXCEPT ![s].request = None]
           ELSE /\ accepting' = [accepting EXCEPT ![s] = NotServing]
                /\ UNCHANGED syncing
        /\ UNCHANGED <<command, published>>

\* handleReqSyncConnection merges the request and serializes the reply without
\* suspending in between.  When the client is gone sending the reply fails.
HandleReqSyncConnection(s) ==
    LET c == accepting[s].client
        merged == merge(mStates[s], accepting[s].request, IsRemote(c, s), s)
    IN  /\ accepting[s].request # None
        /\ mStates' = [mStates EXCEPT ![s] = merged]
        /\ IF syncing[c].server = s
           THEN /\ syncing' = [syncing EXCEPT ![c].reply = merged]
                /\ accepting' = [accepting EXCEPT ![s].request = None]
           ELSE /\ accepting' = [accepting EXCEPT ![s] = NotServing]
                /\ UNCHANGED syncing
        /\ UNCHANGED <<command, published>>

\* A client that acknowledges the reply lets the server close the connection.
ReleaseServer(c) ==
    accepting' = [s \in Host |->
        IF s = syncing[c].server /\ accepting[s].client = c
        THEN NotServing ELSE accepting[s]]

\* The address list of a command after it is done with the first, and the
\* process' exit once the list is exhausted.
NextCommand(cmd, mState) ==
    IF Len(cmd.todo) <= 1 THEN NoCommand
    ELSE [cmd EXCEPT !.todo = Tail(@), !.mState = mState]

\* The rest of syncWithPeer in the daemon's peer loop.
PeerMergeReply(n) ==
    LET c == <<"peer", n>>
        s == syncing[c].server
    IN  /\ syncing[c].reply # None
        /\ mStates' = [mStates EXCEPT ![n] =
                          merge(@, syncing[c].reply, IsRemote(c, s), n)]
        /\ syncing' = [syncing EXCEPT ![c] = NotSyncing]
        /\ ReleaseServer(c)
        /\ UNCHANGED <<command, published>>

\* The rest of syncWithPeer in a command.
CommandMergeReply(n) ==
    LET c == <<"cli", n>>
        s == syncing[c].server
        merged == merge(command[n].mState, syncing[c].reply, IsRemote(c, s), n)
    IN  /\ syncing[c].reply # None
        /\ command' = [command EXCEPT ![n] = NextCommand(@, merged)]
        /\ syncing' = [syncing EXCEPT ![c] = NotSyncing]
        /\ ReleaseServer(c)
        /\ UNCHANGED <<mStates, published>>

\* syncWithPeer fails in the peer loop, which goes on with the next address.
PeerSyncFails(n) ==
    /\ syncing[<<"peer", n>>] # NotSyncing
    /\ syncing' = [syncing EXCEPT ![<<"peer", n>>] = NotSyncing]
    /\ UNCHANGED <<mStates, command, accepting, published>>

\* syncWithPeer fails in a command, before or after connecting.  "sync" goes on
\* with its list; the others pass no errbub, so that the failure ends them.
CommandSyncFails(n) ==
    /\ command[n] # NoCommand
    /\ syncing' = [syncing EXCEPT ![<<"cli", n>>] = NotSyncing]
    /\ command' = [command EXCEPT ![n] = NextCommand(@, @.mState)]
    /\ UNCHANGED <<mStates, accepting, published>>

\* The server end of a session fails, at any point of it.
HandleReqSyncConnectionFails(s) ==
    /\ accepting[s] # NotServing
    /\ accepting' = [accepting EXCEPT ![s] = NotServing]
    /\ UNCHANGED <<mStates, command, syncing, published>>

-----------------------------------------------------------------------------
\* One iteration of bleachDataLoop, times seconds after the one before.
Bleach(n, times) ==
    /\ mStates' = [mStates EXCEPT ![n] = bleach(@, times)]
    /\ UNCHANGED <<command, syncing, accepting, published>>

\* The daemon dies and is started again: its state lived in memory only.
Restart(n) ==
    /\ mStates' = [mStates EXCEPT ![n] = EmptyState]
    /\ syncing' = [syncing EXCEPT ![<<"peer", n>>] = NotSyncing]
    /\ accepting' = [accepting EXCEPT ![n] = NotServing]
    /\ UNCHANGED <<command, published>>

\* The JSON objects "insert" may read: any keys, with any data.
JsonInput == UNION {[K -> Data] : K \in SUBSET StateKey}

StartCommand(n) ==
    \/ \E new \in JsonInput : Insert(n, new)
    \/ Dump(n)
    \/ \E peers \in SyncPeers : Sync(n, peers)

HostStep(n) ==
    \/ HandleReqSyncConnection(n)
    \/ HandleReqSyncConnectionFails(n)
    \/ PeerMergeReply(n)
    \/ PeerSyncFails(n)
    \/ CommandMergeReply(n)
    \/ CommandSyncFails(n)
    \/ \E times \in 1..MaxBleach : Bleach(n, times)
    \/ Restart(n)

Next ==
    \/ \E n \in Console : StartCommand(n)
    \/ \E n \in Host : HostStep(n)
    \/ \E c \in Client, s \in Host : Connect(c, s)

Spec == Init /\ [][Next]_vars

\* Both ends of a session go on, or notice that the other is gone; a daemon that
\* keeps trying a neighbour is connected again and again (the listener's backlog
\* is served in order), and not every one of its sessions fails.
ServerGoesOn(s) ==
    \/ HandleReqSyncConnection(s)
    \/ /\ accepting[s].client # None /\ syncing[accepting[s].client].server # s
       /\ HandleReqSyncConnectionFails(s)

HandleReqOf(c, s) == accepting[s].client = c /\ HandleReqSyncConnection(s)

Fairness ==
    /\ \A n \in Host :
          /\ WF_vars(ServerGoesOn(n))
          /\ WF_vars(PeerMergeReply(n) \/ PeerSyncFails(n))
          /\ WF_vars(CommandMergeReply(n) \/ CommandSyncFails(n))
    /\ \A n \in Host : \A s \in Neighbour[n] :
          SF_vars(Connect(<<"peer", n>>, s)) /\ SF_vars(HandleReqOf(<<"peer", n>>, s))

FairSpec == Spec /\ Fairness

-----------------------------------------------------------------------------
(***************************************************************************)
(* Properties.                                                             *)
(***************************************************************************)

\* Every slice that exists anywhere: held, in flight or waiting to be merged.
Slices ==
    ({mStates[n] : n \in Host} \cup {command[n].mState : n \in Host}
        \cup {syncing[c].reply : c \in Client}
        \cup {accepting[n].request : n \in Host}) \ {None}

\* However merges, echoes, stale slices and restarts interleave, no copy of an
\* entry lives longer than its author allowed and none is kept with its time
\* used up: every TTL in every state and every slice lies between 1 and the TTL
\* its author's "insert" gives (shared_state_cli.cc, insert; bleach; merge).
TtlWithinInsertTtl ==
    \A slice \in Slices : \A k \in Known(slice) :
        slice[k].mTtl \in 1 .. InsertTtl(slice[k].mAuthor)

\* merge replaces entries as a whole: author, key and data of an entry, wherever
\* it is found, were inserted together by a command on the author's host.
Provenance ==
    \A slice \in Slices : \A k \in Known(slice) :
        <<slice[k].mAuthor, k, slice[k].mData>> \in published

\* When the reply to an "insert" arrives, the daemon had taken every entry of it,
\* or held one with a TTL above the one insert gives, which only another author
\* whose type is registered with longer times can have produced.
InsertConfirmed ==
    \A n \in Host :
        LET inserted == command[n].mState
            reply == syncing[<<"cli", n>>].reply
        IN  command[n].op = "insert" /\ reply # None =>
              \A k \in Known(inserted) :
                 \/ reply[k] = inserted[k]
                 \/ /\ reply[k] # Absent
                    /\ reply[k].mTtl > InsertTtl(n)
                    /\ reply[k].mAuthor # n

\* A daemon's own entry, as long as it is known, gains time to live only from a
\* command on this host, never from a peer ("Ignore the remote entry").
OwnTtlRaisedOnlyByCommand ==
    [][\A n \in Host, k \in StateKey :
          LET old == mStates[n][k]
              new == mStates'[n][k]
          IN  /\ old # Absent /\ new # Absent
              /\ old.mAuthor = n
              /\ new.mTtl > old.mTtl
              => accepting[n].client = <<"cli", n>>]_vars

\* "Avoid overwrite of own entries from remotes peers when the TTL is equal,
\* while keep accepting it from CLI" (sharedstate.cc, merge): the data of an own
\* entry changes only while the accept loop serves a command of this host.
OwnDataChangedOnlyByCommand ==
    [][\A n \in Host, k \in StateKey :
          LET old == mStates[n][k]
              new == mStates'[n][k]
          IN  /\ old # Absent /\ new # Absent
              /\ old.mAuthor = n
              /\ new.mData # old.mData
              => accepting[n].client = <<"cli", n>>]_vars

\* A key that a daemon goes on knowing, because it is published again in time,
\* reaches every neighbour it synchronizes with, whatever fails or restarts on the
\* way (syncWithPeer, handleReqSyncConnection, merge).
KeysSpread ==
    \A n \in Host, k \in StateKey : \A m \in Neighbour[n] :
        mStates[n][k] # Absent ~> mStates[n][k] = Absent \/ mStates[m][k] # Absent

Map == INSTANCE ReplicatedMap WITH view <- mStates, Lifetime <- InsertTtl,
                                   MaxFade <- MaxBleach

\* The protocol implements the abstract map: whatever slices are in flight, lost,
\* stale or echoed, a daemon's state changes by learning genuine entries, by
\* fading or by a restart only; in particular merge never drops a key and never
\* takes an entry with less time than the one it replaces (merge, bleach).
ImplementsMap == Map!Spec

=============================================================================
