---------------------------- MODULE GossipProofs ----------------------------
(***************************************************************************)
(* Proofs, for any hosts, keys, data and type configuration, of what the   *)
(* runs of MCGossip check on small instances.                              *)
(***************************************************************************)
EXTENDS Gossip, TLAPS

-----------------------------------------------------------------------------
(***************************************************************************)
(* What merge and bleach do to a state.                                    *)
(***************************************************************************)

\* merge yields a state, and every entry of it is the one that was known or the
\* one that was received.
LEMMA MergeChooses ==
    ASSUME NEW state \in State, NEW slice \in State,
           NEW isRemote \in BOOLEAN, NEW host \in Host
    PROVE  /\ merge(state, slice, isRemote, host) \in State
           /\ \A k \in StateKey :
                 merge(state, slice, isRemote, host)[k] \in {state[k], slice[k]}
  BY DEF merge, MergeEntry, State

\* bleach yields a state whose entries are the old ones with a lower TTL, still
\* above zero.
LEMMA BleachAges ==
    ASSUME NEW state \in State, NEW times \in Nat \ {0}
    PROVE  /\ bleach(state, times) \in State
           /\ \A k \in StateKey :
                 LET old == state[k]
                     new == bleach(state, times)[k]
                 IN  new # Absent =>
                       /\ old # Absent
                       /\ new.mAuthor = old.mAuthor /\ new.mData = old.mData
                       /\ new.mTtl \in 1 .. (old.mTtl - 1)
  <1> SUFFICES ASSUME NEW k \in StateKey
               PROVE  LET old == state[k]
                          new == BleachEntry(old, times)
                      IN  /\ new \in StateEntry \cup {Absent}
                          /\ new # Absent =>
                               /\ old # Absent
                               /\ new.mAuthor = old.mAuthor /\ new.mData = old.mData
                               /\ new.mTtl \in 1 .. (old.mTtl - 1)
    BY DEF bleach, State
  <1>1. state[k] \in StateEntry \cup {Absent}
    BY DEF State
  <1> QED
    BY <1>1, AbsentIsNoEntry DEF BleachEntry, StateEntry

-----------------------------------------------------------------------------
(***************************************************************************)
(* Type correctness.                                                       *)
(***************************************************************************)

\* The TTL insert gives is a positive number, whatever the configuration.
LEMMA InsertTtlIsNat == \A n \in Host : InsertTtl(n) \in Nat \ {0}
  BY ConfAssumption DEF InsertTtl

\* The state a process starts with is a state.
LEMMA EmptyStateType == EmptyState \in State
  BY DEF EmptyState, State

\* The absence of a command is represented within its type.
LEMMA NoCommandType == NoCommand \in Command
  BY EmptyStateType DEF NoCommand, Command

\* So is the absence of a session, at both of its ends.
LEMMA IdleTypes ==
    /\ NotSyncing \in [server : Host \cup {None}, reply : State \cup {None}]
    /\ NotServing \in [client : Client \cup {None}, request : State \cup {None}]
  BY DEF NotSyncing, NotServing

\* A command that is done with one address is still a command, or none.
LEMMA NextCommandType ==
    ASSUME NEW cmd \in Command, NEW mState \in State
    PROVE  /\ NextCommand(cmd, mState) \in Command
           /\ NextCommand(cmd, mState).mState \in {EmptyState, mState}
           /\ NextCommand(cmd, mState) # NoCommand =>
                /\ NextCommand(cmd, mState).op = cmd.op
                /\ Len(cmd.todo) > 1
  <1>1. CASE Len(cmd.todo) <= 1
    BY <1>1, NoCommandType DEF NextCommand, NoCommand
  <1>2. CASE ~(Len(cmd.todo) <= 1)
    <2>1. cmd.todo \in Seq(Host) /\ cmd.todo # <<>>
      BY <1>2 DEF Command
    <2>2. Tail(cmd.todo) \in Seq(Host)
      BY <2>1
    <2>3. Len(cmd.todo) \in Nat
      BY <2>1
    <2>4. NextCommand(cmd, mState) =
             [op |-> cmd.op, todo |-> Tail(cmd.todo), mState |-> mState]
      BY <1>2 DEF NextCommand, Command
    <2> QED
      BY <1>2, <2>2, <2>3, <2>4 DEF Command
  <1> QED
    BY <1>1, <1>2

\* The two processes of a host that run syncWithPeer are clients, and nothing else.
LEMMA ClientFacts ==
    /\ \A n \in Host : <<"peer", n>> \in Client /\ <<"cli", n>> \in Client
    /\ \A c \in Client : c[1] \in {"peer", "cli"} /\ c[2] \in Host /\ c = <<c[1], c[2]>>
    /\ \A n \in Host : <<"peer", n>>[1] = "peer" /\ <<"cli", n>>[1] = "cli"
    /\ \A n \in Host : <<"peer", n>>[2] = n /\ <<"cli", n>>[2] = n
  BY DEF Client

\* Types of the fields the actions read.
LEMMA FieldTypes ==
    ASSUME TypeOK
    PROVE  /\ \A n \in Host :
                /\ mStates[n] \in State
                /\ command[n] \in Command
                /\ command[n].mState \in State
                /\ command[n].todo \in Seq(Host)
                /\ accepting[n].client \in Client \cup {None}
                /\ accepting[n].request \in State \cup {None}
           /\ \A c \in Client :
                /\ syncing[c].server \in Host \cup {None}
                /\ syncing[c].reply \in State \cup {None}
                /\ ClientState(c) \in State
  BY ClientFacts DEF TypeOK, Command, ClientState

\* Spec => []TypeOK: no interleaving of commands, sessions, failures, bleaches
\* and restarts takes a state or a slice in flight out of its type.
THEOREM TypeCorrect == Spec => []TypeOK
<1>1. Init => TypeOK
  BY EmptyStateType, NoCommandType, IdleTypes DEF Init, TypeOK
<1>2. TypeOK /\ [Next]_vars => TypeOK'
  <2> SUFFICES ASSUME TypeOK, [Next]_vars PROVE TypeOK'
    OBVIOUS
  <2> USE FieldTypes, ClientFacts, EmptyStateType, NoCommandType, IdleTypes
  <2>1. ASSUME NEW n \in Console, NEW new \in JsonInput, Insert(n, new)
        PROVE  TypeOK'
    <3>1. n \in Host /\ InsertTtl(n) \in Nat
      BY NeighbourAssumption, InsertTtlIsNat
    <3>2. DOMAIN new \subseteq StateKey /\ \A k \in DOMAIN new : new[k] \in Data
      BY <2>1 DEF JsonInput
    <3>3. [k \in StateKey |->
             IF k \in DOMAIN new
             THEN [mAuthor |-> n, mTtl |-> InsertTtl(n), mData |-> new[k]]
             ELSE Absent] \in State
      BY <3>1, <3>2 DEF State, StateEntry
    <3>4. <<n>> \in Seq(Host)
      BY <3>1
    <3>5. command'[n] \in Command
      BY <2>1, <3>1, <3>3, <3>4 DEF Insert, Command, TypeOK
    <3>6. command' \in [Host -> Command]
      BY <2>1, <3>5 DEF Insert, TypeOK
    <3>7. published' \subseteq Host \X StateKey \X Data
      BY <2>1, <3>1, <3>2 DEF Insert, TypeOK
    <3> QED
      BY <2>1, <3>6, <3>7 DEF Insert, TypeOK
  <2>2. ASSUME NEW n \in Console, Dump(n) PROVE TypeOK'
    <3>1. <<n>> \in Seq(Host)
      BY NeighbourAssumption
    <3> QED
      BY <2>2, <3>1 DEF Dump, TypeOK, Command
  <2>3. ASSUME NEW n \in Console, NEW peers \in SyncPeers, Sync(n, peers)
        PROVE  TypeOK'
    <3>1. <<n>> \in Seq(Host) /\ peers \in Seq(Host)
      BY NeighbourAssumption
    <3>2. <<n>> \o peers \o <<n>> \in Seq(Host)
      BY <3>1
    <3> QED
      BY <2>3, <3>2 DEF Sync, TypeOK, Command
  <2>4. ASSUME NEW c \in Client, NEW s \in Host, Connect(c, s) PROVE TypeOK'
    BY <2>4 DEF Connect, TypeOK
  <2>5. ASSUME NEW s \in Host, HandleReqSyncConnection(s) PROVE TypeOK'
    <3> DEFINE c == accepting[s].client
               merged == merge(mStates[s], accepting[s].request, IsRemote(c, s), s)
    <3>1. merged \in State
      BY <2>5, MergeChooses DEF HandleReqSyncConnection, IsRemote
    <3>2. mStates' \in [Host -> State]
      BY <2>5, <3>1 DEF HandleReqSyncConnection, TypeOK
    <3> HIDE DEF merged
    <3>3. CASE syncing[c].server = s
      <4>1. /\ syncing' = [syncing EXCEPT ![c].reply = merged]
            /\ accepting' = [accepting EXCEPT ![s].request = None]
            /\ UNCHANGED <<command, published>>
        BY <2>5, <3>3 DEF HandleReqSyncConnection, merged
      <4>2. ASSUME NEW d \in Client
            PROVE  syncing'[d] \in [server : Host \cup {None}, reply : State \cup {None}]
        <5> HIDE DEF c
        <5>1. syncing[d] \in [server : Host \cup {None}, reply : State \cup {None}]
          BY DEF TypeOK
        <5>2. CASE d # c
          BY <5>1, <5>2, <4>1 DEF TypeOK
        <5>3. CASE d = c
          <6>1. syncing'[d] = [syncing[d] EXCEPT !.reply = merged]
            BY <5>3, <4>1 DEF TypeOK
          <6> QED
            BY <5>1, <6>1, <3>1
        <5> QED
          BY <5>2, <5>3
      <4>3. syncing' \in [Client -> [server : Host \cup {None}, reply : State \cup {None}]]
        BY <4>1, <4>2 DEF TypeOK
      <4> QED
        BY <3>2, <4>1, <4>3 DEF TypeOK
    <3>4. CASE syncing[c].server # s
      <4>1. /\ accepting' = [accepting EXCEPT ![s] = NotServing]
            /\ UNCHANGED <<syncing, command, published>>
        BY <2>5, <3>4 DEF HandleReqSyncConnection
      <4>2. accepting' \in [Host -> [client : Client \cup {None},
                                    request : State \cup {None}]]
        BY <4>1 DEF TypeOK
      <4> QED
        BY <3>2, <4>1, <4>2 DEF TypeOK
    <3> QED
      BY <3>3, <3>4
  <2>6. ASSUME NEW s \in Host, HandleReqSyncConnectionFails(s) PROVE TypeOK'
    BY <2>6 DEF HandleReqSyncConnectionFails, TypeOK
  <2>7. ASSUME NEW n \in Host, PeerMergeReply(n) PROVE TypeOK'
    <3>1. merge(mStates[n], syncing[<<"peer", n>>].reply,
                IsRemote(<<"peer", n>>, syncing[<<"peer", n>>].server), n) \in State
      BY <2>7, MergeChooses DEF PeerMergeReply, IsRemote
    <3> QED
      BY <2>7, <3>1 DEF PeerMergeReply, TypeOK, ReleaseServer
  <2>8. ASSUME NEW n \in Host, PeerSyncFails(n) PROVE TypeOK'
    BY <2>8 DEF PeerSyncFails, TypeOK
  <2>9. ASSUME NEW n \in Host, CommandMergeReply(n) PROVE TypeOK'
    <3> DEFINE c == <<"cli", n>>
               merged == merge(command[n].mState, syncing[c].reply,
                               IsRemote(c, syncing[c].server), n)
    <3>1. merged \in State
      BY <2>9, MergeChooses DEF CommandMergeReply, IsRemote
    <3>2. NextCommand(command[n], merged) \in Command
      BY <3>1, NextCommandType
    <3> QED
      BY <2>9, <3>2 DEF CommandMergeReply, TypeOK, ReleaseServer
  <2>10. ASSUME NEW n \in Host, CommandSyncFails(n) PROVE TypeOK'
    BY <2>10, NextCommandType DEF CommandSyncFails, TypeOK
  <2>11. ASSUME NEW n \in Host, NEW times \in 1..MaxBleach, Bleach(n, times)
         PROVE  TypeOK'
    <3>1. times \in Nat \ {0}
      BY MaxBleachAssumption
    <3>2. bleach(mStates[n], times) \in State
      BY <3>1, BleachAges
    <3> QED
      BY <2>11, <3>2 DEF Bleach, TypeOK
  <2>12. ASSUME NEW n \in Host, Restart(n) PROVE TypeOK'
    BY <2>12 DEF Restart, TypeOK
  <2>13. CASE UNCHANGED vars
    BY <2>13 DEF vars, TypeOK
  <2> QED
    BY <2>1, <2>2, <2>3, <2>4, <2>5, <2>6, <2>7, <2>8, <2>9, <2>10, <2>11, <2>12,
       <2>13 DEF Next, StartCommand, HostStep
<1> QED
  BY <1>1, <1>2, PTL DEF Spec

-----------------------------------------------------------------------------
(***************************************************************************)
(* The TTL bound and the provenance of entries are preserved slice by      *)
(* slice, so one invariant states both of every slice there is.            *)
(***************************************************************************)

GoodEntry(k, entry, pub) ==
    entry # Absent =>
        /\ entry.mTtl \in 1 .. InsertTtl(entry.mAuthor)
        /\ <<entry.mAuthor, k, entry.mData>> \in pub

GoodSlice(slice, pub) == \A k \in StateKey : GoodEntry(k, slice[k], pub)

SlicesGood ==
    /\ \A n \in Host : GoodSlice(mStates[n], published)
    /\ \A n \in Host : GoodSlice(command[n].mState, published)
    /\ \A c \in Client :
          syncing[c].reply # None => GoodSlice(syncing[c].reply, published)
    /\ \A n \in Host :
          accepting[n].request # None => GoodSlice(accepting[n].request, published)

\* An empty state holds no entry that could be wrong.
LEMMA EmptyGood == \A pub : GoodSlice(EmptyState, pub)
  BY DEF GoodSlice, GoodEntry, EmptyState

\* merge of two good slices is good: it takes every entry from one of them.
LEMMA MergeGood ==
    ASSUME NEW state \in State, NEW slice \in State,
           NEW isRemote \in BOOLEAN, NEW host \in Host, NEW pub,
           GoodSlice(state, pub), GoodSlice(slice, pub)
    PROVE  GoodSlice(merge(state, slice, isRemote, host), pub)
  <1> SUFFICES ASSUME NEW k \in StateKey
               PROVE  GoodEntry(k, merge(state, slice, isRemote, host)[k], pub)
    BY DEF GoodSlice
  <1>1. merge(state, slice, isRemote, host)[k] \in {state[k], slice[k]}
    BY MergeChooses
  <1>2. GoodEntry(k, state[k], pub) /\ GoodEntry(k, slice[k], pub)
    BY DEF GoodSlice
  <1> QED
    BY <1>1, <1>2

\* bleach of a good slice is good: it only lowers TTLs, and erases before zero.
LEMMA BleachGood ==
    ASSUME NEW state \in State, NEW times \in Nat \ {0}, NEW pub, GoodSlice(state, pub)
    PROVE  GoodSlice(bleach(state, times), pub)
  <1> SUFFICES ASSUME NEW k \in StateKey, bleach(state, times)[k] # Absent
               PROVE  GoodEntry(k, bleach(state, times)[k], pub)
    BY DEF GoodSlice, GoodEntry
  <1> DEFINE old == state[k]
             new == bleach(state, times)[k]
  <1>1. /\ old # Absent
        /\ new.mAuthor = old.mAuthor /\ new.mData = old.mData
        /\ new.mTtl \in 1 .. (old.mTtl - 1)
    BY BleachAges
  <1>2. old \in StateEntry
    BY <1>1 DEF State
  <1>3. old.mTtl \in Nat /\ InsertTtl(old.mAuthor) \in Nat
    BY <1>2, InsertTtlIsNat DEF StateEntry
  <1>4. /\ old.mTtl \in 1 .. InsertTtl(old.mAuthor)
        /\ <<old.mAuthor, k, old.mData>> \in pub
    BY <1>1 DEF GoodSlice, GoodEntry
  <1> HIDE DEF old, new
  <1> QED
    BY <1>1, <1>3, <1>4 DEF GoodEntry, old, new

\* A server that takes a client's acknowledgement drops its request, if anything.
LEMMA ReleaseDrops ==
    ASSUME NEW c \in Client, NEW s \in Host, TypeOK, ReleaseServer(c)
    PROVE  accepting'[s] \in {accepting[s], NotServing}
  BY DEF ReleaseServer

\* Every step keeps all slices good, the ones in flight included.
LEMMA SlicesGoodStep == TypeOK /\ SlicesGood /\ [Next]_vars => SlicesGood'
<1> SUFFICES ASSUME TypeOK, SlicesGood, [Next]_vars PROVE SlicesGood'
  OBVIOUS
<1> USE FieldTypes, ClientFacts, EmptyGood DEF SlicesGood
<1>0. NotSyncing.reply = None /\ NotServing.request = None
  BY DEF NotSyncing, NotServing
<1>1. ASSUME NEW n \in Console, NEW new \in JsonInput, Insert(n, new)
      PROVE  SlicesGood'
  <2>1. n \in Host /\ InsertTtl(n) \in 1 .. InsertTtl(n)
    BY NeighbourAssumption, InsertTtlIsNat
  <2>2. ASSUME NEW slice, GoodSlice(slice, published)
        PROVE  GoodSlice(slice, published')
    BY <1>1, <2>2 DEF Insert, GoodSlice, GoodEntry
  <2>3. GoodSlice(command'[n].mState, published')
    <3>1. command'[n].mState =
            [k \in StateKey |->
               IF k \in DOMAIN new
               THEN [mAuthor |-> n, mTtl |-> InsertTtl(n), mData |-> new[k]]
               ELSE Absent]
      BY <1>1, <2>1 DEF Insert, TypeOK
    <3>2. \A k \in DOMAIN new : <<n, k, new[k]>> \in published'
      BY <1>1 DEF Insert
    <3> QED
      BY <2>1, <3>1, <3>2 DEF GoodSlice, GoodEntry
  <2>4. \A m \in Host : m # n => command'[m] = command[m]
    BY <1>1 DEF Insert, TypeOK
  <2> QED
    BY <1>1, <2>2, <2>3, <2>4 DEF Insert
<1>2. ASSUME NEW n \in Console, Dump(n) PROVE SlicesGood'
  <2>1. \A m \in Host : command'[m].mState \in {command[m].mState, EmptyState}
    BY <1>2 DEF Dump, TypeOK
  <2> QED
    BY <1>2, <2>1 DEF Dump
<1>3. ASSUME NEW n \in Console, NEW peers \in SyncPeers, Sync(n, peers)
      PROVE  SlicesGood'
  <2>1. \A m \in Host : command'[m].mState \in {command[m].mState, EmptyState}
    BY <1>3 DEF Sync, TypeOK
  <2> QED
    BY <1>3, <2>1 DEF Sync
<1>4. ASSUME NEW c \in Client, NEW s \in Host, Connect(c, s) PROVE SlicesGood'
  <2>1. GoodSlice(ClientState(c), published)
    BY DEF ClientState
  <2>2. \A m \in Host : accepting'[m].request \in {accepting[m].request, ClientState(c)}
    BY <1>4 DEF Connect, TypeOK
  <2>3. \A d \in Client : syncing'[d].reply \in {syncing[d].reply, None}
    BY <1>4 DEF Connect, TypeOK
  <2> QED
    BY <1>4, <2>1, <2>2, <2>3 DEF Connect
<1>5. ASSUME NEW s \in Host, HandleReqSyncConnection(s) PROVE SlicesGood'
  <2> DEFINE c == accepting[s].client
             merged == merge(mStates[s], accepting[s].request, IsRemote(c, s), s)
  <2>1. GoodSlice(merged, published)
    <3>1. /\ accepting[s].request \in State /\ GoodSlice(accepting[s].request, published)
          /\ mStates[s] \in State /\ GoodSlice(mStates[s], published)
      BY <1>5 DEF HandleReqSyncConnection
    <3>2. IsRemote(c, s) \in BOOLEAN
      BY DEF IsRemote
    <3> QED
      BY <3>1, <3>2, MergeGood
  <2> HIDE DEF merged
  <2>2. \A m \in Host : mStates'[m] \in {mStates[m], merged}
    BY <1>5 DEF HandleReqSyncConnection, TypeOK, merged
  <2>3. \A m \in Host : accepting'[m].request \in {accepting[m].request, None}
    <3>1. \/ accepting' = [accepting EXCEPT ![s].request = None]
          \/ accepting' = [accepting EXCEPT ![s] = NotServing]
      BY <1>5 DEF HandleReqSyncConnection
    <3> QED
      BY <1>0, <3>1 DEF TypeOK
  <2>4. ASSUME NEW d \in Client PROVE syncing'[d].reply \in {syncing[d].reply, merged}
    <3> HIDE DEF c
    <3>1. syncing' = syncing \/ syncing' = [syncing EXCEPT ![c].reply = merged]
      BY <1>5 DEF HandleReqSyncConnection, c, merged
    <3>2. CASE d # c
      BY <3>1, <3>2 DEF TypeOK
    <3>3. CASE d = c
      BY <3>1, <3>3 DEF TypeOK
    <3> QED
      BY <3>2, <3>3
  <2> QED
    BY <1>5, <2>1, <2>2, <2>3, <2>4 DEF HandleReqSyncConnection
<1>6. ASSUME NEW s \in Host, HandleReqSyncConnectionFails(s) PROVE SlicesGood'
  <2>1. \A m \in Host : accepting'[m].request \in {accepting[m].request, None}
    BY <1>6, <1>0 DEF HandleReqSyncConnectionFails, TypeOK
  <2> QED
    BY <1>6, <2>1 DEF HandleReqSyncConnectionFails
<1>7. ASSUME NEW n \in Host, PeerMergeReply(n) PROVE SlicesGood'
  <2> DEFINE c == <<"peer", n>>
             merged == merge(mStates[n], syncing[c].reply,
                             IsRemote(c, syncing[c].server), n)
  <2>1. GoodSlice(merged, published)
    <3>1. /\ syncing[c].reply \in State /\ GoodSlice(syncing[c].reply, published)
          /\ mStates[n] \in State /\ GoodSlice(mStates[n], published)
      BY <1>7 DEF PeerMergeReply
    <3>2. IsRemote(c, syncing[c].server) \in BOOLEAN
      BY DEF IsRemote
    <3> QED
      BY <3>1, <3>2, MergeGood
  <2>2. \A m \in Host : mStates'[m] \in {mStates[m], merged}
    BY <1>7 DEF PeerMergeReply, TypeOK
  <2>3. \A d \in Client : syncing'[d].reply \in {syncing[d].reply, None}
    BY <1>7, <1>0 DEF PeerMergeReply, TypeOK
  <2>4. \A m \in Host : accepting'[m].request \in {accepting[m].request, None}
    <3>1. ReleaseServer(c)
      BY <1>7 DEF PeerMergeReply
    <3>2. ASSUME NEW m \in Host PROVE accepting'[m] \in {accepting[m], NotServing}
      BY <3>1, ReleaseDrops
    <3> QED
      BY <1>0, <3>2
  <2> HIDE DEF merged
  <2> QED
    BY <1>7, <2>1, <2>2, <2>3, <2>4 DEF PeerMergeReply
<1>8. ASSUME NEW n \in Host, PeerSyncFails(n) PROVE SlicesGood'
  <2>1. \A d \in Client : syncing'[d].reply \in {syncing[d].reply, None}
    BY <1>8, <1>0 DEF PeerSyncFails, TypeOK
  <2> QED
    BY <1>8, <2>1 DEF PeerSyncFails
<1>9. ASSUME NEW n \in Host, CommandMergeReply(n) PROVE SlicesGood'
  <2> DEFINE c == <<"cli", n>>
             merged == merge(command[n].mState, syncing[c].reply,
                             IsRemote(c, syncing[c].server), n)
  <2>0. /\ syncing[c].reply \in State /\ GoodSlice(syncing[c].reply, published)
        /\ IsRemote(c, syncing[c].server) \in BOOLEAN
    BY <1>9 DEF CommandMergeReply, IsRemote
  <2>1. GoodSlice(merged, published) /\ merged \in State
    BY <2>0, MergeGood, MergeChooses
  <2> HIDE DEF merged
  <2>2. command' = [command EXCEPT ![n] = NextCommand(command[n], merged)]
    BY <1>9 DEF CommandMergeReply, merged
  <2>3. \A m \in Host :
           command'[m].mState \in {command[m].mState, merged, EmptyState}
    BY <2>1, <2>2, NextCommandType DEF TypeOK
  <2>4. \A d \in Client : syncing'[d].reply \in {syncing[d].reply, None}
    BY <1>9, <1>0 DEF CommandMergeReply, TypeOK
  <2>5. \A m \in Host : accepting'[m].request \in {accepting[m].request, None}
    <3>1. ReleaseServer(c)
      BY <1>9 DEF CommandMergeReply
    <3>2. ASSUME NEW m \in Host PROVE accepting'[m] \in {accepting[m], NotServing}
      BY <3>1, ReleaseDrops
    <3> QED
      BY <1>0, <3>2
  <2> QED
    BY <1>9, <2>1, <2>3, <2>4, <2>5 DEF CommandMergeReply
<1>10. ASSUME NEW n \in Host, CommandSyncFails(n) PROVE SlicesGood'
  <2>1. \A m \in Host : command'[m].mState \in {command[m].mState, EmptyState}
    BY <1>10, NextCommandType DEF CommandSyncFails, TypeOK
  <2>2. \A d \in Client : syncing'[d].reply \in {syncing[d].reply, None}
    BY <1>10, <1>0 DEF CommandSyncFails, TypeOK
  <2> QED
    BY <1>10, <2>1, <2>2 DEF CommandSyncFails
<1>11. ASSUME NEW n \in Host, NEW times \in 1..MaxBleach, Bleach(n, times)
       PROVE  SlicesGood'
  <2>1. times \in Nat \ {0}
    BY MaxBleachAssumption
  <2>2. GoodSlice(bleach(mStates[n], times), published)
    BY <2>1, BleachGood
  <2>3. \A m \in Host : mStates'[m] \in {mStates[m], bleach(mStates[n], times)}
    BY <1>11 DEF Bleach, TypeOK
  <2> QED
    BY <1>11, <2>2, <2>3 DEF Bleach
<1>12. ASSUME NEW n \in Host, Restart(n) PROVE SlicesGood'
  <2>1. \A m \in Host : mStates'[m] \in {mStates[m], EmptyState}
    BY <1>12 DEF Restart, TypeOK
  <2>2. \A d \in Client : syncing'[d].reply \in {syncing[d].reply, None}
    BY <1>12, <1>0 DEF Restart, TypeOK
  <2>3. \A m \in Host : accepting'[m].request \in {accepting[m].request, None}
    BY <1>12, <1>0 DEF Restart, TypeOK
  <2> QED
    BY <1>12, <2>1, <2>2, <2>3 DEF Restart
<1>13. CASE UNCHANGED vars
  BY <1>13 DEF vars
<1> QED
  BY <1>1, <1>2, <1>3, <1>4, <1>5, <1>6, <1>7, <1>8, <1>9, <1>10, <1>11, <1>12,
     <1>13 DEF Next, StartCommand, HostStep

\* Hence all slices are good in every reachable state.
LEMMA SlicesGoodAlways == Spec => []SlicesGood
<1>1. Init => SlicesGood
  BY EmptyGood DEF Init, SlicesGood, NoCommand, NotSyncing, NotServing
<1> QED
  BY <1>1, SlicesGoodStep, TypeCorrect, PTL DEF Spec

\* Every slice the properties quantify over is one SlicesGood speaks of.
LEMMA GoodSlices ==
    ASSUME SlicesGood
    PROVE  \A slice \in Slices : GoodSlice(slice, published)
  BY DEF SlicesGood, Slices

\* Spec => []TtlWithinInsertTtl: for every configuration of the type on every
\* host, no merge, echo or stale slice ever gives a copy more time than its
\* author's insert did, and bleach keeps no entry whose time is used up.
THEOREM TtlBounded == Spec => []TtlWithinInsertTtl
<1>1. SlicesGood => TtlWithinInsertTtl
  BY GoodSlices DEF TtlWithinInsertTtl, GoodSlice, GoodEntry, Known
<1> QED
  BY <1>1, SlicesGoodAlways, PTL

\* Spec => []Provenance: an entry found anywhere was inserted, with this key and
\* this data, on the host it names as its author.
THEOREM ProvenanceHolds == Spec => []Provenance
<1>1. SlicesGood => Provenance
  BY GoodSlices DEF Provenance, GoodSlice, GoodEntry, Known
<1> QED
  BY <1>1, SlicesGoodAlways, PTL

-----------------------------------------------------------------------------
(***************************************************************************)
(* Who talks to whom.  InsertConfirmed and OwnTtlRaisedOnlyByCommand need  *)
(* that a live session carries the slice of the command that opened it,    *)
(* and that a daemon's peer loop never reaches its own accept loop.        *)
(***************************************************************************)

\* What an "insert" that is still running holds and sends.
InsertSession(n) ==
    LET c == <<"cli", n>>
    IN  command[n].op = "insert" =>
          /\ command[n].todo = <<n>>
          /\ \A k \in StateKey :
                command[n].mState[k] # Absent =>
                   /\ command[n].mState[k].mAuthor = n
                   /\ command[n].mState[k].mTtl = InsertTtl(n)
          /\ syncing[c].server \in {n, None}
          /\ /\ syncing[c].server = n
             /\ accepting[n].client = c
             /\ accepting[n].request # None
             => accepting[n].request = command[n].mState

\* The sessions of one host.
HostSessions(n) ==
    /\ command[n].op = "none" =>
          command[n].todo = <<>> /\ syncing[<<"cli", n>>] = NotSyncing
    /\ InsertSession(n)
    /\ accepting[n].client # <<"peer", n>>
    /\ syncing[<<"peer", n>>].server # n
    /\ accepting[n].request # None => accepting[n].client # None

SessionInv == \A n \in Host : HostSessions(n)

\* Fields of idle commands and sessions, and what None and the two kinds of
\* clients are told apart by.
LEMMA IdleFacts ==
    /\ NotSyncing.server = None /\ NotSyncing.reply = None
    /\ NotServing.client = None /\ NotServing.request = None
    /\ NoCommand.op = "none" /\ NoCommand.todo = <<>>
    /\ \A n \in Host : n # None
    /\ \A c \in Client : c # None
    /\ \A n, m \in Host : <<"cli", n>> # <<"peer", m>>
  BY NoneAssumption DEF NotSyncing, NotServing, NoCommand

\* Closing sessions, merging a request or answering it disturbs nobody's session.
LEMMA SessionsKept ==
    ASSUME NEW n \in Host, HostSessions(n),
           command'[n] = command[n],
           \/ syncing'[<<"cli", n>>] = syncing[<<"cli", n>>]
           \/ /\ command[n].op # "none"
              /\ syncing'[<<"cli", n>>].server = syncing[<<"cli", n>>].server,
           syncing'[<<"peer", n>>].server \in {syncing[<<"peer", n>>].server, None},
           \/ accepting'[n] = accepting[n]
           \/ /\ accepting'[n].request = None
              /\ accepting'[n].client \in {accepting[n].client, None}
    PROVE  HostSessions(n)'
  <1>1. <<"peer", n>> # None /\ n # None
    BY ClientFacts, IdleFacts
  <1>2. InsertSession(n)'
    BY DEF HostSessions, InsertSession
  <1> QED
    BY <1>1, <1>2 DEF HostSessions

\* Every step keeps the sessions of insert commands as they should be.
LEMMA SessionInvStep == TypeOK /\ SessionInv /\ [Next]_vars => SessionInv'
<1> SUFFICES ASSUME TypeOK, SessionInv, [Next]_vars, NEW n \in Host
             PROVE  HostSessions(n)'
  BY DEF SessionInv
<1>0. /\ HostSessions(n)
      /\ <<"cli", n>> \in Client /\ <<"peer", n>> \in Client
      /\ n # None /\ <<"peer", n>> # None
  BY ClientFacts, IdleFacts DEF SessionInv
<1>1. ASSUME NEW m \in Console, NEW new \in JsonInput, Insert(m, new)
      PROVE  HostSessions(n)'
  <2>1. CASE m # n
    BY <1>0, <1>1, <2>1, SessionsKept DEF Insert, TypeOK
  <2>2. CASE m = n
    <3>1. syncing[<<"cli", n>>] = NotSyncing
      BY <1>0, <1>1, <2>2, IdleFacts DEF Insert, HostSessions
    <3>2. /\ command'[n].op = "insert" /\ command'[n].todo = <<n>>
          /\ command'[n].mState =
               [k \in StateKey |->
                  IF k \in DOMAIN new
                  THEN [mAuthor |-> n, mTtl |-> InsertTtl(n), mData |-> new[k]]
                  ELSE Absent]
          /\ UNCHANGED <<syncing, accepting>>
      BY <1>1, <2>2 DEF Insert, TypeOK
    <3>3. \A k \in StateKey :
             command'[n].mState[k] # Absent =>
                /\ command'[n].mState[k].mAuthor = n
                /\ command'[n].mState[k].mTtl = InsertTtl(n)
      BY <3>2
    <3>4. InsertSession(n)'
      BY <1>0, <3>1, <3>2, <3>3, IdleFacts DEF InsertSession
    <3> QED
      BY <1>0, <3>2, <3>4 DEF HostSessions
  <2> QED
    BY <2>1, <2>2
<1>2. ASSUME NEW m \in Console,
             Dump(m) \/ \E peers \in SyncPeers : Sync(m, peers)
      PROVE  HostSessions(n)'
  <2>1. CASE m # n
    BY <1>0, <1>2, <2>1, SessionsKept DEF Dump, Sync, TypeOK
  <2>2. CASE m = n
    <3>1. command'[n].op \in {"dump", "sync"} /\ UNCHANGED <<syncing, accepting>>
      BY <1>2, <2>2 DEF Dump, Sync, TypeOK
    <3> QED
      BY <1>0, <3>1 DEF HostSessions, InsertSession
  <2> QED
    BY <2>1, <2>2
<1>3. ASSUME NEW c \in Client, NEW s \in Host, Connect(c, s)
      PROVE  HostSessions(n)'
  <2>1. /\ syncing'[c].server = s
        /\ \A d \in Client : d # c => syncing'[d] = syncing[d]
        /\ accepting'[s].client = c /\ accepting'[s].request = ClientState(c)
        /\ \A m \in Host : m # s => accepting'[m] = accepting[m]
        /\ UNCHANGED command
    BY <1>3 DEF Connect, TypeOK
  <2>2. c = <<"peer", n>> => s # n
    BY <1>3, NeighbourAssumption DEF Connect, Targets
  <2>3. ASSUME c = <<"cli", n>>
        PROVE  command[n].op # "none" /\ (command[n].op = "insert" => s = n)
    <3>1. command[n].todo # <<>> /\ s = Head(command[n].todo)
      BY <1>3, <2>3 DEF Connect, Targets
    <3>2. command[n].op = "insert" => command[n].todo = <<n>>
      BY <1>0 DEF HostSessions, InsertSession
    <3> QED
      BY <1>0, <3>1, <3>2 DEF HostSessions
  <2>4. c = <<"cli", n>> => ClientState(c) = command[n].mState
    BY DEF ClientState
  <2>5. accepting'[n].request # None => accepting'[n].client # None
    BY <1>0, <2>1, IdleFacts DEF HostSessions
  <2>6. accepting'[n].client # <<"peer", n>>
    BY <1>0, <2>1, <2>2 DEF HostSessions
  <2>7. syncing'[<<"peer", n>>].server # n
    BY <1>0, <2>1, <2>2 DEF HostSessions
  <2>8. command'[n].op = "none" =>
           command'[n].todo = <<>> /\ syncing'[<<"cli", n>>] = NotSyncing
    BY <1>0, <2>1, <2>3 DEF HostSessions
  <2>9. InsertSession(n)'
    <3>1. CASE c = <<"cli", n>>
      BY <1>0, <2>1, <2>3, <2>4, <3>1 DEF InsertSession, HostSessions
    <3>2. CASE c # <<"cli", n>>
      <4>1. syncing'[<<"cli", n>>] = syncing[<<"cli", n>>]
        BY <1>0, <2>1, <3>2
      <4>2. accepting'[n] = accepting[n] \/ accepting'[n].client # <<"cli", n>>
        BY <2>1, <3>2
      <4> QED
        BY <1>0, <2>1, <4>1, <4>2 DEF InsertSession, HostSessions
    <3> QED
      BY <3>1, <3>2
  <2> QED
    BY <2>5, <2>6, <2>7, <2>8, <2>9 DEF HostSessions
<1>4. ASSUME NEW s \in Host, HandleReqSyncConnection(s) PROVE HostSessions(n)'
  <2>1. \/ accepting'[n] = accepting[n]
        \/ /\ accepting'[n].request = None
           /\ accepting'[n].client \in {accepting[n].client, None}
    BY <1>4, IdleFacts DEF HandleReqSyncConnection, TypeOK
  <2>2. ASSUME NEW d \in Client
        PROVE  \/ syncing'[d] = syncing[d]
               \/ /\ syncing[d].server = s
                  /\ syncing'[d].server = syncing[d].server
    <3> DEFINE c == accepting[s].client
    <3>1. PICK reply :
             \/ UNCHANGED syncing
             \/ /\ syncing[c].server = s
                /\ syncing' = [syncing EXCEPT ![c].reply = reply]
      BY <1>4 DEF HandleReqSyncConnection
    <3> HIDE DEF c
    <3>2. CASE d = c
      BY <3>1, <3>2 DEF TypeOK
    <3>3. CASE d # c
      BY <3>1, <3>3 DEF TypeOK
    <3> QED
      BY <3>2, <3>3
  <2>3. \/ syncing'[<<"cli", n>>] = syncing[<<"cli", n>>]
        \/ /\ command[n].op # "none"
           /\ syncing'[<<"cli", n>>].server = syncing[<<"cli", n>>].server
    BY <1>0, <2>2, IdleFacts DEF HostSessions
  <2>4. syncing'[<<"peer", n>>].server = syncing[<<"peer", n>>].server
    BY <1>0, <2>2
  <2>5. command'[n] = command[n]
    BY <1>4 DEF HandleReqSyncConnection
  <2> QED
    BY <1>0, <2>1, <2>3, <2>4, <2>5, SessionsKept
<1>5. ASSUME NEW s \in Host, HandleReqSyncConnectionFails(s) PROVE HostSessions(n)'
  <2>1. accepting'[n] \in {accepting[n], NotServing}
    BY <1>5 DEF HandleReqSyncConnectionFails, TypeOK
  <2>2. UNCHANGED <<command, syncing>>
    BY <1>5 DEF HandleReqSyncConnectionFails
  <2> QED
    BY <1>0, <2>1, <2>2, SessionsKept, IdleFacts
<1>6. ASSUME NEW m \in Host, PeerMergeReply(m) \/ PeerSyncFails(m) \/ Restart(m)
      PROVE  HostSessions(n)'
  <2>1. accepting'[n] \in {accepting[n], NotServing}
    BY <1>6, ReleaseDrops, ClientFacts DEF PeerMergeReply, PeerSyncFails, Restart, TypeOK
  <2>2. command'[n] = command[n]
    BY <1>6 DEF PeerMergeReply, PeerSyncFails, Restart
  <2>3. syncing' = [syncing EXCEPT ![<<"peer", m>>] = NotSyncing]
    BY <1>6 DEF PeerMergeReply, PeerSyncFails, Restart
  <2>4. /\ syncing'[<<"peer", n>>] \in {syncing[<<"peer", n>>], NotSyncing}
        /\ syncing'[<<"cli", n>>] = syncing[<<"cli", n>>]
    BY <1>0, <2>3, IdleFacts DEF TypeOK
  <2> QED
    BY <1>0, <2>1, <2>2, <2>4, SessionsKept, IdleFacts
<1>7. ASSUME NEW m \in Host, CommandMergeReply(m) \/ CommandSyncFails(m)
      PROVE  HostSessions(n)'
  <2>1. accepting'[n] \in {accepting[n], NotServing}
    BY <1>7, ReleaseDrops, ClientFacts DEF CommandMergeReply, CommandSyncFails
  <2>2. syncing' = [syncing EXCEPT ![<<"cli", m>>] = NotSyncing]
    BY <1>7 DEF CommandMergeReply, CommandSyncFails
  <2>3. syncing'[<<"peer", n>>] = syncing[<<"peer", n>>]
    BY <1>0, <2>2, IdleFacts DEF TypeOK
  <2>4. PICK mState \in State :
           command' = [command EXCEPT ![m] = NextCommand(command[m], mState)]
    <3>1. CASE CommandSyncFails(m)
      BY <3>1, FieldTypes DEF CommandSyncFails
    <3>2. CASE CommandMergeReply(m)
      <4>1. syncing[<<"cli", m>>].reply \in State /\ command[m].mState \in State
        BY <3>2, FieldTypes, ClientFacts DEF CommandMergeReply
      <4> QED
        BY <3>2, <4>1, MergeChooses DEF CommandMergeReply, IsRemote
    <3> QED
      BY <1>7, <3>1, <3>2
  <2>5. CASE m # n
    <3>1. command'[n] = command[n] /\ syncing'[<<"cli", n>>] = syncing[<<"cli", n>>]
      BY <1>0, <2>2, <2>4, <2>5, ClientFacts DEF TypeOK
    <3> QED
      BY <1>0, <2>1, <2>3, <3>1, SessionsKept, IdleFacts
  <2>6. CASE m = n
    <3>1. command'[n] = NextCommand(command[n], mState)
      BY <2>4, <2>6 DEF TypeOK
    <3>2. syncing'[<<"cli", n>>] = NotSyncing
      BY <1>0, <2>2, <2>6 DEF TypeOK
    <3>3. command[n].op \in {"insert", "none"} => Len(command[n].todo) <= 1
      <4>1. command[n].op = "insert" => command[n].todo = <<n>>
        BY <1>0 DEF HostSessions, InsertSession
      <4>2. command[n].op = "none" => command[n].todo = <<>>
        BY <1>0 DEF HostSessions
      <4>3. Len(<<>>) <= 1 /\ Len(<<n>>) <= 1
        OBVIOUS
      <4> QED
        BY <4>1, <4>2, <4>3
    <3>4. command'[n] = NoCommand \/ command'[n].op \notin {"insert", "none"}
      <4> SUFFICES ASSUME command'[n] # NoCommand
                   PROVE  command'[n].op \notin {"insert", "none"}
        OBVIOUS
      <4>1. /\ command'[n].op = command[n].op
            /\ Len(command[n].todo) > 1 /\ Len(command[n].todo) \in Nat
        BY <3>1, NextCommandType, FieldTypes
      <4> QED
        BY <3>3, <4>1
    <3>5. /\ command'[n].op # "insert"
          /\ command'[n].op = "none" => command'[n].todo = <<>>
      BY <3>4, IdleFacts
    <3>6. InsertSession(n)'
      BY <3>5 DEF InsertSession
    <3> QED
      BY <1>0, <2>1, <2>3, <3>2, <3>5, <3>6, IdleFacts DEF HostSessions
  <2> QED
    BY <2>5, <2>6
<1>8. ASSUME NEW m \in Host, NEW times \in 1..MaxBleach, Bleach(m, times)
      PROVE  HostSessions(n)'
  BY <1>0, <1>8, SessionsKept DEF Bleach
<1>9. CASE UNCHANGED vars
  BY <1>0, <1>9, SessionsKept DEF vars
<1> QED
  BY <1>1, <1>2, <1>3, <1>4, <1>5, <1>6, <1>7, <1>8, <1>9
  DEF Next, StartCommand, HostStep

\* Hence they are so in every reachable state.
LEMMA SessionInvAlways == Spec => []SessionInv
<1>1. Init => SessionInv
  <2> SUFFICES ASSUME Init, NEW n \in Host PROVE HostSessions(n)
    BY DEF SessionInv
  <2>1. /\ command[n] = NoCommand /\ accepting[n] = NotServing
        /\ syncing[<<"cli", n>>] = NotSyncing /\ syncing[<<"peer", n>>] = NotSyncing
    BY ClientFacts DEF Init
  <2>2. n # None /\ <<"peer", n>> # None
    BY ClientFacts, IdleFacts
  <2> QED
    BY <2>1, <2>2, IdleFacts DEF HostSessions, InsertSession
<1> QED
  BY <1>1, SessionInvStep, TypeCorrect, PTL DEF Spec

-----------------------------------------------------------------------------
(***************************************************************************)
(* What the bound on the TTLs buys.                                        *)
(***************************************************************************)

\* Merged over loopback, a fresh entry of this host loses to nothing but an
\* entry with a higher TTL, which then has another author.
LEMMA FreshEntryTaken ==
    ASSUME NEW n \in Host, NEW state \in State, NEW slice \in State, NEW pub,
           GoodSlice(state, pub), NEW k \in StateKey,
           slice[k] # Absent, slice[k].mTtl = InsertTtl(n)
    PROVE  LET new == merge(state, slice, FALSE, n)[k]
           IN  \/ new = slice[k]
               \/ new # Absent /\ new.mTtl > InsertTtl(n) /\ new.mAuthor # n
  <1>1. CASE state[k] = Absent
    BY <1>1 DEF merge, MergeEntry, Accepts
  <1>2. CASE state[k] # Absent
    <2>1. /\ state[k].mTtl \in Nat
          /\ state[k].mTtl <= InsertTtl(state[k].mAuthor)
          /\ InsertTtl(n) \in Nat
      <3>1. state[k] \in StateEntry
        BY <1>2 DEF State
      <3>2. state[k].mTtl \in Nat /\ InsertTtl(state[k].mAuthor) \in Nat
        BY <3>1, InsertTtlIsNat DEF StateEntry
      <3>3. state[k].mTtl \in 1 .. InsertTtl(state[k].mAuthor)
        BY <1>2 DEF GoodSlice, GoodEntry
      <3> QED
        BY <3>2, <3>3, InsertTtlIsNat
    <2>2. CASE InsertTtl(n) >= state[k].mTtl
      BY <1>2, <2>2 DEF merge, MergeEntry, Accepts
    <2>3. CASE ~(InsertTtl(n) >= state[k].mTtl)
      <3>1. merge(state, slice, FALSE, n)[k] = state[k]
        BY <1>2, <2>3 DEF merge, MergeEntry, Accepts
      <3>2. state[k].mTtl > InsertTtl(n)
        BY <2>1, <2>3
      <3>3. state[k].mAuthor # n
        BY <2>1, <3>2
      <3> QED
        BY <1>2, <3>1, <3>2, <3>3
    <2> QED
      BY <2>2, <2>3
  <1> QED
    BY <1>1, <1>2

\* Every step keeps the replies to insert commands confirming them.
LEMMA InsertConfirmedStep ==
    TypeOK /\ SlicesGood /\ SessionInv /\ InsertConfirmed /\ [Next]_vars
        => InsertConfirmed'
<1> DEFINE Confirmed(n) ==
      LET inserted == command[n].mState
          reply == syncing[<<"cli", n>>].reply
      IN  command[n].op = "insert" /\ reply # None =>
            \A k \in Known(inserted) :
               \/ reply[k] = inserted[k]
               \/ /\ reply[k] # Absent
                  /\ reply[k].mTtl > InsertTtl(n)
                  /\ reply[k].mAuthor # n
<1> SUFFICES ASSUME TypeOK, SlicesGood, SessionInv, [Next]_vars,
                    NEW n \in Host, Confirmed(n)
             PROVE  Confirmed(n)'
  BY DEF InsertConfirmed
<1>0. HostSessions(n) /\ <<"cli", n>> \in Client
  BY ClientFacts DEF SessionInv
<1>1. ASSUME \/ /\ command'[n] = command[n]
                /\ syncing'[<<"cli", n>>] = syncing[<<"cli", n>>]
             \/ syncing'[<<"cli", n>>].reply = None
      PROVE  Confirmed(n)'
  BY <1>1 DEF Known
<1>2. ASSUME NEW m \in Console, StartCommand(m) PROVE Confirmed(n)'
  <2>1. UNCHANGED syncing /\ (m # n => command'[n] = command[n])
    BY <1>2 DEF StartCommand, Insert, Dump, Sync, TypeOK
  <2>2. m = n => syncing[<<"cli", n>>].reply = None
    BY <1>0, <1>2, IdleFacts DEF StartCommand, Insert, Dump, Sync, HostSessions
  <2> QED
    BY <1>1, <2>1, <2>2
<1>3. ASSUME NEW c \in Client, NEW s \in Host, Connect(c, s) PROVE Confirmed(n)'
  <2>1. syncing'[<<"cli", n>>] = syncing[<<"cli", n>>] \/ syncing'[<<"cli", n>>].reply = None
    BY <1>0, <1>3 DEF Connect, TypeOK
  <2> QED
    BY <1>1, <1>3, <2>1 DEF Connect
<1>4. ASSUME NEW s \in Host, HandleReqSyncConnection(s) PROVE Confirmed(n)'
  <2> DEFINE c == accepting[s].client
             merged == merge(mStates[s], accepting[s].request, IsRemote(c, s), s)
  <2>1. UNCHANGED command
    BY <1>4 DEF HandleReqSyncConnection
  <2>2. CASE syncing'[<<"cli", n>>] = syncing[<<"cli", n>>]
    BY <1>1, <2>1, <2>2
  <2>3. CASE syncing'[<<"cli", n>>] # syncing[<<"cli", n>>]
    <3>1. /\ c = <<"cli", n>> /\ syncing[c].server = s
          /\ syncing' = [syncing EXCEPT ![c].reply = merged]
          /\ accepting[s].request # None
      <4>1. /\ accepting[s].request # None
            /\ \/ UNCHANGED syncing
               \/ /\ syncing[c].server = s
                  /\ syncing' = [syncing EXCEPT ![c].reply = merged]
        BY <1>4 DEF HandleReqSyncConnection
      <4> HIDE DEF c, merged
      <4> QED
        BY <1>0, <2>3, <4>1 DEF TypeOK
    <3> SUFFICES ASSUME command[n].op = "insert", NEW k \in Known(command[n].mState)
                 PROVE  LET reply == syncing'[<<"cli", n>>].reply
                        IN  \/ reply[k] = command[n].mState[k]
                            \/ /\ reply[k] # Absent
                               /\ reply[k].mTtl > InsertTtl(n)
                               /\ reply[k].mAuthor # n
      BY <2>1 DEF Known
    <3>2. InsertSession(n)
      BY <1>0 DEF HostSessions
    <3>3. s = n
      BY <3>1, <3>2, IdleFacts DEF InsertSession
    <3>4. accepting[s].request = command[n].mState
      BY <3>1, <3>2, <3>3 DEF InsertSession
    <3>5. ~IsRemote(c, s)
      BY <3>1, <3>3, ClientFacts DEF IsRemote
    <3>6. merged = merge(mStates[n], command[n].mState, FALSE, n)
      BY <3>3, <3>4, <3>5, ClientFacts DEF IsRemote
    <3>7. syncing'[<<"cli", n>>].reply = merge(mStates[n], command[n].mState, FALSE, n)
      <4> HIDE DEF merged
      <4> QED
        BY <1>0, <3>1, <3>6 DEF TypeOK
    <3>8. /\ k \in StateKey /\ command[n].mState[k] # Absent
          /\ command[n].mState[k].mTtl = InsertTtl(n)
      BY <3>2 DEF Known, InsertSession
    <3>9. mStates[n] \in State /\ command[n].mState \in State
      BY FieldTypes
    <3>10. GoodSlice(mStates[n], published)
      BY DEF SlicesGood
    <3>11. LET taken == merge(mStates[n], command[n].mState, FALSE, n)[k]
           IN  \/ taken = command[n].mState[k]
               \/ taken # Absent /\ taken.mTtl > InsertTtl(n) /\ taken.mAuthor # n
      BY <3>8, <3>9, <3>10, FreshEntryTaken
    <3> QED
      BY <3>7, <3>11
  <2> QED
    BY <2>2, <2>3
<1>5. ASSUME NEW m \in Host,
             \/ HandleReqSyncConnectionFails(m)
             \/ PeerMergeReply(m) \/ PeerSyncFails(m) \/ Restart(m)
             \/ \E times \in 1..MaxBleach : Bleach(m, times)
      PROVE  Confirmed(n)'
  <2>1. UNCHANGED command
    BY <1>5 DEF HandleReqSyncConnectionFails, PeerMergeReply, PeerSyncFails, Restart, Bleach
  <2>2. UNCHANGED syncing \/ syncing' = [syncing EXCEPT ![<<"peer", m>>] = NotSyncing]
    BY <1>5 DEF HandleReqSyncConnectionFails, PeerMergeReply, PeerSyncFails, Restart, Bleach
  <2>3. syncing'[<<"cli", n>>] = syncing[<<"cli", n>>]
    BY <1>0, <2>2, IdleFacts DEF TypeOK
  <2> QED
    BY <1>1, <2>1, <2>3
<1>6. ASSUME NEW m \in Host, CommandMergeReply(m) \/ CommandSyncFails(m)
      PROVE  Confirmed(n)'
  <2>1. syncing' = [syncing EXCEPT ![<<"cli", m>>] = NotSyncing]
    BY <1>6 DEF CommandMergeReply, CommandSyncFails
  <2>2. m # n => command'[n] = command[n]
    BY <1>6 DEF CommandMergeReply, CommandSyncFails, TypeOK
  <2>3. m # n => syncing'[<<"cli", n>>] = syncing[<<"cli", n>>]
    BY <1>0, <2>1 DEF TypeOK
  <2>4. m = n => syncing'[<<"cli", n>>].reply = None
    BY <1>0, <2>1, IdleFacts DEF TypeOK
  <2> QED
    BY <1>1, <2>2, <2>3, <2>4
<1>7. CASE UNCHANGED vars
  BY <1>1, <1>7 DEF vars
<1> QED
  BY <1>2, <1>3, <1>4, <1>5, <1>6, <1>7 DEF Next, HostStep

\* Spec => []InsertConfirmed: an "insert" whose reply arrives was taken by the
\* daemon, whatever else the daemon was doing, unless another author's longer
\* registration outranks it.
THEOREM InsertIsConfirmed == Spec => []InsertConfirmed
<1>1. Init => InsertConfirmed
  <2>1. Init => \A n \in Host : command[n].op = "none"
    BY IdleFacts DEF Init
  <2> QED
    BY <2>1 DEF InsertConfirmed
<1> QED
  BY <1>1, InsertConfirmedStep, TypeCorrect, SlicesGoodAlways, SessionInvAlways, PTL
  DEF Spec

-----------------------------------------------------------------------------
\* A remote peer never raises the TTL of an entry this host authored.
LEMMA RemoteKeepsOwnTtl ==
    ASSUME NEW n \in Host, NEW state \in State, NEW slice \in State,
           NEW k \in StateKey, state[k] # Absent, state[k].mAuthor = n
    PROVE  merge(state, slice, TRUE, n)[k].mTtl = state[k].mTtl
  <1>1. state[k].mTtl \in Nat
    BY DEF State, StateEntry
  <1>2. slice[k] # Absent => slice[k].mTtl \in Nat
    BY DEF State, StateEntry
  <1>3. merge(state, slice, TRUE, n)[k] = MergeEntry(state[k], slice[k], TRUE, n)
    BY DEF merge
  <1>4. CASE slice[k] # Absent /\ Accepts(state[k], slice[k], TRUE, n)
    <2>1. ~(slice[k].mTtl > state[k].mTtl) /\ slice[k].mTtl >= state[k].mTtl
      BY <1>4 DEF Accepts
    <2>2. slice[k].mTtl = state[k].mTtl
      BY <1>1, <1>2, <1>4, <2>1
    <2> QED
      BY <1>3, <1>4, <2>2 DEF MergeEntry
  <1>5. CASE ~(slice[k] # Absent /\ Accepts(state[k], slice[k], TRUE, n))
    BY <1>3, <1>5 DEF MergeEntry
  <1> QED
    BY <1>4, <1>5

\* The step formula of OwnTtlRaisedOnlyByCommand, for one entry.
OwnTtlStep(n, k) ==
    LET old == mStates[n][k]
        new == mStates'[n][k]
    IN  /\ old # Absent /\ new # Absent
        /\ old.mAuthor = n
        /\ new.mTtl > old.mTtl
        => accepting[n].client = <<"cli", n>>

\* Spec => OwnTtlRaisedOnlyByCommand: no reply and no request of a remote peer,
\* however stale, and no bleach or restart lengthens the life of an own entry.
THEOREM OwnTtlProtected == Spec => OwnTtlRaisedOnlyByCommand
<1>1. TypeOK /\ SessionInv /\ [Next]_vars
        => [\A n \in Host, k \in StateKey : OwnTtlStep(n, k)]_vars
  <2> SUFFICES ASSUME TypeOK, SessionInv, [Next]_vars,
                      NEW n \in Host, NEW k \in StateKey
               PROVE  OwnTtlStep(n, k)
    OBVIOUS
  <2>0. HostSessions(n) /\ mStates[n] \in State
    BY FieldTypes DEF SessionInv
  <2>1. mStates[n][k] # Absent => mStates[n][k].mTtl \in Nat
    BY <2>0 DEF State, StateEntry
  <2>2. ASSUME mStates'[n] = mStates[n] PROVE OwnTtlStep(n, k)
    BY <2>1, <2>2 DEF OwnTtlStep
  <2>3. ASSUME NEW slice \in State, mStates'[n] = merge(mStates[n], slice, TRUE, n)
        PROVE  OwnTtlStep(n, k)
    <3>1. mStates[n][k] # Absent /\ mStates[n][k].mAuthor = n
            => mStates'[n][k].mTtl = mStates[n][k].mTtl
      <4>1. ASSUME mStates[n][k] # Absent, mStates[n][k].mAuthor = n
            PROVE  merge(mStates[n], slice, TRUE, n)[k].mTtl = mStates[n][k].mTtl
        <5>1. mStates[n] \in State
          BY <2>0
        <5> QED
          BY <4>1, <5>1, RemoteKeepsOwnTtl
      <4> QED
        BY <2>3, <4>1
    <3> QED
      BY <2>1, <3>1 DEF OwnTtlStep
  <2>4. ASSUME HandleReqSyncConnection(n) PROVE OwnTtlStep(n, k)
    <3> DEFINE c == accepting[n].client
    <3>1. CASE c = <<"cli", n>>
      BY <3>1 DEF OwnTtlStep
    <3>2. CASE c # <<"cli", n>>
      <4>1. c \in Client /\ accepting[n].request \in State
        BY <2>0, <2>4, FieldTypes DEF HandleReqSyncConnection, HostSessions
      <4>2. c # <<"peer", n>>
        BY <2>0 DEF HostSessions
      <4>3. c[2] # n
        BY <3>2, <4>1, <4>2, ClientFacts
      <4>4. mStates'[n] = merge(mStates[n], accepting[n].request, TRUE, n)
        BY <2>4, <4>3 DEF HandleReqSyncConnection, IsRemote, TypeOK
      <4> QED
        BY <2>3, <4>1, <4>4
    <3> QED
      BY <3>1, <3>2
  <2>5. ASSUME PeerMergeReply(n) PROVE OwnTtlStep(n, k)
    <3>1. syncing[<<"peer", n>>].reply \in State
      BY <2>5, FieldTypes, ClientFacts DEF PeerMergeReply
    <3>2. IsRemote(<<"peer", n>>, syncing[<<"peer", n>>].server)
      BY <2>0, ClientFacts DEF HostSessions, IsRemote
    <3>3. mStates'[n] = merge(mStates[n], syncing[<<"peer", n>>].reply, TRUE, n)
      BY <2>5, <3>2, ClientFacts DEF PeerMergeReply, TypeOK, IsRemote
    <3> QED
      BY <2>3, <3>1, <3>3
  <2>6. ASSUME NEW times \in 1..MaxBleach, Bleach(n, times) PROVE OwnTtlStep(n, k)
    <3>1. times \in Nat \ {0}
      BY MaxBleachAssumption
    <3>2. mStates'[n] = bleach(mStates[n], times)
      BY <2>6 DEF Bleach, TypeOK
    <3>3. mStates'[n][k] # Absent =>
             /\ mStates[n][k] # Absent
             /\ mStates'[n][k].mTtl \in 1 .. (mStates[n][k].mTtl - 1)
      BY <2>0, <3>1, <3>2, BleachAges
    <3> QED
      BY <2>1, <3>3 DEF OwnTtlStep
  <2>7. ASSUME Restart(n) PROVE OwnTtlStep(n, k)
    BY <2>7 DEF Restart, OwnTtlStep, EmptyState, TypeOK
  <2>8. ASSUME NEW m \in Host, m # n, HostStep(m) PROVE OwnTtlStep(n, k)
    <3>1. mStates'[n] = mStates[n]
      BY <2>8 DEF HostStep, HandleReqSyncConnection, HandleReqSyncConnectionFails,
           PeerMergeReply, PeerSyncFails, CommandMergeReply, CommandSyncFails,
           Bleach, Restart, TypeOK
    <3> QED
      BY <2>2, <3>1
  <2>9. ASSUME HostStep(n) PROVE OwnTtlStep(n, k)
    BY <2>2, <2>4, <2>5, <2>6, <2>7, <2>9
    DEF HostStep, HandleReqSyncConnectionFails, PeerSyncFails, CommandMergeReply,
        CommandSyncFails
  <2>10. ASSUME \/ \E m \in Console : StartCommand(m)
                \/ \E c \in Client, s \in Host : Connect(c, s)
                \/ UNCHANGED vars
         PROVE  OwnTtlStep(n, k)
    BY <2>2, <2>10 DEF StartCommand, Insert, Dump, Sync, Connect, vars
  <2> QED
    BY <2>8, <2>9, <2>10 DEF Next
<1> QED
  BY <1>1, TypeCorrect, SessionInvAlways, PTL DEF Spec, OwnTtlRaisedOnlyByCommand, OwnTtlStep

-----------------------------------------------------------------------------
(***************************************************************************)
(* The replication protocol implements the abstract map.                   *)
(***************************************************************************)

\* The two modules name the same things.
LEMMA SameThings ==
    /\ Map!Nothing = EmptyState
    /\ Map!Views = [Host -> State]
  BY DEF Map!Nothing, EmptyState, Map!Views, Map!Entry, State, StateEntry

\* A daemon that replaces its state by the merge with a good slice learns.
LEMMA MergeLearns ==
    ASSUME TypeOK, TypeOK', NEW n \in Host, NEW slice \in State,
           NEW isRemote \in BOOLEAN, GoodSlice(slice, published),
           mStates' = [mStates EXCEPT ![n] = merge(@, slice, isRemote, n)],
           UNCHANGED published
    PROVE  Map!Learn(n)
<1>1. Map!OnlyViewOf(n)
  BY SameThings DEF Map!OnlyViewOf, TypeOK
<1>2. ASSUME NEW k \in StateKey
      PROVE  LET old == mStates[n][k]
                 new == mStates'[n][k]
             IN  \/ new = old
                 \/ /\ new # Absent /\ Map!Genuine(k, new)
                    /\ old # Absent => new.mTtl >= old.mTtl
  <2>1. mStates'[n][k] = MergeEntry(mStates[n][k], slice[k], isRemote, n)
    BY DEF merge, TypeOK
  <2>2. CASE slice[k] # Absent /\ Accepts(mStates[n][k], slice[k], isRemote, n)
    <3>1. mStates'[n][k] = slice[k]
      BY <2>1, <2>2 DEF MergeEntry
    <3>2. Map!Genuine(k, slice[k])
      BY <2>2 DEF GoodSlice, GoodEntry, Map!Genuine
    <3>3. mStates[n][k] # Absent => slice[k].mTtl >= mStates[n][k].mTtl
      BY <2>2 DEF Accepts
    <3> QED
      BY <2>2, <3>1, <3>2, <3>3
  <2>3. CASE ~(slice[k] # Absent /\ Accepts(mStates[n][k], slice[k], isRemote, n))
    BY <2>1, <2>3 DEF MergeEntry
  <2> QED
    BY <2>2, <2>3
<1> QED
  BY <1>1, <1>2 DEF Map!Learn

\* bleach is how a view fades.
LEMMA BleachFades ==
    ASSUME TypeOK, TypeOK', NEW n \in Host, NEW times \in 1 .. MaxBleach,
           Bleach(n, times)
    PROVE  Map!Fade(n, times)
<1>1. Map!OnlyViewOf(n)
  BY SameThings DEF Map!OnlyViewOf, TypeOK, Bleach
<1>2. ASSUME NEW k \in StateKey
      PROVE  mStates'[n][k] = BleachEntry(mStates[n][k], times)
  BY DEF Bleach, bleach, TypeOK
<1> QED
  BY <1>1, <1>2 DEF Map!Fade, BleachEntry, Bleach

\* Spec => ImplementsMap: every step of every daemon and command is a step of the
\* abstract map, or leaves views and publications alone.
THEOREM GossipImplementsMap == Spec => ImplementsMap
<1>1. Init => Map!Init
  BY SameThings DEF Init, Map!Init
<1>2. TypeOK /\ TypeOK' /\ SlicesGood /\ [Next]_vars => [Map!Next]_<<mStates, published>>
  <2> SUFFICES ASSUME TypeOK, TypeOK', SlicesGood, [Next]_vars
               PROVE  Map!Next \/ UNCHANGED <<mStates, published>>
    OBVIOUS
  <2> USE FieldTypes, ClientFacts
  <2>1. ASSUME NEW n \in Console, NEW new \in JsonInput, Insert(n, new)
        PROVE  Map!Next
    <3>1. n \in Host
      BY NeighbourAssumption
    <3>2. DOMAIN new \subseteq StateKey /\ \A k \in DOMAIN new : new[k] \in Data
      BY <2>1 DEF JsonInput
    <3>3. Map!Publish(n)
      BY <2>1, <3>2 DEF Insert, Map!Publish
    <3> QED
      BY <3>1, <3>3 DEF Map!Next, Map!HostNext
  <2>2. ASSUME NEW n \in Host, HandleReqSyncConnection(n)
        PROVE  Map!Next
    <3> DEFINE c == accepting[n].client
               slice == accepting[n].request
    <3>1. slice \in State /\ GoodSlice(slice, published)
      BY <2>2 DEF HandleReqSyncConnection, SlicesGood
    <3>2. /\ mStates' = [mStates EXCEPT ![n] = merge(@, slice, IsRemote(c, n), n)]
          /\ UNCHANGED published
      BY <2>2 DEF HandleReqSyncConnection
    <3>3. IsRemote(c, n) \in BOOLEAN
      BY DEF IsRemote
    <3>4. Map!Learn(n)
      BY <3>1, <3>2, <3>3, MergeLearns
    <3> QED
      BY <3>4 DEF Map!Next, Map!HostNext
  <2>3. ASSUME NEW n \in Host, PeerMergeReply(n)
        PROVE  Map!Next
    <3> DEFINE c == <<"peer", n>>
               slice == syncing[c].reply
               s == syncing[c].server
    <3>1. slice \in State /\ GoodSlice(slice, published)
      BY <2>3 DEF PeerMergeReply, SlicesGood
    <3>2. /\ mStates' = [mStates EXCEPT ![n] = merge(@, slice, IsRemote(c, s), n)]
          /\ UNCHANGED published
      BY <2>3 DEF PeerMergeReply
    <3>3. IsRemote(c, s) \in BOOLEAN
      BY DEF IsRemote
    <3>4. Map!Learn(n)
      BY <3>1, <3>2, <3>3, MergeLearns
    <3> QED
      BY <3>4 DEF Map!Next, Map!HostNext
  <2>4. ASSUME NEW n \in Host, NEW times \in 1 .. MaxBleach, Bleach(n, times)
        PROVE  Map!Next
    BY <2>4, BleachFades DEF Map!Next, Map!HostNext
  <2>5. ASSUME NEW n \in Host, Restart(n)
        PROVE  Map!Next
    BY <2>5, SameThings DEF Restart, Map!Forget, Map!Next, Map!HostNext
  <2>6. ASSUME NEW n \in Console, Dump(n) \/ \E peers \in SyncPeers : Sync(n, peers)
        PROVE  UNCHANGED <<mStates, published>>
    BY <2>6 DEF Dump, Sync
  <2>7. ASSUME NEW n \in Host,
               \/ HandleReqSyncConnectionFails(n)
               \/ PeerSyncFails(n)
               \/ CommandMergeReply(n)
               \/ CommandSyncFails(n)
        PROVE  UNCHANGED <<mStates, published>>
    BY <2>7 DEF HandleReqSyncConnectionFails, PeerSyncFails, CommandMergeReply,
                CommandSyncFails
  <2>8. ASSUME NEW c \in Client, NEW s \in Host, Connect(c, s)
        PROVE  UNCHANGED <<mStates, published>>
    BY <2>8 DEF Connect
  <2>9. CASE UNCHANGED vars
    BY <2>9 DEF vars
  <2> QED
    BY <2>1, <2>2, <2>3, <2>4, <2>5, <2>6, <2>7, <2>8, <2>9
    DEF Next, StartCommand, HostStep
<1> QED
  BY <1>1, <1>2, TypeCorrect, SlicesGoodAlways, PTL DEF Spec, ImplementsMap, Map!Spec

=============================================================================
