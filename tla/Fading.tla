------------------------------- MODULE Fading -------------------------------
(***************************************************************************)
(* How long an entry lives once nobody publishes it any more.  Every       *)
(* daemon ages its copy in its bleach loop and synchronizes it in its peer *)
(* loop, both driven by timers of (almost) one second that are set again   *)
(* only when an iteration is done.  Clocks are not synchronized: hosts     *)
(* start with any phase of their loops and of the seconds they count.      *)
(*                                                                         *)
(* Time passes in ticks, Second of them to a second, and only while no     *)
(* loop is overdue.  Sessions with a neighbour are one step here; Gossip   *)
(* has their interleavings, without the time.                              *)
(***************************************************************************)
EXTENDS StateMerge

CONSTANTS
    Author,           \* the host that published the entry, once
    Neighbour,        \* what shared-state-async-discover prints on a host
    mBleachTTL,       \* of the registered type
    mUpdateInterval,  \* of the registered type
    Second,           \* ticks in a second
    MaxDelay          \* bound: ticks an iteration of a loop may be late or take

ASSUME FadingAssumption ==
    /\ Author \in Host
    /\ Neighbour \in [Host -> SUBSET Host] /\ \A n \in Host : n \notin Neighbour[n]
    /\ mBleachTTL \in Nat
    /\ mUpdateInterval \in Nat \ {0}
    /\ Second \in Nat \ {0} /\ MaxDelay \in Nat

VARIABLES
    state,         \* per host: its copy of the entry
    now,           \* per host: steady_clock, modulo the update interval
    sinceBleach,   \* per host: ticks since lastBleachCompletedTS
    sincePeer,     \* per host: ticks since the timer of the peer loop was set
    todo           \* per host: neighbours left in this round of the peer loop

clocks == <<now, sinceBleach, sincePeer>>
vars == <<state, todo, clocks>>

InsertTtl == mBleachTTL + mUpdateInterval + 1

Interval == mUpdateInterval * Second

TypeOK ==
    /\ state \in [Host -> StateEntry \cup {Absent}]
    /\ \A n \in Host : state[n] # Absent => state[n].mTtl \in 1 .. InsertTtl
    /\ now \in [Host -> 0 .. Interval - 1]
    /\ sinceBleach \in [Host -> 0 .. Second + MaxDelay]
    /\ sincePeer \in [Host -> 0 .. Second + MaxDelay]
    /\ todo \in [Host -> SUBSET Host]

\* The entry has just reached its author's daemon.
Init ==
    /\ \E d \in Data : state = [n \in Host |->
          IF n = Author THEN [mAuthor |-> n, mTtl |-> InsertTtl, mData |-> d] ELSE Absent]
    /\ now \in [Host -> 0 .. Interval - 1]
    /\ sinceBleach \in [Host -> 0 .. Second - 1]
    /\ sincePeer \in [Host -> 0 .. Second - 1]
    /\ todo = [n \in Host |-> {}]

\* Mutant: the elapsed time is truncated before it is compared with a second, which
\* a timer of 999 milliseconds does not reach.
BleachTimesEarly(elapsed) == (elapsed - 1) \div Second

\* The seconds a bleach accounts for: what has passed, at least one, truncated.
BleachTimes(elapsed) == IF elapsed > Second THEN elapsed \div Second ELSE 1

Bleach(n) ==
    /\ sinceBleach[n] >= Second
    /\ state' = [state EXCEPT ![n] = BleachEntry(@, BleachTimes(sinceBleach[n]))]
    /\ sinceBleach' = [sinceBleach EXCEPT ![n] = 0]
    /\ UNCHANGED <<todo, now, sincePeer>>

PeerTimerExpired(n) == sincePeer[n] >= Second /\ todo[n] = {}

\* The whole seconds of the clock are a multiple of the update interval.
Due(n) == now[n] < Second

\* An iteration of the peer loop in which the type is not due.
PeerSkips(n) ==
    /\ PeerTimerExpired(n)
    /\ ~Due(n)
    /\ sincePeer' = [sincePeer EXCEPT ![n] = 0]
    /\ UNCHANGED <<state, todo, now, sinceBleach>>

\* An iteration in which it is: every neighbour getCandidatesNeighbours finds, if
\* any, will be tried.
PeerBegins(n) ==
    /\ PeerTimerExpired(n)
    /\ Due(n)
    /\ todo' = [todo EXCEPT ![n] = Neighbour[n]]
    /\ sincePeer' = IF Neighbour[n] = {} THEN [sincePeer EXCEPT ![n] = 0] ELSE sincePeer
    /\ UNCHANGED <<state, now, sinceBleach>>

\* The round goes on to the next neighbour, or to the timer after the last.
Visited(n, m) ==
    /\ todo' = [todo EXCEPT ![n] = @ \ {m}]
    /\ sincePeer' = IF todo[n] = {m} THEN [sincePeer EXCEPT ![n] = 0] ELSE sincePeer

\* A session: the neighbour merges the client's copy and the client the reply.
Session(n, m) ==
    LET reply == MergeEntry(state[m], state[n], TRUE, m)
    IN  /\ m \in todo[n]
        /\ state' = [state EXCEPT ![m] = reply,
                                  ![n] = MergeEntry(@, reply, TRUE, n)]
        /\ Visited(n, m)
        /\ UNCHANGED <<now, sinceBleach>>

\* syncWithPeer fails.
SessionFails(n, m) ==
    /\ m \in todo[n]
    /\ Visited(n, m)
    /\ UNCHANGED <<state, now, sinceBleach>>

Tick ==
    /\ \A n \in Host : /\ sinceBleach[n] < Second + MaxDelay
                       /\ sincePeer[n] < Second + MaxDelay
    /\ now' = [n \in Host |-> (now[n] + 1) % Interval]
    /\ sinceBleach' = [n \in Host |-> sinceBleach[n] + 1]
    /\ sincePeer' = [n \in Host |-> sincePeer[n] + 1]
    /\ UNCHANGED <<state, todo>>

HostStep(n) ==
    \/ Bleach(n)
    \/ PeerSkips(n)
    \/ PeerBegins(n)
    \/ \E m \in Host : Session(n, m) \/ SessionFails(n, m)

Next == Tick \/ \E n \in Host : HostStep(n)

\* Time passes, and what is due is done before it does.
Fairness == WF_vars(Next) /\ \A n \in Host : WF_vars(HostStep(n))

Spec == Init /\ [][Next]_vars /\ Fairness

-----------------------------------------------------------------------------
(***************************************************************************)
(* Properties.                                                             *)
(***************************************************************************)

\* In the time in which every host has one round there is more than the rounds of all
\* hosts can cover: copies raised in a round, which takes MaxDelay at most, have all
\* been bleached Second + 2 * MaxDelay after its beginning, unless in another round.
RoundsAreSparse == Cardinality(Host) * (Second + 2 * MaxDelay) < Interval

\* Entries "expire by TTL": once it is no longer published an entry is gone from
\* every host for good, if rounds are sparse, echoes between hosts of different
\* phases notwithstanding (merge, bleachDataLoop, peer).
Expires == RoundsAreSparse => <>[](\A n \in Host : state[n] = Absent)

=============================================================================
