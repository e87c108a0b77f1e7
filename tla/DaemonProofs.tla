---------------------------- MODULE DaemonProofs ----------------------------
(***************************************************************************)
(* Proofs about the loops of the daemons, for any hosts.  First Fading,    *)
(* for any neighbourhoods, any times configured for the type and any delay *)
(* of the loops: how copies age and spread; that they finally expire is    *)
(* left to the run.  Then PeerDaemon, for any discovery, users, hooks and  *)
(* faults: what the loops wait for.                                        *)
(***************************************************************************)
EXTENDS Fading, Sequences, TLAPS

-----------------------------------------------------------------------------
(***************************************************************************)
(* The clocks.                                                             *)
(***************************************************************************)

\* The update interval has at least one tick.
LEMMA IntervalType == Interval \in Nat \ {0}
<1> DEFINE u == mUpdateInterval
           s == Second
<1>1. u \in Nat /\ s \in Nat /\ u >= 1 /\ s >= 1
  BY FadingAssumption
<1> HIDE DEF u, s
<1>2. u * s \in Nat /\ u * s >= 1
  BY <1>1
<1> QED
  BY <1>2 DEF Interval, u, s

\* The clock modulo the update interval stays below it.
LEMMA ClockWraps == \A t \in 0 .. Interval - 1 : (t + 1) % Interval \in 0 .. Interval - 1
  BY IntervalType

\* A bleach takes off at least one second, no more than have passed, and more than
\* half of the time that has, as it loses less than the second it does not count.
LEMMA BleachTimesFacts ==
    ASSUME NEW elapsed \in Nat, elapsed >= Second
    PROVE  /\ BleachTimes(elapsed) \in Nat \ {0}
           /\ Second * BleachTimes(elapsed) <= elapsed
           /\ elapsed < Second * (BleachTimes(elapsed) + 1)
           /\ elapsed < 2 * (Second * BleachTimes(elapsed))
  BY FadingAssumption DEF BleachTimes

-----------------------------------------------------------------------------
(***************************************************************************)
(* What a step does to the copies.                                         *)
(***************************************************************************)

\* The peer loop visits neighbours only, so a session has two ends.
RoundVisitsNeighbours == \A n \in Host : todo[n] \subseteq Neighbour[n]

\* Some host has what the copy new, at a host after a step, was made of: the same
\* publication, with at least as much time to live.
MadeOf(new) ==
    \E g \in Host :
        /\ state[g] # Absent
        /\ new.mAuthor = state[g].mAuthor /\ new.mData = state[g].mData
        /\ new.mTtl \in 1 .. state[g].mTtl

\* A copy that is there already is made of itself.
LEMMA MadeOfItself ==
    ASSUME TypeOK, NEW g \in Host, state[g] # Absent
    PROVE  MadeOf(state[g])
<1>1. state[g].mTtl \in 1 .. InsertTtl
  BY DEF TypeOK
<1>2. state[g].mTtl \in 1 .. state[g].mTtl
  BY <1>1
<1> QED
  BY <1>2 DEF MadeOf

\* merge leaves one of the two entries it is given, and an entry if it had one.
LEMMA MergeEntryChooses ==
    ASSUME NEW known, NEW entry, NEW isRemote, NEW host
    PROVE  /\ MergeEntry(known, entry, isRemote, host) \in {known, entry}
           /\ known # Absent => MergeEntry(known, entry, isRemote, host) # Absent
  BY DEF MergeEntry

\* After a session either end has a copy that one of them had before.
LEMMA SessionChooses ==
    ASSUME TypeOK, RoundVisitsNeighbours, NEW n \in Host, NEW m \in Host, Session(n, m)
    PROVE  /\ m # n
           /\ state' \in [Host -> StateEntry \cup {Absent}]
           /\ state'[n] \in {state[n], state[m]} /\ state'[m] \in {state[n], state[m]}
           /\ \A h \in Host \ {n, m} : state'[h] = state[h]
           /\ state'[m] = MergeEntry(state[m], state[n], TRUE, m)
           /\ state'[n] = MergeEntry(state[n], state'[m], TRUE, n)
<1> PICK reply : reply = MergeEntry(state[m], state[n], TRUE, m)
  OBVIOUS
<1> PICK final : final = MergeEntry(state[n], reply, TRUE, n)
  OBVIOUS
<1>1. m # n
  BY FadingAssumption DEF Session, RoundVisitsNeighbours
<1>2. reply \in {state[m], state[n]} /\ final \in {state[n], reply}
  BY MergeEntryChooses
<1>3. state[n] \in StateEntry \cup {Absent} /\ state[m] \in StateEntry \cup {Absent}
  BY DEF TypeOK
<1>4. reply \in StateEntry \cup {Absent} /\ final \in StateEntry \cup {Absent}
  BY <1>2, <1>3
<1>5. state' = [state EXCEPT ![m] = reply, ![n] = MergeEntry(@, reply, TRUE, n)]
  BY DEF Session
<1>6. [state EXCEPT ![m] = reply][n] = state[n]
  BY <1>1 DEF TypeOK
<1>7. state' = [[state EXCEPT ![m] = reply] EXCEPT ![n] = final]
  BY <1>5, <1>6, Zenon
<1>8. /\ state' \in [Host -> StateEntry \cup {Absent}]
      /\ state'[n] = final /\ state'[m] = reply
      /\ \A h \in Host \ {n, m} : state'[h] = state[h]
  BY <1>1, <1>4, <1>7 DEF TypeOK
<1> QED
  BY <1>1, <1>2, <1>8

\* A bleach leaves a copy that was there, with less time, or none.
LEMMA BleachLowers ==
    ASSUME TypeOK, NEW n \in Host, Bleach(n)
    PROVE  /\ state' \in [Host -> StateEntry \cup {Absent}]
           /\ \A h \in Host \ {n} : state'[h] = state[h]
           /\ state'[n] # Absent =>
                /\ state[n] # Absent
                /\ state'[n].mAuthor = state[n].mAuthor
                /\ state'[n].mData = state[n].mData
                /\ state'[n].mTtl \in 1 .. state[n].mTtl - 1
                /\ state'[n].mTtl = state[n].mTtl - BleachTimes(sinceBleach[n])
<1> PICK times : times = BleachTimes(sinceBleach[n])
  OBVIOUS
<1>1. times \in Nat \ {0}
  <2>1. sinceBleach[n] \in Nat /\ sinceBleach[n] >= Second
    BY FadingAssumption DEF TypeOK, Bleach
  <2> QED
    BY <2>1, BleachTimesFacts
<1> PICK old : old = state[n]
  OBVIOUS
<1> PICK new : new = BleachEntry(old, times)
  OBVIOUS
<1>2. old \in StateEntry \cup {Absent}
  BY DEF TypeOK
<1>3. /\ new \in StateEntry \cup {Absent}
      /\ new # Absent =>
            /\ old # Absent
            /\ new.mAuthor = old.mAuthor /\ new.mData = old.mData
            /\ new.mTtl \in 1 .. old.mTtl - 1
            /\ new.mTtl = old.mTtl - times
  BY <1>1, <1>2, AbsentIsNoEntry DEF BleachEntry, StateEntry
<1>4. state' = [state EXCEPT ![n] = new]
  BY DEF Bleach
<1>5. /\ state' \in [Host -> StateEntry \cup {Absent}]
      /\ state'[n] = new
      /\ \A h \in Host \ {n} : state'[h] = state[h]
  BY <1>3, <1>4 DEF TypeOK
<1> QED
  BY <1>3, <1>5

\* Whatever the step, what a host has after it was made of what some host had.
LEMMA CopiesAreMadeOfCopies ==
    ASSUME TypeOK, RoundVisitsNeighbours, [Next]_vars, NEW h \in Host, state'[h] # Absent
    PROVE  MadeOf(state'[h])
<1>1. ASSUME NEW g \in Host, state'[h] = state[g]
      PROVE  MadeOf(state'[h])
  <2> PICK copy : copy = state'[h]
    OBVIOUS
  <2>1. MadeOf(copy)
    BY <1>1, MadeOfItself
  <2> QED
    BY <2>1
<1>2. ASSUME NEW n \in Host, Bleach(n)
      PROVE  MadeOf(state'[h])
  <2>1. CASE h # n
    BY <1>1, <1>2, <2>1, BleachLowers
  <2>2. CASE h = n
    <3> PICK copy : copy = state'[h]
      OBVIOUS
    <3>1. /\ state[n] # Absent
          /\ copy.mAuthor = state[n].mAuthor /\ copy.mData = state[n].mData
          /\ copy.mTtl \in 1 .. state[n].mTtl - 1
      BY <1>2, <2>2, BleachLowers
    <3>2. state[n].mTtl \in 1 .. InsertTtl
      BY <3>1 DEF TypeOK
    <3>3. copy.mTtl \in 1 .. state[n].mTtl
      BY <3>1, <3>2
    <3>4. MadeOf(copy)
      BY <3>1, <3>3 DEF MadeOf
    <3> QED
      BY <3>4
  <2> QED
    BY <2>1, <2>2
<1>3. ASSUME NEW n \in Host, NEW m \in Host, Session(n, m)
      PROVE  MadeOf(state'[h])
  BY <1>1, <1>3, SessionChooses
<1>4. CASE UNCHANGED state
  BY <1>1, <1>4
<1> QED
  BY <1>2, <1>3, <1>4
  DEF Next, HostStep, Tick, PeerSkips, PeerBegins, SessionFails, vars

-----------------------------------------------------------------------------
(***************************************************************************)
(* The inductive invariant.                                                *)
(***************************************************************************)

\* Nobody has anything but what the author published.
OnePublication ==
    \A n, m \in Host : state[n] # Absent /\ state[m] # Absent =>
        state[n].mAuthor = Author /\ state[n].mData = state[m].mData

IInv == TypeOK /\ RoundVisitsNeighbours /\ OnePublication

\* An own copy that is not erased gets no more time, whatever the others send
\* (merge, "something fishy is happening").
OwnCopyOnlyAges ==
    [][state[Author] # Absent =>
          \/ state'[Author] = Absent
          \/ state'[Author].mTtl <= state[Author].mTtl]_vars

\* A session leaves the same copy at both ends, except that the author keeps a
\* copy of its own that has less time (syncWithPeer, handleReqSyncConnection).
SessionsLevel ==
    [][\A n, m \in Host : Session(n, m) =>
          \/ state'[n] = state'[m]
          \/ /\ Author \in {n, m} /\ state[Author] # Absent
             /\ state'[Author] = state[Author]
             /\ \A h \in {n, m} : state'[h].mTtl >= state[Author].mTtl]_vars

\* A bleach ages the copy it keeps by no more than the time that has passed since
\* the last, and by more than half of it (bleachDataLoop; the millisecond that its
\* timer is short of a second is left out).
AgesWithTime ==
    [][\A n \in Host : Bleach(n) /\ state'[n] # Absent =>
          LET aged == Second * (state[n].mTtl - state'[n].mTtl)
          IN  aged <= sinceBleach[n] /\ sinceBleach[n] < 2 * aged]_vars

\* No copy anywhere has more than t seconds to live.
TtlAtMost(t) == \A n \in Host : state[n] # Absent => state[n].mTtl <= t

\* No host has the entry.
Gone == \A n \in Host : state[n] = Absent

\* Everything an insert publishes lives for at least a second.
LEMMA InsertTtlType == InsertTtl \in Nat \ {0}
  BY FadingAssumption DEF InsertTtl

\* When the entry has just reached its author's daemon.
LEMMA InitIInv == Init => IInv
<1> SUFFICES ASSUME Init PROVE IInv
  OBVIOUS
<1>1. PICK d \in Data : state = [n \in Host |->
         IF n = Author THEN [mAuthor |-> n, mTtl |-> InsertTtl, mData |-> d] ELSE Absent]
  BY DEF Init
<1> PICK entry : entry = [mAuthor |-> Author, mTtl |-> InsertTtl, mData |-> d]
  OBVIOUS
<1>2. /\ entry \in StateEntry /\ entry # Absent
      /\ entry.mTtl \in 1 .. InsertTtl /\ entry.mAuthor = Author
  BY InsertTtlType, FadingAssumption, AbsentIsNoEntry DEF StateEntry
<1>3. /\ state \in [Host -> StateEntry \cup {Absent}]
      /\ \A n \in Host : state[n] \in {entry, Absent}
  BY <1>1, <1>2
<1>4. /\ OnePublication
      /\ \A n \in Host : state[n] # Absent => state[n].mTtl \in 1 .. InsertTtl
  BY <1>2, <1>3 DEF OnePublication
<1>5. sinceBleach \in [Host -> 0 .. Second + MaxDelay]
  BY FadingAssumption DEF Init
<1>6. sincePeer \in [Host -> 0 .. Second + MaxDelay]
  BY FadingAssumption DEF Init
<1>7. todo \in [Host -> SUBSET Host] /\ RoundVisitsNeighbours
  BY DEF Init, RoundVisitsNeighbours
<1>8. now \in [Host -> 0 .. Interval - 1]
  BY DEF Init
<1> QED
  BY <1>3, <1>4, <1>5, <1>6, <1>7, <1>8 DEF IInv, TypeOK

\* A step leaves copies of the one publication, with a TTL that was published.
LEMMA StepKeepsCopies ==
    ASSUME IInv, [Next]_vars
    PROVE  /\ state' \in [Host -> StateEntry \cup {Absent}]
           /\ \A n \in Host : state'[n] # Absent => state'[n].mTtl \in 1 .. InsertTtl
           /\ OnePublication'
<1> USE DEF IInv
<1>1. state' \in [Host -> StateEntry \cup {Absent}]
  <2>1. CASE UNCHANGED state
    BY <2>1 DEF TypeOK
  <2> QED
    BY <2>1, BleachLowers, SessionChooses
    DEF Next, HostStep, Tick, PeerSkips, PeerBegins, SessionFails, vars
<1>2. ASSUME NEW n \in Host, state'[n] # Absent
      PROVE  MadeOf(state'[n])
  BY <1>2, CopiesAreMadeOfCopies
<1>3. ASSUME NEW n \in Host, state'[n] # Absent
      PROVE  state'[n].mTtl \in 1 .. InsertTtl
  <2>1. PICK g \in Host : state[g] # Absent /\ state'[n].mTtl \in 1 .. state[g].mTtl
    BY <1>2, <1>3 DEF MadeOf
  <2>2. state[g].mTtl \in 1 .. InsertTtl
    BY <2>1 DEF TypeOK
  <2> QED
    BY <2>1, <2>2, InsertTtlType
<1>4. ASSUME NEW n \in Host, NEW m \in Host, state'[n] # Absent, state'[m] # Absent
      PROVE  state'[n].mAuthor = Author /\ state'[n].mData = state'[m].mData
  BY <1>2, <1>4 DEF MadeOf, OnePublication
<1> QED
  BY <1>1, <1>3, <1>4 DEF OnePublication

\* The clocks and rounds stay within their bounds.
LEMMA StepKeepsClocks ==
    ASSUME IInv, [Next]_vars
    PROVE  /\ now' \in [Host -> 0 .. Interval - 1]
           /\ sinceBleach' \in [Host -> 0 .. Second + MaxDelay]
           /\ sincePeer' \in [Host -> 0 .. Second + MaxDelay]
           /\ todo' \in [Host -> SUBSET Host]
           /\ RoundVisitsNeighbours'
<1> DEFINE Clocks ==
             /\ now' \in [Host -> 0 .. Interval - 1]
             /\ sinceBleach' \in [Host -> 0 .. Second + MaxDelay]
             /\ sincePeer' \in [Host -> 0 .. Second + MaxDelay]
           Rounds == todo' \in [Host -> SUBSET Host] /\ RoundVisitsNeighbours'
<1> SUFFICES Clocks /\ Rounds
  OBVIOUS
<1> USE FadingAssumption DEF IInv
<1>1. 0 \in 0 .. Second + MaxDelay
  OBVIOUS
<1>2. CASE UNCHANGED <<todo, now, sinceBleach, sincePeer>>
  BY <1>2 DEF TypeOK, RoundVisitsNeighbours
<1>3. ASSUME NEW n \in Host, Bleach(n) PROVE Clocks /\ Rounds
  BY <1>1, <1>3 DEF Bleach, TypeOK, RoundVisitsNeighbours
<1>4. ASSUME NEW n \in Host, PeerSkips(n) PROVE Clocks /\ Rounds
  BY <1>1, <1>4 DEF PeerSkips, TypeOK, RoundVisitsNeighbours
<1>5. ASSUME NEW n \in Host, PeerBegins(n) PROVE Clocks /\ Rounds
  <2>1. Clocks
    BY <1>1, <1>5 DEF PeerBegins, TypeOK
  <2>2. Rounds
    BY <1>5 DEF PeerBegins, TypeOK, RoundVisitsNeighbours
  <2> QED
    BY <2>1, <2>2
<1>6. ASSUME NEW n \in Host, NEW m \in Host, Visited(n, m), UNCHANGED <<now, sinceBleach>>
      PROVE  Clocks /\ Rounds
  <2>1. Clocks
    BY <1>1, <1>6 DEF Visited, TypeOK
  <2>2. Rounds
    BY <1>6 DEF Visited, TypeOK, RoundVisitsNeighbours
  <2> QED
    BY <2>1, <2>2
<1>7. ASSUME Tick PROVE Clocks /\ Rounds
  <2>1. now' \in [Host -> 0 .. Interval - 1]
    BY <1>7, ClockWraps DEF Tick, TypeOK
  <2>2. sinceBleach' \in [Host -> 0 .. Second + MaxDelay]
    BY <1>7 DEF Tick, TypeOK
  <2>3. sincePeer' \in [Host -> 0 .. Second + MaxDelay]
    BY <1>7 DEF Tick, TypeOK
  <2> QED
    BY <1>7, <2>1, <2>2, <2>3 DEF Tick, TypeOK, RoundVisitsNeighbours
<1> HIDE DEF Clocks, Rounds
<1> QED
  BY <1>2, <1>3, <1>4, <1>5, <1>6, <1>7
  DEF Next, HostStep, Session, SessionFails, vars, clocks

\* IInv is an invariant.
THEOREM Invariance == Spec => []IInv
<1>1. IInv /\ [Next]_vars => IInv'
  <2> SUFFICES ASSUME IInv, [Next]_vars PROVE IInv'
    OBVIOUS
  <2>1. TypeOK'
    BY StepKeepsCopies, StepKeepsClocks DEF TypeOK
  <2> QED
    BY <2>1, StepKeepsCopies, StepKeepsClocks DEF IInv
<1> QED
  BY <1>1, InitIInv, PTL DEF Spec

\* The types hold in every state: the clocks stay within their bounds, and no copy
\* ever has more time than the author's insert gave the entry (merge, bleach).
THEOREM TypeCorrect == Spec => []TypeOK
<1>1. IInv => TypeOK
  BY DEF IInv
<1> QED
  BY <1>1, Invariance, PTL

\* Every copy is one of what the author published, with its name and its data.
THEOREM NothingElseSpreads == Spec => []OnePublication
<1>1. IInv => OnePublication
  BY DEF IInv
<1> QED
  BY <1>1, Invariance, PTL

\* Echoes between hosts make no time: once no copy has more than t seconds left, no
\* host will ever have one that does, however often copies are exchanged.
THEOREM EchoesMakeNoTime ==
    ASSUME NEW t \in Nat
    PROVE  Spec => [](TtlAtMost(t) => []TtlAtMost(t))
<1>1. IInv /\ [Next]_vars => (TtlAtMost(t) => TtlAtMost(t)')
  <2> SUFFICES ASSUME IInv, [Next]_vars, TtlAtMost(t), NEW n \in Host, state'[n] # Absent
               PROVE  state'[n].mTtl <= t
    BY DEF TtlAtMost
  <2>1. PICK g \in Host : state[g] # Absent /\ state'[n].mTtl \in 1 .. state[g].mTtl
    BY CopiesAreMadeOfCopies DEF MadeOf, IInv
  <2>2. state[g].mTtl <= t /\ state[g].mTtl \in 1 .. InsertTtl
    BY <2>1 DEF TtlAtMost, IInv, TypeOK
  <2> QED
    BY <2>1, <2>2, InsertTtlType
<1> QED
  BY <1>1, Invariance, PTL DEF Spec

\* An entry that has expired everywhere never comes back.
THEOREM GoneForGood == Spec => [](Gone => []Gone)
<1>1. IInv /\ [Next]_vars => (Gone => Gone')
  BY CopiesAreMadeOfCopies DEF MadeOf, Gone, IInv
<1> QED
  BY <1>1, Invariance, PTL DEF Spec

-----------------------------------------------------------------------------
(***************************************************************************)
(* What a session does to the two copies.                                  *)
(***************************************************************************)

\* merge never changes the TTL of an own entry for what a peer sends.
LEMMA OwnTtlKept ==
    ASSUME NEW known \in StateEntry, NEW entry \in StateEntry \cup {Absent},
           NEW host \in Host, known.mAuthor = host
    PROVE  MergeEntry(known, entry, TRUE, host).mTtl = known.mTtl
<1>1. known # Absent
  BY AbsentIsNoEntry
<1>2. known.mTtl \in Nat /\ (entry # Absent => entry.mTtl \in Nat)
  BY DEF StateEntry
<1> QED
  BY <1>1, <1>2 DEF MergeEntry, Accepts

\* Spec => SessionsLevel: one session is enough for two hosts to agree on an entry,
\* up to the rule that protects the author's own.
THEOREM SessionsLevelCopies == Spec => SessionsLevel
<1>1. ASSUME IInv, NEW n \in Host, NEW m \in Host, Session(n, m)
      PROVE  \/ state'[n] = state'[m]
             \/ /\ Author \in {n, m} /\ state[Author] # Absent
                /\ state'[Author] = state[Author]
                /\ \A h \in {n, m} : state'[h].mTtl >= state[Author].mTtl
  <2> PICK k : k = state[n]
    OBVIOUS
  <2> PICK l : l = state[m]
    OBVIOUS
  <2> PICK r : r = MergeEntry(l, k, TRUE, m)
    OBVIOUS
  <2>1. /\ k \in StateEntry \cup {Absent} /\ (k # Absent => k.mAuthor = Author)
        /\ l \in StateEntry \cup {Absent} /\ (l # Absent => l.mAuthor = Author)
    <3>1. k \in StateEntry \cup {Absent} /\ l \in StateEntry \cup {Absent}
      BY <1>1 DEF IInv, TypeOK
    <3>2. \A h \in Host : state[h] # Absent => state[h].mAuthor = Author
      BY <1>1 DEF IInv, OnePublication
    <3> QED
      BY <3>1, <3>2
  <2>2. (k # Absent => k.mTtl \in Nat) /\ (l # Absent => l.mTtl \in Nat)
    BY <2>1 DEF StateEntry
  <2>3. m # n /\ state'[m] = r /\ state'[n] = MergeEntry(k, r, TRUE, n)
    <3>1. /\ m # n
          /\ state'[m] = MergeEntry(state[m], state[n], TRUE, m)
          /\ state'[n] = MergeEntry(state[n], state'[m], TRUE, n)
      BY <1>1, SessionChooses DEF IInv
    <3> QED
      BY <3>1
  <2>4. CASE k # Absent /\ n = Author
    <3>1. k \in StateEntry /\ k.mAuthor = n /\ (l # Absent => l.mAuthor # m)
      BY <2>1, <2>3, <2>4
    <3>2. k.mTtl >= k.mTtl
      BY <3>1 DEF StateEntry
    \* The author keeps its copy, or gets one that is equal.
    <3>3. \/ MergeEntry(k, r, TRUE, n) = r
          \/ MergeEntry(k, r, TRUE, n) = k /\ r.mTtl >= k.mTtl
      BY <2>2, <2>4, <3>1 DEF MergeEntry, Accepts
    <3> QED
      BY <2>3, <2>4, <3>2, <3>3
  <2>5. CASE l # Absent /\ m = Author
    <3>1. l \in StateEntry /\ l.mAuthor = m /\ (k # Absent => k.mAuthor # n)
      BY <2>1, <2>3, <2>5
    <3>2. l.mTtl >= l.mTtl
      BY <3>1 DEF StateEntry
    \* The client takes the author's copy, or keeps one that has more time.
    <3>3. \/ MergeEntry(k, r, TRUE, n) = r
          \/ r = l /\ MergeEntry(k, r, TRUE, n) = k /\ k # Absent /\ k.mTtl >= l.mTtl
      BY <2>2, <2>5, <3>1 DEF MergeEntry, Accepts
    <3> QED
      BY <2>3, <2>5, <3>2, <3>3
  <2>6. CASE ~(k # Absent /\ n = Author) /\ ~(l # Absent /\ m = Author)
    <3>1. (k # Absent => k.mAuthor # n) /\ (l # Absent => l.mAuthor # m)
      BY <2>1, <2>6
    \* The reply has the more time of the two copies, so the client takes it.
    <3>2. MergeEntry(k, r, TRUE, n) = r
      BY <2>2, <3>1 DEF MergeEntry, Accepts
    <3> QED
      BY <2>3, <3>2
  <2> QED
    BY <2>4, <2>5, <2>6
<1> DEFINE Levels(n, m) ==
             Session(n, m) =>
               \/ state'[n] = state'[m]
               \/ /\ Author \in {n, m} /\ state[Author] # Absent
                  /\ state'[Author] = state[Author]
                  /\ \A h \in {n, m} : state'[h].mTtl >= state[Author].mTtl
<1>2. IInv /\ [Next]_vars => [\A n, m \in Host : Levels(n, m)]_vars
  BY <1>1
<1> QED
  BY <1>2, Invariance, PTL DEF Spec, SessionsLevel

\* Spec => OwnCopyOnlyAges: the author's copy has less and less time, so what keeps
\* an entry alive are the copies of the others.
THEOREM OwnCopyAges == Spec => OwnCopyOnlyAges
<1> DEFINE Ages ==
             state[Author] # Absent =>
                \/ state'[Author] = Absent
                \/ state'[Author].mTtl <= state[Author].mTtl
<1>1. IInv /\ [Next]_vars => Ages
  <2> SUFFICES ASSUME IInv, [Next]_vars, state[Author] # Absent, state'[Author] # Absent
               PROVE  state'[Author].mTtl <= state[Author].mTtl
    OBVIOUS
  <2> USE FadingAssumption DEF IInv
  <2>1. state[Author] \in StateEntry /\ state[Author].mAuthor = Author
    BY DEF TypeOK, OnePublication
  <2>2. state[Author].mTtl \in Nat
    BY <2>1 DEF StateEntry
  <2>3. ASSUME NEW n \in Host, Bleach(n)
        PROVE  state'[Author].mTtl <= state[Author].mTtl
    BY <2>2, <2>3, BleachLowers
  <2>4. ASSUME NEW n \in Host, NEW m \in Host, Session(n, m)
        PROVE  state'[Author].mTtl <= state[Author].mTtl
    <3>0. /\ m # n
          /\ state' \in [Host -> StateEntry \cup {Absent}]
          /\ \A h \in Host \ {n, m} : state'[h] = state[h]
          /\ state'[m] = MergeEntry(state[m], state[n], TRUE, m)
          /\ state'[n] = MergeEntry(state[n], state'[m], TRUE, n)
      BY <2>4, SessionChooses
    <3>1. CASE Author \notin {n, m}
      BY <2>2, <3>0, <3>1
    <3>2. CASE Author = m
      <4>1. state[n] \in StateEntry \cup {Absent}
        BY DEF TypeOK
      <4>2. state'[m].mTtl = state[m].mTtl
        <5>1. state[m] \in StateEntry /\ state[m].mAuthor = m
          BY <2>1, <3>2
        <5>2. MergeEntry(state[m], state[n], TRUE, m).mTtl = state[m].mTtl
          BY <5>1, <4>1, OwnTtlKept, Zenon
        <5> QED
          BY <3>0, <5>2
      <4> QED
        BY <2>2, <3>2, <4>2
    <3>3. CASE Author = n
      <4>1. state'[m] \in StateEntry \cup {Absent}
        BY <3>0
      <4>2. state'[n].mTtl = state[n].mTtl
        <5>1. state[n] \in StateEntry /\ state[n].mAuthor = n
          BY <2>1, <3>3
        <5>2. MergeEntry(state[n], state'[m], TRUE, n).mTtl = state[n].mTtl
          BY <5>1, <4>1, OwnTtlKept, Zenon
        <5> QED
          BY <3>0, <5>2
      <4> QED
        BY <2>2, <3>3, <4>2
    <3> QED
      BY <3>1, <3>2, <3>3
  <2>5. CASE UNCHANGED state
    BY <2>2, <2>5
  <2> QED
    BY <2>3, <2>4, <2>5
    DEF Next, HostStep, Tick, PeerSkips, PeerBegins, SessionFails, vars
<1>2. IInv /\ [Next]_vars => [Ages]_vars
  BY <1>1
<1> QED
  BY <1>2, Invariance, PTL DEF Spec, OwnCopyOnlyAges

\* Spec => AgesWithTime: late iterations make a copy live longer, but not twice as
\* long, and never shorter.
THEOREM BleachAgesWithTime == Spec => AgesWithTime
<1> DEFINE Aged(n) ==
             Bleach(n) /\ state'[n] # Absent =>
                LET aged == Second * (state[n].mTtl - state'[n].mTtl)
                IN  aged <= sinceBleach[n] /\ sinceBleach[n] < 2 * aged
<1>1. ASSUME IInv, NEW n \in Host PROVE Aged(n)
  <2> SUFFICES ASSUME Bleach(n), state'[n] # Absent
               PROVE  LET aged == Second * (state[n].mTtl - state'[n].mTtl)
                      IN  aged <= sinceBleach[n] /\ sinceBleach[n] < 2 * aged
    OBVIOUS
  <2> PICK elapsed : elapsed = sinceBleach[n]
    OBVIOUS
  <2> PICK times : times = BleachTimes(elapsed)
    OBVIOUS
  <2>1. elapsed \in Nat /\ elapsed >= Second
    BY <1>1, FadingAssumption DEF IInv, TypeOK, Bleach
  <2>2. times \in Nat /\ Second * times <= elapsed /\ elapsed < 2 * (Second * times)
    BY <2>1, BleachTimesFacts
  <2>3. state[n] # Absent /\ state'[n].mTtl = state[n].mTtl - times
    BY <1>1, BleachLowers DEF IInv
  <2>4. state[n].mTtl \in Nat
    BY <1>1, <2>3 DEF IInv, TypeOK
  <2>5. state[n].mTtl - state'[n].mTtl = times
    BY <2>2, <2>3, <2>4
  <2> QED
    BY <2>2, <2>5
<1>2. IInv /\ [Next]_vars => [\A n \in Host : Aged(n)]_vars
  BY <1>1
<1> QED
  BY <1>2, Invariance, PTL DEF Spec, AgesWithTime

-----------------------------------------------------------------------------
(***************************************************************************)
(* The loops and what they wait for: D is PeerDaemon, on the hosts of      *)
(* above.  As an instance it does not bring its assumption about constants *)
(* along, which is a hypothesis of every theorem.                          *)
(***************************************************************************)

CONSTANTS
    Candidates, Console, CallsBack, MayStick, MayFallSilent, Faults, Backlog, None,
    Closed, Silent

VARIABLES
    alive, peerLoop, addresses, backlog, serving, conn, child, stuck, mayCall, kept

D == INSTANCE PeerDaemon WITH todo <- addresses, Gone <- Closed

\* The loops of a daemon that is gone do nothing and wait for nobody.
DeadDoNothing ==
    \A h \in Host : ~alive[h] =>
        peerLoop[h] = "wait" /\ serving[h] = None /\ conn[<<"peer", h>>] = None

\* Whoever is in the queue of a dead daemon is kept there by one of its children
\* (sockets without CLOEXEC, AsyncSocket).
QueuesAreHeld ==
    \A h \in Host : ~alive[h] /\ backlog[h] # <<>> => D!HasChild(h)

\* The accept loop awaits a session or a hook, never both
\* (acceptReqSyncConnectionsLoop).
AcceptLoopSequential ==
    \A s \in Host : serving[s] # None => child[<<"accept", s>>] = "none"

\* The peer loop awaits a session or a child, never both, and either in a round only
\* (SharedStateCli::peer).
PeerLoopSequential ==
    \A h \in Host :
        /\ conn[<<"peer", h>>] # None =>
              peerLoop[h] = "sync" /\ child[<<"peer", h>>] = "none"
        /\ alive[h] /\ child[<<"peer", h>>] # "none" => peerLoop[h] = "sync"

\* Only a hook that runs may still run its command.
OnlyRunningHooksCall == \A lh \in mayCall : child[lh] \in {"current", "old"}

LoopInv ==
    /\ D!TypeOK
    /\ DeadDoNothing
    /\ QueuesAreHeld
    /\ AcceptLoopSequential
    /\ PeerLoopSequential
    /\ OnlyRunningHooksCall

\* The command of a hook that the accept loop of s awaits waits for that same loop.
WaitsForItself(s) ==
    /\ <<"accept", s>> \in CallsBack
    /\ child[<<"accept", s>>] # "none"
    /\ conn[<<"acceptHook", s>>] = s
    /\ D!Queued(<<"acceptHook", s>>, s)

\* Nothing the daemons do by themselves ends that, not even that the daemon dies:
\* the command has to give up (acceptReqSyncConnectionsLoop awaits notifyHooks
\* before it accepts again, nothing has a timeout, and the hook has the listening
\* socket open on which its own command waits).
WaitIsForever ==
    [][\A s \in Host : WaitsForItself(s) =>
          WaitsForItself(s)' \/ D!ClientFails(<<"acceptHook", s>>)]_(D!vars)

-----------------------------------------------------------------------------
\* The clients are told apart by their first component.
LEMMA ClientFacts ==
    ASSUME D!ConstAssumption
    PROVE  /\ None \notin Host /\ None \notin D!Client /\ None \notin D!Party
           /\ Silent \notin Host /\ None # Silent
           /\ D!Client \subseteq D!Party /\ Closed \in D!Party /\ Silent \in D!Party
           /\ \A h \in Host : <<"peer", h>> \in D!Client /\ D!Kept(h) \in D!Party
           /\ \A h \in Console : h \in Host /\ <<"cli", h>> \in D!Client
           /\ \A c \in D!Client : c[1] = "peer" => c[2] \in Host /\ c = <<"peer", c[2]>>
<1>0. D!Client \subseteq D!Party /\ Closed \in D!Party /\ Silent \in D!Party
  BY DEF D!Party
<1>1. /\ None \notin Host /\ None \notin D!Client /\ None \notin D!Party
      /\ Silent \notin Host /\ None # Silent
  BY <1>0 DEF D!ConstAssumption
<1>2. \A h \in Host : <<"peer", h>> \in D!Client /\ D!Kept(h) \in D!Party
  BY DEF D!Client, D!Party
<1>3. \A h \in Console : h \in Host /\ <<"cli", h>> \in D!Client
  BY DEF D!Client, D!ConstAssumption
<1>4. ASSUME NEW c \in D!Client, c[1] = "peer"
      PROVE  c[2] \in Host /\ c = <<"peer", c[2]>>
  <2>1. CASE c \in {"peer"} \X Host
    BY <2>1
  <2>2. CASE c \in {"cli"} \X Console
    BY <1>4, <2>2
  <2>3. CASE c \in {D!HookClient(lh[1], lh[2]) : lh \in CallsBack}
    <3>1. PICK lh \in CallsBack : c = D!HookClient(lh[1], lh[2])
      BY <2>3
    <3>2. c[1] \in {"acceptHook", "peerHook"}
      BY <3>1 DEF D!HookClient
    <3> QED
      BY <1>4, <3>2
  <2> QED
    BY <2>1, <2>2, <2>3 DEF D!Client
<1> QED
  BY <1>0, <1>1, <1>2, <1>3, <1>4

\* A hook's command is a client, and not a daemon.
LEMMA HookClientFacts ==
    ASSUME D!ConstAssumption, NEW lh \in CallsBack
    PROVE  /\ lh[1] \in D!Loop /\ lh[2] \in Host /\ lh = <<lh[1], lh[2]>>
           /\ D!HookClient(lh[1], lh[2]) \in D!Client
           /\ D!HookClient(lh[1], lh[2])[1] # "peer"
<1>1. lh \in D!Loop \X Host
  BY DEF D!ConstAssumption
<1>2. D!HookClient(lh[1], lh[2]) \in D!Client
  BY DEF D!Client
<1>3. D!HookClient(lh[1], lh[2])[1] # "peer"
  BY DEF D!HookClient
<1> QED
  BY <1>1, <1>2, <1>3

\* What a client leaves behind is a party that a daemon may find.
LEMMA RemainsFacts ==
    ASSUME D!ConstAssumption, NEW c \in D!Client
    PROVE  D!Remains(c) \in D!Party
<1>1. CASE c[1] = "peer"
  <2>1. D!Kept(c[2]) \in D!Party /\ Closed \in D!Party
    BY <1>1, ClientFacts
  <2> QED
    BY <2>1 DEF D!Remains
<1>2. CASE c[1] # "peer"
  BY <1>2, ClientFacts DEF D!Remains
<1> QED
  BY <1>1, <1>2

\* Queues keep their length, and all but c, when c becomes x; a loop that serves
\* nobody still does not.
LEMMA RenameFacts ==
    ASSUME D!ConstAssumption, D!TypeOK, NEW c \in D!Party, NEW x \in D!Party
    PROVE  /\ D!Waiting(c, x) \in [Host -> Seq(D!Party)]
           /\ \A h \in Host :
                 /\ Len(D!Waiting(c, x)[h]) = Len(backlog[h])
                 /\ backlog[h] = <<>> => D!Waiting(c, x)[h] = <<>>
                 /\ \A i \in DOMAIN backlog[h] : backlog[h][i] # c =>
                       /\ i \in DOMAIN D!Waiting(c, x)[h]
                       /\ D!Waiting(c, x)[h][i] = backlog[h][i]
           /\ D!Served(c, x) \in [Host -> D!Party \cup {None}]
           /\ \A h \in Host : D!Served(c, x)[h] = None <=> serving[h] = None
<1>1. ASSUME NEW h \in Host
      PROVE  /\ D!Waiting(c, x)[h] \in Seq(D!Party)
             /\ Len(D!Waiting(c, x)[h]) = Len(backlog[h])
             /\ backlog[h] = <<>> => D!Waiting(c, x)[h] = <<>>
             /\ \A i \in DOMAIN backlog[h] : backlog[h][i] # c =>
                   /\ i \in DOMAIN D!Waiting(c, x)[h]
                   /\ D!Waiting(c, x)[h][i] = backlog[h][i]
  <2>1. PICK q : q = backlog[h]
    OBVIOUS
  <2>2. q \in Seq(D!Party)
    BY <2>1 DEF D!TypeOK
  <2>3. PICK w : w = [i \in DOMAIN q |-> IF q[i] = c THEN x ELSE q[i]]
    OBVIOUS
  <2>4. D!Waiting(c, x)[h] = w
    BY <2>1, <2>3 DEF D!Waiting
  <2>5. Len(q) \in Nat /\ DOMAIN q = 1 .. Len(q)
    BY <2>2
  <2>6. w \in [1 .. Len(q) -> D!Party]
    BY <2>2, <2>3, <2>5
  <2>7. w \in Seq(D!Party) /\ Len(w) = Len(q)
    BY <2>5, <2>6
  <2>8. q = <<>> => w = <<>>
    BY <2>7
  <2>9. \A i \in DOMAIN q : q[i] # c => i \in DOMAIN w /\ w[i] = q[i]
    BY <2>3
  <2> QED
    BY <2>1, <2>4, <2>7, <2>8, <2>9
<1>2. D!Waiting(c, x) \in [Host -> Seq(D!Party)]
  <2>1. \E e : D!Waiting(c, x) = [h \in Host |-> e[h]]
    <3> WITNESS D!Waiting(c, x)
    <3> QED
      BY Zenon DEF D!Waiting
  <2> QED
    BY <1>1, <2>1
<1>3. /\ D!Served(c, x) \in [Host -> D!Party \cup {None}]
      /\ \A h \in Host : D!Served(c, x)[h] = None <=> serving[h] = None
  BY ClientFacts DEF D!Served, D!TypeOK
<1> QED
  BY <1>1, <1>2, <1>3

\* What children inherit are connections of clients.
LEMMA KeptFacts ==
    ASSUME D!ConstAssumption, D!TypeOK
    PROVE  /\ \A c : D!KeptWithout(c) \in [D!Loop \X Host -> D!Client \cup {None}]
           /\ \A N, cs, sv : D!Inherited(N, cs, sv) \in [D!Loop \X Host -> D!Client \cup {None}]
<1>1. \A c : D!KeptWithout(c) \in [D!Loop \X Host -> D!Client \cup {None}]
  BY DEF D!KeptWithout, D!TypeOK
<1>2. ASSUME NEW N, NEW cs, NEW sv
      PROVE  D!Inherited(N, cs, sv) \in [D!Loop \X Host -> D!Client \cup {None}]
  <2>1. \A lh \in D!Loop \X Host : <<"peer", lh[2]>> \in D!Client
    BY ClientFacts
  <2>2. \A lh \in D!Loop \X Host : kept[lh] \in D!Client \cup {None}
    BY DEF D!TypeOK
  <2> QED
    BY <2>1, <2>2 DEF D!Inherited
<1> QED
  BY <1>1, <1>2

\* That a state has become old ends no child and starts none.
LEMMA OutdatedFacts ==
    ASSUME D!TypeOK, NEW H
    PROVE  /\ D!Outdated(H) \in [D!Loop \X Host -> {"none", "discover", "current", "old"}]
           /\ \A lh \in D!Loop \X Host :
                 /\ D!Outdated(H)[lh] = "none" <=> child[lh] = "none"
                 /\ child[lh] \in {"current", "old"} => D!Outdated(H)[lh] \in {"current", "old"}
  BY DEF D!Outdated, D!TypeOK

\* notifyHooks starts the hooks of N and ends none.
LEMMA NotifiedFacts ==
    ASSUME D!TypeOK, NEW N
    PROVE  /\ D!Notified(N) \in [D!Loop \X Host -> {"none", "discover", "current", "old"}]
           /\ \A lh \in D!Loop \X Host :
                 /\ D!Notified(N)[lh] = "none" <=> lh \notin N /\ child[lh] = "none"
                 /\ lh \in N \/ child[lh] \in {"current", "old"} =>
                       D!Notified(N)[lh] \in {"current", "old"}
<1> PICK H : H = {n[2] : n \in N}
  OBVIOUS
<1>1. /\ D!Outdated(H) \in [D!Loop \X Host -> {"none", "discover", "current", "old"}]
      /\ \A lh \in D!Loop \X Host :
            /\ D!Outdated(H)[lh] = "none" <=> child[lh] = "none"
            /\ child[lh] \in {"current", "old"} => D!Outdated(H)[lh] \in {"current", "old"}
  BY OutdatedFacts
<1>2. D!Notified(N) =
         [lh \in D!Loop \X Host |-> IF lh \in N THEN "current" ELSE D!Outdated(H)[lh]]
  BY DEF D!Notified
<1> QED
  BY <1>1, <1>2

\* A client that connects where there is a listening socket and room is the last to
\* wait there; nothing else changes.
LEMMA ConnectFacts ==
    ASSUME D!ConstAssumption, D!TypeOK, NEW c \in D!Client, NEW s \in Host,
           D!ConnectTo(c, s)
    PROVE  /\ conn' \in [D!Client -> Host \cup {None, Silent}]
           /\ \A d \in D!Client \ {c} : conn'[d] = conn[d]
           /\ backlog' \in [Host -> Seq(D!Party)]
           /\ \A h \in Host :
                 /\ Len(backlog'[h]) <= Backlog
                 /\ ~alive[h] /\ ~D!HasChild(h) => backlog'[h] = backlog[h]
                 /\ \A i \in DOMAIN backlog[h] :
                       i \in DOMAIN backlog'[h] /\ backlog'[h][i] = backlog[h][i]
<1>0. Backlog \in Nat /\ c \in D!Party
  BY ClientFacts DEF D!ConstAssumption
<1>1. CASE D!Accepting(s)
  <2>1. /\ conn' = [conn EXCEPT ![c] = s]
        /\ backlog' = [backlog EXCEPT ![s] = Append(backlog[s], c)]
    BY <1>1 DEF D!ConnectTo
  <2>2. /\ conn' \in [D!Client -> Host \cup {None, Silent}]
        /\ \A d \in D!Client \ {c} : conn'[d] = conn[d]
    BY <2>1 DEF D!TypeOK
  <2>3. /\ backlog[s] \in Seq(D!Party) /\ Len(backlog[s]) < Backlog
        /\ alive[s] \/ D!HasChild(s)
    BY <1>1 DEF D!TypeOK, D!Accepting
  <2> PICK q : q = Append(backlog[s], c)
    OBVIOUS
  <2>4. /\ q \in Seq(D!Party) /\ Len(q) = Len(backlog[s]) + 1
        /\ \A i \in DOMAIN backlog[s] : i \in DOMAIN q /\ q[i] = backlog[s][i]
    BY <1>0, <2>3
  <2>5. Len(q) <= Backlog
    BY <1>0, <2>3, <2>4
  <2>6. /\ backlog' \in [Host -> Seq(D!Party)]
        /\ backlog'[s] = q /\ \A h \in Host \ {s} : backlog'[h] = backlog[h]
    BY <2>1, <2>4 DEF D!TypeOK
  <2>7. \A h \in Host : Len(backlog'[h]) <= Backlog
    BY <2>5, <2>6 DEF D!TypeOK
  <2>8. \A h \in Host : ~alive[h] /\ ~D!HasChild(h) => backlog'[h] = backlog[h]
    BY <2>3, <2>6
  <2>9. \A h \in Host : \A i \in DOMAIN backlog[h] :
           i \in DOMAIN backlog'[h] /\ backlog'[h][i] = backlog[h][i]
    BY <2>4, <2>6
  <2> QED
    BY <2>2, <2>6, <2>7, <2>8, <2>9
<1>2. CASE ~D!Accepting(s)
  <2>1. conn' = conn /\ backlog' = backlog
    BY <1>2 DEF D!ConnectTo
  <2> QED
    BY <2>1 DEF D!TypeOK
<1> QED
  BY <1>1, <1>2

\* Init => LoopInv: all daemons run and wait for their timers.
LEMMA InitLoopInv ==
    ASSUME D!ConstAssumption
    PROVE  D!Init => LoopInv
<1> SUFFICES ASSUME D!Init PROVE LoopInv
  OBVIOUS
<1>0. <<>> \in Seq(Host) /\ <<>> \in Seq(D!Party) /\ Len(<<>>) <= Backlog
  BY DEF D!ConstAssumption
<1>1. D!TypeOK
  BY <1>0 DEF D!Init, D!TypeOK
<1>2. DeadDoNothing /\ QueuesAreHeld
  BY DEF D!Init, DeadDoNothing, QueuesAreHeld
<1>3. AcceptLoopSequential /\ PeerLoopSequential /\ OnlyRunningHooksCall
  BY ClientFacts
  DEF D!Init, AcceptLoopSequential, PeerLoopSequential, OnlyRunningHooksCall, D!Loop
<1> QED
  BY <1>1, <1>2, <1>3 DEF LoopInv

\* The daemon of h is gone, and all it waited for but its children.
LEMMA EndDaemonKeeps ==
    ASSUME D!ConstAssumption, LoopInv, NEW h \in Host, NEW why, D!EndDaemon(h, why),
           child' = child \/ child' = [child EXCEPT ![<<"peer", h>>] = "none"],
           UNCHANGED stuck, mayCall' \subseteq mayCall,
           \A lh \in mayCall' : child'[lh] \in {"current", "old"}
    PROVE  LoopInv'
<1> USE DEF LoopInv
<1>c. PICK c : c = <<"peer", h>>
  OBVIOUS
<1>0. /\ <<>> \in Seq(Host) /\ <<>> \in Seq(D!Party) /\ Len(<<>>) <= Backlog
      /\ c \in D!Client /\ c \in D!Party /\ D!Remains(c) \in D!Party
  BY <1>c, ClientFacts, RemainsFacts DEF D!ConstAssumption
<1>1. PICK w : w = D!Waiting(c, D!Remains(c))
  OBVIOUS
<1>2. PICK v : v = D!Served(c, D!Remains(c))
  OBVIOUS
<1>3. /\ w \in [Host -> Seq(D!Party)]
      /\ \A g \in Host : Len(w[g]) = Len(backlog[g]) /\ (backlog[g] = <<>> => w[g] = <<>>)
      /\ v \in [Host -> D!Party \cup {None}]
      /\ \A g \in Host : v[g] = None <=> serving[g] = None
  BY <1>0, <1>1, <1>2, RenameFacts
<1>4. /\ alive' = [alive EXCEPT ![h] = FALSE]
      /\ peerLoop' = [peerLoop EXCEPT ![h] = "wait"]
      /\ addresses' = [addresses EXCEPT ![h] = <<>>]
      /\ conn' = [conn EXCEPT ![c] = None]
      /\ backlog' = IF D!HasChild(h)' THEN w ELSE [w EXCEPT ![h] = <<>>]
      /\ serving' = [v EXCEPT ![h] = None]
      /\ kept' = [lh \in D!Loop \X Host |->
                    IF child'[lh] = "none" THEN None ELSE D!KeptWithout(c)[lh]]
  BY <1>c, <1>1, <1>2 DEF D!EndDaemon
<1>5. /\ alive' \in [Host -> BOOLEAN] /\ alive'[h] = FALSE
      /\ \A g \in Host \ {h} : alive'[g] = alive[g]
  BY <1>4 DEF D!TypeOK
<1>6. /\ peerLoop' \in [Host -> {"wait", "sync"}] /\ peerLoop'[h] = "wait"
      /\ \A g \in Host \ {h} : peerLoop'[g] = peerLoop[g]
  BY <1>4 DEF D!TypeOK
<1>7. addresses' \in [Host -> Seq(Host)]
  BY <1>0, <1>4 DEF D!TypeOK
<1>8. /\ conn' \in [D!Client -> Host \cup {None, Silent}] /\ conn'[<<"peer", h>>] = None
      /\ \A g \in Host \ {h} : conn'[<<"peer", g>>] = conn[<<"peer", g>>]
  <2>1. \A g \in Host \ {h} : <<"peer", g>> # c /\ <<"peer", g>> \in D!Client
    BY <1>c, ClientFacts
  <2> QED
    BY <1>c, <1>0, <1>4, <2>1 DEF D!TypeOK
<1>9. /\ backlog' \in [Host -> Seq(D!Party)]
      /\ \A g \in Host : backlog'[g] \in {w[g], <<>>}
      /\ ~D!HasChild(h)' => backlog'[h] = <<>>
  <2>1. CASE D!HasChild(h)'
    BY <1>3, <1>4, <2>1
  <2>2. CASE ~D!HasChild(h)'
    BY <1>0, <1>3, <1>4, <2>2
  <2> QED
    BY <2>1, <2>2
<1>10. \A g \in Host : Len(backlog'[g]) <= Backlog /\ (backlog[g] = <<>> => backlog'[g] = <<>>)
  BY <1>0, <1>3, <1>9 DEF D!TypeOK
<1>11. /\ serving' \in [Host -> D!Party \cup {None}] /\ serving'[h] = None
       /\ \A g \in Host : serving'[g] # None => serving[g] # None
  BY <1>3, <1>4
<1>12. /\ child' \in [D!Loop \X Host -> {"none", "discover", "current", "old"}]
       /\ \A l \in D!Loop, g \in Host :
             /\ child[<<l, g>>] = "none" => child'[<<l, g>>] = "none"
             /\ g # h => child'[<<l, g>>] = child[<<l, g>>]
  <2>1. CASE child' = child
    BY <2>1 DEF D!TypeOK
  <2>2. CASE child' = [child EXCEPT ![<<"peer", h>>] = "none"]
    <3>1. /\ child' \in [D!Loop \X Host -> {"none", "discover", "current", "old"}]
          /\ \A lh \in D!Loop \X Host : child'[lh] = IF lh = <<"peer", h>> THEN "none" ELSE child[lh]
      BY <2>2 DEF D!TypeOK
    <3>2. \A l \in D!Loop, g \in Host : <<l, g>> \in D!Loop \X Host
      OBVIOUS
    <3>3. \A l \in D!Loop, g \in Host : g # h => <<l, g>> # <<"peer", h>>
      OBVIOUS
    <3> QED
      BY <3>1, <3>2, <3>3
  <2> QED
    BY <2>1, <2>2
<1>13. kept' \in [D!Loop \X Host -> D!Client \cup {None}]
  BY <1>4, KeptFacts
<1>14. D!TypeOK'
  BY <1>5, <1>6, <1>7, <1>8, <1>9, <1>10, <1>11, <1>12, <1>13 DEF D!TypeOK
<1>15. DeadDoNothing'
  <2> SUFFICES ASSUME NEW g \in Host, ~alive'[g]
               PROVE  peerLoop'[g] = "wait" /\ serving'[g] = None /\ conn'[<<"peer", g>>] = None
    BY DEF DeadDoNothing
  <2>1. CASE g = h
    BY <1>6, <1>8, <1>11, <2>1
  <2>2. CASE g # h
    BY <1>5, <1>6, <1>8, <1>11, <2>2 DEF DeadDoNothing
  <2> QED
    BY <2>1, <2>2
<1>16. QueuesAreHeld'
  <2> SUFFICES ASSUME NEW g \in Host, ~alive'[g], backlog'[g] # <<>>
               PROVE  D!HasChild(g)'
    BY DEF QueuesAreHeld
  <2>1. CASE g = h
    BY <1>9, <2>1
  <2>2. CASE g # h
    <3>1. D!HasChild(g)
      BY <1>5, <1>10, <2>2 DEF QueuesAreHeld
    <3> QED
      BY <1>12, <2>2, <3>1 DEF D!HasChild
  <2> QED
    BY <2>1, <2>2
<1>17. AcceptLoopSequential'
  BY <1>11, <1>12 DEF AcceptLoopSequential, D!Loop
<1>18. PeerLoopSequential'
  <2> SUFFICES ASSUME NEW g \in Host
               PROVE  /\ conn'[<<"peer", g>>] # None =>
                            peerLoop'[g] = "sync" /\ child'[<<"peer", g>>] = "none"
                      /\ alive'[g] /\ child'[<<"peer", g>>] # "none" => peerLoop'[g] = "sync"
    BY DEF PeerLoopSequential
  <2>0. "peer" \in D!Loop
    BY DEF D!Loop
  <2>1. CASE g = h
    BY <1>5, <1>8, <2>1
  <2>2. CASE g # h
    <3>1. /\ alive'[g] = alive[g] /\ peerLoop'[g] = peerLoop[g]
          /\ conn'[<<"peer", g>>] = conn[<<"peer", g>>]
          /\ child'[<<"peer", g>>] = child[<<"peer", g>>]
      BY <1>5, <1>6, <1>8, <1>12, <2>0, <2>2
    <3> QED
      BY <3>1 DEF PeerLoopSequential
  <2> QED
    BY <2>1, <2>2
<1> QED
  BY <1>14, <1>15, <1>16, <1>17, <1>18 DEF OnlyRunningHooksCall

\* A session ends well: both loops may go on to their hooks, as neither has one.
LEMMA SessionEndsKeeps ==
    ASSUME D!ConstAssumption, LoopInv, NEW s \in Host, NEW serverChanged \in BOOLEAN,
           NEW clientChanged \in BOOLEAN, D!SessionEnds(s, serverChanged, clientChanged)
    PROVE  LoopInv'
<1> USE DEF LoopInv
<1>0. \A M : /\ D!Notified(M) \in [D!Loop \X Host -> {"none", "discover", "current", "old"}]
             /\ \A lh \in D!Loop \X Host :
                   /\ D!Notified(M)[lh] = "none" <=> lh \notin M /\ child[lh] = "none"
                   /\ lh \in M \/ child[lh] \in {"current", "old"} =>
                         D!Notified(M)[lh] \in {"current", "old"}
  BY NotifiedFacts
<1> PICK c : c = serving[s]
  OBVIOUS
<1>N. PICK N : N = (IF serverChanged THEN {<<"accept", s>>} ELSE {}) \cup
                 (IF clientChanged /\ c[1] = "peer" THEN {<<"peer", c[2]>>} ELSE {})
  OBVIOUS
<1>1. c \in D!Client /\ conn[c] = s /\ serving[s] # None
  BY ClientFacts DEF D!SessionEnds
<1>2. /\ conn' = [conn EXCEPT ![c] = None]
      /\ serving' = [serving EXCEPT ![s] = None]
      /\ child' = D!Notified(N)
      /\ mayCall' = mayCall \cup (N \cap CallsBack)
      /\ kept' = [lh \in D!Loop \X Host |->
                    IF D!Inherited(N, conn', serving')[lh] = c THEN None
                    ELSE D!Inherited(N, conn', serving')[lh]]
      /\ UNCHANGED <<D!loops, backlog, stuck>>
  BY <1>N DEF D!SessionEnds
<1>3. \A lh \in N : \/ lh = <<"accept", s>>
                    \/ \E h \in Host : lh = <<"peer", h>> /\ c = <<"peer", h>>
  BY <1>1, <1>N, ClientFacts
<1>4. N \subseteq D!Loop \X Host
  BY <1>3 DEF D!Loop
<1>5. /\ child' \in [D!Loop \X Host -> {"none", "discover", "current", "old"}]
      /\ \A lh \in D!Loop \X Host :
            /\ child'[lh] = "none" <=> lh \notin N /\ child[lh] = "none"
            /\ lh \in N \/ child[lh] \in {"current", "old"} => child'[lh] \in {"current", "old"}
  <2>1. child' = D!Notified(N)
    BY <1>2
  <2>2. /\ D!Notified(N) \in [D!Loop \X Host -> {"none", "discover", "current", "old"}]
        /\ \A lh \in D!Loop \X Host :
              /\ D!Notified(N)[lh] = "none" <=> lh \notin N /\ child[lh] = "none"
              /\ lh \in N \/ child[lh] \in {"current", "old"} =>
                    D!Notified(N)[lh] \in {"current", "old"}
    BY <1>0, Zenon
  <2> QED
    BY <2>1, <2>2
<1>6. /\ conn' \in [D!Client -> Host \cup {None, Silent}]
      /\ conn'[c] = None /\ \A d \in D!Client \ {c} : conn'[d] = conn[d]
  BY <1>1, <1>2 DEF D!TypeOK
<1>7. /\ serving' \in [Host -> D!Party \cup {None}]
      /\ serving'[s] = None /\ \A g \in Host \ {s} : serving'[g] = serving[g]
  BY <1>2 DEF D!TypeOK
<1>8. kept' \in [D!Loop \X Host -> D!Client \cup {None}]
  <2>1. PICK k : k = D!Inherited(N, conn', serving')
    OBVIOUS
  <2>2. k \in [D!Loop \X Host -> D!Client \cup {None}]
    BY <2>1, KeptFacts, Zenon
  <2>3. kept' = [lh \in D!Loop \X Host |-> IF k[lh] = c THEN None ELSE k[lh]]
    BY <1>2, <2>1
  <2> QED
    BY <2>2, <2>3
<1>9. mayCall' \subseteq CallsBack
  BY <1>2 DEF D!TypeOK
<1>10. D!TypeOK'
  BY <1>2, <1>5, <1>6, <1>7, <1>8, <1>9 DEF D!TypeOK, D!loops
<1>11. \A h \in Host : /\ <<"peer", h>> \in D!Client
                       /\ <<"peer", h>> \in D!Loop \X Host /\ <<"accept", h>> \in D!Loop \X Host
  BY ClientFacts DEF D!Loop
<1>12. DeadDoNothing'
  <2>1. \A h \in Host : conn'[<<"peer", h>>] = None \/ conn'[<<"peer", h>>] = conn[<<"peer", h>>]
    BY <1>6, <1>11
  <2> QED
    BY <1>2, <1>7, <2>1 DEF DeadDoNothing, D!loops
<1>13. QueuesAreHeld'
  <2>1. \A l \in D!Loop, h \in Host : child[<<l, h>>] # "none" => child'[<<l, h>>] # "none"
    BY <1>5
  <2>2. \A h \in Host : D!HasChild(h) => D!HasChild(h)'
    BY <2>1 DEF D!HasChild
  <2> QED
    BY <1>2, <2>2 DEF QueuesAreHeld, D!loops
<1>14. AcceptLoopSequential'
  <2> SUFFICES ASSUME NEW g \in Host, serving'[g] # None
               PROVE  child'[<<"accept", g>>] = "none"
    BY DEF AcceptLoopSequential
  <2>1. g # s /\ child[<<"accept", g>>] = "none"
    BY <1>7 DEF AcceptLoopSequential
  <2>2. <<"accept", g>> \notin N
    BY <1>3, <2>1
  <2> QED
    BY <1>5, <1>11, <2>1, <2>2
<1>15. PeerLoopSequential'
  <2> SUFFICES ASSUME NEW g \in Host
               PROVE  /\ conn'[<<"peer", g>>] # None =>
                            peerLoop'[g] = "sync" /\ child'[<<"peer", g>>] = "none"
                      /\ alive'[g] /\ child'[<<"peer", g>>] # "none" => peerLoop'[g] = "sync"
    BY DEF PeerLoopSequential
  <2>0. None \notin Host
    BY ClientFacts
  <2>1. CASE c = <<"peer", g>>
    <3>1. peerLoop[g] = "sync" /\ conn'[<<"peer", g>>] = None
      BY <1>1, <1>6, <2>0, <2>1 DEF PeerLoopSequential
    <3> QED
      BY <1>2, <3>1 DEF D!loops
  <2>2. CASE c # <<"peer", g>>
    <3>1. <<"peer", g>> \notin N
      BY <1>3, <2>2
    <3>2. conn'[<<"peer", g>>] = conn[<<"peer", g>>]
      BY <1>6, <1>11, <2>2
    <3>3. child'[<<"peer", g>>] = "none" <=> child[<<"peer", g>>] = "none"
      BY <1>5, <1>11, <3>1
    <3> QED
      BY <1>2, <3>2, <3>3 DEF PeerLoopSequential, D!loops
  <2> QED
    BY <2>1, <2>2
<1>16. OnlyRunningHooksCall'
  <2>1. mayCall \subseteq D!Loop \X Host
    BY DEF D!TypeOK, D!ConstAssumption
  <2> QED
    BY <1>2, <1>4, <1>5, <2>1 DEF OnlyRunningHooksCall
<1> QED
  BY <1>10, <1>12, <1>13, <1>14, <1>15, <1>16

\* The accept loop takes the first in its queue, and serves it.
LEMMA AcceptKeeps ==
    ASSUME D!ConstAssumption, LoopInv, NEW s \in Host, D!Accept(s)
    PROVE  LoopInv'
<1> USE DEF LoopInv
<1>1. /\ alive[s] /\ child[<<"accept", s>>] = "none"
      /\ backlog[s] \in Seq(D!Party) /\ backlog[s] # <<>>
  BY DEF D!Accept, D!CanAccept, D!TypeOK
<1>2. /\ serving' = [serving EXCEPT ![s] = Head(backlog[s])]
      /\ backlog' = [backlog EXCEPT ![s] = Tail(backlog[s])]
      /\ UNCHANGED <<D!loops, conn, kept, D!children>>
  BY DEF D!Accept
<1>3. /\ Head(backlog[s]) \in D!Party /\ Tail(backlog[s]) \in Seq(D!Party)
      /\ Len(Tail(backlog[s])) <= Len(backlog[s])
  BY <1>1
<1>4. /\ backlog' \in [Host -> Seq(D!Party)]
      /\ \A g \in Host \ {s} : backlog'[g] = backlog[g]
      /\ backlog'[s] = Tail(backlog[s])
  BY <1>2, <1>3 DEF D!TypeOK
<1>5. \A g \in Host : Len(backlog'[g]) <= Backlog
  <2>1. Len(backlog[s]) \in Nat /\ Len(Tail(backlog[s])) \in Nat /\ Len(backlog[s]) <= Backlog
        /\ Backlog \in Nat
    BY <1>1, <1>3 DEF D!TypeOK, D!ConstAssumption
  <2>2. Len(backlog'[s]) <= Backlog
    BY <1>3, <1>4, <2>1
  <2>3. \A g \in Host \ {s} : Len(backlog'[g]) <= Backlog
    BY <1>4 DEF D!TypeOK
  <2> QED
    BY <2>2, <2>3
<1>6. /\ serving' \in [Host -> D!Party \cup {None}]
      /\ \A g \in Host \ {s} : serving'[g] = serving[g]
  BY <1>2, <1>3 DEF D!TypeOK
<1>7. D!TypeOK'
  BY <1>2, <1>4, <1>5, <1>6 DEF D!TypeOK, D!loops, D!children
<1>8. DeadDoNothing' /\ QueuesAreHeld'
  BY <1>1, <1>2, <1>4, <1>6
  DEF DeadDoNothing, QueuesAreHeld, D!HasChild, D!loops, D!children
<1>9. AcceptLoopSequential' /\ PeerLoopSequential' /\ OnlyRunningHooksCall'
  BY <1>1, <1>2, <1>6
  DEF AcceptLoopSequential, PeerLoopSequential, OnlyRunningHooksCall, D!loops, D!children
<1> QED
  BY <1>7, <1>8, <1>9

\* A session breaks off: the loop is free, no child has ended and none started.
LEMMA SessionBreaksKeeps ==
    ASSUME D!ConstAssumption, LoopInv, NEW s \in Host, D!SessionBreaks(s)
    PROVE  LoopInv'
<1> USE DEF LoopInv
<1>1. /\ serving' = [serving EXCEPT ![s] = None]
      /\ UNCHANGED <<D!loops, backlog, conn, kept, stuck, mayCall>>
  BY DEF D!SessionBreaks
<1>2. /\ child' \in [D!Loop \X Host -> {"none", "discover", "current", "old"}]
      /\ \A lh \in D!Loop \X Host :
            /\ child'[lh] = "none" <=> child[lh] = "none"
            /\ child[lh] \in {"current", "old"} => child'[lh] \in {"current", "old"}
  <2>1. CASE child' = child
    BY <2>1 DEF D!TypeOK
  <2>2. CASE child' = D!Outdated({s})
    <3>1. /\ D!Outdated({s}) \in [D!Loop \X Host -> {"none", "discover", "current", "old"}]
          /\ \A lh \in D!Loop \X Host :
                /\ D!Outdated({s})[lh] = "none" <=> child[lh] = "none"
                /\ child[lh] \in {"current", "old"} => D!Outdated({s})[lh] \in {"current", "old"}
      BY OutdatedFacts
    <3> QED
      BY <2>2, <3>1
  <2> QED
    BY <2>1, <2>2 DEF D!SessionBreaks
<1>3. /\ serving' \in [Host -> D!Party \cup {None}]
      /\ \A g \in Host : serving'[g] # None => serving[g] # None
  BY <1>1 DEF D!TypeOK
<1>4. D!TypeOK'
  BY <1>1, <1>2, <1>3 DEF D!TypeOK, D!loops
<1>5. \A l \in D!Loop, g \in Host : child'[<<l, g>>] = "none" <=> child[<<l, g>>] = "none"
  BY <1>2
<1>6. DeadDoNothing' /\ QueuesAreHeld'
  <2>1. DeadDoNothing'
    BY <1>1, <1>3 DEF DeadDoNothing, D!loops
  <2>2. \A g \in Host : D!HasChild(g) => D!HasChild(g)'
    BY <1>5 DEF D!HasChild
  <2>3. QueuesAreHeld'
    BY <1>1, <2>2 DEF QueuesAreHeld, D!loops
  <2> QED
    BY <2>1, <2>3
<1>7. AcceptLoopSequential' /\ PeerLoopSequential'
  BY <1>1, <1>3, <1>5 DEF AcceptLoopSequential, PeerLoopSequential, D!loops, D!Loop
<1>8. OnlyRunningHooksCall'
  <2>1. mayCall \subseteq D!Loop \X Host
    BY DEF D!TypeOK, D!ConstAssumption
  <2> QED
    BY <1>1, <1>2, <2>1 DEF OnlyRunningHooksCall
<1> QED
  BY <1>4, <1>6, <1>7, <1>8

\* A child has ended: nothing else is started or ended by it, and the queue of a dead
\* daemon goes with its last one.
LEMMA ChildGoneKeeps ==
    ASSUME D!ConstAssumption, LoopInv, NEW l \in D!Loop, NEW h \in Host, D!ChildGone(l, h)
    PROVE  LoopInv'
<1> USE DEF LoopInv
<1>1. PICK w : w = IF l = "accept" THEN D!Waiting(D!Kept(h), Closed) ELSE backlog
  OBVIOUS
<1>2. PICK v : v = IF l = "accept" THEN D!Served(D!Kept(h), Closed) ELSE serving
  OBVIOUS
<1>3. /\ w \in [Host -> Seq(D!Party)]
      /\ \A g \in Host : Len(w[g]) = Len(backlog[g]) /\ (backlog[g] = <<>> => w[g] = <<>>)
      /\ v \in [Host -> D!Party \cup {None}]
      /\ \A g \in Host : v[g] = None <=> serving[g] = None
  <2>1. D!Kept(h) \in D!Party /\ Closed \in D!Party
    BY ClientFacts
  <2>2. CASE l = "accept"
    BY <1>1, <1>2, <2>1, <2>2, RenameFacts
  <2>3. CASE l # "accept"
    BY <1>1, <1>2, <2>3 DEF D!TypeOK
  <2> QED
    BY <2>2, <2>3
<1>4. /\ child' = [child EXCEPT ![<<l, h>>] = "none"]
      /\ stuck' = [stuck EXCEPT ![<<l, h>>] = "no"]
      /\ mayCall' = mayCall \ {<<l, h>>}
      /\ kept' = [kept EXCEPT ![<<l, h>>] = None]
      /\ serving' = v
      /\ backlog' = IF alive[h] \/ D!HasChild(h)' THEN w ELSE [w EXCEPT ![h] = <<>>]
      /\ UNCHANGED <<D!loops, conn>>
  BY <1>1, <1>2 DEF D!ChildGone
<1>5. /\ backlog' \in [Host -> Seq(D!Party)]
      /\ \A g \in Host : backlog'[g] \in {w[g], <<>>}
      /\ ~alive[h] /\ ~D!HasChild(h)' => backlog'[h] = <<>>
  <2>0. <<>> \in Seq(D!Party)
    OBVIOUS
  <2>1. CASE alive[h] \/ D!HasChild(h)'
    BY <1>3, <1>4, <2>1
  <2>2. CASE ~(alive[h] \/ D!HasChild(h)')
    BY <1>3, <1>4, <2>0, <2>2
  <2> QED
    BY <2>1, <2>2
<1>6. \A g \in Host : Len(backlog'[g]) <= Backlog /\ (backlog[g] = <<>> => backlog'[g] = <<>>)
  <2>1. Len(<<>>) <= Backlog
    BY DEF D!ConstAssumption
  <2> QED
    BY <1>3, <1>5, <2>1 DEF D!TypeOK
<1>7. /\ child' \in [D!Loop \X Host -> {"none", "discover", "current", "old"}]
      /\ \A lh \in D!Loop \X Host : child'[lh] = IF lh = <<l, h>> THEN "none" ELSE child[lh]
  BY <1>4 DEF D!TypeOK
<1>8. /\ stuck' \in [D!Loop \X Host -> {"no", "jammed", "hung"}]
      /\ kept' \in [D!Loop \X Host -> D!Client \cup {None}]
      /\ mayCall' \subseteq CallsBack
  BY <1>4 DEF D!TypeOK
<1>9. D!TypeOK'
  BY <1>3, <1>4, <1>5, <1>6, <1>7, <1>8 DEF D!TypeOK, D!loops
<1>10. \A m \in D!Loop, g \in Host :
          /\ child[<<m, g>>] = "none" => child'[<<m, g>>] = "none"
          /\ g # h => child'[<<m, g>>] = child[<<m, g>>]
  <2>1. \A m \in D!Loop, g \in Host : <<m, g>> \in D!Loop \X Host
    OBVIOUS
  <2>2. \A m \in D!Loop, g \in Host : g # h => <<m, g>> # <<l, h>>
    OBVIOUS
  <2> QED
    BY <1>7, <2>1, <2>2
<1>11. DeadDoNothing'
  BY <1>3, <1>4 DEF DeadDoNothing, D!loops
<1>12. QueuesAreHeld'
  <2> SUFFICES ASSUME NEW g \in Host, ~alive'[g], backlog'[g] # <<>>
               PROVE  D!HasChild(g)'
    BY DEF QueuesAreHeld
  <2>1. alive' = alive
    BY <1>4 DEF D!loops
  <2>2. CASE g = h
    BY <1>5, <2>1, <2>2
  <2>3. CASE g # h
    <3>1. D!HasChild(g)
      BY <1>6, <2>1 DEF QueuesAreHeld
    <3> QED
      BY <1>10, <2>3, <3>1 DEF D!HasChild
  <2> QED
    BY <2>2, <2>3
<1>13. AcceptLoopSequential' /\ PeerLoopSequential'
  BY <1>3, <1>4, <1>10 DEF AcceptLoopSequential, PeerLoopSequential, D!loops, D!Loop
<1>14. OnlyRunningHooksCall'
  <2>1. mayCall \subseteq D!Loop \X Host
    BY DEF D!TypeOK, D!ConstAssumption
  <2> QED
    BY <1>4, <1>7, <2>1 DEF OnlyRunningHooksCall
<1> QED
  BY <1>9, <1>11, <1>12, <1>13, <1>14

\* The next hook takes the place of one, or a child gets stuck.
LEMMA HookStepKeeps ==
    ASSUME D!ConstAssumption, LoopInv, NEW l \in D!Loop, NEW h \in Host,
           D!NextHook(l, h) \/ \E how \in {"jammed", "hung"} : D!ChildSticks(l, h, how)
    PROVE  LoopInv'
<1> USE DEF LoopInv
<1>1. CASE D!NextHook(l, h)
  <2>1. /\ kept' = D!Inherited({<<l, h>>}, conn, serving)
        /\ serving' = IF l = "accept" THEN D!Served(D!Kept(h), Closed) ELSE serving
        /\ backlog' = IF l = "accept" THEN D!Waiting(D!Kept(h), Closed) ELSE backlog
        /\ UNCHANGED <<D!loops, conn, D!children>>
    BY <1>1 DEF D!NextHook
  <2>2. /\ backlog' \in [Host -> Seq(D!Party)]
        /\ \A g \in Host : Len(backlog'[g]) = Len(backlog[g]) /\ (backlog[g] = <<>> => backlog'[g] = <<>>)
        /\ serving' \in [Host -> D!Party \cup {None}]
        /\ \A g \in Host : serving'[g] = None <=> serving[g] = None
    <3>1. D!Kept(h) \in D!Party /\ Closed \in D!Party
      BY ClientFacts
    <3>2. CASE l = "accept"
      BY <2>1, <3>1, <3>2, RenameFacts
    <3>3. CASE l # "accept"
      BY <2>1, <3>3 DEF D!TypeOK
    <3> QED
      BY <3>2, <3>3
  <2>3. kept' \in [D!Loop \X Host -> D!Client \cup {None}]
    BY <2>1, KeptFacts
  <2>4. D!TypeOK'
    BY <2>1, <2>2, <2>3 DEF D!TypeOK, D!loops, D!children
  <2>5. DeadDoNothing' /\ AcceptLoopSequential' /\ PeerLoopSequential' /\ OnlyRunningHooksCall'
    BY <2>1, <2>2
    DEF DeadDoNothing, AcceptLoopSequential, PeerLoopSequential, OnlyRunningHooksCall,
        D!loops, D!children
  <2>6. QueuesAreHeld'
    <3>1. \A g \in Host : D!HasChild(g) => D!HasChild(g)'
      BY <2>1 DEF D!HasChild, D!children
    <3> QED
      BY <2>1, <2>2, <3>1 DEF QueuesAreHeld, D!loops
  <2> QED
    BY <2>4, <2>5, <2>6
<1>2. CASE \E how \in {"jammed", "hung"} : D!ChildSticks(l, h, how)
  <2>1. UNCHANGED <<D!loops, D!net, child, mayCall>>
    BY <1>2 DEF D!ChildSticks
  <2>2. stuck' \in [D!Loop \X Host -> {"no", "jammed", "hung"}]
    BY <1>2 DEF D!ChildSticks, D!TypeOK
  <2>3. D!TypeOK'
    BY <2>1, <2>2 DEF D!TypeOK, D!loops, D!net
  <2>4. DeadDoNothing' /\ AcceptLoopSequential' /\ PeerLoopSequential' /\ OnlyRunningHooksCall'
    BY <2>1
    DEF DeadDoNothing, AcceptLoopSequential, PeerLoopSequential, OnlyRunningHooksCall,
        D!loops, D!net
  <2>5. QueuesAreHeld'
    BY <2>1 DEF QueuesAreHeld, D!HasChild, D!loops, D!net
  <2> QED
    BY <2>3, <2>4, <2>5
<1> QED
  BY <1>1, <1>2

\* A command, of a user or of a hook, connects to a daemon.
LEMMA CommandConnectsKeeps ==
    ASSUME D!ConstAssumption, LoopInv, NEW c \in D!Client, c[1] # "peer", NEW s \in Host,
           D!ConnectTo(c, s), mayCall' \subseteq mayCall,
           UNCHANGED <<D!loops, serving, kept, child, stuck>>
    PROVE  LoopInv'
<1> USE DEF LoopInv
<1>1. /\ conn' \in [D!Client -> Host \cup {None, Silent}]
      /\ \A d \in D!Client \ {c} : conn'[d] = conn[d]
      /\ backlog' \in [Host -> Seq(D!Party)]
      /\ \A h \in Host : /\ Len(backlog'[h]) <= Backlog
                         /\ ~alive[h] /\ ~D!HasChild(h) => backlog'[h] = backlog[h]
  BY ConnectFacts
<1>2. \A h \in Host : conn'[<<"peer", h>>] = conn[<<"peer", h>>]
  <2>1. \A h \in Host : <<"peer", h>>[1] = "peer"
    OBVIOUS
  <2>2. \A h \in Host : <<"peer", h>> # c
    BY <2>1
  <2>3. \A h \in Host : <<"peer", h>> \in D!Client
    BY ClientFacts
  <2> QED
    BY <1>1, <2>2, <2>3
<1>3. D!TypeOK'
  BY <1>1 DEF D!TypeOK, D!loops
<1>4. DeadDoNothing' /\ AcceptLoopSequential' /\ PeerLoopSequential' /\ OnlyRunningHooksCall'
  BY <1>2
  DEF DeadDoNothing, AcceptLoopSequential, PeerLoopSequential, OnlyRunningHooksCall, D!loops
<1>5. QueuesAreHeld'
  <2>1. \A g \in Host : D!HasChild(g) => D!HasChild(g)'
    BY DEF D!HasChild
  <2> QED
    BY <1>1, <2>1 DEF QueuesAreHeld, D!loops
<1> QED
  BY <1>3, <1>4, <1>5

\* The peer loop turns to the next address.
LEMMA SyncNextKeeps ==
    ASSUME D!ConstAssumption, LoopInv, NEW h \in Host, D!SyncNext(h)
    PROVE  LoopInv'
<1> USE DEF LoopInv
<1>1. /\ peerLoop[h] = "sync" /\ conn[<<"peer", h>>] = None
      /\ child[<<"peer", h>>] = "none"
  BY DEF D!SyncNext, D!PeerLoopFree
<1>2. addresses[h] \in Seq(Host) /\ addresses[h] # <<>> /\ Head(addresses[h]) \in Host
  BY DEF D!SyncNext, D!TypeOK
<1>3. /\ D!ConnectTo(<<"peer", h>>, Head(addresses[h]))
      /\ addresses' = [addresses EXCEPT ![h] = Tail(addresses[h])]
      /\ UNCHANGED <<alive, peerLoop, serving, kept, D!children>>
  BY DEF D!SyncNext
<1>4. \A g \in Host : <<"peer", g>> \in D!Client
  BY ClientFacts
<1>5. \A g \in Host \ {h} : <<"peer", g>> # <<"peer", h>>
  OBVIOUS
<1>6. /\ conn' \in [D!Client -> Host \cup {None, Silent}]
      /\ \A d \in D!Client \ {<<"peer", h>>} : conn'[d] = conn[d]
      /\ backlog' \in [Host -> Seq(D!Party)]
      /\ \A g \in Host : /\ Len(backlog'[g]) <= Backlog
                         /\ ~alive[g] /\ ~D!HasChild(g) => backlog'[g] = backlog[g]
  BY <1>2, <1>3, <1>4, ConnectFacts
<1>7. \A g \in Host \ {h} : conn'[<<"peer", g>>] = conn[<<"peer", g>>]
  BY <1>4, <1>5, <1>6
<1>8. addresses' \in [Host -> Seq(Host)]
  BY <1>2, <1>3 DEF D!TypeOK
<1>9. D!TypeOK'
  BY <1>3, <1>6, <1>8 DEF D!TypeOK, D!children
<1>10. alive[h]
  BY <1>1 DEF DeadDoNothing
<1>11. DeadDoNothing'
  <2>1. \A g \in Host : ~alive[g] => g \in Host \ {h}
    BY <1>10
  <2> QED
    BY <1>3, <1>7, <2>1 DEF DeadDoNothing
<1>12. QueuesAreHeld'
  <2>1. \A g \in Host : D!HasChild(g) => D!HasChild(g)'
    BY <1>3 DEF D!HasChild, D!children
  <2> QED
    BY <1>3, <1>6, <2>1 DEF QueuesAreHeld
<1>13. PeerLoopSequential'
  BY <1>1, <1>3, <1>7 DEF PeerLoopSequential, D!children
<1>14. AcceptLoopSequential' /\ OnlyRunningHooksCall'
  BY <1>3 DEF AcceptLoopSequential, OnlyRunningHooksCall, D!children
<1> QED
  BY <1>9, <1>11, <1>12, <1>13, <1>14

\* A client is no longer connected, or its link has died.
LEMMA ClientLeavesKeeps ==
    ASSUME D!ConstAssumption, LoopInv, NEW c \in D!Client, NEW x \in {None, Silent},
           conn[c] # None,
           conn' = [conn EXCEPT ![c] = x],
           \/ backlog' = backlog /\ serving' = serving
           \/ \E y \in D!Party : backlog' = D!Waiting(c, y) /\ serving' = D!Served(c, y),
           kept' = D!KeptWithout(c),
           UNCHANGED <<D!loops, D!children>>
    PROVE  LoopInv'
<1> USE DEF LoopInv
<1>0. c \in D!Party /\ \A h \in Host : <<"peer", h>> \in D!Client
  BY ClientFacts
<1>1. /\ conn' \in [D!Client -> Host \cup {None, Silent}]
      /\ \A d \in D!Client : conn'[d] = conn[d] \/ (conn[d] # None /\ conn'[d] \in {None, Silent})
  BY DEF D!TypeOK
<1>2. \A h \in Host : conn[<<"peer", h>>] = None => conn'[<<"peer", h>>] = None
  BY <1>0, <1>1
<1>3. /\ backlog' \in [Host -> Seq(D!Party)]
      /\ \A h \in Host : Len(backlog'[h]) = Len(backlog[h]) /\ (backlog[h] = <<>> => backlog'[h] = <<>>)
      /\ serving' \in [Host -> D!Party \cup {None}]
      /\ \A h \in Host : serving'[h] = None <=> serving[h] = None
  <2>1. CASE backlog' = backlog /\ serving' = serving
    BY <2>1 DEF D!TypeOK
  <2>2. CASE \E y \in D!Party : backlog' = D!Waiting(c, y) /\ serving' = D!Served(c, y)
    <3>1. PICK y \in D!Party : backlog' = D!Waiting(c, y) /\ serving' = D!Served(c, y)
      BY <2>2
    <3>2. /\ D!Waiting(c, y) \in [Host -> Seq(D!Party)]
          /\ \A h \in Host : /\ Len(D!Waiting(c, y)[h]) = Len(backlog[h])
                             /\ backlog[h] = <<>> => D!Waiting(c, y)[h] = <<>>
          /\ D!Served(c, y) \in [Host -> D!Party \cup {None}]
          /\ \A h \in Host : D!Served(c, y)[h] = None <=> serving[h] = None
      BY <1>0, RenameFacts
    <3> QED
      BY <3>1, <3>2
  <2> QED
    BY <2>1, <2>2
<1>4. kept' \in [D!Loop \X Host -> D!Client \cup {None}]
  BY KeptFacts
<1>5. D!TypeOK'
  BY <1>1, <1>3, <1>4 DEF D!TypeOK, D!loops, D!children
<1>6. DeadDoNothing'
  BY <1>2, <1>3 DEF DeadDoNothing, D!loops
<1>7. QueuesAreHeld'
  <2>1. \A g \in Host : D!HasChild(g) => D!HasChild(g)'
    BY DEF D!HasChild, D!children
  <2> QED
    BY <1>3, <2>1 DEF QueuesAreHeld, D!loops
<1>8. AcceptLoopSequential' /\ OnlyRunningHooksCall'
  BY <1>3 DEF AcceptLoopSequential, OnlyRunningHooksCall, D!children
<1>9. PeerLoopSequential'
  BY <1>2 DEF PeerLoopSequential, D!loops, D!children
<1> QED
  BY <1>5, <1>6, <1>7, <1>8, <1>9

\* A daemon starts, or its peer loop begins or ends a round.
LEMMA LoopStepKeeps ==
    ASSUME D!ConstAssumption, LoopInv, NEW h \in Host,
           D!DaemonStarts(h) \/ D!RoundBegins(h) \/ D!RoundEnds(h)
    PROVE  LoopInv'
<1> USE DEF LoopInv
<1>0. /\ "peer" \in D!Loop /\ "accept" \in D!Loop /\ <<"peer", h>> \in D!Loop \X Host
      /\ \A g \in Host : <<"accept", g>> # <<"peer", h>>
      /\ \A g \in Host \ {h} : <<"peer", g>> # <<"peer", h>>
      /\ \A l \in D!Loop, g \in Host : <<l, g>> \in D!Loop \X Host
  BY DEF D!Loop
<1>1. CASE D!DaemonStarts(h)
  <2>1. /\ \A l \in D!Loop : child[<<l, h>>] = "none"
        /\ alive' = [alive EXCEPT ![h] = TRUE]
        /\ UNCHANGED <<peerLoop, addresses, D!net, D!children>>
    BY <1>1 DEF D!DaemonStarts, D!HasChild
  <2>2. /\ alive' \in [Host -> BOOLEAN] /\ \A g \in Host : alive[g] => alive'[g]
        /\ \A g \in Host \ {h} : alive'[g] = alive[g]
    BY <2>1 DEF D!TypeOK
  <2>3. D!TypeOK'
    BY <2>1, <2>2 DEF D!TypeOK, D!net, D!children
  <2>4. DeadDoNothing'
    BY <2>1, <2>2 DEF DeadDoNothing, D!net
  <2>5. QueuesAreHeld'
    BY <2>1, <2>2 DEF QueuesAreHeld, D!HasChild, D!net, D!children
  <2>6. AcceptLoopSequential' /\ OnlyRunningHooksCall'
    BY <2>1 DEF AcceptLoopSequential, OnlyRunningHooksCall, D!net, D!children
  <2>7. PeerLoopSequential'
    <3>1. child[<<"peer", h>>] = "none"
      BY <1>0, <2>1
    <3>2. peerLoop' = peerLoop /\ conn' = conn /\ child' = child
      BY <2>1 DEF D!net, D!children
    <3> QED
      BY <2>2, <3>1, <3>2 DEF PeerLoopSequential
  <2> QED
    BY <2>3, <2>4, <2>5, <2>6, <2>7
<1>2. CASE D!RoundBegins(h)
  <2>1. /\ alive[h] /\ peerLoop[h] = "wait"
        /\ peerLoop' = [peerLoop EXCEPT ![h] = "sync"]
        /\ addresses' = [addresses EXCEPT ![h] = Candidates[h]]
        /\ child' = [child EXCEPT ![<<"peer", h>>] = "discover"]
        /\ kept' = D!Inherited({<<"peer", h>>}, conn, serving)
        /\ UNCHANGED <<alive, backlog, serving, conn, stuck, mayCall>>
    BY <1>2 DEF D!RoundBegins
  <2>2. conn[<<"peer", h>>] = None /\ child[<<"peer", h>>] = "none"
    BY <2>1 DEF PeerLoopSequential
  <2>3. /\ peerLoop' \in [Host -> {"wait", "sync"}] /\ peerLoop'[h] = "sync"
        /\ \A g \in Host \ {h} : peerLoop'[g] = peerLoop[g]
    BY <2>1 DEF D!TypeOK
  <2>4. addresses' \in [Host -> Seq(Host)]
    BY <2>1 DEF D!TypeOK, D!ConstAssumption
  <2>5. /\ child' \in [D!Loop \X Host -> {"none", "discover", "current", "old"}]
        /\ \A lh \in D!Loop \X Host :
              child'[lh] = IF lh = <<"peer", h>> THEN "discover" ELSE child[lh]
    BY <2>1 DEF D!TypeOK
  <2>6. kept' \in [D!Loop \X Host -> D!Client \cup {None}]
    BY <2>1, KeptFacts
  <2>7. D!TypeOK'
    BY <2>1, <2>3, <2>4, <2>5, <2>6 DEF D!TypeOK
  <2>8. DeadDoNothing'
    <3>1. \A g \in Host : ~alive[g] => g \in Host \ {h}
      BY <2>1
    <3> QED
      BY <2>1, <2>3, <3>1 DEF DeadDoNothing
  <2>9. QueuesAreHeld'
    <3>1. \A l \in D!Loop, g \in Host : child[<<l, g>>] # "none" => child'[<<l, g>>] # "none"
      BY <1>0, <2>5
    <3>2. \A g \in Host : D!HasChild(g) => D!HasChild(g)'
      BY <3>1 DEF D!HasChild
    <3> QED
      BY <2>1, <3>2 DEF QueuesAreHeld
  <2>10. AcceptLoopSequential'
    BY <1>0, <2>1, <2>5 DEF AcceptLoopSequential
  <2>11. PeerLoopSequential'
    <3> SUFFICES ASSUME NEW g \in Host
                 PROVE  /\ conn'[<<"peer", g>>] # None =>
                              peerLoop'[g] = "sync" /\ child'[<<"peer", g>>] = "none"
                        /\ alive'[g] /\ child'[<<"peer", g>>] # "none" => peerLoop'[g] = "sync"
      BY DEF PeerLoopSequential
    <3>1. CASE g = h
      BY <2>1, <2>2, <2>3, <3>1
    <3>2. CASE g # h
      <4>1. child'[<<"peer", g>>] = child[<<"peer", g>>]
        BY <1>0, <2>5, <3>2
      <4> QED
        BY <2>1, <2>3, <3>2, <4>1 DEF PeerLoopSequential
    <3> QED
      BY <3>1, <3>2
  <2>12. OnlyRunningHooksCall'
    <3>1. mayCall \subseteq D!Loop \X Host /\ <<"peer", h>> \notin mayCall
      BY <2>2 DEF D!TypeOK, D!ConstAssumption, OnlyRunningHooksCall
    <3> QED
      BY <2>1, <2>5, <3>1 DEF OnlyRunningHooksCall
  <2> QED
    BY <2>7, <2>8, <2>9, <2>10, <2>11, <2>12
<1>3. CASE D!RoundEnds(h)
  <2>1. /\ conn[<<"peer", h>>] = None /\ child[<<"peer", h>>] = "none"
        /\ peerLoop' = [peerLoop EXCEPT ![h] = "wait"]
        /\ UNCHANGED <<alive, addresses, D!net, D!children>>
    BY <1>3 DEF D!RoundEnds, D!PeerLoopFree
  <2>2. /\ peerLoop' \in [Host -> {"wait", "sync"}] /\ peerLoop'[h] = "wait"
        /\ \A g \in Host \ {h} : peerLoop'[g] = peerLoop[g]
    BY <2>1 DEF D!TypeOK
  <2>3. D!TypeOK'
    BY <2>1, <2>2 DEF D!TypeOK, D!net, D!children
  <2>4. DeadDoNothing'
    BY <2>1, <2>2 DEF DeadDoNothing, D!net
  <2>5. QueuesAreHeld'
    BY <2>1 DEF QueuesAreHeld, D!HasChild, D!net, D!children
  <2>6. AcceptLoopSequential' /\ OnlyRunningHooksCall'
    BY <2>1 DEF AcceptLoopSequential, OnlyRunningHooksCall, D!net, D!children
  <2>7. PeerLoopSequential'
    BY <2>1, <2>2 DEF PeerLoopSequential, D!net, D!children
  <2> QED
    BY <2>3, <2>4, <2>5, <2>6, <2>7
<1> QED
  BY <1>1, <1>2, <1>3

\* LoopInv is an invariant.
THEOREM LoopInvariance ==
    ASSUME D!ConstAssumption
    PROVE  D!Spec => []LoopInv
<1>1. LoopInv /\ [D!Next]_(D!vars) => LoopInv'
  <2> SUFFICES ASSUME LoopInv, [D!Next]_(D!vars) PROVE LoopInv'
    OBVIOUS
  <2>1. ASSUME NEW h \in Host, D!HostStep(h) PROVE LoopInv'
    <3>1. CASE D!AcceptFails(h) \/ D!DaemonKilled(h)
      <4>1. /\ D!EndDaemon(h, "accept") \/ D!EndDaemon(h, "killed")
            /\ child' = child /\ stuck' = stuck /\ mayCall' = mayCall
        BY <3>1 DEF D!AcceptFails, D!DaemonKilled, D!children
      <4>2. \A lh \in mayCall' : child'[lh] \in {"current", "old"}
        BY <4>1 DEF LoopInv, OnlyRunningHooksCall
      <4> QED
        BY <4>1, <4>2, EndDaemonKeeps
    <3>2. CASE D!DiscoverBadLine(h)
      <4>1. /\ D!EndDaemon(h, "discover") /\ child[<<"peer", h>>] = "discover"
            /\ child' = [child EXCEPT ![<<"peer", h>>] = "none"]
            /\ stuck' = stuck /\ mayCall' = mayCall
        BY <3>2 DEF D!DiscoverBadLine
      <4>2. mayCall \subseteq D!Loop \X Host /\ <<"peer", h>> \notin mayCall
        BY <4>1 DEF LoopInv, OnlyRunningHooksCall, D!TypeOK, D!ConstAssumption
      <4>3. \A lh \in mayCall' : child'[lh] \in {"current", "old"}
        BY <4>1, <4>2 DEF LoopInv, OnlyRunningHooksCall, D!TypeOK
      <4> QED
        BY <4>1, <4>3, EndDaemonKeeps
    <3>3. CASE D!Failure(h)
      BY <3>1, <3>2, <3>3, SessionBreaksKeeps DEF D!Failure
    <3>4. CASE D!AcceptLoop(h)
      BY <3>4, AcceptKeeps, SessionBreaksKeeps, SessionEndsKeeps DEF D!AcceptLoop
    <3>5. CASE D!PeerLoop(h)
      BY <3>5, LoopStepKeeps, SyncNextKeeps DEF D!PeerLoop
    <3>6. CASE \E l \in D!Loop : D!ChildEnds(l, h) \/ D!NextHook(l, h)
      BY <3>6, ChildGoneKeeps, HookStepKeeps DEF D!ChildEnds
    <3> QED
      BY <2>1, <3>3, <3>4, <3>5, <3>6, LoopStepKeeps DEF D!HostStep
  <2>2. ASSUME NEW h \in Console, D!CliConnects(h) PROVE LoopInv'
    <3>1. PICK c : c = <<"cli", h>>
      OBVIOUS
    <3>2. h \in Host /\ c \in D!Client /\ c[1] # "peer"
      BY <3>1, ClientFacts
    <3>3. /\ D!ConnectTo(c, h) /\ mayCall' \subseteq mayCall
          /\ UNCHANGED <<D!loops, serving, kept, child, stuck>>
      BY <2>2, <3>1 DEF D!CliConnects, D!children
    <3> QED
      BY <3>2, <3>3, CommandConnectsKeeps
  <2>3. ASSUME NEW lh \in CallsBack, D!HookCallsBack(lh[1], lh[2]) PROVE LoopInv'
    <3>1. PICK c : c = D!HookClient(lh[1], lh[2])
      OBVIOUS
    <3>2. lh[2] \in Host /\ c \in D!Client /\ c[1] # "peer"
      BY <3>1, HookClientFacts
    <3>3. /\ D!ConnectTo(c, lh[2]) /\ mayCall' \subseteq mayCall
          /\ UNCHANGED <<D!loops, serving, kept, child, stuck>>
      BY <2>3, <3>1 DEF D!HookCallsBack
    <3> QED
      BY <3>2, <3>3, CommandConnectsKeeps
  <2>4. ASSUME NEW lh \in MayStick, NEW how \in {"jammed", "hung"},
               D!ChildSticks(lh[1], lh[2], how)
        PROVE  LoopInv'
    <3>1. lh[1] \in D!Loop /\ lh[2] \in Host
      BY DEF D!ConstAssumption
    <3> QED
      BY <2>4, <3>1, HookStepKeeps
  <2>5. ASSUME NEW c \in D!Client, D!ClientFails(c) PROVE LoopInv'
    <3>1. PICK y \in D!Party : y = D!Remains(c)
      BY RemainsFacts
    <3>2. /\ conn[c] # None /\ conn' = [conn EXCEPT ![c] = None]
          /\ backlog' = D!Waiting(c, y) /\ serving' = D!Served(c, y)
          /\ kept' = D!KeptWithout(c) /\ UNCHANGED <<D!loops, D!children>>
      BY <2>5, <3>1 DEF D!ClientFails
    <3> QED
      BY <3>2, ClientLeavesKeeps
  <2>6. ASSUME NEW c \in D!Client, D!ClientReset(c) PROVE LoopInv'
    <3>1. /\ conn[c] # None /\ conn' = [conn EXCEPT ![c] = None]
          /\ backlog' = backlog /\ serving' = serving
          /\ kept' = D!KeptWithout(c) /\ UNCHANGED <<D!loops, D!children>>
      BY <2>6, ClientFacts DEF D!ClientReset
    <3> QED
      BY <3>1, ClientLeavesKeeps
  <2>7. ASSUME NEW c \in MayFallSilent, D!FallsSilent(c) PROVE LoopInv'
    <3>1. c \in D!Client /\ Silent \in D!Party
      BY ClientFacts DEF D!ConstAssumption
    <3>2. /\ conn[c] # None /\ conn' = [conn EXCEPT ![c] = Silent]
          /\ backlog' = D!Waiting(c, Silent) /\ serving' = D!Served(c, Silent)
          /\ kept' = D!KeptWithout(c) /\ UNCHANGED <<D!loops, D!children>>
      BY <2>7, ClientFacts DEF D!FallsSilent
    <3> QED
      BY <3>1, <3>2, ClientLeavesKeeps
  <2>8. CASE UNCHANGED D!vars
    <3>1. /\ alive' = alive /\ peerLoop' = peerLoop /\ addresses' = addresses
          /\ backlog' = backlog /\ serving' = serving /\ conn' = conn /\ kept' = kept
          /\ child' = child /\ stuck' = stuck /\ mayCall' = mayCall
      BY <2>8 DEF D!vars, D!loops, D!net, D!children
    <3>2. D!TypeOK' /\ DeadDoNothing' /\ QueuesAreHeld'
      BY <3>1 DEF LoopInv, D!TypeOK, DeadDoNothing, QueuesAreHeld, D!HasChild
    <3>3. AcceptLoopSequential' /\ PeerLoopSequential' /\ OnlyRunningHooksCall'
      BY <3>1
      DEF LoopInv, AcceptLoopSequential, PeerLoopSequential, OnlyRunningHooksCall
    <3> QED
      BY <3>2, <3>3 DEF LoopInv
  <2> QED
    BY <2>1, <2>2, <2>3, <2>4, <2>5, <2>6, <2>7, <2>8 DEF D!Next
<1> QED
  BY <1>1, InitLoopInv, PTL DEF D!Spec

\* The types hold in every state, so that no daemon ever has more connections in
\* its queue than it asked listen for (setupListener).
THEOREM LoopsTypeCorrect ==
    ASSUME D!ConstAssumption
    PROVE  D!Spec => []D!TypeOK
<1>1. LoopInv => D!TypeOK
  BY DEF LoopInv
<1> QED
  BY <1>1, LoopInvariance, PTL

\* Each loop of each daemon awaits one thing at a time: whatever sessions break,
\* clients give up or daemons end and start, no loop is in a session while it awaits
\* a child, as a daemon does not start while children of an earlier one are there
\* (acceptReqSyncConnectionsLoop, peer, setupListener).
THEOREM LoopsAwaitOneThing ==
    ASSUME D!ConstAssumption
    PROVE  D!Spec => [](AcceptLoopSequential /\ PeerLoopSequential)
<1>1. LoopInv => AcceptLoopSequential /\ PeerLoopSequential
  BY DEF LoopInv
<1> QED
  BY <1>1, LoopInvariance, PTL

\* Spec => WaitIsForever: a hook of the accept loop that synchronizes with its own
\* daemon waits for a loop that waits for it, and no step of any loop, session, child
\* or other client gets them out of it, nor does the end of the daemon, after which no
\* new one can start (handleReqSyncConnection, notifyHooks, AsyncCommand::execute).
THEOREM SelfWaitIsForever ==
    ASSUME D!ConstAssumption
    PROVE  D!Spec => WaitIsForever
<1> DEFINE Stays(s) ==
             WaitsForItself(s) => WaitsForItself(s)' \/ D!ClientFails(<<"acceptHook", s>>)
<1>1. LoopInv /\ [D!Next]_(D!vars) => \A s \in Host : Stays(s)
  <2> SUFFICES ASSUME LoopInv, [D!Next]_(D!vars), NEW s \in Host, WaitsForItself(s),
                      ~D!ClientFails(<<"acceptHook", s>>)
               PROVE  WaitsForItself(s)'
    OBVIOUS
  <2> USE DEF LoopInv
  <2>1. PICK c : c = <<"acceptHook", s>>
    OBVIOUS
  <2>2. PICK lh : lh = <<"accept", s>>
    OBVIOUS
  <2>3. /\ lh \in CallsBack /\ child[lh] # "none" /\ conn[c] = s
        /\ \E i \in DOMAIN backlog[s] : backlog[s][i] = c
    BY <2>1, <2>2 DEF WaitsForItself, D!Queued
  <2>4. /\ lh \in D!Loop \X Host /\ c \in D!Client /\ c[1] = "acceptHook" /\ s # None
        /\ D!HookClient("accept", s) = c /\ "accept" \in D!Loop
    BY <2>1, <2>2, <2>3, ClientFacts, HookClientFacts DEF D!HookClient, D!Loop
  <2>5. serving[s] = None /\ D!HasChild(s)
    BY <2>2, <2>3, <2>4 DEF AcceptLoopSequential, D!HasChild
  <2>6. c \in D!Party /\ \A h \in Host : c # D!Kept(h) /\ c # <<"peer", h>>
    BY <2>4, ClientFacts DEF D!Kept
  \* What is to be shown of the step: the hook goes on, its command stays connected
  \* and in the queue.
  <2> DEFINE HookGoesOn == child'[lh] # "none"
             StaysConnected == conn'[c] = s
             StaysQueued == \E i \in DOMAIN backlog'[s] : backlog'[s][i] = c
             Goal == HookGoesOn /\ StaysConnected /\ StaysQueued
  <2>7. SUFFICES Goal
    BY <2>1, <2>2, <2>3 DEF WaitsForItself, D!Queued
  <2>8. ASSUME backlog'[s] = backlog[s] PROVE StaysQueued
    BY <2>3, <2>8
  <2>9. ASSUME NEW d \in D!Party \ {c}, NEW x \in D!Party, backlog'[s] = D!Waiting(d, x)[s]
        PROVE  StaysQueued
    <3>1. \A i \in DOMAIN backlog[s] : backlog[s][i] # d =>
             /\ i \in DOMAIN D!Waiting(d, x)[s]
             /\ D!Waiting(d, x)[s][i] = backlog[s][i]
      BY RenameFacts
    <3> QED
      BY <2>3, <2>9, <3>1
  <2>10. ASSUME HookGoesOn PROVE D!HasChild(s)'
    BY <2>2, <2>4, <2>10 DEF D!HasChild
  <2>11. ASSUME NEW h \in Host, NEW why, D!EndDaemon(h, why),
                child' = child \/ child' = [child EXCEPT ![<<"peer", h>>] = "none"]
         PROVE  Goal
    <3>0. PICK d : d = <<"peer", h>>
      OBVIOUS
    <3>1. d \in D!Client /\ d \in D!Party /\ d # c /\ D!Remains(d) \in D!Party
      BY <2>6, <3>0, ClientFacts, RemainsFacts
    <3>2. HookGoesOn
      <4>1. lh # <<"peer", h>>
        BY <2>2
      <4> QED
        BY <2>3, <2>4, <2>11, <4>1 DEF D!TypeOK
    <3>3. conn'[c] = conn[c]
      <4>1. conn' = [conn EXCEPT ![d] = None]
        BY <2>11, <3>0 DEF D!EndDaemon
      <4> QED
        BY <2>4, <3>1, <4>1 DEF D!TypeOK
    <3>4. PICK w : w = D!Waiting(d, D!Remains(d))
      OBVIOUS
    <3>5. /\ backlog' = IF D!HasChild(h)' THEN w ELSE [w EXCEPT ![h] = <<>>]
          /\ w \in [Host -> Seq(D!Party)]
      BY <2>11, <3>0, <3>1, <3>4, RenameFacts DEF D!EndDaemon
    <3>6. backlog'[s] = w[s]
      <4>1. CASE h = s
        BY <2>10, <3>2, <3>5, <4>1
      <4>2. CASE h # s
        BY <3>5, <4>2
      <4> QED
        BY <4>1, <4>2
    <3>7. StaysQueued
      BY <2>9, <3>1, <3>4, <3>6
    <3> QED
      BY <2>3, <3>2, <3>3, <3>7
  <2>12. ASSUME NEW h \in Host, D!Accept(h) PROVE Goal
    <3>1. h # s
      BY <2>2, <2>3, <2>12 DEF D!Accept, D!CanAccept
    <3>2. backlog'[s] = backlog[s]
      BY <2>12, <3>1 DEF D!Accept, D!TypeOK
    <3> QED
      BY <2>3, <2>8, <2>12, <3>2 DEF D!Accept, D!children
  <2>13. ASSUME NEW h \in Host, D!SessionBreaks(h) PROVE Goal
    <3>1. HookGoesOn
      <4>1. CASE child' = child
        BY <2>3, <4>1
      <4>2. CASE child' = D!Outdated({h})
        BY <2>3, <2>4, <4>2, OutdatedFacts
      <4> QED
        BY <2>13, <4>1, <4>2 DEF D!SessionBreaks
    <3> QED
      BY <2>3, <2>8, <2>13, <3>1 DEF D!SessionBreaks
  <2>14. ASSUME NEW h \in Host, NEW serverChanged \in BOOLEAN,
                NEW clientChanged \in BOOLEAN,
                D!SessionEnds(h, serverChanged, clientChanged)
         PROVE  Goal
    <3>1. \E N : child' = D!Notified(N)
      BY <2>14, Zenon DEF D!SessionEnds
    <3>2. HookGoesOn
      BY <2>3, <2>4, <3>1, NotifiedFacts
    <3>3. /\ serving[h] \in D!Client /\ conn[serving[h]] = h
          /\ conn' = [conn EXCEPT ![serving[h]] = None] /\ backlog' = backlog
      BY <2>14 DEF D!SessionEnds
    <3>4. serving[h] # c
      BY <2>3, <2>5, <3>3, ClientFacts
    <3>5. StaysConnected
      BY <2>3, <2>4, <3>3, <3>4 DEF D!TypeOK
    <3> QED
      BY <2>8, <3>2, <3>3, <3>5
  <2>15. ASSUME NEW l \in D!Loop, NEW h \in Host, D!ChildEnds(l, h) PROVE Goal
    <3>1. <<l, h>> # lh
      <4>1. CASE <<l, h>> = lh
        <5>1. l = "accept" /\ h = s
          BY <2>2, <4>1
        <5> QED
          BY <2>2, <2>3, <2>4, <2>15, <5>1 DEF D!ChildEnds, D!NoCall
      <4> QED
        BY <4>1
    <3>2. HookGoesOn
      BY <2>3, <2>4, <2>15, <3>1 DEF D!ChildEnds, D!ChildGone, D!TypeOK
    <3>3. PICK w : w = IF l = "accept" THEN D!Waiting(D!Kept(h), Closed) ELSE backlog
      OBVIOUS
    <3>4. /\ backlog' = IF alive[h] \/ D!HasChild(h)' THEN w ELSE [w EXCEPT ![h] = <<>>]
          /\ conn' = conn
      BY <2>15, <3>3 DEF D!ChildEnds, D!ChildGone
    <3>5. D!Kept(h) \in D!Party \ {c} /\ Closed \in D!Party
      BY <2>6, ClientFacts
    <3>6. w \in [Host -> Seq(D!Party)]
      BY <3>3, <3>5, RenameFacts DEF D!TypeOK
    <3>7. backlog'[s] = w[s]
      <4>1. CASE h = s
        BY <2>10, <3>2, <3>4, <4>1
      <4>2. CASE h # s
        BY <3>4, <3>6, <4>2
      <4> QED
        BY <4>1, <4>2
    <3>8. StaysQueued
      <4>1. CASE l = "accept"
        BY <2>9, <3>3, <3>5, <3>7, <4>1
      <4>2. CASE l # "accept"
        BY <2>8, <3>3, <3>7, <4>2
      <4> QED
        BY <4>1, <4>2
    <3> QED
      BY <2>3, <3>2, <3>4, <3>8
  <2>16. ASSUME NEW l \in D!Loop, NEW h \in Host, D!NextHook(l, h) PROVE Goal
    <3>1. /\ backlog' = IF l = "accept" THEN D!Waiting(D!Kept(h), Closed) ELSE backlog
          /\ conn' = conn /\ child' = child
      BY <2>16 DEF D!NextHook, D!children
    <3>2. D!Kept(h) \in D!Party \ {c} /\ Closed \in D!Party
      BY <2>6, ClientFacts
    <3>3. StaysQueued
      <4>1. CASE l = "accept"
        BY <2>9, <3>1, <3>2, <4>1
      <4>2. CASE l # "accept"
        BY <2>8, <3>1, <4>2
      <4> QED
        BY <4>1, <4>2
    <3> QED
      BY <2>3, <3>1, <3>3
  <2>17. ASSUME NEW d \in D!Client \ {c}, NEW h \in Host,
                D!ConnectTo(d, h), UNCHANGED child
         PROVE  Goal
    <3>1. /\ \A e \in D!Client \ {d} : conn'[e] = conn[e]
          /\ \A i \in DOMAIN backlog[s] :
                i \in DOMAIN backlog'[s] /\ backlog'[s][i] = backlog[s][i]
      BY <2>17, ConnectFacts
    <3> QED
      BY <2>3, <2>4, <2>17, <3>1
  <2>18. ASSUME NEW h \in Host, D!SyncNext(h) PROVE Goal
    <3>1. addresses[h] \in Seq(Host) /\ addresses[h] # <<>>
      BY <2>18 DEF D!SyncNext, D!TypeOK
    <3>2. Head(addresses[h]) \in Host /\ <<"peer", h>> \in D!Client \ {c}
      BY <2>6, <3>1, ClientFacts
    <3> QED
      BY <2>17, <2>18, <3>2 DEF D!SyncNext, D!children
  <2>19. ASSUME NEW h \in Host, D!RoundBegins(h) PROVE Goal
    <3>1. lh # <<"peer", h>>
      BY <2>2
    <3>2. HookGoesOn
      BY <2>3, <2>4, <2>19, <3>1 DEF D!RoundBegins, D!TypeOK
    <3> QED
      BY <2>3, <2>8, <2>19, <3>2 DEF D!RoundBegins
  <2>20. ASSUME NEW h \in Console, D!CliConnects(h) PROVE Goal
    <3>1. h \in Host /\ <<"cli", h>> \in D!Client \ {c}
      BY <2>1, ClientFacts
    <3> QED
      BY <2>17, <2>20, <3>1 DEF D!CliConnects, D!children
  <2>21. ASSUME NEW jh \in CallsBack, D!HookCallsBack(jh[1], jh[2]) PROVE Goal
    <3>1. PICK d : d = D!HookClient(jh[1], jh[2])
      OBVIOUS
    <3>2. jh[2] \in Host /\ d \in D!Client
      BY <3>1, HookClientFacts
    <3>3. d # c
      BY <2>3, <2>4, <2>21, <3>1 DEF D!HookCallsBack
    <3>4. D!ConnectTo(d, jh[2]) /\ UNCHANGED child
      BY <2>21, <3>1 DEF D!HookCallsBack
    <3> QED
      BY <2>17, <3>2, <3>3, <3>4
  <2>22. ASSUME NEW d \in D!Client \ {c}, NEW x, conn' = [conn EXCEPT ![d] = x],
                \/ backlog' = backlog
                \/ \E y \in D!Party : backlog' = D!Waiting(d, y),
                UNCHANGED child
         PROVE  Goal
    <3>1. StaysConnected
      BY <2>3, <2>4, <2>22 DEF D!TypeOK
    <3>2. d \in D!Party \ {c}
      BY ClientFacts
    <3>3. StaysQueued
      BY <2>8, <2>9, <2>22, <3>2
    <3> QED
      BY <2>3, <2>22, <3>1, <3>3
  <2>23. ASSUME NEW d \in D!Client, D!ClientFails(d) PROVE Goal
    <3>1. d # c /\ D!Remains(d) \in D!Party
      BY <2>1, <2>23, RemainsFacts
    <3>2. /\ conn' = [conn EXCEPT ![d] = None] /\ backlog' = D!Waiting(d, D!Remains(d))
          /\ child' = child
      BY <2>23 DEF D!ClientFails, D!children
    <3> QED
      BY <2>22, <3>1, <3>2
  <2>24. ASSUME NEW d \in D!Client, D!ClientReset(d) PROVE Goal
    <3>1. d # c
      BY <2>3, <2>24 DEF D!ClientReset, D!Queued
    <3>2. conn' = [conn EXCEPT ![d] = None] /\ backlog' = backlog /\ child' = child
      BY <2>24 DEF D!ClientReset, D!children
    <3> QED
      BY <2>22, <3>1, <3>2
  <2>25. ASSUME NEW d \in MayFallSilent, D!FallsSilent(d) PROVE Goal
    <3>0. d \in ({"peer"} \X Host) \cup ({"cli"} \X Console)
      BY DEF D!ConstAssumption
    <3>1. d \in D!Client /\ d # c /\ Silent \in D!Party
      <4>1. d[1] # "acceptHook"
        BY <3>0
      <4>2. d # c
        BY <2>4, <4>1
      <4> QED
        BY <3>0, <4>2, ClientFacts DEF D!Client
    <3>2. /\ conn' = [conn EXCEPT ![d] = Silent] /\ backlog' = D!Waiting(d, Silent)
          /\ child' = child
      BY <2>25 DEF D!FallsSilent, D!children
    <3> QED
      BY <2>22, <3>1, <3>2
  <2>26. CASE UNCHANGED <<backlog, conn, child>>
    BY <2>3, <2>8, <2>26
  <2>27. ASSUME NEW h \in Host, D!HostStep(h) PROVE Goal
    <3>1. CASE D!Failure(h)
      BY <2>11, <2>13, <3>1
      DEF D!Failure, D!AcceptFails, D!DiscoverBadLine, D!DaemonKilled, D!children
    <3>2. CASE D!AcceptLoop(h)
      BY <2>12, <2>13, <2>14, <3>2 DEF D!AcceptLoop
    <3>3. CASE D!PeerLoop(h) \/ D!DaemonStarts(h)
      BY <2>18, <2>26, <3>3 DEF D!PeerLoop, D!RoundEnds, D!DaemonStarts, D!net, D!children
    <3> QED
      BY <2>15, <2>16, <2>19, <2>27, <3>1, <3>2, <3>3 DEF D!HostStep
  <2>28. ASSUME NEW jh \in MayStick, NEW how, D!ChildSticks(jh[1], jh[2], how) PROVE Goal
    BY <2>26, <2>28 DEF D!ChildSticks, D!net
  <2>29. CASE UNCHANGED D!vars
    BY <2>26, <2>29 DEF D!vars, D!net, D!children
  <2> HIDE DEF Goal
  <2> QED
    BY <2>20, <2>21, <2>23, <2>24, <2>25, <2>27, <2>28, <2>29 DEF D!Next
<1>2. LoopInv /\ [D!Next]_(D!vars) => [\A s \in Host : Stays(s)]_(D!vars)
  BY <1>1
<1> QED
  BY <1>2, LoopInvariance, PTL DEF D!Spec, WaitIsForever

=============================================================================
