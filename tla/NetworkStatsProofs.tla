------------------------- MODULE NetworkStatsProofs -------------------------
(***************************************************************************)
(* Proofs about the network statistics, for any number of processes and of *)
(* peers and any limits.                                                   *)
(***************************************************************************)
EXTENDS NetworkStats, SequenceTheorems, WellFoundedInduction, TLAPS

(***************************************************************************)
(* The inductive invariant.                                                *)
(***************************************************************************)
Inside(p) == pc[p] \in {"locked", "pruned", "truncated"}

\* The statistics a process that reads the file now starts from.
OnDisk == IF file = None THEN Log!NoStats ELSE file

\* A record is for a peer.
CallHasPeer == \A p \in Process : pc[p] # "idle" => mPeer[p] \in Peer

\* In a build with the lock exactly the process between the lock and the unlock
\* holds it; in one without nobody does.
LockHeldInside ==
    \A p \in Process : lock = p <=> locking /\ Inside(p)

\* What is going to be written has the record that the call is about.
OwnRecord ==
    \A p \in Process : pc[p] \in {"pruned", "truncated"} =>
        \E i \in 1 .. Len(stats[p][mPeer[p]]) : stats[p][mPeer[p]][i] = tNow[p]

\* With the lock, what was read is still what the file has.
ReadIsCurrent ==
    locking => \A p \in Process : pc[p] = "pruned" =>
        stats[p] = Log!Collected(OnDisk, mPeer[p], tNow[p])

\* With the lock, a file that is being written is empty until then.
TruncatedIsEmpty == locking /\ Truncaters # {} => file = None

\* A process that is not disturbed is alone, and so is its file.
UndisturbedIsAlone ==
    \A p \in Process : pc[p] # "idle" /\ p \notin disturbed =>
        /\ \A q \in Process \ {p} : pc[q] = "idle"
        /\ pc[p] = "truncated" => file = None

IInv ==
    /\ TypeOK
    /\ CallHasPeer
    /\ LockHeldInside
    /\ OwnRecord
    /\ ReadIsCurrent
    /\ TruncatedIsEmpty
    /\ UndisturbedIsAlone

-----------------------------------------------------------------------------
\* A set of natural numbers has a least element.
LEMMA LeastNatural ==
    ASSUME NEW T \in SUBSET Nat, T # {}
    PROVE  \E x \in T : \A y \in T : x <= y
<1>1. PICK x \in T : \A y \in T : ~(<<y, x>> \in OpToRel(<, Nat))
  BY NatLessThanWellFounded, WFMin
<1>2. \A i, j \in Nat : <<i, j>> \in OpToRel(<, Nat) <=> i < j
  BY DEF OpToRel
<1>3. \A y \in T : y \in Nat /\ x \in Nat
  OBVIOUS
<1>4. \A y \in T : ~(y < x)
  BY <1>1, <1>2, <1>3, Zenon
<1> QED
  BY <1>3, <1>4, SMT

\* The end of a sequence from some position on: its length, and that it keeps the
\* last element.
LEMMA SuffixFacts ==
    ASSUME NEW records \in Seq(Time), NEW m \in 1 .. Len(records)
    PROVE  LET s == SubSeq(records, m, Len(records))
           IN  /\ s \in Seq(Time)
               /\ Len(s) = Len(records) - m + 1
               /\ s[Len(s)] = records[Len(records)]
<1> DEFINE n == Len(records)
           s == SubSeq(records, m, n)
<1>1. n \in Nat /\ \A i \in m .. n : records[i] \in Time
  BY LenProperties, ElementOfSeq
<1>2. /\ s \in Seq(Time)
      /\ Len(s) = IF m <= n THEN n - m + 1 ELSE 0
      /\ \A i \in 1 .. n - m + 1 : s[i] = records[m + i - 1]
  BY <1>1, SubSeqProperties
<1> HIDE DEF s
<1>3. Len(s) = n - m + 1 /\ s[n - m + 1] = records[n]
  BY <1>1, <1>2
<1> QED
  BY <1>2, <1>3 DEF s

\* The larger of two numbers.
LEMMA MaxOfTwo ==
    ASSUME NEW a \in Int, NEW b \in Int
    PROVE  Log!Max({a, b}) = IF a >= b THEN a ELSE b
<1>1. \E x \in {a, b} : \A y \in {a, b} : x >= y
  OBVIOUS
<1>2. Log!Max({a, b}) \in {a, b} /\ \A y \in {a, b} : Log!Max({a, b}) >= y
  BY <1>1 DEF Log!Max
<1> QED
  BY <1>2

\* The conversion to int undoes that the unsigned difference wraps, at the sizes there
\* are.
LEMMA ExcessFacts ==
    ASSUME NEW size \in Nat, size <= MaxRecords + 1
    PROVE  Log!Excess(size) = size - MaxRecords
  BY StatAssumption DEF Log!Excess, Log!UnsignedExcess

\* The first loop of the pruning: no more than MaxRecords are left, and the last
\* record is.
LEMMA KeepNewestFacts ==
    ASSUME NEW records \in Seq(Time), Len(records) <= MaxRecords + 1
    PROVE  /\ Log!KeepNewest(records) \in Records
           /\ records # <<>> =>
                 /\ Log!KeepNewest(records) # <<>>
                 /\ Log!KeepNewest(records)[Len(Log!KeepNewest(records))] = records[Len(records)]
<1> DEFINE n == Len(records)
           m == Log!Max({0, Log!Excess(n)}) + 1
           s == SubSeq(records, m, n)
<1>0. n \in Nat /\ MaxRecords \in Nat \ {0}
  BY LenProperties, StatAssumption
<1>1. m = IF 0 >= n - MaxRecords THEN 1 ELSE n - MaxRecords + 1
  <2>1. Log!Excess(n) = n - MaxRecords
    BY <1>0, ExcessFacts
  <2>2. Log!Max({0, n - MaxRecords}) = IF 0 >= n - MaxRecords THEN 0 ELSE n - MaxRecords
    BY <1>0, MaxOfTwo
  <2> QED
    BY <1>0, <2>1, <2>2
<1>2. Log!KeepNewest(records) = s
  BY DEF Log!KeepNewest
<1> HIDE DEF m
<1>3. CASE records = <<>>
  <2>1. s = <<>>
    BY <1>0, <1>1, <1>3, SubSeqEmpty, EmptySeq
  <2>2. <<>> \in Seq(Time) /\ Len(<<>>) = 0
    BY EmptySeq
  <2>3. <<>> \in Records
    BY <1>0, <2>2 DEF Records
  <2> QED
    BY <1>2, <1>3, <2>1, <2>3
<1>4. CASE records # <<>>
  <2>1. m \in 1 .. n
    BY <1>0, <1>1, <1>4, EmptySeq
  <2>2. /\ s \in Seq(Time) /\ Len(s) = n - m + 1
        /\ s[Len(s)] = records[n]
    BY <2>1, SuffixFacts
  <2> HIDE DEF s
  <2>3. s # <<>> /\ Len(s) <= MaxRecords
    BY <1>0, <1>1, <2>1, <2>2, EmptySeq
  <2> QED
    BY <1>2, <2>2, <2>3 DEF Records
<1> QED
  BY <1>3, <1>4

\* The second loop: what is left is not more, and the last record is left if it is
\* young enough.
LEMMA DropTooOldFacts ==
    ASSUME NEW records \in Records, NEW t \in Time
    PROVE  /\ Log!DropTooOld(records, t) \in Records
           /\ records # <<>> /\ records[Len(records)] = t =>
                 /\ Log!DropTooOld(records, t) # <<>>
                 /\ Log!DropTooOld(records, t)[Len(Log!DropTooOld(records, t))] = t
<1> DEFINE n == Len(records)
           young == {i \in DOMAIN records : t - records[i] <= MaxAge}
           m == Log!Min(young)
           s == SubSeq(records, m, n)
<1>0. /\ records \in Seq(Time) /\ n \in Nat /\ n <= MaxRecords /\ DOMAIN records = 1 .. n
      /\ MaxRecords \in Nat /\ MaxAge \in Nat /\ t \in Int
  BY LenProperties, StatAssumption DEF Records, Time
<1>1. CASE young = {}
  <2>1. Log!DropTooOld(records, t) = <<>>
    BY <1>1 DEF Log!DropTooOld
  <2>2. <<>> \in Records
    BY <1>0, EmptySeq DEF Records
  <2>3. ~(records # <<>> /\ records[n] = t)
    <3> SUFFICES ASSUME records # <<>>, records[n] = t PROVE FALSE
      OBVIOUS
    <3>1. n \in 1 .. n
      BY <1>0, EmptySeq
    <3> QED
      BY <1>0, <1>1, <3>1
  <2> QED
    BY <2>1, <2>2, <2>3
<1>2. CASE young # {}
  <2>1. young \in SUBSET (1 .. n)
    BY <1>0
  <2>2. \E x \in young : \A y \in young : x <= y
    <3>1. young \in SUBSET Nat
      BY <2>1
    <3> QED
      BY <1>2, <3>1, LeastNatural
  <2>3. m \in young
    BY <2>2 DEF Log!Min
  <2>4. Log!DropTooOld(records, t) = s
    BY <1>2 DEF Log!DropTooOld
  <2>5. m \in 1 .. n
    BY <2>1, <2>3
  <2> HIDE DEF m
  <2>6. /\ s \in Seq(Time) /\ Len(s) = n - m + 1
        /\ s[Len(s)] = records[n]
    BY <1>0, <2>5, SuffixFacts
  <2> HIDE DEF s
  <2>7. s # <<>> /\ Len(s) <= MaxRecords
    BY <1>0, <2>5, <2>6, EmptySeq
  <2> QED
    BY <2>4, <2>6, <2>7 DEF Records
<1> QED
  BY <1>1, <1>2

\* A call of collectStat: every peer's records stay within the limit, and the peer
\* it is about has the new one, as its last.
LEMMA CollectedFacts ==
    ASSUME NEW S \in [Peer -> Records], NEW peer, NEW t \in Time
    PROVE  /\ Log!Collected(S, peer, t) \in [Peer -> Records]
           /\ peer \in Peer =>
                 \E i \in 1 .. Len(Log!Collected(S, peer, t)[peer]) :
                    Log!Collected(S, peer, t)[peer][i] = t
<1> DEFINE added(p) == IF p = peer THEN Append(S[p], t) ELSE S[p]
           C == Log!Collected(S, peer, t)
<1>1. C = [p \in Peer |-> Log!DropTooOld(Log!KeepNewest(added(p)), t)]
  BY DEF Log!Collected
<1>2. ASSUME NEW p \in Peer PROVE added(p) \in Seq(Time) /\ Len(added(p)) <= MaxRecords + 1
  <2>1. S[p] \in Seq(Time) /\ Len(S[p]) \in Nat /\ Len(S[p]) <= MaxRecords
    BY LenProperties DEF Records
  <2>2. Append(S[p], t) \in Seq(Time) /\ Len(Append(S[p], t)) = Len(S[p]) + 1
    BY <2>1, AppendProperties
  <2> QED
    BY <2>1, <2>2, StatAssumption
<1>3. ASSUME NEW p \in Peer
      PROVE  Log!DropTooOld(Log!KeepNewest(added(p)), t) \in Records
  BY <1>2, KeepNewestFacts, DropTooOldFacts
<1>4. ASSUME peer \in Peer PROVE \E i \in 1 .. Len(C[peer]) : C[peer][i] = t
  <2> DEFINE a == Append(S[peer], t)
             k == Log!KeepNewest(a)
             d == Log!DropTooOld(k, t)
  <2>1. S[peer] \in Seq(Time) /\ Len(S[peer]) \in Nat /\ Len(S[peer]) <= MaxRecords
    BY <1>4, LenProperties DEF Records
  <2>2. a \in Seq(Time) /\ a # <<>> /\ a[Len(a)] = t /\ Len(a) = Len(S[peer]) + 1
    BY <2>1, AppendProperties
  <2> HIDE DEF a
  <2>3. k \in Records /\ k # <<>> /\ k[Len(k)] = t
    <3>1. Len(a) <= MaxRecords + 1
      BY <2>1, <2>2, StatAssumption
    <3> QED
      BY <2>2, <3>1, KeepNewestFacts
  <2> HIDE DEF k
  <2>4. d \in Records /\ d # <<>> /\ d[Len(d)] = t
    BY <2>3, DropTooOldFacts
  <2>5. C[peer] = d
    BY <1>1, <1>4 DEF a, k
  <2> HIDE DEF d
  <2>6. Len(d) \in 1 .. Len(d)
    BY <2>4, EmptySeq, LenProperties DEF Records
  <2> QED
    BY <2>4, <2>5, <2>6
<1> QED
  BY <1>1, <1>3, <1>4

-----------------------------------------------------------------------------
\* No statistics are within the limit.
LEMMA NoStatsFacts == Log!NoStats \in [Peer -> Records]
<1>1. <<>> \in Seq(Time) /\ Len(<<>>) = 0
  BY EmptySeq
<1>2. <<>> \in Records
  BY <1>1, StatAssumption DEF Records
<1> QED
  BY <1>2 DEF Log!NoStats

\* At first nobody is in collectStat and there is no file.
LEMMA InitIInv == Init => IInv
<1> SUFFICES ASSUME Init PROVE IInv
  OBVIOUS
<1>1. TypeOK
  BY NoStatsFacts, StatAssumption DEF Init, TypeOK, Time
<1>2. /\ \A p \in Process : pc[p] = "idle"
      /\ lock = None /\ file = None
  BY DEF Init
<1>3. CallHasPeer /\ OwnRecord /\ ReadIsCurrent /\ TruncatedIsEmpty /\ UndisturbedIsAlone
  BY <1>2 DEF CallHasPeer, OwnRecord, ReadIsCurrent, TruncatedIsEmpty, UndisturbedIsAlone
<1>4. LockHeldInside
  BY <1>2, NoneAssumption DEF LockHeldInside, Inside
<1> QED
  BY <1>1, <1>3, <1>4 DEF IInv

\* What the file has, as a reader takes it, is within the limit.
LEMMA OnDiskFacts == TypeOK => OnDisk \in [Peer -> Records]
  BY NoStatsFacts DEF TypeOK, OnDisk

\* collectStat is entered: the others are disturbed, and so is the one that enters
\* unless it is alone.
LEMMA BeginPreserves ==
    ASSUME IInv, NEW p \in Process, NEW peer \in Peer, Begin(p, peer)
    PROVE  IInv'
<1>1. /\ pc[p] = "idle" /\ pc'[p] = "begun" /\ mPeer'[p] = peer
      /\ \A q \in Process \ {p} : pc'[q] = pc[q] /\ mPeer'[q] = mPeer[q] /\ tNow'[q] = tNow[q]
      /\ UNCHANGED <<locking, clock, file, lock, stats>>
  BY DEF Begin, IInv, TypeOK
<1>2. TypeOK'
  BY DEF Begin, IInv, TypeOK, Active
<1>3. CallHasPeer' /\ LockHeldInside'
  BY <1>1 DEF IInv, CallHasPeer, LockHeldInside, Inside
<1>4. OwnRecord'
  BY <1>1 DEF IInv, OwnRecord
<1>5. ReadIsCurrent'
  BY <1>1 DEF IInv, ReadIsCurrent, OnDisk
<1>6. Truncaters' = Truncaters
  BY <1>1 DEF Truncaters
<1>7. TruncatedIsEmpty'
  BY <1>1, <1>6 DEF IInv, TruncatedIsEmpty
<1>8. UndisturbedIsAlone'
  <2>1. CASE Active = {}
    BY <1>1, <2>1 DEF Active, UndisturbedIsAlone
  <2>2. CASE Active # {}
    <3>1. disturbed' = disturbed \cup Active \cup {p}
      BY <2>2 DEF Begin
    <3>2. \A q \in Process : pc'[q] # "idle" => q \in disturbed'
      BY <1>1, <3>1 DEF Active
    <3> QED
      BY <3>2 DEF UndisturbedIsAlone
  <2> QED
    BY <2>1, <2>2
<1> QED
  BY <1>2, <1>3, <1>4, <1>5, <1>7, <1>8 DEF IInv

\* flock.
LEMMA LockPreserves ==
    ASSUME IInv, NEW p \in Process, Lock(p)
    PROVE  IInv'
<1>1. /\ pc[p] = "begun" /\ pc'[p] = "locked"
      /\ \A q \in Process \ {p} : pc'[q] = pc[q]
      /\ UNCHANGED <<locking, clock, file, tNow, mPeer, stats, disturbed>>
  BY DEF Lock, IInv, TypeOK
<1>2. TypeOK'
  BY DEF Lock, IInv, TypeOK
<1>3. CallHasPeer' /\ OwnRecord'
  BY <1>1 DEF IInv, CallHasPeer, OwnRecord
<1>4. LockHeldInside'
  <2>0. None \notin Process /\ p # None
    BY NoneAssumption
  <2>1. CASE locking
    <3>1. lock = None /\ lock' = p
      BY <2>1 DEF Lock
    <3>2. \A q \in Process : ~Inside(q)
      BY <2>0, <2>1, <3>1 DEF IInv, LockHeldInside
    <3>3. \A q \in Process : Inside(q)' <=> q = p
      BY <1>1, <3>2 DEF Inside
    <3> QED
      BY <1>1, <2>1, <3>1, <3>3 DEF LockHeldInside
  <2>2. CASE ~locking
    BY <1>1, <2>2 DEF Lock, IInv, LockHeldInside
  <2> QED
    BY <2>1, <2>2
<1>5. ReadIsCurrent'
  BY <1>1 DEF IInv, ReadIsCurrent, OnDisk
<1>6. Truncaters' = Truncaters
  BY <1>1 DEF Truncaters
<1>7. TruncatedIsEmpty'
  BY <1>1, <1>6 DEF IInv, TruncatedIsEmpty
<1>8. UndisturbedIsAlone'
  BY <1>1 DEF IInv, UndisturbedIsAlone
<1> QED
  BY <1>2, <1>3, <1>4, <1>5, <1>7, <1>8 DEF IInv

\* The file is read, the record added, the rest pruned.
LEMMA ReadPreserves ==
    ASSUME IInv, NEW p \in Process, ReadAndPrune(p)
    PROVE  IInv'
<1>1. /\ pc[p] = "locked" /\ pc'[p] = "pruned"
      /\ \A q \in Process \ {p} : pc'[q] = pc[q] /\ stats'[q] = stats[q]
      /\ stats'[p] = Log!Collected(OnDisk, mPeer[p], tNow[p])
      /\ UNCHANGED <<locking, clock, file, lock, tNow, mPeer, disturbed>>
  BY DEF ReadAndPrune, OnDisk, IInv, TypeOK
<1>2. /\ mPeer[p] \in Peer /\ tNow[p] \in Time /\ OnDisk \in [Peer -> Records]
  BY <1>1, OnDiskFacts DEF IInv, TypeOK, CallHasPeer
<1>3. /\ stats'[p] \in [Peer -> Records]
      /\ \E i \in 1 .. Len(stats'[p][mPeer[p]]) : stats'[p][mPeer[p]][i] = tNow[p]
  BY <1>1, <1>2, CollectedFacts
<1>4. TypeOK'
  BY <1>3 DEF ReadAndPrune, IInv, TypeOK
<1>5. CallHasPeer' /\ LockHeldInside' /\ UndisturbedIsAlone'
  BY <1>1 DEF IInv, CallHasPeer, LockHeldInside, UndisturbedIsAlone, Inside
<1>6. OwnRecord'
  BY <1>1, <1>3 DEF IInv, OwnRecord
<1>7. OnDisk' = OnDisk /\ Truncaters' = Truncaters
  BY <1>1 DEF OnDisk, Truncaters, Log!NoStats
<1>8. ReadIsCurrent'
  BY <1>1, <1>7 DEF IInv, ReadIsCurrent, Log!Collected
<1>9. TruncatedIsEmpty'
  BY <1>1, <1>7 DEF IInv, TruncatedIsEmpty
<1> QED
  BY <1>4, <1>5, <1>6, <1>8, <1>9 DEF IInv

\* With the lock there is only one process inside.
LEMMA AloneInside ==
    ASSUME IInv, locking, NEW p \in Process, NEW q \in Process, Inside(p), Inside(q)
    PROVE  p = q
  BY DEF IInv, LockHeldInside

\* The file is opened with std::ios::trunc.
LEMMA TruncatePreserves ==
    ASSUME IInv, NEW p \in Process, Truncate(p)
    PROVE  IInv'
<1>1. /\ pc[p] = "pruned" /\ pc'[p] = "truncated" /\ file' = None
      /\ \A q \in Process \ {p} : pc'[q] = pc[q]
      /\ UNCHANGED <<locking, clock, lock, tNow, mPeer, stats, disturbed>>
  BY DEF Truncate, IInv, TypeOK
<1>2. TypeOK'
  BY DEF Truncate, IInv, TypeOK
<1>3. CallHasPeer' /\ LockHeldInside' /\ OwnRecord' /\ TruncatedIsEmpty' /\ UndisturbedIsAlone'
  BY <1>1 DEF IInv, CallHasPeer, LockHeldInside, OwnRecord, TruncatedIsEmpty,
              UndisturbedIsAlone, Inside
<1>4. ReadIsCurrent'
  <2>1. locking => \A q \in Process : pc'[q] # "pruned"
    BY <1>1, AloneInside DEF Inside
  <2> QED
    BY <1>1, <2>1 DEF ReadIsCurrent
<1> QED
  BY <1>2, <1>3, <1>4 DEF IInv

\* The call ends, by a write or without one, or by the death of the process: with
\* the lock nobody else is affected, for nobody else is inside.
LEMMA LeavePreserves ==
    ASSUME IInv, NEW p \in Process, pc[p] # "idle", Leave(p),
           file' \in [Peer -> Records] \cup {None},
           file' # file => Inside(p),
           disturbed' \in {disturbed, disturbed \cup {p}},
           UNCHANGED <<locking, clock>>
    PROVE  IInv'
<1>1. /\ pc'[p] = "idle"
      /\ \A q \in Process \ {p} : /\ pc'[q] = pc[q] /\ stats'[q] = stats[q]
                                   /\ mPeer'[q] = mPeer[q] /\ tNow'[q] = tNow[q]
      /\ lock' = IF lock = p THEN None ELSE lock
  BY DEF Leave, Return, IInv, TypeOK
<1>2. TypeOK'
  BY NoStatsFacts, StatAssumption DEF Leave, Return, IInv, TypeOK, Time
<1>3. CallHasPeer' /\ OwnRecord'
  BY <1>1 DEF IInv, CallHasPeer, OwnRecord
<1>4. LockHeldInside'
  BY <1>1, NoneAssumption DEF IInv, LockHeldInside, Inside
<1>5. ASSUME locking, NEW q \in Process, q # p, Inside(q)
      PROVE  UNCHANGED file
  BY <1>5, AloneInside
<1>6. ReadIsCurrent'
  <2> SUFFICES ASSUME locking', NEW q \in Process, pc'[q] = "pruned"
               PROVE  stats'[q] = Log!Collected(OnDisk, mPeer[q], tNow[q])'
    BY DEF ReadIsCurrent
  <2>1. q # p /\ pc[q] = "pruned" /\ locking
    BY <1>1
  <2>2. UNCHANGED file
    BY <1>5, <2>1 DEF Inside
  <2>3. stats[q] = Log!Collected(OnDisk, mPeer[q], tNow[q])
    BY <2>1 DEF IInv, ReadIsCurrent
  <2> QED
    BY <1>1, <2>1, <2>2, <2>3 DEF OnDisk, Log!Collected, Log!NoStats
<1>7. TruncatedIsEmpty'
  <2> SUFFICES ASSUME locking', NEW q \in Process, pc'[q] = "truncated"
               PROVE  file' = None
    BY DEF TruncatedIsEmpty, Truncaters
  <2>1. q # p /\ pc[q] = "truncated" /\ locking
    BY <1>1
  <2> QED
    BY <1>5, <2>1 DEF Inside, IInv, TruncatedIsEmpty, Truncaters
<1>8. UndisturbedIsAlone'
  BY <1>1 DEF IInv, UndisturbedIsAlone
<1> QED
  BY <1>2, <1>3, <1>4, <1>6, <1>7, <1>8 DEF IInv

\* Every step preserves the invariant.
LEMMA NextIInv == IInv /\ [Next]_vars => IInv'
<1> SUFFICES ASSUME IInv, [Next]_vars PROVE IInv'
  OBVIOUS
<1>1. ASSUME NEW p \in Process, NEW peer \in Peer, Begin(p, peer) PROVE IInv'
  BY <1>1, BeginPreserves
<1>2. ASSUME NEW p \in Process, Lock(p) PROVE IInv'
  BY <1>2, LockPreserves
<1>3. ASSUME NEW p \in Process, ReadAndPrune(p) PROVE IInv'
  BY <1>3, ReadPreserves
<1>4. ASSUME NEW p \in Process, Truncate(p) PROVE IInv'
  BY <1>4, TruncatePreserves
<1>5. ASSUME NEW p \in Process, Write(p) PROVE IInv'
  <2>1. stats[p] \in [Peer -> Records]
    BY DEF IInv, TypeOK
  <2> QED
    BY <1>5, <2>1, LeavePreserves DEF Write, Inside
<1>6. ASSUME NEW p \in Process, OpenFails(p) PROVE IInv'
  BY <1>6, LeavePreserves DEF OpenFails, IInv, TypeOK
<1>7. ASSUME NEW p \in Process, Die(p) PROVE IInv'
  BY <1>7, LeavePreserves DEF Die, Leave, IInv, TypeOK
<1>8. CASE Tick
  <2>1. clock' \in Time
    BY <1>8, StatAssumption DEF Tick, IInv, TypeOK, Time
  <2> QED
    BY <1>8, <2>1 DEF Tick, local, IInv, TypeOK, CallHasPeer, LockHeldInside, Inside, OwnRecord,
         ReadIsCurrent, OnDisk, TruncatedIsEmpty, Truncaters, UndisturbedIsAlone
<1>9. CASE UNCHANGED vars
  BY <1>9 DEF vars, local, IInv, TypeOK, CallHasPeer, LockHeldInside, Inside, OwnRecord,
         ReadIsCurrent, OnDisk, TruncatedIsEmpty, Truncaters, UndisturbedIsAlone
<1> QED
  BY <1>1, <1>2, <1>3, <1>4, <1>5, <1>6, <1>7, <1>8, <1>9 DEF Next, collectStat

\* The invariant holds in every reachable state.
LEMMA Invariance == Spec => []IInv
  BY InitIInv, NextIInv, PTL DEF Spec

-----------------------------------------------------------------------------
\* Spec => []TypeOK: in particular no process, however disturbed, keeps or writes
\* more than SHARED_STATE_NET_STAT_MAX_RECORDS per peer (collectStat).
THEOREM TypeCorrect == Spec => []TypeOK
  BY Invariance, PTL DEF IInv

\* In a build with the lock a process holds it exactly between flock and unlock: no
\* error path and no death leaves it locked, and two are never inside (collectStat).
THEOREM LockDiscipline ==
    Spec => []/\ LockHeldInside
              /\ locking => \A p, q \in Process : Inside(p) /\ Inside(q) => p = q
<1>1. IInv => /\ LockHeldInside
              /\ locking => \A p, q \in Process : Inside(p) /\ Inside(q) => p = q
  BY AloneInside DEF IInv
<1> QED
  BY <1>1, Invariance, PTL

\* A process that collected statistics while no other did leaves a file that parses
\* and has its record, whatever it found, without any lock (collectStat).
THEOREM UndisturbedWriteRepairs == Spec => UndisturbedRepairs
<1> DEFINE A == \A p \in Process :
                   pc[p] = "truncated" /\ pc'[p] = "idle" /\ p \notin disturbed' =>
                      /\ file' # None
                      /\ \E i \in 1 .. Len(file'[mPeer[p]]) : file'[mPeer[p]][i] = tNow[p]
<1>1. IInv /\ [Next]_vars => [A]_vars
  <2> SUFFICES ASSUME IInv, Next, NEW p \in Process,
                      pc[p] = "truncated", pc'[p] = "idle", p \notin disturbed'
               PROVE  /\ file' # None
                      /\ \E i \in 1 .. Len(file'[mPeer[p]]) : file'[mPeer[p]][i] = tNow[p]
    OBVIOUS
  <2>1. Write(p)
    <3>1. ASSUME NEW q \in Process, q # p, Write(q) \/ OpenFails(q) \/ Die(q)
          PROVE  FALSE
      BY <3>1 DEF Write, OpenFails, Die, Leave, Return, IInv, TypeOK
    <3>2. ASSUME NEW q \in Process,
                 Lock(q) \/ ReadAndPrune(q) \/ Truncate(q) \/ \E peer \in Peer : Begin(q, peer)
          PROVE  FALSE
      BY <3>2 DEF Lock, ReadAndPrune, Truncate, Begin, IInv, TypeOK
    <3>3. ~Tick /\ ~Die(p) /\ ~OpenFails(p)
      BY DEF Tick, local, Die, OpenFails
    <3> QED
      BY <3>1, <3>2, <3>3 DEF Next, collectStat
  <2>2. file = None
    BY <2>1 DEF Write, IInv, UndisturbedIsAlone
  <2>3. file' = stats[p] /\ stats[p] \in [Peer -> Records]
    BY <2>1, <2>2 DEF Write, IInv, TypeOK
  <2>4. stats[p] # None
    BY <2>3, NoneAssumption DEF Records
  <2> QED
    BY <2>3, <2>4 DEF IInv, OwnRecord
<1> QED
  BY <1>1, Invariance, PTL DEF Spec, UndisturbedRepairs

-----------------------------------------------------------------------------
(***************************************************************************)
(* The statistics as a log.  Under the lock a record is in the log from    *)
(* the moment the process that brings it truncates the file.               *)
(***************************************************************************)

\* What the log is: the file, or what the one process will write that truncated it.
CommittedIs ==
    locking => /\ Truncaters = {} => Committed = OnDisk
               /\ \A p \in Truncaters : Committed = stats[p]

\* Spec => []CommittedIs, since only one process at a time has truncated the file.
LEMMA CommittedFacts == Spec => []CommittedIs
<1>1. IInv => CommittedIs
  <2> SUFFICES ASSUME IInv, locking
               PROVE  /\ Truncaters = {} => Committed = OnDisk
                      /\ \A p \in Truncaters : Committed = stats[p]
    BY DEF CommittedIs
  <2>1. Truncaters = {} => Committed = OnDisk
    BY DEF Committed, OnDisk, Log!NoStats
  <2>2. ASSUME NEW p \in Truncaters PROVE Committed = stats[p]
    <3>1. \A q \in Truncaters : q = p
      BY AloneInside DEF Truncaters, Inside
    <3>2. (CHOOSE q \in Truncaters : TRUE) = p
      BY <3>1
    <3> QED
      BY <3>2 DEF Committed
  <2> QED
    BY <2>1, <2>2
<1> QED
  BY <1>1, Invariance, PTL

\* In a build with the lock nothing happens to the log except that a record is
\* added to it, to the whole of it, or that a process dies after it truncated the
\* file and before it wrote it.  (The log of StatLog may be forgotten at any time;
\* this says when.)
NoRecordLost ==
    [][locking =>
          \/ UNCHANGED Committed
          \/ \E p \in Process : /\ pc[p] = "pruned"
                                /\ Committed' = Log!Collected(Committed, mPeer[p], tNow[p])
          \/ \E p \in Process : pc[p] = "truncated" /\ Die(p) /\ Committed' = Log!NoStats]_vars

\* The step of the log that each step of the processes is.
LEMMA CommittedStep ==
    ASSUME IInv, CommittedIs, CommittedIs', locking, [Next]_vars
    PROVE  \/ UNCHANGED Committed
           \/ \E p \in Process : /\ pc[p] = "pruned"
                                 /\ Committed' = Log!Collected(Committed, mPeer[p], tNow[p])
           \/ \E p \in Process : pc[p] = "truncated" /\ Die(p) /\ Committed' = Log!NoStats
<1>0. locking'
  BY DEF Next, vars, collectStat, Lock, ReadAndPrune, Truncate, Write, OpenFails, Die, Begin, Tick
<1>1. /\ Truncaters = {} => Committed = OnDisk
      /\ \A p \in Truncaters : Committed = stats[p]
      /\ Truncaters' = {} => Committed' = OnDisk'
      /\ \A p \in Truncaters' : Committed' = stats'[p]
  BY <1>0 DEF CommittedIs
<1>2. ASSUME UNCHANGED file, Truncaters' = Truncaters, \A p \in Truncaters : stats'[p] = stats[p]
      PROVE  UNCHANGED Committed
  BY <1>1, <1>2 DEF OnDisk, Log!NoStats
<1>3. ASSUME NEW p \in Process,
             Lock(p) \/ ReadAndPrune(p) \/ OpenFails(p) \/ \E peer \in Peer : Begin(p, peer)
      PROVE  UNCHANGED Committed
  <2>1. /\ UNCHANGED file
        /\ pc[p] # "truncated" /\ pc'[p] # "truncated"
        /\ \A q \in Process \ {p} : pc'[q] = pc[q] /\ stats'[q] = stats[q]
    BY <1>3 DEF Lock, ReadAndPrune, OpenFails, Begin, Leave, Return, IInv, TypeOK
  <2> QED
    BY <1>2, <2>1 DEF Truncaters
<1>4. ASSUME NEW p \in Process, Truncate(p)
      PROVE  pc[p] = "pruned" /\ Committed' = Log!Collected(Committed, mPeer[p], tNow[p])
  <2>1. pc[p] = "pruned" /\ p \in Truncaters' /\ UNCHANGED stats
    BY <1>4 DEF Truncate, Truncaters, IInv, TypeOK
  <2>2. Truncaters = {}
    BY <2>1, AloneInside DEF Truncaters, Inside
  <2> QED
    BY <1>1, <2>1, <2>2 DEF IInv, ReadIsCurrent
<1>5. ASSUME NEW p \in Process, pc[p] = "truncated", Leave(p)
      PROVE  Committed = stats[p] /\ Committed' = OnDisk'
  <2>1. p \in Truncaters /\ \A q \in Process : pc'[q] # "truncated"
    BY <1>5, AloneInside DEF Leave, Return, Truncaters, Inside, IInv, TypeOK
  <2> QED
    BY <1>1, <2>1 DEF Truncaters
<1>6. ASSUME NEW p \in Process, Write(p)
      PROVE  UNCHANGED Committed
  <2>1. file = None
    BY <1>6 DEF Write, IInv, TruncatedIsEmpty, Truncaters
  <2>2. file' = stats[p] /\ stats[p] \in [Peer -> Records]
    BY <1>6, <2>1 DEF Write, IInv, TypeOK
  <2>3. file' # None
    BY <2>2, NoneAssumption DEF Records
  <2> QED
    BY <1>5, <1>6, <2>2, <2>3 DEF Write, OnDisk
<1>7. ASSUME NEW p \in Process, Die(p)
      PROVE  \/ UNCHANGED Committed
             \/ pc[p] = "truncated" /\ Committed' = Log!NoStats
  <2>1. Leave(p) /\ UNCHANGED file
    BY <1>7 DEF Die, Leave
  <2>2. CASE pc[p] = "truncated"
    <3>1. file' = None
      BY <2>1, <2>2 DEF IInv, TruncatedIsEmpty, Truncaters
    <3> QED
      BY <1>5, <2>1, <2>2, <3>1 DEF OnDisk, Log!NoStats
  <2>3. CASE pc[p] # "truncated"
    <3>1. /\ pc'[p] # "truncated"
          /\ \A q \in Process \ {p} : pc'[q] = pc[q] /\ stats'[q] = stats[q]
      BY <2>1 DEF Leave, Return, IInv, TypeOK
    <3> QED
      BY <1>2, <2>1, <2>3, <3>1 DEF Truncaters
  <2> QED
    BY <2>2, <2>3
<1>8. CASE Tick \/ UNCHANGED vars
  BY <1>2, <1>8 DEF Tick, vars, local, Truncaters
<1> QED
  BY <1>3, <1>4, <1>6, <1>7, <1>8 DEF Next, collectStat

\* Spec => NoRecordLost (collectStat with SHARED_STATE_STAT_FILE_LOCKING).
THEOREM RecordsAreKept == Spec => NoRecordLost
<1>1. IInv /\ CommittedIs /\ CommittedIs' /\ [Next]_vars =>
        [locking =>
          \/ UNCHANGED Committed
          \/ \E p \in Process : /\ pc[p] = "pruned"
                                /\ Committed' = Log!Collected(Committed, mPeer[p], tNow[p])
          \/ \E p \in Process : pc[p] = "truncated" /\ Die(p) /\ Committed' = Log!NoStats]_vars
  BY CommittedStep
<1> QED
  BY <1>1, Invariance, CommittedFacts, PTL DEF Spec, NoRecordLost

\* The processes under the lock implement the log: every read, change and write is
\* one addition of a record to what was there (collectStat).
THEOREM ImplementsLog == Spec => LockedIsAtomic
<1>1. Init => Log!Init
  BY DEF Init, Committed, Truncaters, Log!Init, Log!NoStats
<1>2. IInv /\ CommittedIs /\ CommittedIs' /\ [Next]_vars => [Log!Next]_Committed
  <2> SUFFICES ASSUME IInv, CommittedIs, CommittedIs', [Next]_vars
               PROVE  Log!Next \/ UNCHANGED Committed
    OBVIOUS
  <2>1. CASE ~locking
    <3>1. ~locking'
      BY <2>1 DEF Next, vars, collectStat, Lock, ReadAndPrune, Truncate, Write, OpenFails, Die,
                  Begin, Tick
    <3> QED
      BY <2>1, <3>1 DEF Committed
  <2>2. CASE locking
    <3>1. ASSUME NEW p \in Process, pc[p] = "pruned",
                 Committed' = Log!Collected(Committed, mPeer[p], tNow[p])
          PROVE  Log!Next
      <4>1. mPeer[p] \in Peer /\ tNow[p] \in Time
        BY <3>1 DEF IInv, CallHasPeer, TypeOK
      <4> QED
        BY <3>1, <4>1 DEF Log!Next, Log!Record
    <3>2. CASE Committed' = Log!NoStats
      BY <3>2 DEF Log!Next, Log!Forget
    <3> QED
      BY <2>2, <3>1, <3>2, CommittedStep
  <2> QED
    BY <2>1, <2>2
<1> QED
  BY <1>1, <1>2, Invariance, CommittedFacts, PTL DEF Spec, LockedIsAtomic, Log!Spec

=============================================================================
