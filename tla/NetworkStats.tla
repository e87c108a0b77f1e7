---------------------------- MODULE NetworkStats ----------------------------
(***************************************************************************)
(* SharedState::collectStat: after every session each process involved, a  *)
(* daemon or a command, reads the statistics file, adds a record, prunes,  *)
(* truncates the file and writes it.  SHARED_STATE_STAT_FILE_LOCKING puts  *)
(* a lock around that; by default there is none.                           *)
(***************************************************************************)
EXTENDS Integers, Sequences, FiniteSets

CONSTANTS
    Process,     \* the processes of a host that have sessions
    Peer, MaxRecords, MaxAge, IntLimit,
    MaxTime,     \* bound: the clock stops there
    None         \* nobody, nothing

ASSUME StatAssumption ==
    /\ MaxRecords \in Nat \ {0} /\ MaxAge \in Nat /\ MaxTime \in Nat
    /\ IntLimit \in Nat /\ MaxRecords < IntLimit

Time == 0 .. MaxTime

\* None is no process, no peer and no content of the file.
ASSUME NoneAssumption == None \notin Process \cup Peer \cup [Peer -> Seq(Time)]

VARIABLES
    locking,  \* whether this build has SHARED_STATE_STAT_FILE_LOCKING; never changes
    clock,    \* steady_clock, the same for all processes of a host
    file,     \* the statistics on disk, or None if they cannot be parsed
    lock,     \* who holds the lock on the file
    pc,       \* per process: where it is in collectStat
    tNow,     \* per process: the time it took on entry, its record's
    mPeer,    \* per process: the peer the record is for
    stats,    \* per process: what it has read, and then what it will write
    disturbed \* history: processes that died in their last call or were not
              \* alone during it

local == <<pc, tNow, mPeer, stats>>
vars == <<locking, clock, file, lock, local, disturbed>>

\* The one process that has truncated the file and not yet written it decides
\* what the file will be.
Truncaters == {p \in Process : pc[p] = "truncated"}

\* The statistics, as the lock lets everybody see them; nothing is promised of
\* them in a build without it.
Committed ==
    IF ~locking THEN [p \in Peer |-> <<>>]
    ELSE IF Truncaters # {} THEN stats[CHOOSE p \in Truncaters : TRUE]
    ELSE IF file = None THEN [p \in Peer |-> <<>>] ELSE file

Log == INSTANCE StatLog WITH log <- Committed

\* Whatever the interleaving, no process keeps or writes more than the limit.
Records == {records \in Seq(Time) : Len(records) <= MaxRecords}

TypeOK ==
    /\ locking \in BOOLEAN
    /\ clock \in Time
    /\ file \in [Peer -> Records] \cup {None}
    /\ lock \in Process \cup {None}
    /\ pc \in [Process -> {"idle", "begun", "locked", "pruned", "truncated"}]
    /\ tNow \in [Process -> Time]
    /\ mPeer \in [Process -> Peer \cup {None}]
    /\ stats \in [Process -> [Peer -> Records]]
    /\ disturbed \subseteq Process

Init ==
    /\ locking \in BOOLEAN
    /\ clock = 0
    /\ file = None
    /\ lock = None
    /\ pc = [p \in Process |-> "idle"]
    /\ tNow = [p \in Process |-> 0]
    /\ mPeer = [p \in Process |-> None]
    /\ stats = [p \in Process |-> Log!NoStats]
    /\ disturbed = {}

Active == {p \in Process : pc[p] # "idle"}

\* The record gets its time stamp before the lock is asked for.
Begin(p, peer) ==
    /\ pc[p] = "idle"
    /\ pc' = [pc EXCEPT ![p] = "begun"]
    /\ tNow' = [tNow EXCEPT ![p] = clock]
    /\ mPeer' = [mPeer EXCEPT ![p] = peer]
    /\ disturbed' = IF Active = {} THEN disturbed \ {p} ELSE disturbed \cup Active \cup {p}
    /\ UNCHANGED <<locking, clock, file, lock, stats>>

\* Mutant: the lock is taken shared.
LockShared(p) ==
    /\ pc[p] = "begun"
    /\ lock' = IF locking THEN p ELSE lock
    /\ pc' = [pc EXCEPT ![p] = "locked"]
    /\ UNCHANGED <<locking, clock, file, tNow, mPeer, stats, disturbed>>

\* flock(LOCK_EX), which blocks, if it is compiled in.
Lock(p) ==
    /\ pc[p] = "begun"
    /\ locking => lock = None
    /\ lock' = IF locking THEN p ELSE lock
    /\ pc' = [pc EXCEPT ![p] = "locked"]
    /\ UNCHANGED <<locking, clock, file, tNow, mPeer, stats, disturbed>>

\* What cannot be parsed counts as empty.
ReadAndPrune(p) ==
    /\ pc[p] = "locked"
    /\ stats' = [stats EXCEPT ![p] =
          Log!Collected(IF file = None THEN Log!NoStats ELSE file, mPeer[p], tNow[p])]
    /\ pc' = [pc EXCEPT ![p] = "pruned"]
    /\ UNCHANGED <<locking, clock, file, lock, tNow, mPeer, disturbed>>

\* The file is opened with std::ios::trunc.
Truncate(p) ==
    /\ pc[p] = "pruned"
    /\ file' = None
    /\ pc' = [pc EXCEPT ![p] = "truncated"]
    /\ UNCHANGED <<locking, clock, lock, tNow, mPeer, stats, disturbed>>

\* The local variables go out of scope.
Return(p) ==
    /\ pc' = [pc EXCEPT ![p] = "idle"]
    /\ tNow' = [tNow EXCEPT ![p] = 0]
    /\ mPeer' = [mPeer EXCEPT ![p] = None]
    /\ stats' = [stats EXCEPT ![p] = Log!NoStats]

\* Mutant: the lock is not released.
LeaveLocked(p) == Return(p) /\ UNCHANGED lock

\* Unlock, close and return.
Leave(p) == Return(p) /\ lock' = IF lock = p THEN None ELSE lock

\* The file is written from its start.  What another process wrote since it was
\* truncated stays behind where it is longer, and then nothing of it parses.
Write(p) ==
    /\ pc[p] = "truncated"
    /\ \/ file' = stats[p]
       \/ file # None /\ file' = None
    /\ Leave(p)
    /\ UNCHANGED <<locking, clock, disturbed>>

\* The file cannot be opened for writing; the lock is released all the same.
OpenFails(p) ==
    /\ pc[p] = "pruned"
    /\ Leave(p)
    /\ UNCHANGED <<locking, clock, file, disturbed>>

\* The process dies; the kernel releases its lock.
Die(p) ==
    /\ pc[p] # "idle"
    /\ Return(p)
    /\ lock' = IF lock = p THEN None ELSE lock
    /\ disturbed' = disturbed \cup {p}
    /\ UNCHANGED <<locking, clock, file>>

Tick ==
    /\ clock < MaxTime
    /\ clock' = clock + 1
    /\ UNCHANGED <<locking, file, lock, local, disturbed>>

collectStat(p) ==
    \/ Lock(p)
    \/ ReadAndPrune(p)
    \/ Truncate(p)
    \/ Write(p)
    \/ OpenFails(p)

Next ==
    \/ \E p \in Process : collectStat(p) \/ Die(p) \/ \E peer \in Peer : Begin(p, peer)
    \/ Tick

\* A process in collectStat runs on; nobody is obliged to have a session.
Fairness == \A p \in Process : WF_vars(collectStat(p))

Spec == Init /\ [][Next]_vars /\ Fairness

-----------------------------------------------------------------------------
(***************************************************************************)
(* Properties.                                                             *)
(***************************************************************************)

\* With the lock the read, the change and the write are one: the file develops as
\* a log to which one record after another is added, and no record of another
\* process is lost but with the whole log (collectStat).
LockedIsAtomic == Log!Spec

\* The lock, for which a daemon waits with all its loops stopped, is given back
\* whatever fails and whoever dies.
LockIsReleased == \A p \in Process : lock = p ~> lock # p

\* Without the lock two processes may lose each other's records or tear the file,
\* but a torn file heals: a process that wrote while no other was active has left
\* a file that parses, with its own record, however it found the file
\* ("Discarding corrupted or empty statistics file").
UndisturbedRepairs ==
    [][\A p \in Process :
          pc[p] = "truncated" /\ pc'[p] = "idle" /\ p \notin disturbed' =>
              /\ file' # None
              /\ \E i \in 1 .. Len(file'[mPeer[p]]) : file'[mPeer[p]][i] = tNow[p]]_vars

=============================================================================
