------------------------- MODULE AsyncCommandProofs -------------------------
(***************************************************************************)
(* Proofs about the child processes of the daemon, for any number of       *)
(* commands and of coroutines that run them.                               *)
(***************************************************************************)
EXTENDS AsyncCommand, TLAPS

Holders == [Command -> SUBSET Process]

\* A child is not the daemon, and no command is None.
LEMMA CommandFacts ==
    /\ Command \subseteq Nat \ {0}
    /\ \A c \in Command : c # Daemon /\ c \in Process /\ c # None
    /\ Daemon \in Process
  BY NoneAssumption DEF Command, Daemon, Process

\* Closing an end leaves a part of its holders.
LEMMA ClosedFacts ==
    ASSUME NEW holders \in Holders, NEW p, NEW C
    PROVE  /\ Closed(holders, p, C) \in Holders
           /\ \A c \in Command :
                /\ Closed(holders, p, C)[c] \subseteq holders[c]
                /\ c \in C => p \notin Closed(holders, p, C)[c]
  BY DEF Closed, Holders

\* A fork adds the new child to holders only, and only next to the daemon.
LEMMA InheritedFacts ==
    ASSUME NEW holders \in Holders, NEW new \in Command
    PROVE  /\ Inherited(holders, new) \in Holders
           /\ Inherited(holders, new)[new] = {Daemon}
           /\ \A c \in Command \ {new} :
                /\ Inherited(holders, new)[c] \subseteq holders[c] \cup {new}
                /\ new \in Inherited(holders, new)[c] =>
                      new \in holders[c] \/ Daemon \in holders[c]
                /\ Daemon \in Inherited(holders, new)[c] => Daemon \in holders[c]
<1>1. Inherited(holders, new) \in Holders
  BY CommandFacts DEF Inherited, Holders
<1>2. \A c \in Command \ {new} :
         Inherited(holders, new)[c] \in {holders[c], holders[c] \cup {new}}
  BY DEF Inherited
<1>3. \A c \in Command \ {new} :
         Inherited(holders, new)[c] # holders[c] => Daemon \in holders[c]
  BY DEF Inherited
<1>4. Inherited(holders, new)[new] = {Daemon}
  BY DEF Inherited
<1> QED
  BY <1>1, <1>2, <1>3, <1>4, CommandFacts

-----------------------------------------------------------------------------
\* Spec => []TypeOK: in particular no pipe takes more than it holds and no chunk
\* is written that was not there.
THEOREM TypeCorrect == Spec => []TypeOK
<1>1. Init => TypeOK
  BY SizeAssumption, CommandFacts DEF Init, TypeOK, Staying
<1>2. TypeOK /\ [Next]_vars => TypeOK'
  <2> SUFFICES ASSUME TypeOK, [Next]_vars PROVE TypeOK'
    OBVIOUS
  <2>0. /\ mStdIn \in Holders /\ mStdOut \in Holders
        /\ PipeSize \in Nat /\ DataLen \in Nat /\ MaxPrint \in Nat /\ MaxCommands \in Nat
    BY SizeAssumption DEF TypeOK, Holders
  <2>1. ASSUME next \in Command
        PROVE  next \in Nat /\ next + 1 \in 1 .. MaxCommands + 1
    BY <2>0, <2>1 DEF Command
  <2>2. ASSUME NEW r \in Runner, NEW reads \in BOOLEAN, NEW prints \in 0 .. MaxPrint,
               NEW stay \in Staying, ExecuteHook(r, reads, prints, stay)
        PROVE  TypeOK'
    <3> DEFINE sent == Least(DataLen, PipeSize)
    <3>1. next \in Command
      BY <2>2 DEF ExecuteHook, CanExecute
    <3>2. sent \in 0 .. PipeSize /\ DataLen - sent \in 0 .. DataLen
      BY <2>0 DEF Least
    <3>3. mStdIn' \in Holders /\ mStdOut' \in Holders
      BY <2>0, <2>2, <3>1, InheritedFacts, ClosedFacts DEF ExecuteHook
    <3>4. /\ unread' = [unread EXCEPT ![next] = sent]
          /\ unsent' = [unsent EXCEPT ![next] = DataLen - sent]
      BY <2>2 DEF ExecuteHook
    <3> HIDE DEF sent
    <3>5. /\ unread' \in [Command -> 0 .. PipeSize]
          /\ unsent' \in [Command -> 0 .. DataLen]
      BY <3>1, <3>2, <3>4 DEF TypeOK
    <3>6. /\ Forked(next, reads, prints, stay)
          /\ current' = [current EXCEPT ![r] = next]
          /\ UNCHANGED <<alive, kind, undrained>>
      BY <2>2 DEF ExecuteHook
    <3> QED
      BY <2>1, <3>1, <3>3, <3>5, <3>6, CommandFacts DEF Forked, TypeOK, Holders
  <2>3. ASSUME NEW r \in Runner, NEW prints \in 0 .. MaxPrint, NEW stay \in Staying,
               ExecuteDiscover(r, prints, stay)
        PROVE  TypeOK'
    <3>1. next \in Command
      BY <2>3 DEF ExecuteDiscover, CanExecute
    <3>2. mStdIn' \in Holders /\ mStdOut' \in Holders
      BY <2>0, <2>3, <3>1, InheritedFacts DEF ExecuteDiscover
    <3> QED
      BY <2>1, <2>3, <3>1, <3>2, CommandFacts DEF ExecuteDiscover, Forked, TypeOK, Holders
  <2>4. ASSUME NEW r \in Runner, ExecuteWithoutPidfd(r)
        PROVE  TypeOK'
    <3>1. next \in Command
      BY <2>4 DEF ExecuteWithoutPidfd, CanExecute
    <3>2. mStdIn' \in Holders /\ mStdOut' \in Holders
      BY <2>0, <2>4, <3>1, InheritedFacts, ClosedFacts DEF ExecuteWithoutPidfd
    <3>3. 0 \in 0 .. MaxPrint /\ "no" \in Staying
      BY <2>0 DEF Staying
    <3> QED
      BY <2>1, <2>4, <3>1, <3>2, <3>3, CommandFacts
      DEF ExecuteWithoutPidfd, Forked, TypeOK, Holders
  <2>5. ASSUME DaemonEnds
        PROVE  TypeOK'
    <3>1. mStdIn' \in Holders /\ mStdOut' \in Holders
      BY <2>0, <2>5, ClosedFacts DEF DaemonEnds
    <3>2. 0 \in 0 .. DataLen
      BY <2>0
    <3> QED
      BY <2>5, <3>1, <3>2 DEF DaemonEnds, TypeOK, Holders
  <2>6. ASSUME NEW c \in Command, WriteStdIn(c)
        PROVE  TypeOK'
    <3> DEFINE sent == Least(unsent[c], PipeSize - unread[c])
    <3>1. unsent[c] \in 0 .. DataLen /\ unread[c] \in 0 .. PipeSize
      BY DEF TypeOK
    <3>2. unread[c] + sent \in 0 .. PipeSize /\ unsent[c] - sent \in 0 .. DataLen
      BY <2>0, <3>1 DEF Least
    <3>3. mStdIn' \in Holders
      BY <2>0, <2>6, ClosedFacts DEF WriteStdIn
    <3> QED
      BY <2>6, <3>2, <3>3 DEF WriteStdIn, TypeOK, Holders
  <2>7. ASSUME NEW c \in Command, WriteStdInFails(c)
        PROVE  TypeOK'
    <3>1. mStdIn' \in Holders /\ 0 \in 0 .. DataLen
      BY <2>0, <2>7, ClosedFacts DEF WriteStdInFails
    <3> QED
      BY <2>7, <3>1 DEF WriteStdInFails, TypeOK, Holders, childVars
  <2>8. ASSUME NEW c \in Command, ReadStdOut(c)
        PROVE  TypeOK'
    <3>1. 0 \in 0 .. PipeSize
      BY <2>0
    <3> QED
      BY <2>8, <3>1 DEF ReadStdOut, TypeOK
  <2>9. ASSUME NEW r \in Runner, NEW c \in Command, WaitTermination(r, c)
        PROVE  TypeOK'
    <3>1. mStdIn' \in Holders /\ mStdOut' \in Holders
      BY <2>0, <2>9, ClosedFacts DEF WaitTermination
    <3> QED
      BY <2>9, <3>1 DEF WaitTermination, TypeOK, Holders
  <2>10. ASSUME NEW c \in Command, ChildReads(c)
         PROVE  TypeOK'
    <3>1. unread[c] \in 0 .. PipeSize /\ unread[c] > 0
      BY <2>10 DEF ChildReads, TypeOK
    <3>2. unread[c] - 1 \in 0 .. PipeSize
      BY <2>0, <3>1
    <3> QED
      BY <2>10, <3>2 DEF ChildReads, TypeOK
  <2>11. ASSUME NEW c \in Command, ChildReadsEof(c)
         PROVE  TypeOK'
    BY <2>11 DEF ChildReadsEof, TypeOK
  <2>12. ASSUME NEW c \in Command, ChildPrints(c)
         PROVE  TypeOK'
    <3>1. unprinted[c] \in 0 .. MaxPrint /\ unprinted[c] > 0 /\ undrained[c] \in 0 .. PipeSize
      BY <2>12 DEF ChildPrints, TypeOK
    <3>2. unprinted[c] - 1 \in 0 .. MaxPrint
      BY <2>0, <3>1
    <3>3. mStdOut[c] # {} => undrained[c] + 1 \in 0 .. PipeSize
      BY <2>0, <2>12, <3>1 DEF ChildPrints
    <3>4. undrained' \in [Command -> 0 .. PipeSize]
      BY <2>12, <3>3 DEF ChildPrints, TypeOK
    <3> QED
      BY <2>12, <3>2, <3>4 DEF ChildPrints, TypeOK
  <2>13. ASSUME NEW c \in Command, ChildExits(c)
         PROVE  TypeOK'
    <3>1. mStdIn' \in Holders /\ mStdOut' \in Holders
      BY <2>0, <2>13, ClosedFacts DEF ChildExits
    <3> QED
      BY <2>13, <3>1 DEF ChildExits, TypeOK, Holders
  <2>14. CASE DaemonStarts
    BY <2>14, CommandFacts DEF DaemonStarts, TypeOK, childVars
  <2>15. CASE UNCHANGED vars
    BY <2>15 DEF vars, childVars, TypeOK
  <2>16. ASSUME NEW r \in Runner, NEW c \in Command, WaitTerminationFails(r, c)
         PROVE  TypeOK'
    <3>1. CASE kind[c] = "discover"
      BY <2>5, <2>16, <3>1 DEF WaitTerminationFails
    <3>2. CASE kind[c] # "discover"
      BY <2>16, <3>2 DEF WaitTerminationFails, TypeOK
    <3> QED
      BY <3>1, <3>2
  <2>17. ASSUME NEW r \in Runner, Execute(r)
         PROVE  TypeOK'
    <3>1. 0 \in 0 .. MaxPrint /\ MaxPrint \in 0 .. MaxPrint
      BY <2>0
    <3>2. (IF next \in MayStay THEN Staying ELSE {"no"}) \subseteq Staying
      BY DEF Staying
    <3> QED
      BY <2>2, <2>3, <2>4, <2>5, <2>17, <3>1, <3>2 DEF Execute, ExecuteDiscoverFails
  <2> QED
    BY <2>5, <2>6, <2>7, <2>8, <2>9, <2>10, <2>11, <2>12, <2>13, <2>14, <2>15, <2>16, <2>17
    DEF Next, Await, ChildStep, DaemonDies
<1> QED
  BY <1>1, <1>2, PTL DEF Spec

-----------------------------------------------------------------------------
(***************************************************************************)
(* Who holds the ends of a pipe.  The daemon's ends of a command that was  *)
(* not started do not exist; that is why a new child, which takes the next *)
(* number, has a greater one than those whose ends it inherits.            *)
(***************************************************************************)

NotYetOpen == \A c \in Command : c >= next => mStdIn[c] = {} /\ mStdOut[c] = {}

HolderInv == NotYetOpen /\ OnlyLaterChildrenInherit

\* A fork preserves what HolderInv says of one of the two ends.
LEMMA InheritedLater ==
    ASSUME NEW holders \in Holders, NEW new \in Command,
           \A c \in Command : c >= new => holders[c] = {},
           \A c \in Command : \A p \in holders[c] : p = Daemon \/ p > c
    PROVE  /\ \A c \in Command : c >= new + 1 => Inherited(holders, new)[c] = {}
           /\ \A c \in Command : \A p \in Inherited(holders, new)[c] : p = Daemon \/ p > c
<1>1. ASSUME NEW c \in Command, c >= new + 1
      PROVE  Inherited(holders, new)[c] = {}
  <2>1. c # new /\ c >= new
    BY <1>1, CommandFacts
  <2> QED
    BY <2>1 DEF Inherited
<1>2. ASSUME NEW c \in Command, NEW p \in Inherited(holders, new)[c]
      PROVE  p = Daemon \/ p > c
  <2>1. CASE c = new
    BY <1>2, <2>1, InheritedFacts
  <2>2. CASE c # new /\ p \in holders[c]
    BY <2>2
  <2>3. CASE c # new /\ p \notin holders[c]
    <3>1. p = new /\ holders[c] # {}
      BY <1>2, <2>3, InheritedFacts
    <3>2. ~(c >= new) /\ c \in Nat /\ new \in Nat
      BY <3>1, CommandFacts
    <3> QED
      BY <3>1, <3>2
  <2> QED
    BY <2>1, <2>2, <2>3
<1> QED
  BY <1>1, <1>2

\* Closing ends preserves HolderInv.
LEMMA FewerHolders ==
    ASSUME HolderInv, next' = next,
           \A c \in Command : mStdIn'[c] \subseteq mStdIn[c] /\ mStdOut'[c] \subseteq mStdOut[c]
    PROVE  HolderInv'
  BY DEF HolderInv, NotYetOpen, OnlyLaterChildrenInherit

\* A command started in any of the three ways keeps HolderInv.
LEMMA ForkKeepsHolders ==
    ASSUME TypeOK, HolderInv, next \in Command, next' = next + 1,
           \A c \in Command :
              /\ mStdIn'[c] \subseteq Inherited(mStdIn, next)[c]
              /\ mStdOut'[c] \subseteq Inherited(mStdOut, next)[c]
    PROVE  HolderInv'
<1>1. mStdIn \in Holders /\ mStdOut \in Holders
  BY DEF TypeOK, Holders
<1>2. /\ \A c \in Command : c >= next => mStdIn[c] = {} /\ mStdOut[c] = {}
      /\ \A c \in Command : \A p \in mStdIn[c] \cup mStdOut[c] : p = Daemon \/ p > c
  BY DEF HolderInv, NotYetOpen, OnlyLaterChildrenInherit
<1>3. /\ \A c \in Command : c >= next + 1 => Inherited(mStdIn, next)[c] = {}
      /\ \A c \in Command : \A p \in Inherited(mStdIn, next)[c] : p = Daemon \/ p > c
  BY <1>1, <1>2, InheritedLater
<1>4. /\ \A c \in Command : c >= next + 1 => Inherited(mStdOut, next)[c] = {}
      /\ \A c \in Command : \A p \in Inherited(mStdOut, next)[c] : p = Daemon \/ p > c
  BY <1>1, <1>2, InheritedLater
<1> QED
  BY <1>3, <1>4 DEF HolderInv, NotYetOpen, OnlyLaterChildrenInherit

\* Only forks add holders, everything else closes ends or leaves them.
LEMMA HolderInvStep == TypeOK /\ HolderInv /\ [Next]_vars => HolderInv'
<1> SUFFICES ASSUME TypeOK, HolderInv, [Next]_vars PROVE HolderInv'
  OBVIOUS
<1>0. mStdIn \in Holders /\ mStdOut \in Holders
  BY DEF TypeOK, Holders
<1>1. ASSUME NEW r \in Runner, NEW reads, NEW prints, NEW stay,
             ExecuteHook(r, reads, prints, stay)
      PROVE  HolderInv'
  <2>1. next \in Command /\ next' = next + 1
    BY <1>1 DEF ExecuteHook, CanExecute, Forked
  <2>2. \A c \in Command : /\ mStdIn'[c] \subseteq Inherited(mStdIn, next)[c]
                           /\ mStdOut'[c] \subseteq Inherited(mStdOut, next)[c]
    BY <1>0, <1>1, <2>1, InheritedFacts, ClosedFacts DEF ExecuteHook
  <2> QED
    BY <2>1, <2>2, ForkKeepsHolders
<1>2. ASSUME NEW r \in Runner, NEW prints, NEW stay, ExecuteDiscover(r, prints, stay)
      PROVE  HolderInv'
  BY <1>2, ForkKeepsHolders DEF ExecuteDiscover, CanExecute, Forked
<1>3. ASSUME NEW r \in Runner, ExecuteWithoutPidfd(r)
      PROVE  HolderInv'
  <2>1. next \in Command /\ next' = next + 1
    BY <1>3 DEF ExecuteWithoutPidfd, CanExecute, Forked
  <2>2. \A c \in Command : /\ mStdIn'[c] \subseteq Inherited(mStdIn, next)[c]
                           /\ mStdOut'[c] \subseteq Inherited(mStdOut, next)[c]
    BY <1>0, <1>3, <2>1, InheritedFacts, ClosedFacts DEF ExecuteWithoutPidfd
  <2> QED
    BY <2>1, <2>2, ForkKeepsHolders
<1>4. CASE DaemonEnds
  BY <1>0, <1>4, ClosedFacts, FewerHolders DEF DaemonEnds
<1>5. ASSUME NEW c \in Command, WriteStdIn(c) \/ WriteStdInFails(c)
      PROVE  HolderInv'
  BY <1>0, <1>5, ClosedFacts, FewerHolders DEF WriteStdIn, WriteStdInFails
<1>6. ASSUME NEW c \in Command, ReadStdOut(c)
      PROVE  HolderInv'
  BY <1>6, FewerHolders DEF ReadStdOut
<1>7. ASSUME NEW r \in Runner, NEW c \in Command, WaitTermination(r, c)
      PROVE  HolderInv'
  BY <1>0, <1>7, ClosedFacts, FewerHolders DEF WaitTermination
<1>8. ASSUME NEW c \in Command, ChildReads(c) \/ ChildReadsEof(c) \/ ChildPrints(c)
      PROVE  HolderInv'
  BY <1>8, FewerHolders DEF ChildReads, ChildReadsEof, ChildPrints
<1>9. ASSUME NEW c \in Command, ChildExits(c)
      PROVE  HolderInv'
  BY <1>0, <1>9, ClosedFacts, FewerHolders DEF ChildExits
<1>10. CASE DaemonStarts \/ UNCHANGED vars
  BY <1>10, FewerHolders DEF DaemonStarts, vars
<1>11. ASSUME NEW r \in Runner, NEW c \in Command, WaitTerminationFails(r, c)
       PROVE  HolderInv'
  BY <1>4, <1>11, FewerHolders DEF WaitTerminationFails
<1> QED
  BY <1>1, <1>2, <1>3, <1>4, <1>5, <1>6, <1>7, <1>8, <1>9, <1>10, <1>11
  DEF Next, Execute, ExecuteDiscoverFails, Await, ChildStep, DaemonDies

\* Spec => []OnlyLaterChildrenInherit: however many commands run and are started
\* by however many coroutines, no child waits for the end of its own input in a
\* circle through children that inherited pipes from each other.
THEOREM NoCircularInheritance == Spec => []OnlyLaterChildrenInherit
<1>1. Init => HolderInv
  BY DEF Init, HolderInv, NotYetOpen, OnlyLaterChildrenInherit
<1>2. HolderInv => OnlyLaterChildrenInherit
  BY DEF HolderInv
<1> QED
  BY <1>1, <1>2, HolderInvStep, TypeCorrect, PTL DEF Spec

-----------------------------------------------------------------------------
\* What DoneIsReapedAndClosed says of one command.
DoneWith(c) ==
    (\A r \in Runner : current[r] # c) =>
        /\ Daemon \in mStdIn[c] \cup mStdOut[c] => kind[c] = "unwaited"
        /\ mProcessId[c] \in {"running", "exited"} => kind[c] = "unwatched"

\* It stays true of a command nobody lets go of, whose ends the daemon does not
\* open again, and whose child at most exits.
LEMMA DoneKept ==
    ASSUME NEW c \in Command, DoneWith(c),
           (\A r \in Runner : current'[r] # c) => \A r \in Runner : current[r] # c,
           Daemon \in mStdIn'[c] => Daemon \in mStdIn[c],
           Daemon \in mStdOut'[c] => Daemon \in mStdOut[c],
           \/ mProcessId'[c] = mProcessId[c]
           \/ mProcessId[c] = "running"
           \/ mProcessId'[c] \notin {"running", "exited"},
           kind'[c] = kind[c]
    PROVE  DoneWith(c)'
  BY DEF DoneWith

\* Every step keeps it for every command.
LEMMA DoneStep == TypeOK /\ DoneIsReapedAndClosed /\ [Next]_vars => DoneIsReapedAndClosed'
<1> SUFFICES ASSUME TypeOK, DoneIsReapedAndClosed, [Next]_vars, NEW c \in Command
             PROVE  DoneWith(c)'
  BY DEF DoneIsReapedAndClosed, DoneWith
<1>0. /\ mStdIn \in Holders /\ mStdOut \in Holders
      /\ DoneWith(c)
  BY DEF TypeOK, Holders, DoneIsReapedAndClosed, DoneWith
<1>1. ASSUME NEW r \in Runner, NEW reads, NEW prints, NEW stay,
             ExecuteHook(r, reads, prints, stay)
      PROVE  DoneWith(c)'
  <2>1. /\ next \in Command /\ current[r] = None
        /\ current' = [current EXCEPT ![r] = next]
        /\ mProcessId' = [mProcessId EXCEPT ![next] = "running"]
        /\ kind' = kind
        /\ mStdIn' \in {Inherited(mStdIn, next), Closed(Inherited(mStdIn, next), Daemon, {next})}
        /\ mStdOut' = Inherited(mStdOut, next)
    BY <1>1 DEF ExecuteHook, CanExecute, Forked
  <2>2. CASE c = next
    BY <2>1, <2>2 DEF DoneWith, TypeOK
  <2>3. CASE c # next
    <3>1. /\ Daemon \in mStdIn'[c] => Daemon \in mStdIn[c]
          /\ Daemon \in mStdOut'[c] => Daemon \in mStdOut[c]
      BY <1>0, <2>1, <2>3, InheritedFacts, ClosedFacts
    <3>2. (\A q \in Runner : current'[q] # c) => \A q \in Runner : current[q] # c
      BY <2>1, CommandFacts DEF TypeOK
    <3>3. mProcessId'[c] = mProcessId[c]
      BY <2>1, <2>3 DEF TypeOK
    <3> QED
      BY <1>0, <2>1, <3>1, <3>2, <3>3, DoneKept
  <2> QED
    BY <2>2, <2>3
<1>2. ASSUME NEW r \in Runner, NEW prints, NEW stay, ExecuteDiscover(r, prints, stay)
      PROVE  DoneWith(c)'
  <2>1. /\ next \in Command /\ current[r] = None
        /\ current' = [current EXCEPT ![r] = next]
        /\ mProcessId' = [mProcessId EXCEPT ![next] = "running"]
        /\ kind' = [kind EXCEPT ![next] = "discover"]
        /\ mStdIn' = Inherited(mStdIn, next)
        /\ mStdOut' = Inherited(mStdOut, next)
    BY <1>2 DEF ExecuteDiscover, CanExecute, Forked
  <2>2. CASE c = next
    BY <2>1, <2>2 DEF DoneWith, TypeOK
  <2>3. CASE c # next
    <3>1. /\ Daemon \in mStdIn'[c] => Daemon \in mStdIn[c]
          /\ Daemon \in mStdOut'[c] => Daemon \in mStdOut[c]
      BY <1>0, <2>1, <2>3, InheritedFacts
    <3>2. (\A q \in Runner : current'[q] # c) => \A q \in Runner : current[q] # c
      BY <2>1, CommandFacts DEF TypeOK
    <3>3. mProcessId'[c] = mProcessId[c] /\ kind'[c] = kind[c]
      BY <2>1, <2>3 DEF TypeOK
    <3> QED
      BY <1>0, <3>1, <3>2, <3>3, DoneKept
  <2> QED
    BY <2>2, <2>3
<1>3. ASSUME NEW r \in Runner, ExecuteWithoutPidfd(r)
      PROVE  DoneWith(c)'
  <2>1. /\ next \in Command
        /\ current' = current
        /\ mProcessId' = [mProcessId EXCEPT ![next] = "running"]
        /\ kind' = [kind EXCEPT ![next] = "unwatched"]
        /\ mStdIn' = Closed(Inherited(mStdIn, next), Daemon, {next})
        /\ mStdOut' = Closed(Inherited(mStdOut, next), Daemon, {next})
    BY <1>3 DEF ExecuteWithoutPidfd, CanExecute, Forked
  <2>2. Inherited(mStdIn, next) \in Holders /\ Inherited(mStdOut, next) \in Holders
    BY <1>0, <2>1, InheritedFacts
  <2>3. CASE c = next
    <3>1. Daemon \notin mStdIn'[c] \cup mStdOut'[c]
      BY <2>1, <2>2, <2>3, ClosedFacts
    <3>2. kind'[c] = "unwatched"
      BY <2>1, <2>3 DEF TypeOK
    <3> QED
      BY <3>1, <3>2 DEF DoneWith
  <2>4. CASE c # next
    <3>1. /\ Daemon \in mStdIn'[c] => Daemon \in mStdIn[c]
          /\ Daemon \in mStdOut'[c] => Daemon \in mStdOut[c]
      BY <1>0, <2>1, <2>2, <2>4, InheritedFacts, ClosedFacts
    <3>2. mProcessId'[c] = mProcessId[c] /\ kind'[c] = kind[c]
      BY <2>1, <2>4 DEF TypeOK
    <3> QED
      BY <1>0, <2>1, <3>1, <3>2, DoneKept
  <2> QED
    BY <2>3, <2>4
<1>4. CASE DaemonEnds
  <2>1. Daemon \notin mStdIn'[c] \cup mStdOut'[c]
    BY <1>0, <1>4, ClosedFacts DEF DaemonEnds
  <2>2. mProcessId'[c] \notin {"running", "exited"}
    BY <1>4 DEF DaemonEnds, TypeOK
  <2> QED
    BY <2>1, <2>2 DEF DoneWith
<1>5. ASSUME NEW d \in Command, WriteStdIn(d) \/ WriteStdInFails(d)
      PROVE  DoneWith(c)'
  BY <1>0, <1>5, ClosedFacts, DoneKept DEF WriteStdIn, WriteStdInFails, childVars
<1>6. ASSUME NEW d \in Command, ReadStdOut(d)
      PROVE  DoneWith(c)'
  BY <1>0, <1>6, DoneKept DEF ReadStdOut
<1>7. ASSUME NEW r \in Runner, NEW d \in Command, current[r] = d, WaitTermination(r, d)
      PROVE  DoneWith(c)'
  <2>1. /\ current' = [current EXCEPT ![r] = None]
        /\ mProcessId' = [mProcessId EXCEPT ![d] = "reaped"]
        /\ mStdIn' = Closed(mStdIn, Daemon, {d})
        /\ mStdOut' = Closed(mStdOut, Daemon, {d})
        /\ kind' = kind
    BY <1>7 DEF WaitTermination
  <2>2. CASE c = d
    <3>1. Daemon \notin mStdIn'[c] \cup mStdOut'[c]
      BY <1>0, <2>1, <2>2, ClosedFacts
    <3>2. mProcessId'[c] = "reaped"
      BY <2>1, <2>2 DEF TypeOK
    <3> QED
      BY <3>1, <3>2 DEF DoneWith
  <2>3. CASE c # d
    <3>1. mStdIn'[c] \subseteq mStdIn[c] /\ mStdOut'[c] \subseteq mStdOut[c]
      BY <1>0, <2>1, ClosedFacts
    <3>2. (\A q \in Runner : current'[q] # c) => \A q \in Runner : current[q] # c
      BY <1>7, <2>1, <2>3 DEF TypeOK
    <3>3. mProcessId'[c] = mProcessId[c]
      BY <2>1, <2>3 DEF TypeOK
    <3> QED
      BY <1>0, <2>1, <3>1, <3>2, <3>3, DoneKept
  <2> QED
    BY <2>2, <2>3
<1>8. ASSUME NEW d \in Command, ChildReads(d) \/ ChildReadsEof(d) \/ ChildPrints(d)
      PROVE  DoneWith(c)'
  BY <1>0, <1>8, DoneKept DEF ChildReads, ChildReadsEof, ChildPrints
<1>9. ASSUME NEW d \in Command, ChildExits(d)
      PROVE  DoneWith(c)'
  <2>1. mStdIn'[c] \subseteq mStdIn[c] /\ mStdOut'[c] \subseteq mStdOut[c]
    BY <1>0, <1>9, ClosedFacts DEF ChildExits
  <2>2. \/ mProcessId'[c] = mProcessId[c]
        \/ mProcessId[c] = "running"
        \/ mProcessId'[c] \notin {"running", "exited"}
    BY <1>9 DEF ChildExits, Runs, TypeOK
  <2> QED
    BY <1>0, <1>9, <2>1, <2>2, DoneKept DEF ChildExits
<1>10. CASE DaemonStarts \/ UNCHANGED vars
  BY <1>0, <1>10, DoneKept DEF DaemonStarts, vars, childVars
<1>11. ASSUME NEW r \in Runner, NEW d \in Command, current[r] = d, WaitTerminationFails(r, d)
       PROVE  DoneWith(c)'
  <2>1. CASE kind[d] = "discover"
    BY <1>4, <1>11, <2>1 DEF WaitTerminationFails
  <2>2. CASE kind[d] # "discover"
    <3>1. /\ current' = [current EXCEPT ![r] = None]
          /\ mProcessId' = [mProcessId EXCEPT ![d] = "reaped"]
          /\ kind' = [kind EXCEPT ![d] = "unwaited"]
          /\ mStdIn' = mStdIn /\ mStdOut' = mStdOut
      BY <1>11, <2>2 DEF WaitTerminationFails
    <3>2. CASE c = d
      BY <3>1, <3>2 DEF DoneWith, TypeOK
    <3>3. CASE c # d
      <4>1. (\A q \in Runner : current'[q] # c) => \A q \in Runner : current[q] # c
        BY <1>11, <3>1, <3>3 DEF TypeOK
      <4>2. mProcessId'[c] = mProcessId[c] /\ kind'[c] = kind[c]
        BY <3>1, <3>3 DEF TypeOK
      <4> QED
        BY <1>0, <3>1, <4>1, <4>2, DoneKept
    <3> QED
      BY <3>2, <3>3
  <2> QED
    BY <2>1, <2>2
<1> QED
  BY <1>1, <1>2, <1>3, <1>4, <1>5, <1>6, <1>7, <1>8, <1>9, <1>10, <1>11
  DEF Next, Execute, ExecuteDiscoverFails, Await, ChildStep, DaemonDies

\* Spec => []DoneIsReapedAndClosed: no way a command may end, fail or be cut short
\* leaks a pipe end, and the only zombie is the child without a pidfd.
THEOREM NothingLeaks == Spec => []DoneIsReapedAndClosed
<1>1. Init => DoneIsReapedAndClosed
  BY DEF Init, DoneIsReapedAndClosed
<1> QED
  BY <1>1, DoneStep, TypeCorrect, PTL DEF Spec

=============================================================================
