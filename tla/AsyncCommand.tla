---------------------------- MODULE AsyncCommand ----------------------------
(***************************************************************************)
(* The child processes of the daemon: hooks, which get the state of a type *)
(* on their standard input, and the discovery command, whose standard      *)
(* output is read to its end.  Two coroutines run commands, one at a time  *)
(* each: the accept loop and the peer loop.                                *)
(*                                                                         *)
(* No descriptor is opened with CLOEXEC, so a child inherits what the      *)
(* daemon has open at the fork, the pipe ends of other commands and the    *)
(* listening socket included.  Pipes carry chunks that are only counted.   *)
(* A coroutine runs until a system call says EAGAIN; what it does between  *)
(* two such points is one step.                                            *)
(*                                                                         *)
(* What the programs do is open: they read their input or not, print, and  *)
(* end, or hang for a reason of their own (such as a command that waits    *)
(* for this daemon), or leave a process behind.                            *)
(***************************************************************************)
EXTENDS Integers, FiniteSets

CONSTANTS
    Runner,       \* the coroutines that run commands
    Discoverer,   \* those of them that run the discovery command too
    PipeSize,     \* chunks a pipe holds
    DataLen,      \* chunks of a type's state, what a hook is sent
    MaxPrint,     \* bound: chunks a child prints, if any
    MaxCommands,  \* bound: commands executed, numbered in the order of fork
    MayStay,      \* bound: the commands whose programs may hang or daemonize
    None          \* no command

ASSUME SizeAssumption ==
    /\ PipeSize \in Nat \ {0}
    /\ DataLen \in Nat
    /\ MaxPrint \in Nat
    /\ MaxCommands \in Nat
    /\ MayStay \subseteq 1 .. MaxCommands
    /\ Discoverer \subseteq Runner

Command == 1 .. MaxCommands

ASSUME NoneAssumption == None \notin Command

Daemon == 0

\* A program that daemonizes leaves a process behind that keeps what it inherited,
\* its standard streams excepted.  One that keeps its output open does not let the
\* discovery command end, and is the same as one that hangs.
Staying == {"no", "hangs", "daemonizes"}

\* What may hold a descriptor open: the daemon or the child of a command.
Process == Command \cup {Daemon}

VARIABLES
    alive,        \* the daemon runs
    next,         \* the number of the next command
    current,      \* per coroutine: the command it awaits
    kind,         \* per command: hook, discovery, hook that was not waited for
    mProcessId,   \* per child: not forked, running, orphaned, exited, reaped
    reader,       \* per child: whether it reads its input to the end
    stays,        \* per child: whether it ends, hangs, or daemonizes
    unread,       \* per command: chunks in the pipe to its input
    unsent,       \* per command: chunks still to be written there
    unprinted,    \* per child: chunks it has still to print
    undrained,    \* per command: chunks in the pipe from its output
    mStdIn,       \* per command: who holds the write end of its input
    mStdOut,      \* per command: who holds the read end of its output
    listener      \* who holds the listening socket

childVars == <<mProcessId, reader, stays, unread, unprinted, undrained>>
vars == <<alive, next, current, kind, unsent, mStdIn, mStdOut, listener, childVars>>

TypeOK ==
    /\ alive \in BOOLEAN
    /\ next \in 1 .. MaxCommands + 1
    /\ current \in [Runner -> Command \cup {None}]
    /\ kind \in [Command -> {"hook", "discover", "unwatched", "unwaited"}]
    /\ mProcessId \in [Command -> {"none", "running", "orphan", "exited", "reaped"}]
    /\ reader \in [Command -> BOOLEAN]
    /\ stays \in [Command -> Staying]
    /\ unread \in [Command -> 0 .. PipeSize]
    /\ unsent \in [Command -> 0 .. DataLen]
    /\ unprinted \in [Command -> 0 .. MaxPrint]
    /\ undrained \in [Command -> 0 .. PipeSize]
    /\ mStdIn \in [Command -> SUBSET Process]
    /\ mStdOut \in [Command -> SUBSET Process]
    /\ listener \subseteq Process

Init ==
    /\ alive = TRUE
    /\ next = 1
    /\ current = [r \in Runner |-> None]
    /\ kind = [c \in Command |-> "hook"]
    /\ mProcessId = [c \in Command |-> "none"]
    /\ reader = [c \in Command |-> FALSE]
    /\ stays = [c \in Command |-> "no"]
    /\ unread = [c \in Command |-> 0]
    /\ unsent = [c \in Command |-> 0]
    /\ unprinted = [c \in Command |-> 0]
    /\ undrained = [c \in Command |-> 0]
    /\ mStdIn = [c \in Command |-> {}]
    /\ mStdOut = [c \in Command |-> {}]
    /\ listener = {Daemon}

Least(m, n) == IF m <= n THEN m ELSE n

\* The holders of an end of a pipe of each command after process p closes it for
\* the commands of C.
Closed(holders, p, C) ==
    [c \in Command |-> IF c \in C THEN holders[c] \ {p} ELSE holders[c]]

-----------------------------------------------------------------------------
(***************************************************************************)
(* AsyncCommand::execute.                                                  *)
(***************************************************************************)

\* Mutant: the child keeps the parent's ends of its own pipes.
InheritedOwn(holders, new) ==
    [c \in Command |-> IF c = new THEN {Daemon, new}
                       ELSE IF Daemon \in holders[c] THEN holders[c] \cup {new}
                       ELSE holders[c]]

\* The holders of the parent's ends once the child of new is forked: it inherits
\* the daemon's, except for those of its own pipes, which it closes.
Inherited(holders, new) ==
    [c \in Command |-> IF c = new THEN {Daemon}
                       ELSE IF Daemon \in holders[c] THEN holders[c] \cup {new}
                       ELSE holders[c]]

\* The new child: a program that reads its input to the end or none of it and
\* prints some chunks, and may stay; or a failing execvp, which does nothing.
Forked(new, reads, prints, stay) ==
    /\ mProcessId' = [mProcessId EXCEPT ![new] = "running"]
    /\ stays' = [stays EXCEPT ![new] = stay]
    /\ reader' = [reader EXCEPT ![new] = reads]
    /\ unprinted' = [unprinted EXCEPT ![new] = prints]
    /\ next' = new + 1
    /\ listener' = listener \cup {new}

CanExecute(r) == alive /\ current[r] = None /\ next \in Command

\* One round of notifyHooks up to the first suspension: the hook is started and
\* sent what its pipe takes, and if that was all its input is closed.
ExecuteHook(r, reads, prints, stay) ==
    LET sent == Least(DataLen, PipeSize)
        inherited == Inherited(mStdIn, next)
    IN  /\ CanExecute(r)
        /\ Forked(next, reads, prints, stay)
        /\ current' = [current EXCEPT ![r] = next]
        /\ unread' = [unread EXCEPT ![next] = sent]
        /\ unsent' = [unsent EXCEPT ![next] = DataLen - sent]
        /\ mStdIn' = IF sent = DataLen THEN Closed(inherited, Daemon, {next})
                     ELSE inherited
        /\ mStdOut' = Inherited(mStdOut, next)
        /\ UNCHANGED <<alive, kind, undrained>>

\* getCandidatesNeighbours starts a command that does not read its input, and
\* then reads its output.
ExecuteDiscover(r, prints, stay) ==
    /\ CanExecute(r)
    /\ r \in Discoverer
    /\ Forked(next, FALSE, prints, stay)
    /\ current' = [current EXCEPT ![r] = next]
    /\ kind' = [kind EXCEPT ![next] = "discover"]
    /\ mStdIn' = Inherited(mStdIn, next)
    /\ mStdOut' = Inherited(mStdOut, next)
    /\ UNCHANGED <<alive, unread, unsent, undrained>>

\* pidfd_open fails for the child of a hook: the pipes are closed, the child is
\* killed, nobody is left to wait for it, and notifyHooks goes on.
ExecuteWithoutPidfd(r) ==
    /\ CanExecute(r)
    /\ Forked(next, FALSE, 0, "no")
    /\ mStdIn' = Closed(Inherited(mStdIn, next), Daemon, {next})
    /\ mStdOut' = Closed(Inherited(mStdOut, next), Daemon, {next})
    /\ kind' = [kind EXCEPT ![next] = "unwatched"]
    /\ UNCHANGED <<alive, current, unread, unsent, undrained>>

\* The daemon's process ends, with all it had open; init adopts its children and
\* reaps them.
DaemonEnds ==
    /\ alive' = FALSE
    /\ mProcessId' = [c \in Command |->
                        CASE mProcessId[c] = "running" -> "orphan"
                          [] mProcessId[c] = "exited" -> "reaped"
                          [] OTHER -> mProcessId[c]]
    /\ unsent' = [c \in Command |-> 0]
    /\ current' = [r \in Runner |-> None]
    /\ mStdIn' = Closed(mStdIn, Daemon, Command)
    /\ mStdOut' = Closed(mStdOut, Daemon, Command)
    /\ listener' = listener \ {Daemon}
    /\ UNCHANGED <<next, kind, reader, stays, unread, unprinted, undrained>>

\* pipe or fork fails for the discovery command, which is executed without an
\* errbub; after the same failure of a hook notifyHooks goes on with the next.
ExecuteDiscoverFails(r) == CanExecute(r) /\ r \in Discoverer /\ DaemonEnds

-----------------------------------------------------------------------------
(***************************************************************************)
(* The coroutine that awaits command c.                                    *)
(***************************************************************************)

\* Mutant: asyncWrite counts a byte too many as written.
WriteStdInMiscounted(c) ==
    LET sent == Least(unsent[c], PipeSize - unread[c])
    IN  /\ unsent[c] > 0 /\ sent > 0
        /\ mProcessId[c] = "running"
        /\ unread' = [unread EXCEPT ![c] = @ + sent]
        /\ unsent' = [unsent EXCEPT ![c] = @ - sent - 1]
        /\ mStdIn' = IF sent = unsent[c] THEN Closed(mStdIn, Daemon, {c}) ELSE mStdIn
        /\ UNCHANGED <<alive, next, current, kind, mStdOut, listener,
                       mProcessId, reader, stays, unprinted, undrained>>

\* Mutant: notifyHooks does not close the input once it is written.
WriteStdInKeptOpen(c) ==
    LET sent == Least(unsent[c], PipeSize - unread[c])
    IN  /\ unsent[c] > 0 /\ sent > 0
        /\ mProcessId[c] = "running"
        /\ unread' = [unread EXCEPT ![c] = @ + sent]
        /\ unsent' = [unsent EXCEPT ![c] = @ - sent]
        /\ UNCHANGED <<alive, next, current, kind, mStdIn, mStdOut, listener,
                       mProcessId, reader, stays, unprinted, undrained>>

\* asyncWrite fills the pipe; after the last chunk closeStdIn follows.
WriteStdIn(c) ==
    LET sent == Least(unsent[c], PipeSize - unread[c])
    IN  /\ unsent[c] > 0 /\ sent > 0
        /\ mProcessId[c] = "running"
        /\ unread' = [unread EXCEPT ![c] = @ + sent]
        /\ unsent' = [unsent EXCEPT ![c] = @ - sent]
        /\ mStdIn' = IF sent = unsent[c] THEN Closed(mStdIn, Daemon, {c}) ELSE mStdIn
        /\ UNCHANGED <<alive, next, current, kind, mStdOut, listener,
                       mProcessId, reader, stays, unprinted, undrained>>

\* write says EPIPE: the child terminated without reading all.  closeStdIn
\* follows all the same.
WriteStdInFails(c) ==
    /\ unsent[c] > 0
    /\ mProcessId[c] # "running"
    /\ unsent' = [unsent EXCEPT ![c] = 0]
    /\ mStdIn' = Closed(mStdIn, Daemon, {c})
    /\ UNCHANGED <<alive, next, current, kind, mStdOut, listener, childVars>>

\* asyncRead takes what is there.
ReadStdOut(c) ==
    /\ kind[c] = "discover"
    /\ undrained[c] > 0
    /\ undrained' = [undrained EXCEPT ![c] = 0]
    /\ UNCHANGED <<alive, next, current, kind, unsent, mStdIn, mStdOut, listener,
                   mProcessId, reader, stays, unread, unprinted>>

\* Mutant: closeAFD for AsyncCommand leaves the read end of the output open.
WaitTerminationHalf(r, c) ==
    /\ unsent[c] = 0
    /\ kind[c] = "discover" => undrained[c] = 0
    /\ mProcessId[c] = "exited"
    /\ mProcessId' = [mProcessId EXCEPT ![c] = "reaped"]
    /\ current' = [current EXCEPT ![r] = None]
    /\ mStdIn' = Closed(mStdIn, Daemon, {c})
    /\ UNCHANGED <<alive, next, kind, unsent, mStdOut, listener,
                   reader, stays, unread, unprinted, undrained>>

\* Everything is written, or everything read: waitpid reaps the child and
\* closeAFD closes what is still open of the command.
WaitTermination(r, c) ==
    /\ unsent[c] = 0
    /\ kind[c] = "discover" => undrained[c] = 0
    /\ mProcessId[c] = "exited"
    /\ mProcessId' = [mProcessId EXCEPT ![c] = "reaped"]
    /\ current' = [current EXCEPT ![r] = None]
    /\ mStdIn' = Closed(mStdIn, Daemon, {c})
    /\ mStdOut' = Closed(mStdOut, Daemon, {c})
    /\ UNCHANGED <<alive, next, kind, unsent, listener,
                   reader, stays, unread, unprinted, undrained>>

\* waitpid fails, as it does with SIGCHLD ignored: nothing of a hook is closed, and
\* notifyHooks goes on.  For the discovery command there is no errbub.  That close
\* fails is left out.
WaitTerminationFails(r, c) ==
    /\ unsent[c] = 0
    /\ mProcessId[c] = "exited"
    /\ IF kind[c] = "discover"
       THEN undrained[c] = 0 /\ DaemonEnds
       ELSE /\ mProcessId' = [mProcessId EXCEPT ![c] = "reaped"]
            /\ current' = [current EXCEPT ![r] = None]
            /\ kind' = [kind EXCEPT ![c] = "unwaited"]
            /\ UNCHANGED <<alive, next, unsent, mStdIn, mStdOut, listener,
                           reader, stays, unread, unprinted, undrained>>

Await(r) ==
    /\ alive
    /\ \E c \in Command :
          /\ current[r] = c
          /\ \/ WriteStdIn(c)
             \/ WriteStdInFails(c)
             \/ ReadStdOut(c)
             \/ WaitTermination(r, c)
             \/ WaitTerminationFails(r, c)

-----------------------------------------------------------------------------
(***************************************************************************)
(* The children, and the daemon's death and restart.                       *)
(***************************************************************************)

Runs(c) == mProcessId[c] \in {"running", "orphan"}

ChildReads(c) ==
    /\ Runs(c)
    /\ reader[c] /\ unread[c] > 0
    /\ unread' = [unread EXCEPT ![c] = @ - 1]
    /\ UNCHANGED <<alive, next, current, kind, unsent, mStdIn, mStdOut, listener,
                   mProcessId, reader, stays, unprinted, undrained>>

\* read says end of file: the pipe is empty and no write end is left.
ChildReadsEof(c) ==
    /\ Runs(c)
    /\ reader[c] /\ unread[c] = 0 /\ mStdIn[c] = {}
    /\ reader' = [reader EXCEPT ![c] = FALSE]
    /\ UNCHANGED <<alive, next, current, kind, unsent, mStdIn, mStdOut, listener,
                   mProcessId, stays, unread, unprinted, undrained>>

\* A write blocks while the pipe is full, and fails when nobody can read it.
ChildPrints(c) ==
    /\ Runs(c)
    /\ unprinted[c] > 0
    /\ mStdOut[c] = {} \/ undrained[c] < PipeSize
    /\ unprinted' = [unprinted EXCEPT ![c] = @ - 1]
    /\ undrained' = IF mStdOut[c] = {} THEN undrained
                    ELSE [undrained EXCEPT ![c] = @ + 1]
    /\ UNCHANGED <<alive, next, current, kind, unsent, mStdIn, mStdOut, listener,
                   mProcessId, reader, stays, unread>>

\* The child terminates, with all it had inherited unless it leaves a process behind.
ChildExits(c) ==
    /\ Runs(c)
    /\ ~reader[c] /\ unprinted[c] = 0 /\ stays[c] # "hangs"
    /\ mProcessId' = [mProcessId EXCEPT ![c] =
                        IF @ = "orphan" THEN "reaped" ELSE "exited"]
    /\ IF stays[c] = "daemonizes"
       THEN UNCHANGED <<mStdIn, mStdOut, listener>>
       ELSE /\ mStdIn' = Closed(mStdIn, c, Command)
            /\ mStdOut' = Closed(mStdOut, c, Command)
            /\ listener' = listener \ {c}
    /\ UNCHANGED <<alive, next, current, kind, unsent, reader, stays, unread, unprinted,
                   undrained>>

ChildStep(c) == ChildReads(c) \/ ChildReadsEof(c) \/ ChildPrints(c) \/ ChildExits(c)

DaemonDies == alive /\ DaemonEnds

\* setupListener's bind fails, and with it the daemon, as long as a child of an
\* earlier one, or a process that such a child left behind, holds the port.
DaemonStarts ==
    /\ ~alive
    /\ listener = {}
    /\ alive' = TRUE
    /\ listener' = {Daemon}
    /\ UNCHANGED <<next, current, kind, unsent, mStdIn, mStdOut, childVars>>

Execute(r) ==
    \/ \E prints \in {0, MaxPrint}, stay \in IF next \in MayStay THEN Staying ELSE {"no"} :
          \/ \E reads \in BOOLEAN : ExecuteHook(r, reads, prints, stay)
          \/ ExecuteDiscover(r, prints, stay)
    \/ ExecuteWithoutPidfd(r)
    \/ ExecuteDiscoverFails(r)

Next ==
    \/ \E r \in Runner : Execute(r) \/ Await(r)
    \/ \E c \in Command : ChildStep(c)
    \/ DaemonDies
    \/ DaemonStarts

\* The event loop resumes a coroutine whose system call no longer says EAGAIN,
\* and the kernel schedules every process.  Nothing makes a command start.
Fairness ==
    /\ \A r \in Runner : WF_vars(Await(r))
    /\ \A c \in Command : WF_vars(ChildStep(c))

Spec == Init /\ [][Next]_vars /\ Fairness

-----------------------------------------------------------------------------
(***************************************************************************)
(* Properties.                                                             *)
(***************************************************************************)

\* Nobody waits in a circle: a child can be kept from the end of its input, or a
\* pipe of it be kept open, only by the daemon and by children forked later
\* (execute closes the parent's ends in the child, async_command.cc).
OnlyLaterChildrenInherit ==
    \A c \in Command : \A p \in mStdIn[c] \cup mStdOut[c] : p = Daemon \/ p > c

\* Once a coroutine is done with a command the daemon has no end of its pipes open
\* and no zombie of it.  The exceptions: a child for which no pidfd could be had is
\* killed and nobody waits for it, and a hook's output stays open if waitpid failed
\* (execute, waitTermination, closeAFD).
DoneIsReapedAndClosed ==
    \A c \in Command : (\A r \in Runner : current[r] # c) =>
        /\ Daemon \in mStdIn[c] \cup mStdOut[c] => kind[c] = "unwaited"
        /\ mProcessId[c] \in {"running", "exited"} => kind[c] = "unwatched"

\* A hook that printed more than its pipe holds: nobody reads it.
Jammed(c) ==
    /\ kind[c] = "hook"
    /\ mProcessId[c] = "running"
    /\ unprinted[c] > 0 /\ undrained[c] = PipeSize

\* Every command ends and is reaped, whatever the other coroutine runs meanwhile
\* and whatever its children inherit, unless the daemon dies, or a hook jams or a
\* program stays: this one, or one that inherited its input.
CommandsEnd ==
    \A c \in Command : (\E r \in Runner : current[r] = c) ~>
        \/ mProcessId[c] = "reaped"
        \/ ~alive
        \/ stays[c] = "hangs"
        \/ Jammed(c)
        \/ \E d \in mStdIn[c] \ {Daemon} : Jammed(d) \/ stays[d] # "no"

\* A daemon that died can be started again unless a program stays: every other
\* child that inherited the listening socket ends, jammed hooks and those that
\* were not sent all their input too (execute, setupListener).
PortIsFreed ==
    ~alive ~>
        \/ alive
        \/ listener = {}
        \/ \E c \in listener : stays[c] # "no"

=============================================================================
