-------------------------------- MODULE Task --------------------------------
(***************************************************************************)
(* std::task, the coroutine type everything asynchronous is written in.    *)
(* co_await of a task resumes its coroutine from within the suspension of  *)
(* the one that awaits, and a coroutine that is done resumes its waiter    *)
(* from within its own: control comes back to the event loop only when the *)
(* one on top suspends for a system call, through all the resume() calls   *)
(* below it on the native stack.                                           *)
(*                                                                         *)
(* Which tasks a coroutine awaits, and which of them are done without ever *)
(* suspending, is left open.                                               *)
(***************************************************************************)
EXTENDS Integers, Sequences, FiniteSetsExt

CONSTANTS
    Co,        \* coroutine frames
    Main,      \* the one main() starts
    Spawned,   \* those that Main starts with task::resume() and keeps
    MaxStack,  \* bound: no task is awaited on a higher stack
    None       \* no waiter

Root == Spawned \cup {Main}

ASSUME TaskAssumption ==
    /\ Root \subseteq Co /\ Main \notin Spawned
    /\ None \notin Co
    /\ MaxStack \in Nat

VARIABLES
    frame,  \* what became of each frame, and the waiter in its promise
    stack   \* the resume() calls that have not returned, the latest last

vars == <<frame, stack>>

TypeOK ==
    /\ frame \in [Co -> [status : {"free", "created", "running", "syscall", "await"},
                         waiter : Co \cup {None}]]
    /\ stack \in Seq(Co)

Free == [status |-> "free", waiter |-> None]

\* Mutant: initial_suspend does not suspend.
InitEager ==
    /\ frame = [c \in Co |-> [status |-> IF c \in Root THEN "running" ELSE "free",
                              waiter |-> None]]
    /\ stack = <<Main>>

\* mainRun resumes the task of the operation; the tasks it will spawn do not run
\* before they are resumed (initial_suspend).
Init ==
    /\ frame = [c \in Co |->
                  [status |-> IF c = Main THEN "running"
                              ELSE IF c \in Spawned THEN "created" ELSE "free",
                   waiter |-> None]]
    /\ stack = <<Main>>

Running(c) == stack # <<>> /\ stack[Len(stack)] = c /\ frame[c].status = "running"

\* task::resume(), for a task nobody awaits.
Spawn(c) ==
    /\ Running(Main)
    /\ c \in Spawned /\ frame[c].status = "created"
    /\ frame' = [frame EXCEPT ![c].status = "running"]
    /\ stack' = Append(stack, c)

\* A coroutine is called and the task it returns awaited: await_suspend makes p
\* the waiter and resumes the new coroutine.
CoAwait(p, c) ==
    /\ Running(p)
    /\ frame[c] = Free
    /\ Len(stack) < MaxStack
    /\ frame' = [frame EXCEPT ![p].status = "await",
                              ![c] = [status |-> "running", waiter |-> p]]
    /\ stack' = Append(stack, c)

\* What is left of the stack when its top suspends: every resume() below returns
\* too, since its coroutine is suspended or gone, down to one that runs.
Unwound(frames) ==
    SubSeq(stack, 1, Max({0} \cup {i \in DOMAIN stack : frames[stack[i]].status = "running"}))

\* A system call says EAGAIN.
Suspend(p) ==
    /\ Running(p)
    /\ frame' = [frame EXCEPT ![p].status = "syscall"]
    /\ stack' = Unwound(frame')

\* Mutant: await_suspend sets the waiter after resuming the coroutine, which if it
\* is done at once finds none and destroys itself.
FinishWaiterUnset(p) ==
    /\ Running(p)
    /\ frame[p].waiter # None
    /\ IF Len(stack) > 1 /\ stack[Len(stack) - 1] = frame[p].waiter
       THEN /\ frame' = [frame EXCEPT ![p] = Free]
            /\ stack' = Unwound(frame')
       ELSE /\ frame' = [frame EXCEPT ![p] = Free, ![frame[p].waiter].status = "running"]
            /\ stack' = Append(stack, frame[p].waiter)

\* Mutant: final_awaiter does not ask whether there is a waiter.
FinishUnchecked(p) ==
    LET waiter == frame[p].waiter
    IN  /\ Running(p)
        /\ frame' = [c \in Co |-> IF c = p THEN Free
                                  ELSE IF c = waiter THEN [frame[c] EXCEPT !.status = "running"]
                                  ELSE frame[c]]
        /\ stack' = Append(stack, waiter)

\* co_return, or an exception, which unhandled_exception ignores: final_awaiter
\* resumes the waiter, which takes the result and at the end of its expression
\* destroys the task and with it the frame, whose resume() still is on the stack.
\* The roots never get here: they end with the process.
Finish(p) ==
    LET waiter == frame[p].waiter
    IN  /\ Running(p)
        /\ waiter # None
        /\ frame' = [frame EXCEPT ![p] = Free, ![waiter].status = "running"]
        /\ stack' = Append(stack, waiter)

\* The event loop resumes a coroutine whose system call may go on.
ResumePendingOp(c) ==
    /\ stack = <<>>
    /\ frame[c].status = "syscall"
    /\ frame' = [frame EXCEPT ![c].status = "running"]
    /\ stack' = <<c>>

Next ==
    \/ \E c \in Co : Spawn(c) \/ ResumePendingOp(c)
    \/ \E p, c \in Co : CoAwait(p, c)
    \/ \E p \in Co : Suspend(p) \/ Finish(p)

Spec == Init /\ [][Next]_vars

-----------------------------------------------------------------------------
(***************************************************************************)
(* Properties.                                                             *)
(***************************************************************************)

Awaited(p) == {c \in Co : frame[c].waiter = p}

\* No completion is lost and none delivered twice, whether a task is done at once
\* or after any number of suspensions: exactly the coroutines that await a task
\* have one that is not done, and just one (await_suspend, final_awaiter, ~task).
AwaitsOneTask ==
    \A p \in Co : Cardinality(Awaited(p)) = IF frame[p].status = "await" THEN 1 ELSE 0

\* One thread: whatever the nesting, at most one coroutine runs besides Main, which
\* runs on when a coroutine it spawned suspends, and when control is back in the
\* event loop none does.
OneRuns ==
    LET running == {c \in Co : frame[c].status = "running"}
    IN  /\ running \subseteq (IF stack = <<>> THEN {} ELSE {stack[Len(stack)], Main})
        /\ stack # <<>> => frame[stack[Len(stack)]].status = "running"

=============================================================================
