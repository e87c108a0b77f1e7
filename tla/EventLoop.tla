------------------------------ MODULE EventLoop ------------------------------
(***************************************************************************)
(* The epoll event loop (IOContext), the descriptors it manages            *)
(* (AsyncFileDescriptor) and the coroutines that await system calls on     *)
(* them (AwaitableSyscall).                                                *)
(*                                                                         *)
(* The program has one thread.  A coroutine runs until a system call says  *)
(* EAGAIN; then its handle waits in the descriptor's queue and control     *)
(* returns to the loop, which resumes handles as epoll reports events.     *)
(* Registration is edge triggered and is brought up to date only once per  *)
(* batch of events.  What a coroutine is about is left open: it registers  *)
(* descriptors, awaits operations on those it owns and closes them in any  *)
(* order, as sessions, commands and timers do.                             *)
(*                                                                         *)
(* A descriptor number may be closed and given out again while an event of *)
(* its former life still is in the batch, so the AsyncFileDescriptor       *)
(* objects are told apart from their numbers.                              *)
(***************************************************************************)
EXTENDS Integers, Sequences, SequencesExt, FiniteSetsExt

CONSTANTS
    FD,                  \* descriptor numbers
    Co,                  \* coroutines
    DEFAULT_MAX_EVENTS,  \* the largest batch epoll_wait returns
    Used,                \* the kinds of descriptors the coroutines use
    None

ASSUME EventsAssumption == DEFAULT_MAX_EVENTS \in Nat \ {0}
ASSUME FDAssumption == IsFiniteSet(FD)

Dir == {"in", "out"}    \* EPOLLIN, EPOLLOUT

\* An AsyncFileDescriptor object: its number, and which of two generations.
AFD == FD \X {0, 1}

ASSUME NoneAssumption == None \notin AFD \cup Co

VARIABLES
    aFD,           \* the objects: mIoState, mNextIOState, mPendigOps
    mManagedFD,    \* descriptor number -> the object registered for it
    ready,         \* kernel: what a descriptor is ready for
    rdllist,       \* kernel: descriptors epoll has an event to report for
    loop,          \* where run() is, and the object it resumes operations of
    events,        \* the descriptors of the batch that are still to be handled
    co,            \* the coroutines
    reused,        \* history: numbers registered anew since epoll_wait returned
    misdelivered,  \* history: such an object was given the event of the former one
    updated        \* history: run() has updated the registrations once

vars == <<aFD, mManagedFD, ready, rdllist, loop, events, co, reused, misdelivered, updated>>

kernel == <<ready, rdllist>>
history == <<reused, misdelivered, updated>>

\* What descriptors are used for: the sockets of ConnectingSocket::connect and of
\* accept; timers, listeners and the output of commands; the input of commands;
\* the pidfd of commands.
Kind == {"connecting", "accepted", "reader", "writer", "pidfd"}

ASSUME UsedAssumption == Used \subseteq Kind

Object == [kind : Kind \cup {None}, mIoState : SUBSET Dir, mNextIOState : SUBSET Dir,
           mPendigOps : Seq(Co),
           fresh : BOOLEAN]     \* no operation on it is over yet

Blank == [kind |-> None, mIoState |-> {}, mNextIOState |-> {}, mPendigOps |-> <<>>,
          fresh |-> FALSE]

Op == [aFD : AFD, dir : Dir]

TypeOK ==
    /\ aFD \in [AFD -> Object]
    /\ mManagedFD \in [FD -> AFD \cup {None}]
    /\ ready \in [FD -> SUBSET (Dir \cup {"hup"})]
    /\ rdllist \in Seq(FD) /\ IsInjective(rdllist)
    /\ loop \in [pc : {"startup", "wait", "dispatch", "resume", "resumed", "undefined"},
                 aFD : AFD \cup {None}, numPending : Nat]
    /\ events \in Seq(FD)
    /\ co \in [Co -> [pc : {"start", "run", "suspended"}, owned : SUBSET AFD,
                      op : Op \cup {None}]]
    /\ reused \subseteq FD /\ misdelivered \in BOOLEAN /\ updated \in BOOLEAN

Init ==
    /\ aFD = [a \in AFD |-> Blank]
    /\ mManagedFD = [fd \in FD |-> None]
    /\ ready = [fd \in FD |-> {}]
    /\ rdllist = <<>>
    /\ loop = [pc |-> "startup", aFD |-> None, numPending |-> 0]
    /\ events = <<>>
    /\ co = [c \in Co |-> [pc |-> "start", owned |-> {}, op |-> None]]
    /\ reused = {} /\ misdelivered = FALSE /\ updated = FALSE

Running(c) == co[c].pc = "run"

NobodyRuns == \A c \in Co : ~Running(c)

\* What epoll reports of a descriptor registered for some directions.
Reported(fd, interest) == ready[fd] \cap (interest \cup {"hup"})

Interest(fd) == aFD[mManagedFD[fd]].mIoState

\* A system call would not return EAGAIN.
OpReady(op) == ready[op.aFD[1]] \cap {op.dir, "hup"} # {}

-----------------------------------------------------------------------------
(***************************************************************************)
(* The kernel.                                                             *)
(***************************************************************************)

Enqueue(list, fd) == IF fd \in Range(list) THEN list ELSE Append(list, fd)

\* What is left of the list when only some descriptors stay, in the same order.
Kept(list, stay) ==
    {s \in SetToSeqs(Range(list) \cap stay) :
        \A i, j \in DOMAIN list :
            i < j => \A k, l \in DOMAIN s : s[k] = list[i] /\ s[l] = list[j] => k < l}

\* What a kind of descriptor can be ready for.
Ability(kind) ==
    CASE kind \in {"connecting", "accepted"} -> {"in", "out", "hup"}
      [] kind \in {"reader", "pidfd"} -> {"in", "hup"}
      [] kind = "writer" -> {"out", "hup"}

\* Data, a connection, buffer space or an expiry arrives, or the other side is
\* gone, on an open descriptor.
BecomesReady(fd, what) ==
    /\ mManagedFD[fd] # None
    /\ what \in Ability(aFD[mManagedFD[fd]].kind)
    /\ ready' = [ready EXCEPT ![fd] = @ \cup {what}]
    /\ rdllist' = IF what \in Interest(fd) \cup {"hup"} THEN Enqueue(rdllist, fd) ELSE rdllist
    /\ UNCHANGED <<aFD, mManagedFD, loop, events, co, history>>

\* A system call that succeeded used up what it found, or did not.  The end of a
\* stream and the end of a process last.
Consume(a, dir) ==
    \/ UNCHANGED ready
    \/ /\ "hup" \notin ready[a[1]] /\ aFD[a].kind # "pidfd"
       /\ ready' = [ready EXCEPT ![a[1]] = @ \ {dir}]

-----------------------------------------------------------------------------
(***************************************************************************)
(* The coroutine that runs.                                                *)
(***************************************************************************)

\* Mutant: connecting sockets are attached like the others.
AttachDirReadOnly(kind) == IF kind = "writer" THEN "out" ELSE "in"

\* attachWriteOnly, or attach and attachReadonly: the direction of the first
\* operation.
AttachDir(kind) == IF kind \in {"connecting", "writer"} THEN "out" ELSE "in"

\* The directions operations on a descriptor may have: any on sockets, though the
\* handshake of an accepted one begins with recv.
Dirs(o) ==
    IF o.kind \in {"connecting", "accepted"} /\ ~o.fresh THEN Dir
    ELSE {IF o.kind = "writer" THEN "out" ELSE "in"}

\* The object a number gets: another one than run() may still hold a copy of.
NewAFD(fd) == IF loop.aFD = <<fd, 0>> THEN <<fd, 1>> ELSE <<fd, 0>>

Attached(kind) ==
    [kind |-> kind, mIoState |-> {AttachDir(kind)}, mNextIOState |-> {},
     mPendigOps |-> <<>>, fresh |-> TRUE]

\* registerFD and attach, or attachReadonly, or attachWriteOnly.  (setupListener
\* also watches, as the first accept is about to do anyway.)
RegisterFD(c, fd, kind) ==
    /\ Running(c)
    /\ kind # "connecting"
    /\ mManagedFD[fd] = None
    /\ mManagedFD' = [mManagedFD EXCEPT ![fd] = NewAFD(fd)]
    /\ aFD' = [aFD EXCEPT ![NewAFD(fd)] = Attached(kind)]
    /\ co' = [co EXCEPT ![c].owned = @ \cup {NewAFD(fd)}]
    /\ reused' = reused \cup ({fd} \cap Range(events))
    /\ UNCHANGED <<kernel, loop, events, misdelivered, updated>>

\* Mutant: the destructor does not unwatch.
UnwatchNothing(o, dir) == [o EXCEPT !.fresh = FALSE]

\* An operation's constructor watches, its destructor unwatches the direction.
Watch(o, dir) == [o EXCEPT !.mNextIOState = @ \cup {dir}]
Unwatch(o, dir) == [o EXCEPT !.mNextIOState = @ \ {dir}, !.fresh = FALSE]

MayAwait(c, op) ==
    /\ Running(c)
    /\ op.aFD \in co[c].owned
    /\ op.dir \in Dirs(aFD[op.aFD])

\* await_suspend: the system call succeeds or fails at once.
CompleteAtOnce(c, op) ==
    /\ MayAwait(c, op)
    /\ OpReady(op)
    /\ aFD' = [aFD EXCEPT ![op.aFD] = Unwatch(Watch(@, op.dir), op.dir)]
    /\ Consume(op.aFD, op.dir)
    /\ UNCHANGED <<mManagedFD, rdllist, loop, events, co, history>>

\* suspend(): the handle of c is queued.
Pending(o, c, dir) == [Watch(o, dir) EXCEPT !.mPendigOps = Append(@, c)]

\* await_suspend: EAGAIN, so control returns to the loop.
Suspend(c, op) ==
    /\ MayAwait(c, op)
    /\ ~OpReady(op)
    /\ aFD' = [aFD EXCEPT ![op.aFD] = Pending(@, c, op.dir)]
    /\ co' = [co EXCEPT ![c].pc = "suspended", ![c].op = op]
    /\ UNCHANGED <<mManagedFD, kernel, loop, events, history>>

\* ConnectingSocket::connect: a connect that does not fail at once is in progress
\* (EINPROGRESS), even when the peer is this host.
Connect(c, fd) ==
    /\ Running(c)
    /\ "connecting" \in Used
    /\ mManagedFD[fd] = None
    /\ mManagedFD' = [mManagedFD EXCEPT ![fd] = NewAFD(fd)]
    /\ aFD' = [aFD EXCEPT ![NewAFD(fd)] = Pending(Attached("connecting"), c, "out")]
    /\ co' = [co EXCEPT ![c] = [pc |-> "suspended", owned |-> @.owned \cup {NewAFD(fd)},
                               op |-> [aFD |-> NewAFD(fd), dir |-> "out"]]]
    /\ reused' = reused \cup ({fd} \cap Range(events))
    /\ UNCHANGED <<kernel, loop, events, misdelivered, updated>>

\* closeAFD: removed from epoll, closed without ever suspending, then erased from
\* mManagedFD.  The object lives on while run() holds a copy of its pointer.
CloseAFD(c, a) ==
    /\ Running(c)
    /\ a \in co[c].owned
    /\ mManagedFD' = [mManagedFD EXCEPT ![a[1]] = None]
    /\ aFD' = [aFD EXCEPT ![a] = IF loop.aFD = a
                                 THEN [Blank EXCEPT !.mPendigOps = aFD[a].mPendigOps]
                                 ELSE Blank]
    /\ ready' = [ready EXCEPT ![a[1]] = {}]
    /\ rdllist' \in Kept(rdllist, FD \ {a[1]})
    /\ co' = [co EXCEPT ![c].owned = @ \ {a}]
    /\ UNCHANGED <<loop, events, history>>

-----------------------------------------------------------------------------
(***************************************************************************)
(* The loop.                                                               *)
(***************************************************************************)

\* main resumes the task, which may start others, before it calls run().
Start(c) ==
    /\ loop.pc = "startup" /\ NobodyRuns
    /\ co[c].pc = "start"
    /\ co' = [co EXCEPT ![c].pc = "run"]
    /\ UNCHANGED <<aFD, mManagedFD, kernel, loop, events, history>>

EnterRun ==
    /\ loop.pc = "startup" /\ NobodyRuns
    /\ \A c \in Co : co[c].pc # "start"
    /\ loop' = [loop EXCEPT !.pc = "wait"]
    /\ UNCHANGED <<aFD, mManagedFD, kernel, events, co, history>>

\* epoll_wait looks again at the descriptors of its list.
EpollWait ==
    /\ loop.pc = "wait"
    /\ \E live \in Kept(rdllist, {fd \in Range(rdllist) : Reported(fd, Interest(fd)) # {}}) :
          LET nfds == Min({Len(live), DEFAULT_MAX_EVENTS})
          IN  /\ live # <<>>
              /\ events' = SubSeq(live, 1, nfds)
              /\ rdllist' = SubSeq(live, nfds + 1, Len(live))
    /\ loop' = [loop EXCEPT !.pc = "dispatch"]
    /\ reused' = {}
    /\ UNCHANGED <<aFD, mManagedFD, ready, co, misdelivered, updated>>

\* The next event: stray if its descriptor is not managed any more, ignored if
\* nothing waits there, otherwise resumePendingOps.
Dispatch ==
    /\ loop.pc = "dispatch" /\ events # <<>>
    /\ events' = Tail(events)
    /\ LET a == mManagedFD[Head(events)]
       IN  IF a = None \/ aFD[a].mPendigOps = <<>>
           THEN UNCHANGED <<loop, misdelivered>>
           ELSE /\ loop' = [pc |-> "resume", aFD |-> a,
                            numPending |-> Len(aFD[a].mPendigOps)]
                /\ misdelivered' = (misdelivered \/ Head(events) \in reused)
    /\ UNCHANGED <<aFD, mManagedFD, kernel, co, reused, updated>>

\* The front handle is resumed and await_resume repeats the system call.  A
\* multi-shot operation (waitpid) that is told to wait queues its handle again,
\* yet returns -1 like any other that fails; the destructor unwatches.
Resume(c) ==
    LET a == loop.aFD
        op == co[c].op
        again == aFD[a].kind = "pidfd" /\ ~OpReady(op)
        resumed == Unwatch(aFD[a], op.dir)
    IN  /\ loop.pc = "resume"
        /\ c = Head(aFD[a].mPendigOps)
        /\ co[c].pc = "suspended" /\ op.aFD = a
        /\ aFD' = [aFD EXCEPT ![a] = IF again
                                     THEN [resumed EXCEPT !.mPendigOps = Append(@, c)]
                                     ELSE resumed]
        /\ IF OpReady(op) THEN Consume(a, op.dir) ELSE UNCHANGED ready
        /\ co' = [co EXCEPT ![c].pc = "run", ![c].op = None]
        /\ loop' = [loop EXCEPT !.pc = "resumed"]
        /\ UNCHANGED <<mManagedFD, rdllist, events, history>>

\* A handle left behind by an operation that is over is resumed: anything may
\* happen, and the model stops here.
ResumeLeftover ==
    LET c == Head(aFD[loop.aFD].mPendigOps)
    IN  /\ loop.pc = "resume"
        /\ ~(co[c].pc = "suspended" /\ co[c].op.aFD = loop.aFD)
        /\ loop' = [loop EXCEPT !.pc = "undefined"]
        /\ UNCHANGED <<aFD, mManagedFD, kernel, events, co, history>>

\* Mutant: the queue is emptied, with what was appended while resuming.
PoppedAll(pending) == <<>>

\* Mutant: the handle that was resumed stays in the queue.
PoppedNone(pending) == pending

Popped(pending) == Tail(pending)

\* The coroutine suspended again: its old handle is popped, and the next one
\* resumed if there was another when resumePendingOps began.
Pop ==
    LET a == loop.aFD
        popped == [aFD[a] EXCEPT !.mPendigOps = Popped(@)]
    IN  /\ loop.pc = "resumed" /\ NobodyRuns
        /\ IF loop.numPending > 1
           THEN /\ loop' = [loop EXCEPT !.pc = "resume", !.numPending = @ - 1]
                /\ aFD' = [aFD EXCEPT ![a] = popped]
           ELSE /\ loop' = [pc |-> "dispatch", aFD |-> None, numPending |-> 0]
                /\ aFD' = [aFD EXCEPT ![a] = IF mManagedFD[a[1]] = a THEN popped ELSE Blank]
        /\ UNCHANGED <<mManagedFD, kernel, events, co, history>>

\* Mutant: the EPOLLET flag is taken for one of the object's own.
NextIoStateEdge(o) == o.mNextIOState \cup {"et"}

\* Mutant: a descriptor that is registered for something is left like that.
NextIoStateLazy(o) == IF o.mIoState = {} THEN o.mNextIOState ELSE o.mIoState

NextIoState(o) == o.mNextIOState

\* The batch is done: every managed descriptor whose directions changed is
\* registered anew, and epoll looks at once whether it is ready for them.
UpdateIoStates ==
    LET changed == {fd \in FD : /\ mManagedFD[fd] # None
                                /\ Interest(fd) # NextIoState(aFD[mManagedFD[fd]])}
        now == {fd \in changed : Reported(fd, NextIoState(aFD[mManagedFD[fd]])) # {}}
    IN  /\ loop.pc = "dispatch" /\ events = <<>>
        /\ aFD' = [a \in AFD |-> IF \E fd \in changed : mManagedFD[fd] = a
                                 THEN [aFD[a] EXCEPT !.mIoState = NextIoState(aFD[a])]
                                 ELSE aFD[a]]
        /\ \E more \in SetToSeqs(now \ Range(rdllist)) : rdllist' = rdllist \o more
        /\ loop' = [loop EXCEPT !.pc = "wait"]
        /\ updated' = TRUE
        /\ UNCHANGED <<mManagedFD, ready, events, co, reused, misdelivered>>

RunLoop ==
    \/ EnterRun \/ EpollWait \/ Dispatch \/ Pop \/ UpdateIoStates
    \/ \E c \in Co : Resume(c)

CoStep(c) ==
    \/ \E fd \in FD, kind \in Used : RegisterFD(c, fd, kind)
    \/ \E fd \in FD : Connect(c, fd)
    \/ \E op \in Op : CompleteAtOnce(c, op) \/ Suspend(c, op)
    \/ \E a \in AFD : CloseAFD(c, a)

Next ==
    \/ RunLoop
    \/ ResumeLeftover
    \/ \E c \in Co : Start(c) \/ CoStep(c)
    \/ \E fd \in FD, what \in Dir \cup {"hup"} : BecomesReady(fd, what)

\* The loop never rests while it has something to do.
Spec == Init /\ [][Next]_vars /\ WF_vars(RunLoop)

-----------------------------------------------------------------------------
(***************************************************************************)
(* Properties.                                                             *)
(***************************************************************************)

\* Before the first batch registrations are the ones made by attach, which suit
\* the first operation of every descriptor: what commands wait in (connect) when
\* they enter run().
Covered(a) == updated \/ aFD[a].fresh

\* No wakeup is lost: whenever the loop waits in epoll_wait, every suspended
\* operation has its descriptor registered for its direction, and if the
\* descriptor became ready in the meantime epoll is going to report it, though
\* registrations are updated once per batch only.
NoLostWakeup ==
    loop.pc = "wait" =>
        \A c \in Co :
            LET a == co[c].op.aFD
            IN  co[c].pc = "suspended" /\ Covered(a) =>
                   /\ mManagedFD[a[1]] = a
                   /\ co[c].op.dir \in Interest(a[1])
                   /\ OpReady(co[c].op) => a[1] \in Range(rdllist)

\* Between batches the queues hold each suspended coroutine once, where it waits,
\* and nobody else, unless an event went to a descriptor number's next life: the
\* pop after the resume removes the old handle, never the new one of a coroutine
\* that waits again on the same descriptor.
QueuesMatchCoroutines ==
    loop.pc = "wait" /\ ~misdelivered =>
        \A a \in AFD : LET waiting == {c \in Co : co[c].pc = "suspended" /\ co[c].op.aFD = a}
                       IN  aFD[a].mPendigOps \in SetToSeqs(waiting)

\* An operation that is resumed finds its system call ready, so that EAGAIN on
\* resume, an error to every operation but waitpid, means that the event was the
\* one of the descriptor number's former life.
ResumedOnlyWhenReady ==
    [][\A c \in Co : co[c].pc = "suspended" /\ Covered(co[c].op.aFD) /\ co'[c].pc = "run" =>
          OpReady(co[c].op) \/ misdelivered]_vars

\* A handle whose operation is over is resumed, which is undefined, only in
\* consequence of such an event: waitpid, told to wait though its pidfd had none,
\* queues itself again and returns all the same.
LeftoverNeedsReuse == loop.pc = "undefined" => misdelivered

\* If the coroutines always return to the loop and anything at all happens, a
\* suspended operation whose descriptor is ready is resumed.
ReadyIsResumed ==
    []<>(loop.pc = "wait") /\ <>updated =>
        \A c \in Co : [](co[c].pc = "suspended" /\ OpReady(co[c].op) => <>(co[c].pc = "run"))

=============================================================================
