----------------------------- MODULE TaskProofs -----------------------------
(***************************************************************************)
(* Proofs about std::task, for any set of coroutines, any number of those  *)
(* that Main spawns and any depth of the stack.                            *)
(***************************************************************************)
EXTENDS Task, SequenceTheorems, FiniteSetTheorems, WellFoundedInduction, TLAPS

(***************************************************************************)
(* The inductive invariant.                                                *)
(***************************************************************************)

\* A task with a waiter has been started, and its waiter awaits.
WaitersAwait ==
    \A c \in Co : frame[c].waiter # None =>
        /\ frame[frame[c].waiter].status = "await"
        /\ frame[c].status \in {"running", "syscall", "await"}

\* Nobody awaits two tasks.
OneTaskPerWaiter ==
    \A c, d \in Co : frame[c].waiter # None /\ frame[c].waiter = frame[d].waiter => c = d

\* Who awaits, awaits a task.
AwaitsSomeTask ==
    \A p \in Co : frame[p].status = "await" => \E c \in Co : frame[c].waiter = p

\* Main was started and is never awaited.
MainIsRoot == frame[Main].waiter = None /\ frame[Main].status \notin {"free", "created"}

\* While Main runs, its resume() has not returned.
MainOnStack ==
    stack # <<>> /\ frame[Main].status = "running" => \E i \in 1 .. Len(stack) : stack[i] = Main

IInv ==
    /\ TypeOK
    /\ WaitersAwait
    /\ OneTaskPerWaiter
    /\ AwaitsSomeTask
    /\ MainIsRoot
    /\ MainOnStack
    /\ OneRuns

-----------------------------------------------------------------------------
\* A set of natural numbers has a least element.
LEMMA LeastNatural ==
    ASSUME NEW T \in SUBSET Nat, T # {}
    PROVE  \E x \in T : \A y \in T : x <= y
<1>1. PICK x \in T : \A y \in T : ~(<<y, x>> \in OpToRel(<, Nat))
  BY NatLessThanWellFounded, WFMin
<1>2. \A i, j \in Nat : <<i, j>> \in OpToRel(<, Nat) <=> i < j
  BY DEF OpToRel
<1>3. \A y \in T : y \in Nat /\ x \in Nat
  OBVIOUS
<1>4. \A y \in T : ~(y < x)
  BY <1>1, <1>2, <1>3, Zenon
<1> QED
  BY <1>3, <1>4, SMT

\* Max, as FiniteSetsExt defines it, is the largest element of a bounded set.
LEMMA MaxFacts ==
    ASSUME NEW n \in Nat, NEW T \in SUBSET (0 .. n), T # {}
    PROVE  Max(T) \in T /\ \A i \in T : i <= Max(T)
<1> DEFINE D == {d \in Nat : n - d \in T}
<1>0. \A i \in T : i \in Nat /\ i <= n /\ n - i \in Nat /\ n - (n - i) = i
  OBVIOUS
<1>1. \A i \in T : n - i \in D
  BY <1>0
<1>2. D \in SUBSET Nat /\ D # {}
  BY <1>1
<1>3. PICK d \in D : \A e \in D : d <= e
  BY <1>2, LeastNatural
<1>4. n - d \in T /\ d \in Nat /\ \A i \in T : d <= n - i
  BY <1>1, <1>3
<1>5. \A i \in T : n - d >= i
  BY <1>0, <1>4
<1>6. Max(T) \in T /\ \A i \in T : Max(T) >= i
  BY <1>4, <1>5 DEF Max
<1> QED
  BY <1>6, <1>0

Frames == [Co -> [status : {"free", "created", "running", "syscall", "await"},
                  waiter : Co \cup {None}]]

\* The resume() calls return down to the topmost coroutine that runs: either that
\* one is on top then, or none of the stack runs and it is empty.
LEMMA UnwoundFacts ==
    ASSUME stack \in Seq(Co), NEW frames \in Frames
    PROVE  /\ Unwound(frames) \in Seq(Co)
           /\ Unwound(frames) = <<>> =>
                 \A i \in 1 .. Len(stack) : frames[stack[i]].status # "running"
           /\ Unwound(frames) # <<>> =>
                 frames[Unwound(frames)[Len(Unwound(frames))]].status = "running"
           /\ \A c \in Co : (\E i \in 1 .. Len(stack) : stack[i] = c) /\ frames[c].status = "running"
                 => \E i \in 1 .. Len(Unwound(frames)) : Unwound(frames)[i] = c
<1> DEFINE I == {i \in DOMAIN stack : frames[stack[i]].status = "running"}
           m == Max({0} \cup I)
           n == Len(stack)
<1>1. n \in Nat /\ DOMAIN stack = 1 .. n /\ \A i \in 1 .. n : stack[i] \in Co
  BY LenProperties, ElementOfSeq
<1>2. {0} \cup I \in SUBSET (0 .. n)
  BY <1>1
<1>3. /\ m \in {0} \cup I
      /\ \A i \in {0} \cup I : i <= m
  BY <1>1, <1>2, MaxFacts
<1>4. m \in 0 .. n /\ (m # 0 => m \in I) /\ \A i \in I : i <= m
  BY <1>2, <1>3
<1>5. Unwound(frames) = SubSeq(stack, 1, m)
  BY DEF Unwound
<1> HIDE DEF m
<1>6. /\ SubSeq(stack, 1, m) \in Seq(Co)
      /\ Len(SubSeq(stack, 1, m)) = m
      /\ \A i \in 1 .. m : SubSeq(stack, 1, m)[i] = stack[i]
  <2>1. \A i \in 1 .. m : stack[i] \in Co
    BY <1>1, <1>4
  <2>2. /\ SubSeq(stack, 1, m) \in Seq(Co)
        /\ Len(SubSeq(stack, 1, m)) = IF 1 <= m THEN m - 1 + 1 ELSE 0
        /\ \A i \in 1 .. m - 1 + 1 : SubSeq(stack, 1, m)[i] = stack[1 + i - 1]
    BY <2>1, <1>4, SubSeqProperties
  <2> QED
    BY <2>2, <1>4
<1>7. CASE m = 0
  <2>1. SubSeq(stack, 1, m) = <<>>
    BY <1>6, <1>7, EmptySeq
  <2>2. I = {}
    BY <1>4, <1>7, <1>1
  <2> QED
    BY <1>1, <1>5, <1>6, <2>1, <2>2
<1>8. CASE m # 0
  <2>1. m \in I /\ SubSeq(stack, 1, m) # <<>>
    BY <1>4, <1>6, <1>8, EmptySeq
  <2>2. ASSUME NEW c \in Co, NEW i \in 1 .. n, stack[i] = c, frames[c].status = "running"
        PROVE  \E j \in 1 .. m : SubSeq(stack, 1, m)[j] = c
    <3>1. i \in I
      BY <1>1, <2>2
    <3> QED
      BY <1>4, <1>6, <2>2, <3>1
  <2> QED
    BY <1>4, <1>5, <1>6, <2>1, <2>2
<1> QED
  BY <1>7, <1>8

-----------------------------------------------------------------------------
\* mainRun: Main alone runs.
LEMMA InitIInv == Init => IInv
<1> SUFFICES ASSUME Init PROVE IInv
  OBVIOUS
<1>1. /\ Main \in Co /\ None \notin Co
      /\ frame \in [Co -> [status : {"running", "created", "free"}, waiter : {None}]]
      /\ \A c \in Co : frame[c].status = "running" <=> c = Main
      /\ stack = <<Main>>
  BY TaskAssumption DEF Init, Root
<1>2. stack \in Seq(Co) /\ Len(stack) = 1 /\ stack[1] = Main
  BY <1>1
<1>3. TypeOK
  BY <1>1, <1>2 DEF TypeOK
<1>4. WaitersAwait /\ OneTaskPerWaiter /\ AwaitsSomeTask /\ MainIsRoot
  BY <1>1 DEF WaitersAwait, OneTaskPerWaiter, AwaitsSomeTask, MainIsRoot
<1>5. MainOnStack /\ OneRuns
  BY <1>1, <1>2 DEF MainOnStack, OneRuns
<1> QED
  BY <1>3, <1>4, <1>5 DEF IInv

\* What runs on top of the stack.
LEMMA RunningFacts ==
    ASSUME IInv, NEW p \in Co, Running(p)
    PROVE  /\ frame \in Frames /\ stack \in Seq(Co)
           /\ stack # <<>> /\ Len(stack) \in Nat \ {0} /\ stack[Len(stack)] = p
           /\ frame[p].status = "running"
           /\ \A c \in Co : frame[c].status = "running" => c \in {p, Main}
           /\ frame[Main].status = "running" => \E i \in 1 .. Len(stack) : stack[i] = Main
           /\ Main \in Co /\ None \notin Co
<1>1. frame \in Frames /\ stack \in Seq(Co)
  BY DEF IInv, TypeOK, Frames
<1>2. stack # <<>> /\ stack[Len(stack)] = p /\ frame[p].status = "running"
  BY DEF Running
<1>3. \A c \in Co : frame[c].status = "running" => c \in {p, Main}
  BY <1>2 DEF IInv, OneRuns
<1>4. Len(stack) \in Nat \ {0}
  BY <1>1, <1>2, EmptySeq, LenProperties
<1> QED
  BY <1>1, <1>2, <1>3, <1>4, TaskAssumption DEF Root, IInv, MainOnStack

\* Whoever is put on top of the stack, and runs, is the only one but for Main, if
\* all others that run did before and were not Main's equals.
LEMMA PushFacts ==
    ASSUME IInv, NEW c \in Co, frame' \in Frames, stack' = Append(stack, c),
           frame'[c].status = "running",
           \A d \in Co : frame'[d].status = "running" => d \in {c, Main},
           frame[Main].status # "running" /\ frame'[Main].status = "running" => c = Main,
           frame[Main].status = "running" => stack # <<>>
    PROVE  TypeOK' /\ OneRuns' /\ MainOnStack'
<1>0. stack \in Seq(Co)
  BY DEF IInv, TypeOK
<1>1. /\ stack' \in Seq(Co) /\ stack' # <<>>
      /\ Len(stack') = Len(stack) + 1 /\ Len(stack) \in Nat
      /\ stack'[Len(stack')] = c
      /\ \A i \in 1 .. Len(stack) : stack'[i] = stack[i]
  BY <1>0, AppendProperties, LenProperties
<1>2. TypeOK'
  BY <1>1 DEF TypeOK, Frames
<1>3. OneRuns'
  BY <1>1 DEF OneRuns
<1>4. MainOnStack'
  <2>1. CASE frame[Main].status = "running"
    BY <1>1, <2>1 DEF IInv, MainOnStack
  <2>2. CASE frame[Main].status # "running"
    BY <1>1, <2>2 DEF MainOnStack
  <2> QED
    BY <2>1, <2>2
<1> QED
  BY <1>2, <1>3, <1>4

\* Who awaits what does not change when a coroutine that is no waiter runs or
\* suspends.
LEMMA StatusStep ==
    ASSUME IInv, NEW c \in Co, frame' \in Frames,
           frame[c].status \notin {"free", "await"},
           frame'[c].status \in {"running", "syscall"}, frame'[c].waiter = frame[c].waiter,
           \A d \in Co \ {c} : frame'[d] = frame[d]
    PROVE  WaitersAwait' /\ OneTaskPerWaiter' /\ AwaitsSomeTask' /\ MainIsRoot'
<1>0. /\ frame \in Frames /\ Main \in Co /\ None \notin Co
      /\ \A d \in Co : frame'[d].waiter = frame[d].waiter
      /\ \A d \in Co : frame[d].waiter # c
  BY TaskAssumption DEF IInv, TypeOK, Frames, Root, WaitersAwait
<1>1. WaitersAwait'
  BY <1>0 DEF Frames, IInv, WaitersAwait
<1>2. OneTaskPerWaiter'
  BY <1>0 DEF IInv, OneTaskPerWaiter
<1>3. AwaitsSomeTask'
  BY <1>0 DEF IInv, AwaitsSomeTask
<1>4. MainIsRoot'
  BY <1>0 DEF IInv, MainIsRoot
<1> QED
  BY <1>1, <1>2, <1>3, <1>4

\* task::resume().
LEMMA SpawnPreserves ==
    ASSUME IInv, NEW c \in Co, Spawn(c)
    PROVE  IInv'
<1>1. Main \in Co /\ Running(Main)
  BY TaskAssumption DEF Spawn, Root
<1>2. /\ frame[c].status = "created" /\ stack' = Append(stack, c)
      /\ frame' \in Frames
      /\ frame'[c].status = "running" /\ frame'[c].waiter = frame[c].waiter
      /\ \A d \in Co \ {c} : frame'[d] = frame[d]
  BY <1>1, RunningFacts DEF Spawn, Frames
<1>3. c # Main
  BY <1>1, <1>2, RunningFacts
<1>4. TypeOK' /\ OneRuns' /\ MainOnStack'
  BY <1>1, <1>2, <1>3, RunningFacts, PushFacts
<1>5. WaitersAwait' /\ OneTaskPerWaiter' /\ AwaitsSomeTask' /\ MainIsRoot'
  BY <1>2, StatusStep
<1> QED
  BY <1>4, <1>5 DEF IInv

\* await_suspend of a task: its coroutine had no waiter and nobody awaited it, and
\* the one that ran awaited nothing.
LEMMA CoAwaitPreserves ==
    ASSUME IInv, NEW p \in Co, NEW c \in Co, CoAwait(p, c)
    PROVE  IInv'
<1>0. Running(p)
  BY DEF CoAwait
<1>1. /\ frame[c].status = "free" /\ frame[c].waiter = None
      /\ frame[p].status = "running"
      /\ c # p /\ c # Main
  BY <1>0, RunningFacts DEF CoAwait, Free, IInv, MainIsRoot
<1>2. /\ stack' = Append(stack, c)
      /\ frame' \in Frames
      /\ frame'[p].status = "await" /\ frame'[p].waiter = frame[p].waiter
      /\ frame'[c].status = "running" /\ frame'[c].waiter = p
      /\ \A d \in Co \ {c, p} : frame'[d] = frame[d]
  <2>1. frame \in Frames
    BY <1>0, RunningFacts
  <2>2. /\ stack' = Append(stack, c)
        /\ frame' = [frame EXCEPT ![p].status = "await",
                                 ![c] = [status |-> "running", waiter |-> p]]
    BY DEF CoAwait
  <2>3. [frame EXCEPT ![p].status = "await"] \in Frames
    BY <2>1 DEF Frames
  <2> QED
    BY <1>1, <2>1, <2>2, <2>3 DEF Frames
<1>3. TypeOK' /\ OneRuns' /\ MainOnStack'
  BY <1>0, <1>1, <1>2, RunningFacts, PushFacts
<1>4. \A d \in Co : frame[d].waiter \notin {c, p}
  BY <1>1, RunningFacts, <1>0 DEF IInv, WaitersAwait
<1>5. WaitersAwait'
  BY <1>0, <1>1, <1>2, <1>4, RunningFacts DEF Frames, IInv, WaitersAwait
<1>6. OneTaskPerWaiter'
  BY <1>0, <1>1, <1>2, <1>4, RunningFacts DEF IInv, OneTaskPerWaiter
<1>7. AwaitsSomeTask'
  BY <1>0, <1>1, <1>2, RunningFacts DEF IInv, AwaitsSomeTask
<1>8. MainIsRoot'
  BY <1>0, <1>1, <1>2, RunningFacts DEF IInv, MainIsRoot
<1> QED
  BY <1>3, <1>5, <1>6, <1>7, <1>8 DEF IInv

\* final_awaiter: the waiter that is resumed awaited this task and no other.
LEMMA FinishPreserves ==
    ASSUME IInv, NEW p \in Co, Finish(p)
    PROVE  IInv'
<1> DEFINE w == frame[p].waiter
<1>0. Running(p)
  BY DEF Finish
<1>1. /\ w \in Co /\ w # None /\ p # Main
      /\ frame[w].status = "await" /\ frame[p].status = "running"
      /\ w # p
  BY <1>0, RunningFacts DEF Finish, Frames, IInv, WaitersAwait, MainIsRoot
<1>2. /\ stack' = Append(stack, w)
      /\ frame' \in Frames
      /\ frame'[p].status = "free" /\ frame'[p].waiter = None
      /\ frame'[w].status = "running" /\ frame'[w].waiter = frame[w].waiter
      /\ \A d \in Co \ {w, p} : frame'[d] = frame[d]
  BY <1>0, <1>1, RunningFacts DEF Finish, Frames, Free
<1>3. /\ \A d \in Co : frame[d].waiter # p
      /\ \A d \in Co \ {p} : frame[d].waiter # w
  BY <1>0, <1>1, RunningFacts DEF IInv, WaitersAwait, OneTaskPerWaiter
<1> HIDE DEF w
<1>4. TypeOK' /\ OneRuns' /\ MainOnStack'
  BY <1>0, <1>1, <1>2, RunningFacts, PushFacts
<1>5. WaitersAwait'
  BY <1>0, <1>1, <1>2, <1>3, RunningFacts DEF Frames, IInv, WaitersAwait
<1>6. OneTaskPerWaiter'
  BY <1>0, <1>1, <1>2, <1>3, RunningFacts DEF IInv, OneTaskPerWaiter
<1>7. AwaitsSomeTask'
  BY <1>0, <1>1, <1>2, <1>3, RunningFacts DEF IInv, AwaitsSomeTask, w
<1>8. MainIsRoot'
  BY <1>0, <1>1, <1>2, RunningFacts DEF IInv, MainIsRoot
<1> QED
  BY <1>4, <1>5, <1>6, <1>7, <1>8 DEF IInv

\* EAGAIN: below the one that suspends at most Main runs.
LEMMA SuspendPreserves ==
    ASSUME IInv, NEW p \in Co, Suspend(p)
    PROVE  IInv'
<1>0. Running(p)
  BY DEF Suspend
<1>1. /\ frame' \in Frames
      /\ frame'[p].status = "syscall" /\ frame'[p].waiter = frame[p].waiter
      /\ \A d \in Co \ {p} : frame'[d] = frame[d]
      /\ stack' = Unwound(frame')
  BY <1>0, RunningFacts DEF Suspend, Frames
<1>2. \A d \in Co : frame'[d].status = "running" => d = Main /\ p # Main
  BY <1>0, <1>1, RunningFacts
<1>3. /\ stack' \in Seq(Co)
      /\ stack' = <<>> => \A i \in 1 .. Len(stack) : frame'[stack[i]].status # "running"
      /\ stack' # <<>> => frame'[stack'[Len(stack')]].status = "running"
      /\ frame'[Main].status = "running" /\ (\E i \in 1 .. Len(stack) : stack[i] = Main) =>
            \E i \in 1 .. Len(stack') : stack'[i] = Main
  BY <1>0, <1>1, RunningFacts, UnwoundFacts
<1>4. TypeOK'
  BY <1>1, <1>3 DEF TypeOK, Frames
<1>5. frame'[Main].status = "running" => \E i \in 1 .. Len(stack) : stack[i] = Main
  BY <1>0, <1>1, <1>2, RunningFacts
<1>6. MainOnStack'
  BY <1>3, <1>5 DEF MainOnStack
<1>7. OneRuns'
  <2>1. CASE stack' = <<>>
    BY <1>2, <1>3, <1>5, <2>1 DEF OneRuns
  <2>2. CASE stack' # <<>>
    BY <1>2, <1>3, <2>2 DEF OneRuns
  <2> QED
    BY <2>1, <2>2
<1>8. WaitersAwait' /\ OneTaskPerWaiter' /\ AwaitsSomeTask' /\ MainIsRoot'
  BY <1>0, <1>1, RunningFacts, StatusStep
<1> QED
  BY <1>4, <1>6, <1>7, <1>8 DEF IInv

\* The event loop resumes one coroutine, from an empty stack.
LEMMA ResumePreserves ==
    ASSUME IInv, NEW c \in Co, ResumePendingOp(c)
    PROVE  IInv'
<1>1. /\ frame \in Frames /\ stack = <<>> /\ frame[c].status = "syscall"
      /\ \A d \in Co : frame[d].status # "running"
      /\ Main \in Co
  BY TaskAssumption DEF ResumePendingOp, IInv, TypeOK, Frames, OneRuns, Root
<1>2. /\ frame' \in Frames
      /\ frame'[c].status = "running" /\ frame'[c].waiter = frame[c].waiter
      /\ \A d \in Co \ {c} : frame'[d] = frame[d]
      /\ stack' = <<c>>
  BY <1>1 DEF ResumePendingOp, Frames
<1>3. stack' \in Seq(Co) /\ stack' # <<>> /\ Len(stack') = 1 /\ stack'[1] = c
  BY <1>2
<1>4. TypeOK' /\ OneRuns' /\ MainOnStack'
  BY <1>1, <1>2, <1>3 DEF TypeOK, Frames, OneRuns, MainOnStack
<1>5. WaitersAwait' /\ OneTaskPerWaiter' /\ AwaitsSomeTask' /\ MainIsRoot'
  BY <1>1, <1>2, StatusStep
<1> QED
  BY <1>4, <1>5 DEF IInv

\* Every step preserves the invariant.
LEMMA NextIInv == IInv /\ [Next]_vars => IInv'
<1> SUFFICES ASSUME IInv, [Next]_vars PROVE IInv'
  OBVIOUS
<1>1. ASSUME NEW c \in Co, Spawn(c) PROVE IInv'
  BY <1>1, SpawnPreserves
<1>2. ASSUME NEW c \in Co, ResumePendingOp(c) PROVE IInv'
  BY <1>2, ResumePreserves
<1>3. ASSUME NEW p \in Co, NEW c \in Co, CoAwait(p, c) PROVE IInv'
  BY <1>3, CoAwaitPreserves
<1>4. ASSUME NEW p \in Co, Suspend(p) PROVE IInv'
  BY <1>4, SuspendPreserves
<1>5. ASSUME NEW p \in Co, Finish(p) PROVE IInv'
  BY <1>5, FinishPreserves
<1>6. CASE UNCHANGED vars
  BY <1>6 DEF vars, IInv, TypeOK, WaitersAwait, OneTaskPerWaiter, AwaitsSomeTask, MainIsRoot,
              MainOnStack, OneRuns
<1> QED
  BY <1>1, <1>2, <1>3, <1>4, <1>5, <1>6 DEF Next

\* The invariant holds in every reachable state.
LEMMA Invariance == Spec => []IInv
  BY InitIInv, NextIInv, PTL DEF Spec

-----------------------------------------------------------------------------
\* Spec => []TypeOK: no handle on the stack or in a promise is of no coroutine.
THEOREM TypeCorrect == Spec => []TypeOK
  BY Invariance, PTL DEF IInv

\* However tasks are nested, of the coroutines at most the one on top of the stack
\* and Main run, and none when control is back in the event loop (await_suspend,
\* final_awaiter, task::resume).
THEOREM OnlyOneRuns == Spec => []OneRuns
  BY Invariance, PTL DEF IInv

\* Every coroutine that awaits has exactly one task that is not done, and no other
\* is a waiter: no completion is lost or delivered twice at any depth
\* (await_suspend, final_awaiter, ~task).
THEOREM AwaitsExactlyOneTask == Spec => []AwaitsOneTask
<1>1. IInv => AwaitsOneTask
  <2> SUFFICES ASSUME IInv, NEW p \in Co
               PROVE  Cardinality(Awaited(p)) = IF frame[p].status = "await" THEN 1 ELSE 0
    BY DEF AwaitsOneTask
  <2>0. p # None
    BY TaskAssumption
  <2>1. CASE frame[p].status = "await"
    <3>1. PICK c \in Co : frame[c].waiter = p
      BY <2>1 DEF IInv, AwaitsSomeTask
    <3>2. Awaited(p) = {c}
      BY <3>1, <2>0 DEF Awaited, IInv, OneTaskPerWaiter
    <3> QED
      BY <3>2, <2>1, FS_Singleton
  <2>2. CASE frame[p].status # "await"
    <3>1. Awaited(p) = {}
      BY <2>0, <2>2 DEF Awaited, IInv, WaitersAwait
    <3> QED
      BY <3>1, <2>2, FS_EmptySet
  <2> QED
    BY <2>1, <2>2
<1> QED
  BY <1>1, Invariance, PTL

=============================================================================
