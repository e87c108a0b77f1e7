-------------------------- MODULE EventLoopProofs ---------------------------
(***************************************************************************)
(* Proofs about the event loop, for any descriptor numbers, coroutines,    *)
(* batches and kinds of descriptors in use.                                *)
(***************************************************************************)
EXTENDS EventLoop, SequenceTheorems, FiniteSetTheorems, TLAPS

(***************************************************************************)
(* The inductive invariant.                                                *)
(***************************************************************************)
Waits(c, a) == co[c].pc = "suspended" /\ co[c].op.aFD = a

\* The front handle of the queue of a is being resumed: it is popped afterwards.
Resuming(a) == loop.pc = "resumed" /\ loop.aFD = a

\* Objects are registered under their own number.
ManagedNumber == \A fd \in FD : mManagedFD[fd] # None => mManagedFD[fd][1] = fd

\* An object is managed while it is owned, by one coroutine.
OwnedIsManaged == \A c \in Co : \A a \in co[c].owned : mManagedFD[a[1]] = a
OneOwner == \A c, d \in Co : co[c].owned \cap co[d].owned # {} => c = d
WaiterOwns ==
    \A c \in Co : co[c].pc = "suspended" => co[c].op \in Op /\ co[c].op.aFD \in co[c].owned

\* Where run() is tells who runs, what it holds, and what it still has to do.
LoopKnows ==
    /\ loop.pc \notin {"startup", "resumed"} => NobodyRuns
    /\ loop.pc \in {"startup", "wait"} => events = <<>>
    /\ IF loop.pc \in {"startup", "wait", "dispatch"} THEN loop.aFD = None
       ELSE /\ loop.aFD \in AFD /\ loop.numPending >= 1
            /\ Len(aFD[loop.aFD].mPendigOps) >= loop.numPending
    /\ loop.pc \in {"resume", "resumed"} => loop.aFD[1] \notin Range(events)
    /\ loop.pc = "startup" => ~updated
    /\ IsInjective(events)

\* The directions watched are those awaited.
WatchedIsAwaited ==
    \A a \in AFD : aFD[a].mNextIOState = {co[c].op.dir : c \in {d \in Co : Waits(d, a)}}

\* A managed object is registered for what was watched at the last update, before
\* the first one for what it was attached for.
RegisteredFor ==
    \A fd \in FD : LET o == aFD[mManagedFD[fd]]
                   IN  mManagedFD[fd] # None =>
                        /\ o.kind \in Kind
                        /\ updated /\ loop.pc = "wait" => o.mIoState = o.mNextIOState
                        /\ ~updated => o.mIoState = {AttachDir(o.kind)}

\* The first operation of an object has the direction it was attached for.
FirstOperation ==
    \A fd \in FD : LET o == aFD[mManagedFD[fd]]
                   IN  mManagedFD[fd] # None =>
                        /\ o.fresh \/ o.kind = "pidfd" => o.mNextIOState \subseteq {AttachDir(o.kind)}
                        /\ o.fresh /\ o.kind = "connecting" => o.mNextIOState # {}

\* A closed descriptor is ready for nothing.
ClosedIsQuiet == \A fd \in FD : mManagedFD[fd] = None => ready[fd] = {}

\* A waiting coroutine is in the queue of its object, behind the handle that is to be
\* popped.
WaiterQueued ==
    \A c \in Co : LET q == aFD[co[c].op.aFD].mPendigOps
                  IN  co[c].pc = "suspended" =>
                        \E i \in 1 .. Len(q) : q[i] = c /\ (Resuming(co[c].op.aFD) => i > 1)

\* What a waiting coroutine is registered for and waits for is reported, or about to
\* be handled.
WakeupDue ==
    \A c \in Co : LET op == co[c].op
                      fd == op.aFD[1]
                  IN  /\ co[c].pc = "suspended"
                      /\ ready[fd] \cap (({op.dir} \cap aFD[op.aFD].mIoState) \cup {"hup"}) # {}
                      => \/ fd \in Range(rdllist) \cup Range(events)
                         \/ loop.pc \in {"resume", "undefined"} /\ loop.aFD = op.aFD

\* An object is ready for what is awaited of it, or would be next; of one that has been
\* used before the first update nothing is known.
Good(a) ==
    LET o == aFD[a]
        expected == IF o.mNextIOState = {} /\ ~updated THEN {AttachDir(o.kind)} ELSE o.mNextIOState
    IN  updated \/ o.fresh \/ o.kind = "pidfd" => ready[a[1]] \cap (expected \cup {"hup"}) # {}

\* So it is for the events of the batch, other than those of a former life.
EventsAreGood ==
    /\ \A fd \in Range(events) \ reused : mManagedFD[fd] # None => Good(mManagedFD[fd])
    /\ loop.pc = "resume" /\ ~misdelivered => Good(loop.aFD)

\* Without an event of a former life a queue holds the coroutine that waits, and the
\* handle that is to be popped.
QueueIsWaiter ==
    ~misdelivered =>
        /\ loop.pc \in {"resume", "resumed"} => loop.numPending = 1
        /\ \A a \in AFD :
              LET q == aFD[a].mPendigOps
              IN  /\ ~Resuming(a) => \/ Len(q) = 0 /\ \A c \in Co : ~Waits(c, a)
                                     \/ Len(q) = 1 /\ Waits(q[1], a)
                  /\ Resuming(a) => \/ Len(q) = 1 /\ \A c \in Co : ~Waits(c, a)
                                    \/ Len(q) = 2 /\ Waits(q[2], a)

IInv ==
    /\ TypeOK
    /\ ManagedNumber
    /\ OwnedIsManaged
    /\ OneOwner
    /\ WaiterOwns
    /\ LoopKnows
    /\ WatchedIsAwaited
    /\ RegisteredFor
    /\ FirstOperation
    /\ ClosedIsQuiet
    /\ WaiterQueued
    /\ WakeupDue
    /\ EventsAreGood
    /\ QueueIsWaiter
    /\ LeftoverNeedsReuse

-----------------------------------------------------------------------------
(***************************************************************************)
(* Sequences.                                                              *)
(***************************************************************************)

\* The members of a sequence, and its having no member twice, by position.
LEMMA RangeFacts ==
    ASSUME NEW S, NEW s \in Seq(S)
    PROVE  /\ Len(s) \in Nat /\ \A i \in 1 .. Len(s) : s[i] \in S /\ s[i] \in Range(s)
           /\ \A x : x \in Range(s) <=> \E i \in 1 .. Len(s) : s[i] = x
           /\ Range(s) \subseteq S
           /\ IsInjective(s) <=> \A i, j \in 1 .. Len(s) : s[i] = s[j] => i = j
<1>1. Len(s) \in Nat /\ DOMAIN s = 1 .. Len(s) /\ \A i \in 1 .. Len(s) : s[i] \in S
  BY LenProperties, ElementOfSeq
<1> QED
  BY <1>1 DEF Range, IsInjective

\* The tail of a sequence that is not empty.
LEMMA TailFacts ==
    ASSUME NEW S, NEW s \in Seq(S), s # <<>>
    PROVE  /\ Len(s) >= 1 /\ Head(s) = s[1] /\ Head(s) \in S
           /\ Tail(s) \in Seq(S) /\ Len(Tail(s)) = Len(s) - 1
           /\ \A i \in 1 .. Len(s) - 1 : Tail(s)[i] = s[i + 1]
           /\ \A x : x \in Range(s) <=> x = Head(s) \/ x \in Range(Tail(s))
           /\ IsInjective(s) => IsInjective(Tail(s)) /\ Head(s) \notin Range(Tail(s))
<1> DEFINE t == Tail(s)
<1>1. Len(s) \in Nat /\ Len(s) >= 1
  BY LenProperties, EmptySeq
<1>2. /\ Head(s) = s[1] /\ Head(s) \in S
      /\ t \in Seq(S) /\ Len(t) = Len(s) - 1
      /\ \A i \in 1 .. Len(s) - 1 : t[i] = s[i + 1]
  BY <1>1, HeadTailProperties
<1> HIDE DEF t
<1>3. /\ \A x : x \in Range(s) <=> \E i \in 1 .. Len(s) : s[i] = x
      /\ \A x : x \in Range(t) <=> \E i \in 1 .. Len(t) : t[i] = x
      /\ IsInjective(s) <=> \A i, j \in 1 .. Len(s) : s[i] = s[j] => i = j
      /\ IsInjective(t) <=> \A i, j \in 1 .. Len(t) : t[i] = t[j] => i = j
  BY <1>2, RangeFacts
<1>4. ASSUME NEW x, x \in Range(s), x # Head(s) PROVE x \in Range(t)
  <2>1. PICK i \in 1 .. Len(s) : s[i] = x
    BY <1>3, <1>4
  <2>2. i - 1 \in 1 .. Len(s) - 1 /\ t[i - 1] = s[i - 1 + 1] /\ i - 1 + 1 = i
    BY <1>1, <1>2, <1>4, <2>1
  <2> QED
    BY <1>2, <1>3, <2>1, <2>2
<1>5. ASSUME NEW x, x = Head(s) \/ x \in Range(t) PROVE x \in Range(s)
  <2>1. CASE x = Head(s)
    BY <1>1, <1>2, <1>3, <2>1
  <2>2. CASE x \in Range(t)
    <3>1. PICK i \in 1 .. Len(t) : t[i] = x
      BY <1>3, <2>2
    <3>2. i + 1 \in 1 .. Len(s) /\ s[i + 1] = x
      BY <1>1, <1>2, <3>1
    <3> QED
      BY <1>3, <3>2
  <2> QED
    BY <1>5, <2>1, <2>2
<1>6. ASSUME IsInjective(s) PROVE IsInjective(t) /\ Head(s) \notin Range(t)
  <2>1. ASSUME NEW i \in 1 .. Len(t), NEW j \in 1 .. Len(t), t[i] = t[j] PROVE i = j
    <3>1. i + 1 \in 1 .. Len(s) /\ j + 1 \in 1 .. Len(s) /\ s[i + 1] = s[j + 1]
      BY <1>1, <1>2, <2>1
    <3> QED
      BY <1>3, <1>6, <2>1, <3>1
  <2>2. ASSUME NEW i \in 1 .. Len(t), t[i] = Head(s) PROVE FALSE
    <3>1. i + 1 \in 1 .. Len(s) /\ 1 \in 1 .. Len(s) /\ s[i + 1] = s[1] /\ i + 1 # 1
      BY <1>1, <1>2, <2>2
    <3> QED
      BY <1>3, <1>6, <3>1
  <2> QED
    BY <1>3, <2>1, <2>2
<1> QED
  BY <1>1, <1>2, <1>4, <1>5, <1>6 DEF t

\* A sequence with one element more.
LEMMA AppendFacts ==
    ASSUME NEW S, NEW s \in Seq(S), NEW e \in S
    PROVE  /\ Append(s, e) \in Seq(S) /\ Len(Append(s, e)) = Len(s) + 1
           /\ \A i \in 1 .. Len(s) : Append(s, e)[i] = s[i]
           /\ Append(s, e)[Len(s) + 1] = e
           /\ Append(s, e) # <<>>
           /\ \A x : x \in Range(Append(s, e)) <=> x = e \/ x \in Range(s)
           /\ IsInjective(s) /\ e \notin Range(s) => IsInjective(Append(s, e))
<1> DEFINE t == Append(s, e)
<1>1. /\ t \in Seq(S) /\ Len(t) = Len(s) + 1
      /\ \A i \in 1 .. Len(s) : t[i] = s[i]
      /\ t[Len(s) + 1] = e
      /\ Len(s) \in Nat
  BY AppendProperties, LenProperties
<1> HIDE DEF t
<1>2. t # <<>>
  BY <1>1, EmptySeq
<1>3. /\ \A x : x \in Range(s) <=> \E i \in 1 .. Len(s) : s[i] = x
      /\ \A x : x \in Range(t) <=> \E i \in 1 .. Len(t) : t[i] = x
      /\ IsInjective(s) <=> \A i, j \in 1 .. Len(s) : s[i] = s[j] => i = j
      /\ IsInjective(t) <=> \A i, j \in 1 .. Len(t) : t[i] = t[j] => i = j
  BY <1>1, RangeFacts
<1>4. \A i \in 1 .. Len(t) : i \in 1 .. Len(s) \/ i = Len(s) + 1
  BY <1>1
<1>5. \A x : x \in Range(t) <=> x = e \/ x \in Range(s)
  BY <1>1, <1>3, <1>4
<1>6. IsInjective(s) /\ e \notin Range(s) => IsInjective(t)
  BY <1>1, <1>3, <1>4
<1> QED
  BY <1>1, <1>2, <1>5, <1>6 DEF t

\* An event is in the list once.
LEMMA EnqueueFacts ==
    ASSUME NEW s \in Seq(FD), IsInjective(s), NEW fd \in FD
    PROVE  /\ Enqueue(s, fd) \in Seq(FD) /\ IsInjective(Enqueue(s, fd))
           /\ \A x : x \in Range(Enqueue(s, fd)) <=> x = fd \/ x \in Range(s)
BY AppendFacts DEF Enqueue

\* An arrangement of a set has its members, each once.
LEMMA SetToSeqsFacts ==
    ASSUME NEW S, IsFiniteSet(S), NEW s \in SetToSeqs(S)
    PROVE  s \in Seq(S) /\ IsInjective(s) /\ \A x : x \in Range(s) <=> x \in S
<1> DEFINE n == Cardinality(S)
<1>1. n \in Nat
  BY FS_CardinalityType
<1>2. s \in [1 .. n -> S] /\ \A i, j \in 1 .. n : i # j => s[i] # s[j]
  BY DEF SetToSeqs
<1>3. s \in Injection(1 .. n, S) /\ IsInjective(s)
  BY <1>2 DEF Injection, IsInjective
<1>4. Cardinality(1 .. n) = n
  BY <1>1, FS_Interval
<1> HIDE DEF n
<1>5. s \in Surjection(1 .. n, S)
  BY <1>3, <1>4, FS_Injection DEF n
<1>6. s \in Seq(S)
  BY <1>1, <1>2, SeqDef
<1> QED
  BY <1>2, <1>3, <1>5, <1>6 DEF Surjection, Range


\* What is left of a list has those who stay, each once.
LEMMA KeptFacts ==
    ASSUME NEW s \in Seq(FD), NEW stay, NEW t \in Kept(s, stay)
    PROVE  /\ t \in Seq(FD) /\ IsInjective(t)
           /\ \A x : x \in Range(t) <=> x \in Range(s) /\ x \in stay
<1> DEFINE S == Range(s) \cap stay
<1>1. S \subseteq FD
  BY RangeFacts
<1>2. IsFiniteSet(S)
  BY <1>1, FS_Subset, FDAssumption
<1>3. t \in SetToSeqs(S)
  BY DEF Kept
<1> HIDE DEF S
<1>4. t \in Seq(S) /\ IsInjective(t) /\ \A x : x \in Range(t) <=> x \in S
  BY <1>2, <1>3, SetToSeqsFacts
<1>5. t \in Seq(FD)
  BY <1>1, <1>4, SeqMonotonic
<1> QED
  BY <1>4, <1>5 DEF S

\* A part of a list.
LEMMA PartFacts ==
    ASSUME NEW s \in Seq(FD), IsInjective(s), NEW m \in Nat, NEW n \in Nat,
           1 <= m, m <= n + 1, n <= Len(s)
    PROVE  /\ SubSeq(s, m, n) \in Seq(FD) /\ IsInjective(SubSeq(s, m, n))
           /\ \A x : x \in Range(SubSeq(s, m, n)) <=> \E i \in m .. n : s[i] = x
<1> DEFINE t == SubSeq(s, m, n)
<1>0. Len(s) \in Nat /\ \A i \in 1 .. Len(s) : s[i] \in FD
  BY RangeFacts
<1>1. \A i \in m .. n : s[i] \in FD
  BY <1>0
<1>2. t \in Seq(FD) /\ Len(t) = n - m + 1
  BY <1>0, SubSeqProperties
<1>3. \A i \in 1 .. n - m + 1 : t[i] = s[m + i - 1]
  BY <1>0, SubSeqProperties
<1> HIDE DEF t
<1>4. /\ \A x : x \in Range(t) <=> \E i \in 1 .. Len(t) : t[i] = x
      /\ IsInjective(s) <=> \A i, j \in 1 .. Len(s) : s[i] = s[j] => i = j
      /\ IsInjective(t) <=> \A i, j \in 1 .. Len(t) : t[i] = t[j] => i = j
  BY <1>2, RangeFacts
<1>5. ASSUME NEW i \in 1 .. Len(t), NEW j \in 1 .. Len(t), t[i] = t[j] PROVE i = j
  <2>1. /\ m + i - 1 \in 1 .. Len(s) /\ m + j - 1 \in 1 .. Len(s)
        /\ s[m + i - 1] = s[m + j - 1]
    BY <1>0, <1>2, <1>3, <1>5
  <2>2. m + i - 1 = m + j - 1
    BY <1>4, <2>1
  <2> QED
    BY <2>2
<1>6. ASSUME NEW x, x \in Range(t) PROVE \E i \in m .. n : s[i] = x
  <2>1. PICK i \in 1 .. Len(t) : t[i] = x
    BY <1>4, <1>6
  <2>2. m + i - 1 \in m .. n /\ s[m + i - 1] = x
    BY <1>2, <1>3, <2>1
  <2> QED
    BY <2>2
<1>7. ASSUME NEW i \in m .. n PROVE s[i] \in Range(t)
  <2>1. i - m + 1 \in 1 .. Len(t) /\ t[i - m + 1] = s[m + (i - m + 1) - 1]
    BY <1>2, <1>3
  <2>2. m + (i - m + 1) - 1 = i
    OBVIOUS
  <2> QED
    BY <1>4, <2>1, <2>2
<1> QED
  BY <1>2, <1>4, <1>5, <1>6, <1>7 DEF t

\* A batch and the rest of the list.
LEMMA BatchFacts ==
    ASSUME NEW s \in Seq(FD), IsInjective(s), NEW n, n = Min({Len(s), DEFAULT_MAX_EVENTS})
    PROVE  LET batch == SubSeq(s, 1, n)
               rest == SubSeq(s, n + 1, Len(s))
           IN  /\ batch \in Seq(FD) /\ IsInjective(batch)
               /\ rest \in Seq(FD) /\ IsInjective(rest)
               /\ \A x : x \in Range(s) <=> x \in Range(batch) \/ x \in Range(rest)
<1> DEFINE batch == SubSeq(s, 1, n)
           rest == SubSeq(s, n + 1, Len(s))
<1>0. Len(s) \in Nat /\ \A x : x \in Range(s) <=> \E i \in 1 .. Len(s) : s[i] = x
  BY RangeFacts
<1>1. n \in {Len(s), DEFAULT_MAX_EVENTS} /\ \A y \in {Len(s), DEFAULT_MAX_EVENTS} : n <= y
  <2>1. CASE Len(s) <= DEFAULT_MAX_EVENTS
    BY <1>0, <2>1, EventsAssumption DEF Min
  <2>2. CASE DEFAULT_MAX_EVENTS <= Len(s)
    BY <1>0, <2>2, EventsAssumption DEF Min
  <2> QED
    BY <1>0, <2>1, <2>2, EventsAssumption
<1>2. n \in Nat /\ n <= Len(s)
  BY <1>0, <1>1, EventsAssumption
<1>3. /\ batch \in Seq(FD) /\ IsInjective(batch)
      /\ \A x : x \in Range(batch) <=> \E i \in 1 .. n : s[i] = x
  <2>1. 1 \in Nat /\ n \in Nat /\ 1 <= 1 /\ 1 <= n + 1 /\ n <= Len(s)
    BY <1>2
  <2> QED
    BY <2>1, PartFacts, Zenon
<1>4. /\ rest \in Seq(FD) /\ IsInjective(rest)
      /\ \A x : x \in Range(rest) <=> \E i \in n + 1 .. Len(s) : s[i] = x
  <2>1. /\ n + 1 \in Nat /\ Len(s) \in Nat /\ 1 <= n + 1 /\ n + 1 <= Len(s) + 1
        /\ Len(s) <= Len(s)
    BY <1>0, <1>2
  <2> QED
    BY <2>1, PartFacts, Zenon
<1> HIDE DEF batch, rest
<1>5. \A i : i \in 1 .. Len(s) <=> i \in 1 .. n \/ i \in n + 1 .. Len(s)
  BY <1>0, <1>2
<1>6. \A x : x \in Range(s) <=> x \in Range(batch) \/ x \in Range(rest)
  BY <1>0, <1>3, <1>4, <1>5
<1> QED
  BY <1>3, <1>4, <1>6 DEF batch, rest

\* A list with others behind it.
LEMMA JoinFacts ==
    ASSUME NEW s \in Seq(FD), IsInjective(s), NEW t \in Seq(FD), IsInjective(t),
           \A x : ~(x \in Range(s) /\ x \in Range(t))
    PROVE  /\ s \o t \in Seq(FD) /\ IsInjective(s \o t)
           /\ \A x : x \in Range(s \o t) <=> x \in Range(s) \/ x \in Range(t)
<1> DEFINE u == s \o t
<1>1. /\ u \in Seq(FD) /\ Len(u) = Len(s) + Len(t)
      /\ \A i \in 1 .. Len(s) : u[i] = s[i]
      /\ \A i \in Len(s) + 1 .. Len(s) + Len(t) : u[i] = t[i - Len(s)]
  BY ConcatProperties
<1> HIDE DEF u
<1>2. /\ \A x : x \in Range(s) <=> \E i \in 1 .. Len(s) : s[i] = x
      /\ IsInjective(s) <=> \A i, j \in 1 .. Len(s) : s[i] = s[j] => i = j
      /\ Len(s) \in Nat
  BY RangeFacts
<1>3. /\ \A x : x \in Range(t) <=> \E i \in 1 .. Len(t) : t[i] = x
      /\ IsInjective(t) <=> \A i, j \in 1 .. Len(t) : t[i] = t[j] => i = j
      /\ Len(t) \in Nat
  BY RangeFacts
<1>4. /\ \A x : x \in Range(u) <=> \E i \in 1 .. Len(u) : u[i] = x
      /\ IsInjective(u) <=> \A i, j \in 1 .. Len(u) : u[i] = u[j] => i = j
  <2>1. u \in Seq(FD)
    BY <1>1
  <2> QED
    BY <2>1, RangeFacts
<1> DEFINE m == Len(s)
           n == Len(t)
<1>5. m \in Nat /\ n \in Nat
  BY <1>2, <1>3
<1>6. \A i \in 1 .. Len(u) : \/ i \in 1 .. m /\ u[i] = s[i]
                             \/ i - m \in 1 .. n /\ u[i] = t[i - m]
  BY <1>1, <1>2, <1>3
<1>7. \A j \in 1 .. n : m + j \in 1 .. Len(u) /\ u[m + j] = t[j]
  <2> SUFFICES ASSUME NEW j \in 1 .. n
               PROVE  m + j \in 1 .. Len(u) /\ u[m + j] = t[j]
    OBVIOUS
  <2>1. m + j \in m + 1 .. m + n /\ m + j \in 1 .. m + n /\ (m + j) - m = j
    BY <1>5
  <2>2. u[m + j] = t[(m + j) - m]
    BY <1>1, <2>1
  <2> QED
    BY <1>1, <2>1, <2>2
<1>8. \A j \in 1 .. m : j \in 1 .. Len(u) /\ u[j] = s[j]
  BY <1>1, <1>5
<1>9. ASSUME NEW x, x \in Range(s) \/ x \in Range(t) PROVE x \in Range(u)
  <2>1. ASSUME x \in Range(s) PROVE x \in Range(u)
    BY <1>2, <1>4, <1>8, <2>1
  <2>2. ASSUME x \in Range(t) PROVE x \in Range(u)
    <3>1. PICK j \in 1 .. n : t[j] = x
      BY <1>3, <2>2
    <3>2. m + j \in 1 .. Len(u) /\ u[m + j] = x
      BY <1>7, <3>1
    <3> QED
      BY <1>4, <3>2
  <2> QED
    BY <1>9, <2>1, <2>2
<1>10. ASSUME NEW x, x \in Range(u) PROVE x \in Range(s) \/ x \in Range(t)
  BY <1>2, <1>3, <1>4, <1>6, <1>10
<1>11. ASSUME NEW i \in 1 .. Len(u), NEW j \in 1 .. Len(u), u[i] = u[j] PROVE i = j
  <2>1. CASE i \in 1 .. m /\ u[i] = s[i] /\ j \in 1 .. m /\ u[j] = s[j]
    BY <1>2, <1>11, <2>1
  <2>2. CASE /\ i - m \in 1 .. n /\ u[i] = t[i - m]
             /\ j - m \in 1 .. n /\ u[j] = t[j - m]
    <3>1. i - m = j - m
      BY <1>3, <1>11, <2>2
    <3> QED
      BY <1>1, <1>5, <3>1
  <2>3. CASE i \in 1 .. m /\ u[i] = s[i] /\ j - m \in 1 .. n /\ u[j] = t[j - m]
    <3>1. u[i] \in Range(s) /\ u[i] \in Range(t)
      BY <1>2, <1>3, <1>11, <2>3
    <3> QED
      BY <3>1
  <2>4. CASE j \in 1 .. m /\ u[j] = s[j] /\ i - m \in 1 .. n /\ u[i] = t[i - m]
    <3>1. u[i] \in Range(s) /\ u[i] \in Range(t)
      BY <1>2, <1>3, <1>11, <2>4
    <3> QED
      BY <3>1
  <2> QED
    BY <1>6, <2>1, <2>2, <2>3, <2>4, Zenon
<1> QED
  BY <1>1, <1>4, <1>9, <1>10, <1>11 DEF u


-----------------------------------------------------------------------------
(***************************************************************************)
(* What the invariant says of a state.                                     *)
(***************************************************************************)

\* An object is a number and a generation.
LEMMA Objects == \A a \in AFD : a[1] \in FD /\ a # None
BY NoneAssumption DEF AFD

\* Who owns an object, and who waits for it.
LEMMA Owners ==
    ASSUME IInv
    PROVE  /\ \A c \in Co : \A a \in co[c].owned : a \in AFD /\ mManagedFD[a[1]] = a
           /\ \A c, d \in Co : \A a \in co[c].owned : a \in co[d].owned => c = d
           /\ \A c \in Co : co[c].pc = "suspended" =>
                 /\ co[c].op \in Op /\ co[c].op.aFD \in AFD /\ co[c].op.dir \in Dir
                 /\ co[c].op.aFD \in co[c].owned
           /\ \A c \in Co : \A a \in co[c].owned : \A d \in Co :
                 co[d].pc = "suspended" /\ co[d].op.aFD[1] = a[1] => d = c
<1>1. \A c \in Co : \A a \in co[c].owned : a \in AFD /\ mManagedFD[a[1]] = a
  BY DEF IInv, TypeOK, OwnedIsManaged
<1>2. \A c, d \in Co : \A a \in co[c].owned : a \in co[d].owned => c = d
  BY DEF IInv, OneOwner
<1>3. \A c \in Co : co[c].pc = "suspended" =>
         /\ co[c].op \in Op /\ co[c].op.aFD \in AFD /\ co[c].op.dir \in Dir
         /\ co[c].op.aFD \in co[c].owned
  BY DEF IInv, WaiterOwns, Op
<1> QED
  BY <1>1, <1>2, <1>3

\* An object is watched for what its waiter awaits, and not if there is none.
LEMMA Watched ==
    ASSUME IInv
    PROVE  /\ \A a \in AFD : (\A c \in Co : ~Waits(c, a)) <=> aFD[a].mNextIOState = {}
           /\ \A c \in Co : co[c].pc = "suspended" =>
                 aFD[co[c].op.aFD].mNextIOState = {co[c].op.dir}
           /\ \A c \in Co : \A a \in co[c].owned :
                 co[c].pc # "suspended" => aFD[a].mNextIOState = {}
<1>1. \A a \in AFD : aFD[a].mNextIOState = {co[c].op.dir : c \in {d \in Co : Waits(d, a)}}
  BY DEF IInv, WatchedIsAwaited
<1>2. \A a \in AFD : (\A c \in Co : ~Waits(c, a)) <=> aFD[a].mNextIOState = {}
  <2> SUFFICES ASSUME NEW a \in AFD
               PROVE  (\A c \in Co : ~Waits(c, a)) <=> aFD[a].mNextIOState = {}
    OBVIOUS
  <2>1. \A x : x \in aFD[a].mNextIOState <=> \E c \in Co : Waits(c, a) /\ x = co[c].op.dir
    BY <1>1
  <2> QED
    BY <2>1
<1>3. ASSUME NEW c \in Co, co[c].pc = "suspended"
      PROVE  aFD[co[c].op.aFD].mNextIOState = {co[c].op.dir}
  <2>1. co[c].op.aFD \in AFD /\ \A d \in Co : Waits(d, co[c].op.aFD) <=> d = c
    BY <1>3, Owners DEF Waits
  <2> QED
    BY <1>1, <2>1
<1>4. ASSUME NEW c \in Co, NEW a \in co[c].owned, co[c].pc # "suspended"
      PROVE  aFD[a].mNextIOState = {}
  <2>1. a \in AFD /\ \A d \in Co : ~Waits(d, a)
    BY <1>4, Owners DEF Waits
  <2> QED
    BY <1>2, <2>1
<1> QED
  BY <1>2, <1>3, <1>4

\* The object a number gets is nobody's.
LEMMA NewFacts ==
    ASSUME IInv, NEW fd \in FD, mManagedFD[fd] = None
    PROVE  /\ NewAFD(fd) \in AFD /\ NewAFD(fd)[1] = fd /\ NewAFD(fd) # loop.aFD
           /\ \A g \in FD : mManagedFD[g] # NewAFD(fd)
           /\ \A c \in Co : NewAFD(fd) \notin co[c].owned /\ ~Waits(c, NewAFD(fd))
           /\ \A c \in Co : \A a \in co[c].owned : a[1] # fd
<1>1. NewAFD(fd) \in AFD /\ NewAFD(fd)[1] = fd /\ NewAFD(fd) # loop.aFD
  BY DEF NewAFD, AFD
<1>2. \A g \in FD : mManagedFD[g] # NewAFD(fd)
  BY <1>1, Objects DEF IInv, ManagedNumber
<1>3. \A c \in Co : \A a \in co[c].owned : a[1] # fd
  BY Owners, Objects
<1> QED
  BY <1>1, <1>2, <1>3, Owners DEF Waits

\* A coroutine runs before the loop does, or when it was resumed.
LEMMA WhoRuns ==
    ASSUME IInv, NEW c \in Co, Running(c)
    PROVE  /\ loop.pc \in {"startup", "resumed"}
           /\ co[c].pc = "run"
BY DEF IInv, LoopKnows, NobodyRuns, Running

-----------------------------------------------------------------------------
(***************************************************************************)
(* The steps.                                                              *)
(***************************************************************************)

\* The invariant holds before main resumes the first task.
LEMMA InitInv == ASSUME Init PROVE IInv
<1>1. TypeOK
  <2>1. rdllist \in Seq(FD) /\ IsInjective(rdllist) /\ events \in Seq(FD)
    BY DEF Init, IsInjective
  <2>2. Blank \in Object
    BY DEF Blank, Object
  <2> QED
    BY <2>1, <2>2 DEF Init, TypeOK
<1>2. ManagedNumber /\ OwnedIsManaged /\ OneOwner /\ WaiterOwns
  BY DEF Init, ManagedNumber, OwnedIsManaged, OneOwner, WaiterOwns
<1>3. LoopKnows
  <2>1. IsInjective(events)
    BY DEF Init, IsInjective
  <2> QED
    BY <2>1 DEF Init, LoopKnows
<1>4. WatchedIsAwaited /\ RegisteredFor /\ FirstOperation /\ ClosedIsQuiet
  BY DEF Init, WatchedIsAwaited, RegisteredFor, FirstOperation, ClosedIsQuiet, Waits, Blank
<1>5. WaiterQueued /\ WakeupDue
  BY DEF Init, WaiterQueued, WakeupDue
<1>6. EventsAreGood
  <2>1. Range(events) = {}
    BY DEF Init, Range
  <2> QED
    BY <2>1 DEF Init, EventsAreGood
<1>7. QueueIsWaiter /\ LeftoverNeedsReuse
  <2>1. \A a \in AFD : aFD[a].mPendigOps = <<>> /\ Len(aFD[a].mPendigOps) = 0
    BY DEF Init, Blank
  <2> QED
    BY <2>1 DEF Init, QueueIsWaiter, LeftoverNeedsReuse, Resuming, Waits
<1> QED
  BY <1>1, <1>2, <1>3, <1>4, <1>5, <1>6, <1>7 DEF IInv

\* Steps that leave objects and coroutines alone.
LEMMA SameObjects ==
    ASSUME IInv, UNCHANGED <<aFD, mManagedFD, co>>
    PROVE  /\ ManagedNumber' /\ OwnedIsManaged' /\ OneOwner' /\ WaiterOwns' /\ WatchedIsAwaited'
           /\ FirstOperation'
<1>1. ManagedNumber /\ OwnedIsManaged /\ OneOwner /\ WaiterOwns
  BY DEF IInv
<1>2. ManagedNumber' /\ OwnedIsManaged' /\ OneOwner' /\ WaiterOwns'
  BY <1>1 DEF ManagedNumber, OwnedIsManaged, OneOwner, WaiterOwns
<1>3. WatchedIsAwaited'
  BY DEF IInv, WatchedIsAwaited, Waits
<1>4. FirstOperation'
  BY DEF IInv, FirstOperation
<1> QED
  BY <1>2, <1>3, <1>4

\* What becomes ready is reported if it is registered for.
LEMMA BecomesReadyStep ==
    ASSUME IInv, NEW fd \in FD, NEW what \in Dir \cup {"hup"}, BecomesReady(fd, what)
    PROVE  IInv'
<1> USE DEF BecomesReady, history
<1>1. /\ \A g \in FD : ready[g] \subseteq ready'[g]
      /\ \A g \in FD : g # fd => ready'[g] = ready[g]
      /\ ready'[fd] = ready[fd] \cup {what}
      /\ ready' \in [FD -> SUBSET (Dir \cup {"hup"})]
  BY DEF IInv, TypeOK
<1>2. /\ rdllist' \in Seq(FD) /\ IsInjective(rdllist')
      /\ \A x : x \in Range(rdllist) => x \in Range(rdllist')
      /\ what \in Interest(fd) \cup {"hup"} => fd \in Range(rdllist')
  <2>1. rdllist \in Seq(FD) /\ IsInjective(rdllist)
    BY DEF IInv, TypeOK
  <2> QED
    BY <2>1, EnqueueFacts
<1>3. TypeOK'
  BY <1>1, <1>2 DEF IInv, TypeOK
<1>4. /\ ManagedNumber' /\ OwnedIsManaged' /\ OneOwner' /\ WaiterOwns' /\ WatchedIsAwaited'
      /\ FirstOperation'
  BY SameObjects
<1>5. RegisteredFor' /\ LoopKnows' /\ LeftoverNeedsReuse'
  <2>1. RegisteredFor /\ LoopKnows /\ LeftoverNeedsReuse
    BY DEF IInv
  <2> QED
    BY <2>1 DEF RegisteredFor, LoopKnows, LeftoverNeedsReuse, NobodyRuns, Running
<1>6. WaiterQueued' /\ QueueIsWaiter'
  <2>1. WaiterQueued /\ QueueIsWaiter
    BY DEF IInv
  <2>2. WaiterQueued'
    BY <2>1 DEF WaiterQueued, Resuming
  <2>3. QueueIsWaiter'
    BY <2>1 DEF QueueIsWaiter, Resuming, Waits
  <2> QED
    BY <2>2, <2>3
<1>7. ClosedIsQuiet'
  BY <1>1 DEF IInv, ClosedIsQuiet
<1>8. WakeupDue'
  <2> SUFFICES ASSUME NEW c \in Co, co[c].pc = "suspended",
                      ready'[co[c].op.aFD[1]] \cap
                        (({co[c].op.dir} \cap aFD[co[c].op.aFD].mIoState) \cup {"hup"}) # {}
               PROVE  \/ co[c].op.aFD[1] \in Range(rdllist') \cup Range(events)
                      \/ loop.pc \in {"resume", "undefined"} /\ loop.aFD = co[c].op.aFD
    BY DEF WakeupDue
  <2>1. mManagedFD[co[c].op.aFD[1]] = co[c].op.aFD /\ co[c].op.aFD[1] \in FD
    BY Owners, Objects
  <2>2. CASE co[c].op.aFD[1] = fd /\ what \in Interest(fd) \cup {"hup"}
    BY <1>2, <2>2
  <2>3. CASE ~(co[c].op.aFD[1] = fd /\ what \in Interest(fd) \cup {"hup"})
    <3>1. ready[co[c].op.aFD[1]] \cap
             (({co[c].op.dir} \cap aFD[co[c].op.aFD].mIoState) \cup {"hup"}) # {}
      BY <1>1, <2>1, <2>3 DEF Interest
    <3> QED
      BY <1>2, <3>1 DEF IInv, WakeupDue
  <2> QED
    BY <2>2, <2>3
<1>9. EventsAreGood'
  <2>1. ASSUME NEW a \in AFD, Good(a) PROVE Good(a)'
    BY <1>1, <2>1, Objects DEF Good
  <2>2. \A g \in FD : mManagedFD[g] # None => mManagedFD[g] \in AFD
    BY DEF IInv, TypeOK
  <2>3. Range(events) \subseteq FD
    BY RangeFacts DEF IInv, TypeOK
  <2>4. loop.pc = "resume" => loop.aFD \in AFD
    BY DEF IInv, LoopKnows
  <2> QED
    BY <2>1, <2>2, <2>3, <2>4 DEF IInv, EventsAreGood
<1> QED
  BY <1>3, <1>4, <1>5, <1>6, <1>7, <1>8, <1>9 DEF IInv


\* main starts a coroutine.
LEMMA StartStep ==
    ASSUME IInv, NEW c \in Co, Start(c)
    PROVE  IInv'
<1> USE DEF Start, history, kernel
<1>1. /\ co'[c].pc = "run" /\ co'[c].owned = co[c].owned /\ co'[c].op = co[c].op
      /\ \A d \in Co : d # c => co'[d] = co[d]
      /\ co' \in [Co -> [pc : {"start", "run", "suspended"}, owned : SUBSET AFD,
                         op : Op \cup {None}]]
  BY DEF IInv, TypeOK
<1>2. /\ \A d \in Co : co'[d].owned = co[d].owned
      /\ \A d \in Co : co'[d].op = co[d].op
      /\ \A d \in Co : co'[d].pc = "suspended" <=> co[d].pc = "suspended"
  BY <1>1
<1>3. TypeOK'
  BY <1>1 DEF IInv, TypeOK
<1>4. ManagedNumber' /\ OwnedIsManaged' /\ OneOwner' /\ WaiterOwns'
  <2>1. ManagedNumber /\ OwnedIsManaged /\ OneOwner /\ WaiterOwns
    BY DEF IInv
  <2> QED
    BY <1>2, <2>1 DEF ManagedNumber, OwnedIsManaged, OneOwner, WaiterOwns
<1>5. \A d \in Co, a \in AFD : Waits(d, a)' <=> Waits(d, a)
  BY <1>2 DEF Waits
<1>6. WatchedIsAwaited'
  <2>1. WatchedIsAwaited
    BY DEF IInv
  <2> QED
    BY <1>2, <1>5, <2>1 DEF WatchedIsAwaited
<1>7. RegisteredFor' /\ FirstOperation' /\ ClosedIsQuiet' /\ LeftoverNeedsReuse'
  <2>1. RegisteredFor /\ FirstOperation /\ ClosedIsQuiet /\ LeftoverNeedsReuse
    BY DEF IInv
  <2> QED
    BY <2>1 DEF RegisteredFor, FirstOperation, ClosedIsQuiet, LeftoverNeedsReuse
<1>8. LoopKnows'
  BY DEF IInv, LoopKnows
<1>9. WaiterQueued' /\ WakeupDue'
  <2>1. WaiterQueued /\ WakeupDue
    BY DEF IInv
  <2>2. WaiterQueued'
    BY <1>2, <2>1 DEF WaiterQueued, Resuming
  <2>3. WakeupDue'
    BY <1>2, <2>1 DEF WakeupDue
  <2> QED
    BY <2>2, <2>3
<1>10. EventsAreGood'
  <2>1. EventsAreGood
    BY DEF IInv
  <2> QED
    BY <2>1 DEF EventsAreGood, Good
<1>11. QueueIsWaiter'
  <2>1. \A a \in AFD : aFD[a].mPendigOps \in Seq(Co)
    BY DEF IInv, TypeOK, Object
  <2>2. QueueIsWaiter
    BY DEF IInv
  <2> QED
    BY <1>5, <2>1, <2>2, ElementOfSeq DEF QueueIsWaiter, Resuming
<1> QED
  BY <1>3, <1>4, <1>6, <1>7, <1>8, <1>9, <1>10, <1>11 DEF IInv

\* Everybody waits: the loop is entered.
LEMMA EnterRunStep ==
    ASSUME IInv, EnterRun
    PROVE  IInv'
<1> USE DEF EnterRun, history, kernel
<1>1. loop' \in [pc : {"wait"}, aFD : AFD \cup {None}, numPending : Nat]
      /\ loop'.pc = "wait" /\ loop'.aFD = loop.aFD /\ loop'.numPending = loop.numPending
  BY DEF IInv, TypeOK
<1>2. TypeOK'
  BY <1>1 DEF IInv, TypeOK
<1>3. /\ ManagedNumber' /\ OwnedIsManaged' /\ OneOwner' /\ WaiterOwns' /\ WatchedIsAwaited'
      /\ FirstOperation'
  BY SameObjects
<1>4. LoopKnows'
  <2>1. LoopKnows
    BY DEF IInv
  <2> QED
    BY <1>1, <2>1 DEF LoopKnows, NobodyRuns, Running
<1>5. RegisteredFor'
  BY DEF IInv, RegisteredFor, LoopKnows
<1>6. ClosedIsQuiet' /\ LeftoverNeedsReuse'
  BY <1>1 DEF IInv, ClosedIsQuiet, LeftoverNeedsReuse
<1>7. WaiterQueued' /\ WakeupDue'
  <2>1. WaiterQueued /\ WakeupDue
    BY DEF IInv
  <2>2. WaiterQueued'
    BY <1>1, <2>1 DEF WaiterQueued, Resuming
  <2>3. WakeupDue'
    BY <1>1, <2>1 DEF WakeupDue
  <2> QED
    BY <2>2, <2>3
<1>8. EventsAreGood'
  <2>1. EventsAreGood
    BY DEF IInv
  <2> QED
    BY <1>1, <2>1 DEF EventsAreGood, Good
<1>9. QueueIsWaiter'
  <2>1. QueueIsWaiter
    BY DEF IInv
  <2> QED
    BY <1>1, <2>1 DEF QueueIsWaiter, Resuming, Waits
<1> QED
  BY <1>2, <1>3, <1>4, <1>5, <1>6, <1>7, <1>8, <1>9 DEF IInv

\* A handle whose operation is over needs an event of a former life.
LEMMA ResumeLeftoverStep ==
    ASSUME IInv, ResumeLeftover
    PROVE  IInv'
<1> USE DEF ResumeLeftover, history, kernel
<1>1. /\ loop' \in [pc : {"undefined"}, aFD : AFD \cup {None}, numPending : Nat]
      /\ loop'.pc = "undefined" /\ loop'.aFD = loop.aFD /\ loop'.numPending = loop.numPending
  BY DEF IInv, TypeOK
<1>2. TypeOK'
  BY <1>1 DEF IInv, TypeOK
<1>3. /\ ManagedNumber' /\ OwnedIsManaged' /\ OneOwner' /\ WaiterOwns' /\ WatchedIsAwaited'
      /\ FirstOperation'
  BY SameObjects
<1>4. LoopKnows'
  <2>1. LoopKnows
    BY DEF IInv
  <2> QED
    BY <1>1, <2>1 DEF LoopKnows, NobodyRuns, Running
<1>5. misdelivered
  <2>1. /\ QueueIsWaiter /\ loop.pc = "resume" /\ loop.aFD \in AFD /\ loop.numPending >= 1
        /\ Len(aFD[loop.aFD].mPendigOps) >= loop.numPending /\ loop.numPending \in Nat
        /\ aFD[loop.aFD].mPendigOps \in Seq(Co)
    BY DEF IInv, LoopKnows, TypeOK, Object
  <2>2. aFD[loop.aFD].mPendigOps # <<>> /\ Len(aFD[loop.aFD].mPendigOps) # 0
    BY <2>1
  <2>3. SUFFICES ASSUME ~misdelivered PROVE FALSE
    OBVIOUS
  <2>4. Waits(aFD[loop.aFD].mPendigOps[1], loop.aFD)
    BY <2>1, <2>2, <2>3 DEF QueueIsWaiter, Resuming
  <2>5. Head(aFD[loop.aFD].mPendigOps) = aFD[loop.aFD].mPendigOps[1]
    BY <2>1, <2>2, TailFacts
  <2> QED
    BY <2>4, <2>5 DEF Waits
<1>6. RegisteredFor' /\ ClosedIsQuiet' /\ LeftoverNeedsReuse' /\ EventsAreGood' /\ QueueIsWaiter'
  <2>1. RegisteredFor /\ ClosedIsQuiet /\ EventsAreGood
    BY DEF IInv
  <2>2. RegisteredFor' /\ ClosedIsQuiet'
    BY <1>1, <2>1 DEF RegisteredFor, ClosedIsQuiet
  <2>3. EventsAreGood'
    BY <1>1, <2>1 DEF EventsAreGood, Good
  <2> QED
    BY <1>5, <2>2, <2>3 DEF LeftoverNeedsReuse, QueueIsWaiter
<1>7. WaiterQueued' /\ WakeupDue'
  <2>1. WaiterQueued /\ WakeupDue
    BY DEF IInv
  <2>2. WaiterQueued'
    BY <1>1, <2>1 DEF WaiterQueued, Resuming
  <2>3. WakeupDue'
    BY <1>1, <2>1 DEF WakeupDue
  <2> QED
    BY <2>2, <2>3
<1> QED
  BY <1>2, <1>3, <1>4, <1>6, <1>7 DEF IInv


\* The batch has descriptors that are ready for what they are registered for.
LEMMA EpollWaitStep ==
    ASSUME IInv, EpollWait
    PROVE  IInv'
<1> USE DEF EpollWait
<1>1. /\ loop' \in [pc : {"dispatch"}, aFD : AFD \cup {None}, numPending : Nat]
      /\ loop'.pc = "dispatch" /\ loop'.aFD = loop.aFD /\ loop'.numPending = loop.numPending
      /\ loop.pc = "wait" /\ loop.aFD = None /\ NobodyRuns /\ events = <<>>
  BY DEF IInv, TypeOK, LoopKnows
<1>2. /\ events' \in Seq(FD) /\ IsInjective(events')
      /\ rdllist' \in Seq(FD) /\ IsInjective(rdllist')
      /\ \A x : x \in Range(rdllist') \/ x \in Range(events')
                  <=> x \in Range(rdllist) /\ Reported(x, Interest(x)) # {}
  <2> DEFINE stay == {fd \in Range(rdllist) : Reported(fd, Interest(fd)) # {}}
  <2>1. PICK live \in Kept(rdllist, stay) :
            LET nfds == Min({Len(live), DEFAULT_MAX_EVENTS})
            IN  /\ events' = SubSeq(live, 1, nfds)
                /\ rdllist' = SubSeq(live, nfds + 1, Len(live))
    OBVIOUS
  <2> DEFINE nfds == Min({Len(live), DEFAULT_MAX_EVENTS})
  <2>2. rdllist \in Seq(FD)
    BY DEF IInv, TypeOK
  <2>3. \A x : x \in stay <=> x \in Range(rdllist) /\ Reported(x, Interest(x)) # {}
    OBVIOUS
  <2> HIDE DEF stay
  <2>4. /\ live \in Seq(FD) /\ IsInjective(live)
        /\ \A x : x \in Range(live) <=> x \in Range(rdllist) /\ x \in stay
    BY <2>2, KeptFacts
  <2>5. events' = SubSeq(live, 1, nfds) /\ rdllist' = SubSeq(live, nfds + 1, Len(live))
    BY <2>1
  <2>6. nfds = Min({Len(live), DEFAULT_MAX_EVENTS})
    OBVIOUS
  <2> HIDE DEF nfds
  <2>7. LET batch == SubSeq(live, 1, nfds)
            rest == SubSeq(live, nfds + 1, Len(live))
        IN  /\ batch \in Seq(FD) /\ IsInjective(batch)
            /\ rest \in Seq(FD) /\ IsInjective(rest)
            /\ \A x : x \in Range(live) <=> x \in Range(batch) \/ x \in Range(rest)
    BY <2>4, <2>6, BatchFacts, Zenon
  <2> QED
    BY <2>3, <2>4, <2>5, <2>7, Zenon
<1>3. TypeOK'
  BY <1>1, <1>2 DEF IInv, TypeOK
<1>4. /\ ManagedNumber' /\ OwnedIsManaged' /\ OneOwner' /\ WaiterOwns' /\ WatchedIsAwaited'
      /\ FirstOperation'
  BY SameObjects
<1>5. LoopKnows'
  BY <1>1, <1>2 DEF LoopKnows, NobodyRuns, Running
<1>6. RegisteredFor' /\ ClosedIsQuiet' /\ LeftoverNeedsReuse'
  <2>1. RegisteredFor /\ ClosedIsQuiet /\ LeftoverNeedsReuse
    BY DEF IInv
  <2> QED
    BY <1>1, <2>1 DEF RegisteredFor, ClosedIsQuiet, LeftoverNeedsReuse
<1>7. WaiterQueued'
  <2>1. WaiterQueued
    BY DEF IInv
  <2> QED
    BY <1>1, <2>1 DEF WaiterQueued, Resuming
<1>8. WakeupDue'
  <2> SUFFICES ASSUME NEW c \in Co, co[c].pc = "suspended",
                      ready[co[c].op.aFD[1]] \cap
                        (({co[c].op.dir} \cap aFD[co[c].op.aFD].mIoState) \cup {"hup"}) # {}
               PROVE  co[c].op.aFD[1] \in Range(rdllist') \/ co[c].op.aFD[1] \in Range(events')
    BY DEF WakeupDue
  <2>1. mManagedFD[co[c].op.aFD[1]] = co[c].op.aFD /\ co[c].op.aFD[1] \in FD
    BY Owners, Objects
  <2>2. ~(\E i : i \in Range(events))
    BY <1>1 DEF Range
  <2>3. WakeupDue
    BY DEF IInv
  <2>4. co[c].op.aFD[1] \in Range(rdllist)
    BY <1>1, <2>2, <2>3 DEF WakeupDue
  <2>5. Reported(co[c].op.aFD[1], Interest(co[c].op.aFD[1])) # {}
    BY <2>1 DEF Reported, Interest
  <2> QED
    BY <1>2, <2>4, <2>5
<1>9. EventsAreGood'
  <2> SUFFICES ASSUME NEW fd \in Range(events'), mManagedFD[fd] # None
               PROVE  Good(mManagedFD[fd])'
    BY <1>1 DEF EventsAreGood
  <2> DEFINE a == mManagedFD[fd]
  <2>1. fd \in FD
    BY <1>2, RangeFacts
  <2>2. a \in AFD /\ a[1] = fd
    BY <2>1 DEF IInv, TypeOK, ManagedNumber
  <2>3. ready[fd] \cap (aFD[a].mIoState \cup {"hup"}) # {}
    BY <1>2 DEF Reported, Interest
  <2>4. /\ updated => aFD[a].mIoState = aFD[a].mNextIOState
        /\ ~updated => aFD[a].mIoState = {AttachDir(aFD[a].kind)}
        /\ aFD[a].fresh \/ aFD[a].kind = "pidfd" =>
              aFD[a].mNextIOState \subseteq {AttachDir(aFD[a].kind)}
    BY <1>1, <2>1 DEF IInv, RegisteredFor, FirstOperation
  <2> QED
    BY <2>2, <2>3, <2>4 DEF Good
<1>10. QueueIsWaiter'
  <2>1. QueueIsWaiter
    BY DEF IInv
  <2> QED
    BY <1>1, <2>1 DEF QueueIsWaiter, Resuming, Waits
<1> QED
  BY <1>3, <1>4, <1>5, <1>6, <1>7, <1>8, <1>9, <1>10 DEF IInv

\* An event is dropped only if nobody waits there.
LEMMA DispatchStep ==
    ASSUME IInv, Dispatch
    PROVE  IInv'
<1> DEFINE fd == Head(events)
           a == mManagedFD[fd]
           idle == a = None \/ aFD[a].mPendigOps = <<>>
<1>1. /\ loop.pc = "dispatch" /\ loop.aFD = None /\ NobodyRuns
      /\ events \in Seq(FD) /\ IsInjective(events) /\ events # <<>>
  BY DEF IInv, TypeOK, LoopKnows, Dispatch
<1>2. events' = Tail(events) /\ UNCHANGED <<aFD, mManagedFD, ready, rdllist, co, reused, updated>>
  BY DEF Dispatch, kernel
<1>3. /\ fd \in FD /\ events' \in Seq(FD) /\ IsInjective(events') /\ fd \notin Range(events')
      /\ \A x : x \in Range(events) <=> x = fd \/ x \in Range(events')
  BY <1>1, <1>2, TailFacts
<1>4. a # None => a \in AFD /\ a[1] = fd /\ aFD[a].mPendigOps \in Seq(Co)
  BY <1>3 DEF IInv, TypeOK, ManagedNumber, Object
<1>5. idle => UNCHANGED <<loop, misdelivered>>
  BY DEF Dispatch
<1>6. ~idle => /\ loop'.pc = "resume" /\ loop'.aFD = a
               /\ loop'.numPending = Len(aFD[a].mPendigOps)
               /\ loop' \in [pc : {"resume"}, aFD : AFD, numPending : Nat]
               /\ misdelivered' = (misdelivered \/ fd \in reused)
               /\ Len(aFD[a].mPendigOps) >= 1
  <2> SUFFICES ASSUME ~idle
               PROVE  /\ loop'.pc = "resume" /\ loop'.aFD = a
                      /\ loop'.numPending = Len(aFD[a].mPendigOps)
                      /\ loop' \in [pc : {"resume"}, aFD : AFD, numPending : Nat]
                      /\ misdelivered' = (misdelivered \/ fd \in reused)
                      /\ Len(aFD[a].mPendigOps) >= 1
    OBVIOUS
  <2>1. /\ loop' = [pc |-> "resume", aFD |-> a, numPending |-> Len(aFD[a].mPendigOps)]
        /\ misdelivered' = (misdelivered \/ fd \in reused)
    BY DEF Dispatch
  <2>2. Len(aFD[a].mPendigOps) >= 1 /\ Len(aFD[a].mPendigOps) \in Nat
    BY <1>4, TailFacts, RangeFacts
  <2> QED
    BY <1>4, <2>1, <2>2
<1> HIDE DEF fd, a
<1>7. TypeOK'
  <2>1. loop' \in [pc : {"startup", "wait", "dispatch", "resume", "resumed", "undefined"},
                   aFD : AFD \cup {None}, numPending : Nat]
    BY <1>5, <1>6 DEF IInv, TypeOK
  <2>2. misdelivered' \in BOOLEAN
    BY <1>5, <1>6 DEF IInv, TypeOK
  <2> QED
    BY <1>2, <1>3, <2>1, <2>2 DEF IInv, TypeOK
<1>8. /\ ManagedNumber' /\ OwnedIsManaged' /\ OneOwner' /\ WaiterOwns' /\ WatchedIsAwaited'
      /\ FirstOperation'
  BY <1>2, SameObjects
<1>9. LoopKnows'
  <2>1. NobodyRuns'
    BY <1>1, <1>2 DEF NobodyRuns, Running
  <2>2. CASE idle
    BY <1>1, <1>3, <1>5, <2>1, <2>2 DEF LoopKnows
  <2>3. CASE ~idle
    BY <1>2, <1>3, <1>4, <1>6, <2>1, <2>3 DEF LoopKnows
  <2> QED
    BY <2>2, <2>3
<1>10. RegisteredFor' /\ ClosedIsQuiet' /\ LeftoverNeedsReuse'
  <2>1. RegisteredFor /\ ClosedIsQuiet
    BY DEF IInv
  <2>2. loop'.pc \in {"dispatch", "resume"}
    BY <1>1, <1>5, <1>6
  <2> QED
    BY <1>2, <2>1, <2>2 DEF RegisteredFor, ClosedIsQuiet, LeftoverNeedsReuse
<1>11. \A x \in AFD : ~Resuming(x) /\ ~Resuming(x)'
  BY <1>1, <1>5, <1>6 DEF Resuming
<1>12. WaiterQueued'
  <2>1. WaiterQueued
    BY DEF IInv
  <2> QED
    BY <1>2, <1>11, <2>1, Owners DEF WaiterQueued
<1>13. WakeupDue'
  <2> SUFFICES ASSUME NEW c \in Co, co[c].pc = "suspended",
                      ready[co[c].op.aFD[1]] \cap
                        (({co[c].op.dir} \cap aFD[co[c].op.aFD].mIoState) \cup {"hup"}) # {}
               PROVE  \/ co[c].op.aFD[1] \in Range(rdllist) \cup Range(events')
                      \/ loop'.pc \in {"resume", "undefined"} /\ loop'.aFD = co[c].op.aFD
    BY <1>2 DEF WakeupDue
  <2>1. mManagedFD[co[c].op.aFD[1]] = co[c].op.aFD /\ co[c].op.aFD \in AFD
    BY Owners
  <2>2. WakeupDue
    BY DEF IInv
  <2>3. co[c].op.aFD[1] \in Range(rdllist) \/ co[c].op.aFD[1] = fd \/ co[c].op.aFD[1] \in Range(events')
    BY <1>1, <1>3, <2>2 DEF WakeupDue
  <2>4. CASE co[c].op.aFD[1] = fd
    <3>1. a = co[c].op.aFD /\ a # None
      BY <2>1, <2>4, Objects DEF a
    <3>2. \E i \in 1 .. Len(aFD[a].mPendigOps) : aFD[a].mPendigOps[i] = c
      BY <3>1 DEF IInv, WaiterQueued
    <3>3. aFD[a].mPendigOps # <<>>
      BY <3>2
    <3> QED
      BY <1>6, <3>1, <3>3
  <2> QED
    BY <2>3, <2>4
<1>14. EventsAreGood'
  <2>2. EventsAreGood /\ \A x \in FD : mManagedFD[x] # None => mManagedFD[x] \in AFD
    BY DEF IInv, TypeOK
  <2>3. ASSUME NEW x \in Range(events') \ reused, mManagedFD[x] # None
        PROVE  Good(mManagedFD[x])'
    <3>1. x \in FD /\ x \in Range(events) \ reused
      BY <1>3, RangeFacts
    <3>2. Good(mManagedFD[x])
      BY <2>2, <2>3, <3>1 DEF EventsAreGood
    <3> QED
      BY <1>2, <3>2 DEF Good
  <2>4. ASSUME loop'.pc = "resume", ~misdelivered' PROVE Good(loop.aFD)'
    <3>1. ~idle
      BY <1>1, <1>5, <2>4
    <3>2. fd \in Range(events) \ reused
      BY <1>3, <1>6, <2>4, <3>1
    <3>3. Good(a)
      BY <2>2, <3>1, <3>2 DEF EventsAreGood, a
    <3> QED
      BY <1>2, <1>6, <3>1, <3>3 DEF Good
  <2> QED
    BY <1>2, <2>3, <2>4 DEF EventsAreGood
<1>15. QueueIsWaiter'
  <2>1. QueueIsWaiter
    BY DEF IInv
  <2> SUFFICES ASSUME ~misdelivered'
               PROVE  /\ loop'.pc \in {"resume", "resumed"} => loop'.numPending = 1
                      /\ \A x \in AFD :
                            LET q == aFD[x].mPendigOps
                            IN  \/ Len(q) = 0 /\ \A c \in Co : ~Waits(c, x)
                                \/ Len(q) = 1 /\ Waits(q[1], x)
    BY <1>2, <1>11 DEF QueueIsWaiter, Waits
  <2>3. ~misdelivered
    BY <1>5, <1>6
  <2>4. \A x \in AFD : LET q == aFD[x].mPendigOps
                       IN  \/ Len(q) = 0 /\ \A c \in Co : ~Waits(c, x)
                           \/ Len(q) = 1 /\ Waits(q[1], x)
    BY <1>11, <2>1, <2>3 DEF QueueIsWaiter
  <2>5. loop'.pc \in {"resume", "resumed"} => loop'.numPending = 1
    <3>1. CASE idle
      BY <1>1, <1>5, <3>1
    <3>2. CASE ~idle
      <4>1. /\ Len(aFD[a].mPendigOps) = 0 \/ Len(aFD[a].mPendigOps) = 1
            /\ Len(aFD[a].mPendigOps) \in Nat
        BY <1>4, <2>4, <3>2
      <4>2. /\ Len(aFD[a].mPendigOps) >= 1
            /\ loop'.numPending = Len(aFD[a].mPendigOps)
        BY <1>6, <3>2, Zenon
      <4>3. Len(aFD[a].mPendigOps) = 1
        BY <4>1, <4>2
      <4> QED
        BY <4>2, <4>3
    <3> QED
      BY <3>1, <3>2
  <2> QED
    BY <2>4, <2>5
<1> QED
  BY <1>7, <1>8, <1>9, <1>10, <1>12, <1>13, <1>14, <1>15 DEF IInv


\* Every registration that changes is polled.
LEMMA UpdateIoStatesStep ==
    ASSUME IInv, UpdateIoStates
    PROVE  IInv'
<1> DEFINE changed == {fd \in FD : /\ mManagedFD[fd] # None
                                   /\ Interest(fd) # NextIoState(aFD[mManagedFD[fd]])}
           now == {fd \in changed : Reported(fd, NextIoState(aFD[mManagedFD[fd]])) # {}}
<1>1. /\ loop.pc = "dispatch" /\ events = <<>> /\ loop.aFD = None /\ NobodyRuns
      /\ loop' \in [pc : {"wait"}, aFD : AFD \cup {None}, numPending : Nat]
      /\ loop'.pc = "wait" /\ loop'.aFD = loop.aFD
      /\ updated' = TRUE
      /\ UNCHANGED <<mManagedFD, ready, events, co, reused, misdelivered>>
  BY DEF IInv, TypeOK, LoopKnows, UpdateIoStates
<1>2. aFD' = [a \in AFD |-> IF \E fd \in changed : mManagedFD[fd] = a
                            THEN [aFD[a] EXCEPT !.mIoState = NextIoState(aFD[a])]
                            ELSE aFD[a]]
  BY DEF UpdateIoStates
<1>3. \A a \in AFD : aFD[a] \in Object
  BY DEF IInv, TypeOK
<1>4. \A fd \in FD : mManagedFD[fd] # None =>
         /\ mManagedFD[fd] \in AFD
         /\ fd \in changed <=> aFD[mManagedFD[fd]].mIoState # aFD[mManagedFD[fd]].mNextIOState
         /\ fd \in now <=>
               /\ fd \in changed
               /\ ready[fd] \cap (aFD[mManagedFD[fd]].mNextIOState \cup {"hup"}) # {}
  BY DEF IInv, TypeOK, Interest, NextIoState, Reported
<1>5. PICK more \in SetToSeqs(now \ Range(rdllist)) : rdllist' = rdllist \o more
  BY DEF UpdateIoStates
<1>6. now \subseteq FD
  OBVIOUS
<1> HIDE DEF changed, now
<1>7. /\ aFD' \in [AFD -> Object]
      /\ \A a \in AFD : /\ aFD'[a].kind = aFD[a].kind /\ aFD'[a].fresh = aFD[a].fresh
                        /\ aFD'[a].mNextIOState = aFD[a].mNextIOState
                        /\ aFD'[a].mPendigOps = aFD[a].mPendigOps
  BY <1>2, <1>3 DEF Object, NextIoState
<1>8. \A fd \in FD : mManagedFD[fd] # None =>
         aFD'[mManagedFD[fd]].mIoState = aFD[mManagedFD[fd]].mNextIOState
  <2> SUFFICES ASSUME NEW fd \in FD, mManagedFD[fd] # None
               PROVE  aFD'[mManagedFD[fd]].mIoState = aFD[mManagedFD[fd]].mNextIOState
    OBVIOUS
  <2>1. mManagedFD[fd] \in AFD /\ aFD[mManagedFD[fd]] \in Object
    BY <1>3, <1>4
  <2>2. CASE \E g \in changed : mManagedFD[g] = mManagedFD[fd]
    BY <1>2, <2>1, <2>2 DEF Object, NextIoState
  <2>3. CASE ~ \E g \in changed : mManagedFD[g] = mManagedFD[fd]
    <3>1. fd \notin changed
      BY <2>3
    <3> QED
      BY <1>2, <1>4, <2>1, <2>3, <3>1
  <2> QED
    BY <2>2, <2>3
<1>9. /\ rdllist' \in Seq(FD) /\ IsInjective(rdllist')
      /\ \A x : x \in Range(rdllist') <=> x \in Range(rdllist) \/ x \in now
  <2>1. rdllist \in Seq(FD) /\ IsInjective(rdllist)
    BY DEF IInv, TypeOK
  <2> DEFINE rest == now \ Range(rdllist)
  <2>2. rest \subseteq FD /\ IsFiniteSet(rest)
    BY <1>6, FS_Subset, FDAssumption
  <2>3. more \in SetToSeqs(rest) /\ \A x : x \in rest <=> x \in now /\ x \notin Range(rdllist)
    OBVIOUS
  <2> HIDE DEF rest
  <2>4. more \in Seq(rest) /\ IsInjective(more) /\ \A x : x \in Range(more) <=> x \in rest
    BY <2>2, <2>3, SetToSeqsFacts
  <2>5. more \in Seq(FD)
    BY <2>2, <2>4, SeqMonotonic
  <2>6. \A x : ~(x \in Range(rdllist) /\ x \in Range(more))
    BY <2>3, <2>4
  <2>7. /\ rdllist \o more \in Seq(FD) /\ IsInjective(rdllist \o more)
        /\ \A x : x \in Range(rdllist \o more) <=> x \in Range(rdllist) \/ x \in Range(more)
    BY <2>1, <2>4, <2>5, <2>6, JoinFacts
  <2> QED
    BY <1>5, <2>3, <2>4, <2>7
<1>10. TypeOK'
  BY <1>1, <1>7, <1>9 DEF IInv, TypeOK
<1>11. ManagedNumber' /\ OwnedIsManaged' /\ OneOwner' /\ WaiterOwns' /\ ClosedIsQuiet'
  <2>1. ManagedNumber /\ OwnedIsManaged /\ OneOwner /\ WaiterOwns /\ ClosedIsQuiet
    BY DEF IInv
  <2> QED
    BY <1>1, <2>1 DEF ManagedNumber, OwnedIsManaged, OneOwner, WaiterOwns, ClosedIsQuiet
<1>12. LoopKnows'
  <2>1. IsInjective(events)
    BY DEF IInv, LoopKnows
  <2> QED
    BY <1>1, <2>1 DEF LoopKnows, NobodyRuns, Running
<1>13. WatchedIsAwaited'
  <2>1. WatchedIsAwaited
    BY DEF IInv
  <2> QED
    BY <1>1, <1>7, <2>1 DEF WatchedIsAwaited, Waits
<1>14. RegisteredFor' /\ FirstOperation' /\ LeftoverNeedsReuse'
  <2>1. RegisteredFor /\ FirstOperation
    BY DEF IInv
  <2>2. RegisteredFor'
    BY <1>1, <1>4, <1>7, <1>8, <2>1 DEF RegisteredFor
  <2>3. FirstOperation'
    BY <1>1, <1>4, <1>7, <2>1 DEF FirstOperation
  <2> QED
    BY <1>1, <2>2, <2>3 DEF LeftoverNeedsReuse
<1>15. WaiterQueued'
  <2>1. WaiterQueued
    BY DEF IInv
  <2> QED
    BY <1>1, <1>7, <2>1, Owners DEF WaiterQueued, Resuming
<1>16. WakeupDue'
  <2> SUFFICES ASSUME NEW c \in Co, co[c].pc = "suspended",
                      ready[co[c].op.aFD[1]] \cap
                        (({co[c].op.dir} \cap aFD'[co[c].op.aFD].mIoState) \cup {"hup"}) # {}
               PROVE  co[c].op.aFD[1] \in Range(rdllist')
    BY <1>1 DEF WakeupDue
  <2> DEFINE a == co[c].op.aFD
             fd == a[1]
  <2>1. mManagedFD[fd] = a /\ a # None /\ fd \in FD
    BY Owners, Objects
  <2>2. aFD'[a].mIoState = aFD[a].mNextIOState
    BY <1>8, <2>1
  <2>3. CASE aFD[a].mIoState # aFD[a].mNextIOState
    <3>1. fd \in now
      BY <1>4, <2>1, <2>2, <2>3
    <3> QED
      BY <1>9, <3>1
  <2>4. CASE aFD[a].mIoState = aFD[a].mNextIOState
    <3>1. fd \in Range(rdllist) \cup Range(events)
      BY <1>1, <2>2, <2>4 DEF IInv, WakeupDue
    <3>2. ~(fd \in Range(events))
      BY <1>1 DEF Range
    <3> QED
      BY <1>9, <3>1, <3>2
  <2> QED
    BY <2>3, <2>4
<1>17. EventsAreGood'
  <2>1. ~(\E x : x \in Range(events'))
    BY <1>1 DEF Range
  <2> QED
    BY <1>1, <2>1 DEF EventsAreGood
<1>18. QueueIsWaiter'
  <2>1. QueueIsWaiter
    BY DEF IInv
  <2> QED
    BY <1>1, <1>7, <2>1 DEF QueueIsWaiter, Resuming, Waits
<1> QED
  BY <1>10, <1>11, <1>12, <1>13, <1>14, <1>15, <1>16, <1>17, <1>18 DEF IInv

\* The handle that was resumed is popped, not the one queued since.
LEMMA PopStep ==
    ASSUME IInv, Pop
    PROVE  IInv'
<1> DEFINE a == loop.aFD
           q == aFD[a].mPendigOps
           more == loop.numPending > 1
           gone == ~more /\ mManagedFD[a[1]] # a
<1>1. /\ loop.pc = "resumed" /\ NobodyRuns /\ a \in AFD
      /\ loop.numPending \in Nat /\ loop.numPending >= 1 /\ Len(q) >= loop.numPending
      /\ a[1] \notin Range(events)
      /\ UNCHANGED <<mManagedFD, ready, rdllist, events, co, reused, misdelivered, updated>>
  BY DEF IInv, TypeOK, LoopKnows, Pop, kernel, history
<1>2. /\ q \in Seq(Co) /\ q # <<>> /\ Tail(q) \in Seq(Co) /\ Len(Tail(q)) = Len(q) - 1
      /\ Len(q) \in Nat
      /\ \A i \in 1 .. Len(q) - 1 : Tail(q)[i] = q[i + 1]
  <2>1. q \in Seq(Co)
    BY <1>1 DEF IInv, TypeOK, Object
  <2>2. q # <<>> /\ Len(q) \in Nat
    BY <1>1, <2>1
  <2> QED
    BY <2>1, <2>2, TailFacts
<1>3. aFD[a] \in Object
  BY <1>1 DEF IInv, TypeOK
<1>4. /\ more => loop' = [loop EXCEPT !.pc = "resume", !.numPending = @ - 1]
      /\ ~more => loop' = [pc |-> "dispatch", aFD |-> None, numPending |-> 0]
      /\ aFD' = [aFD EXCEPT ![a] = IF gone THEN Blank
                                   ELSE [aFD[a] EXCEPT !.mPendigOps = Tail(q)]]
  BY DEF Pop, Popped
<1>5. /\ aFD' \in [AFD -> Object]
      /\ \A x \in AFD : x # a => aFD'[x] = aFD[x]
      /\ ~gone => /\ aFD'[a].kind = aFD[a].kind /\ aFD'[a].fresh = aFD[a].fresh
                  /\ aFD'[a].mIoState = aFD[a].mIoState
                  /\ aFD'[a].mNextIOState = aFD[a].mNextIOState
                  /\ aFD'[a].mPendigOps = Tail(q)
      /\ gone => aFD'[a] = Blank
  <2>0. Blank \in Object
    BY DEF Blank, Object
  <2> HIDE DEF q
  <2>1. [aFD[a] EXCEPT !.mPendigOps = Tail(q)] \in Object
    BY <1>2, <1>3 DEF Object
  <2>2. aFD \in [AFD -> Object]
    BY DEF IInv, TypeOK
  <2> QED
    BY <1>1, <1>3, <1>4, <2>0, <2>1, <2>2 DEF Object
<1>6. gone => /\ \A c \in Co : ~Waits(c, a)
              /\ aFD[a].mNextIOState = {}
              /\ \A fd \in FD : mManagedFD[fd] # a
              /\ \A c \in Co : co[c].pc = "suspended" => co[c].op.aFD # a
  BY <1>1, Owners, Watched, Objects DEF IInv, ManagedNumber, Waits
<1>7. /\ more => /\ loop'.pc = "resume" /\ loop'.aFD = a /\ loop'.numPending = loop.numPending - 1
                 /\ loop' \in [pc : {"resume"}, aFD : AFD, numPending : Nat]
      /\ ~more => /\ loop'.pc = "dispatch" /\ loop'.aFD = None /\ loop'.numPending = 0
                  /\ loop' \in [pc : {"dispatch"}, aFD : {None}, numPending : Nat]
  <2>1. loop \in [pc : {"startup", "wait", "dispatch", "resume", "resumed", "undefined"},
                  aFD : AFD \cup {None}, numPending : Nat]
    BY DEF IInv, TypeOK
  <2>2. CASE more
    <3>1. loop' = [loop EXCEPT !.pc = "resume", !.numPending = loop.numPending - 1]
      BY <1>4, <2>2
    <3>2. loop.numPending - 1 \in Nat
      BY <1>1
    <3> QED
      BY <1>1, <2>1, <2>2, <3>1, <3>2
  <2>3. CASE ~more
    BY <1>4, <2>3
  <2> QED
    BY <2>2, <2>3
<1>8. more => misdelivered
  BY <1>1 DEF IInv, QueueIsWaiter
<1> HIDE DEF more, gone, a, q
<1>9. TypeOK'
  <2>1. loop' \in [pc : {"startup", "wait", "dispatch", "resume", "resumed", "undefined"},
                   aFD : AFD \cup {None}, numPending : Nat]
    BY <1>7
  <2> QED
    BY <1>1, <1>5, <2>1 DEF IInv, TypeOK
<1>10. ManagedNumber' /\ OwnedIsManaged' /\ OneOwner' /\ WaiterOwns' /\ ClosedIsQuiet'
  <2>1. ManagedNumber /\ OwnedIsManaged /\ OneOwner /\ WaiterOwns /\ ClosedIsQuiet
    BY DEF IInv
  <2> QED
    BY <1>1, <2>1 DEF ManagedNumber, OwnedIsManaged, OneOwner, WaiterOwns, ClosedIsQuiet
<1>11. LoopKnows'
  <2>1. IsInjective(events) /\ NobodyRuns'
    BY <1>1 DEF IInv, LoopKnows, NobodyRuns, Running
  <2>2. CASE more
    <3>1. /\ loop'.numPending >= 1 /\ Len(aFD'[a].mPendigOps) >= loop'.numPending
      BY <1>1, <1>2, <1>5, <1>7, <2>2 DEF more, gone
    <3> QED
      BY <1>1, <1>7, <2>1, <2>2, <3>1 DEF LoopKnows
  <2>3. CASE ~more
    BY <1>1, <1>7, <2>1, <2>3 DEF LoopKnows
  <2> QED
    BY <2>2, <2>3
<1>12. WatchedIsAwaited'
  <2>0. Blank.mNextIOState = {}
    BY DEF Blank
  <2>1. \A x \in AFD : aFD'[x].mNextIOState = aFD[x].mNextIOState
    BY <1>5, <1>6, <2>0
  <2>2. WatchedIsAwaited
    BY DEF IInv
  <2> QED
    BY <1>1, <2>1, <2>2 DEF WatchedIsAwaited, Waits
<1>13. \A fd \in FD : mManagedFD[fd] # None =>
          /\ mManagedFD[fd] \in AFD
          /\ aFD'[mManagedFD[fd]].kind = aFD[mManagedFD[fd]].kind
          /\ aFD'[mManagedFD[fd]].fresh = aFD[mManagedFD[fd]].fresh
          /\ aFD'[mManagedFD[fd]].mIoState = aFD[mManagedFD[fd]].mIoState
          /\ aFD'[mManagedFD[fd]].mNextIOState = aFD[mManagedFD[fd]].mNextIOState
  BY <1>5, <1>6 DEF IInv, TypeOK
<1>14. RegisteredFor' /\ FirstOperation' /\ LeftoverNeedsReuse'
  <2>1. RegisteredFor /\ FirstOperation
    BY DEF IInv
  <2>2. loop'.pc # "wait" /\ loop'.pc # "undefined"
    BY <1>7
  <2> QED
    BY <1>1, <1>13, <2>1, <2>2 DEF RegisteredFor, FirstOperation, LeftoverNeedsReuse
<1>15. \A x \in AFD : ~Resuming(x)' /\ (Resuming(x) <=> x = a)
  BY <1>1, <1>7 DEF Resuming, a
<1>16. WaiterQueued'
  <2> SUFFICES ASSUME NEW c \in Co, co[c].pc = "suspended"
               PROVE  \E i \in 1 .. Len(aFD'[co[c].op.aFD].mPendigOps) :
                          aFD'[co[c].op.aFD].mPendigOps[i] = c
    BY <1>1, <1>15, Owners DEF WaiterQueued
  <2>1. co[c].op.aFD \in AFD
    BY Owners
  <2>2. PICK i \in 1 .. Len(aFD[co[c].op.aFD].mPendigOps) :
            aFD[co[c].op.aFD].mPendigOps[i] = c /\ (Resuming(co[c].op.aFD) => i > 1)
    BY DEF IInv, WaiterQueued
  <2>3. CASE co[c].op.aFD # a
    BY <1>5, <2>1, <2>2, <2>3
  <2>4. CASE co[c].op.aFD = a
    <3>1. aFD'[a].mPendigOps = Tail(q)
      BY <1>5, <1>6, <2>4
    <3>2. i - 1 \in 1 .. Len(q) - 1 /\ i - 1 + 1 = i
      BY <1>2, <1>15, <2>1, <2>2, <2>4 DEF q
    <3>3. Tail(q)[i - 1] = c
      BY <1>2, <2>2, <2>4, <3>2 DEF q
    <3> QED
      BY <1>2, <2>4, <3>1, <3>2, <3>3
  <2> QED
    BY <2>3, <2>4
<1>17. WakeupDue'
  <2>1. \A c \in Co : co[c].pc = "suspended" =>
           /\ co[c].op.aFD \in AFD
           /\ aFD'[co[c].op.aFD].mIoState = aFD[co[c].op.aFD].mIoState
    BY <1>5, <1>6, Owners
  <2>2. WakeupDue
    BY DEF IInv
  <2> QED
    BY <1>1, <2>1, <2>2 DEF WakeupDue
<1>18. EventsAreGood'
  <2>1. ASSUME NEW fd \in Range(events) \ reused, mManagedFD[fd] # None
        PROVE  Good(mManagedFD[fd])'
    <3>1. fd \in FD
      BY RangeFacts DEF IInv, TypeOK
    <3>2. Good(mManagedFD[fd])
      BY <2>1 DEF IInv, EventsAreGood
    <3> QED
      BY <1>1, <1>13, <2>1, <3>1, <3>2 DEF Good
  <2>2. loop'.pc = "resume" => misdelivered
    BY <1>7, <1>8
  <2> QED
    BY <1>1, <2>1, <2>2 DEF EventsAreGood
<1>19. QueueIsWaiter'
  <2> SUFFICES ASSUME ~misdelivered
               PROVE  /\ loop'.pc \in {"resume", "resumed"} => loop'.numPending = 1
                      /\ \A x \in AFD :
                            \/ /\ Len(aFD'[x].mPendigOps) = 0
                               /\ \A c \in Co : ~Waits(c, x)
                            \/ /\ Len(aFD'[x].mPendigOps) = 1
                               /\ Waits(aFD'[x].mPendigOps[1], x)
    BY <1>1, <1>15 DEF QueueIsWaiter, Waits
  <2>1. loop'.pc = "dispatch" /\ QueueIsWaiter
    BY <1>7, <1>8 DEF IInv
  <2>2. ASSUME NEW x \in AFD, x # a
        PROVE  \/ Len(aFD'[x].mPendigOps) = 0 /\ \A c \in Co : ~Waits(c, x)
               \/ Len(aFD'[x].mPendigOps) = 1 /\ Waits(aFD'[x].mPendigOps[1], x)
    BY <1>5, <1>15, <2>1, <2>2 DEF QueueIsWaiter
  <2>3. \/ Len(aFD'[a].mPendigOps) = 0 /\ \A c \in Co : ~Waits(c, a)
        \/ Len(aFD'[a].mPendigOps) = 1 /\ Waits(aFD'[a].mPendigOps[1], a)
    <3>1. CASE gone
      BY <1>5, <1>6, <3>1 DEF Blank
    <3>2. CASE ~gone
      <4>1. \/ Len(q) = 1 /\ \A c \in Co : ~Waits(c, a)
            \/ Len(q) = 2 /\ Waits(q[2], a)
        BY <1>1, <1>15, <2>1 DEF QueueIsWaiter, q
      <4>2. aFD'[a].mPendigOps = Tail(q)
        BY <1>5, <3>2
      <4>3. CASE Len(q) = 1 /\ \A c \in Co : ~Waits(c, a)
        <5>1. Len(Tail(q)) = 0
          BY <1>2, <4>3
        <5> QED
          BY <4>2, <4>3, <5>1
      <4>4. CASE Len(q) = 2 /\ Waits(q[2], a)
        <5>1. 1 \in 1 .. Len(q) - 1 /\ 1 + 1 = 2 /\ Len(q) - 1 = 1
          BY <4>4
        <5>2. Tail(q)[1] = q[1 + 1]
          BY <1>2, <5>1
        <5> QED
          BY <1>2, <4>2, <4>4, <5>1, <5>2
      <4> QED
        BY <4>1, <4>3, <4>4
    <3> QED
      BY <3>1, <3>2
  <2> QED
    BY <2>1, <2>2, <2>3
<1> QED
  BY <1>9, <1>10, <1>11, <1>12, <1>14, <1>16, <1>17, <1>18, <1>19 DEF IInv


\* A coroutine gets an object, and waits for it if it connects.
LEMMA NewObjectStep ==
    ASSUME IInv, NEW c \in Co, NEW fd \in FD, NEW kind \in Kind,
           Running(c), mManagedFD[fd] = None,
           mManagedFD' = [mManagedFD EXCEPT ![fd] = NewAFD(fd)],
           aFD' = [aFD EXCEPT ![NewAFD(fd)] = IF kind = "connecting"
                                              THEN Pending(Attached(kind), c, "out")
                                              ELSE Attached(kind)],
           co' = [co EXCEPT ![c] = IF kind = "connecting"
                                   THEN [pc |-> "suspended",
                                         owned |-> co[c].owned \cup {NewAFD(fd)},
                                         op |-> [aFD |-> NewAFD(fd), dir |-> "out"]]
                                   ELSE [co[c] EXCEPT !.owned = @ \cup {NewAFD(fd)}]],
           reused' = reused \cup ({fd} \cap Range(events)),
           UNCHANGED <<ready, rdllist, loop, events, misdelivered, updated>>
    PROVE  IInv'
<1>0. PICK n : n = NewAFD(fd)
  OBVIOUS
<1>1. /\ n \in AFD /\ n[1] = fd /\ n # loop.aFD
      /\ \A g \in FD : mManagedFD[g] # n
      /\ \A d \in Co : n \notin co[d].owned /\ ~Waits(d, n)
      /\ \A d \in Co : \A a \in co[d].owned : a[1] # fd
  BY <1>0, NewFacts
<1>2. loop.pc \in {"startup", "resumed"} /\ co[c].pc = "run"
  BY WhoRuns
<1>3. mManagedFD'[fd] = n /\ \A g \in FD : g # fd => mManagedFD'[g] = mManagedFD[g]
  BY <1>0 DEF IInv, TypeOK
<1>4. /\ Append(<<>>, c) \in Seq(Co) /\ Len(Append(<<>>, c)) = 1 /\ Append(<<>>, c)[1] = c
      /\ Len(<<>>) = 0 /\ <<>> \in Seq(Co)
  OBVIOUS
<1>5. /\ Attached(kind) \in Object
      /\ Attached(kind).kind = kind /\ Attached(kind).fresh = TRUE
      /\ Attached(kind).mIoState = {AttachDir(kind)}
      /\ Attached(kind).mNextIOState = {} /\ Attached(kind).mPendigOps = <<>>
  BY <1>4 DEF Attached, Object, AttachDir, Dir
<1>6. LET o == Pending(Attached(kind), c, "out")
      IN  /\ o \in Object
          /\ o.kind = kind /\ o.fresh = TRUE /\ o.mIoState = {AttachDir(kind)}
          /\ o.mNextIOState = {"out"} /\ o.mPendigOps = Append(<<>>, c)
  <2>1. /\ Watch(Attached(kind), "out") \in Object
        /\ Watch(Attached(kind), "out").kind = kind
        /\ Watch(Attached(kind), "out").fresh = TRUE
        /\ Watch(Attached(kind), "out").mIoState = {AttachDir(kind)}
        /\ Watch(Attached(kind), "out").mNextIOState = {"out"}
        /\ Watch(Attached(kind), "out").mPendigOps = <<>>
    BY <1>5 DEF Watch, Object, Dir
  <2> QED
    BY <1>4, <2>1 DEF Pending, Object
<1>7. /\ aFD' \in [AFD -> Object]
      /\ \A x \in AFD : x # n => aFD'[x] = aFD[x]
      /\ aFD'[n].kind = kind /\ aFD'[n].fresh = TRUE /\ aFD'[n].mIoState = {AttachDir(kind)}
      /\ kind = "connecting" =>
            aFD'[n].mNextIOState = {"out"} /\ aFD'[n].mPendigOps = Append(<<>>, c)
      /\ kind # "connecting" => aFD'[n].mNextIOState = {} /\ aFD'[n].mPendigOps = <<>>
  <2>1. aFD \in [AFD -> Object]
    BY DEF IInv, TypeOK
  <2> QED
    BY <1>0, <1>1, <1>5, <1>6, <2>1
<1>8. /\ \A d \in Co : d # c => co'[d] = co[d]
      /\ co'[c].owned = co[c].owned \cup {n}
      /\ kind = "connecting" =>
            /\ co'[c].pc = "suspended" /\ co'[c].op = [aFD |-> n, dir |-> "out"]
            /\ co'[c].op \in Op /\ co'[c].op.aFD = n /\ co'[c].op.dir = "out"
      /\ kind # "connecting" => co'[c].pc = "run" /\ co'[c].op = co[c].op
      /\ co' \in [Co -> [pc : {"start", "run", "suspended"}, owned : SUBSET AFD,
                         op : Op \cup {None}]]
  <2>1. co \in [Co -> [pc : {"start", "run", "suspended"}, owned : SUBSET AFD,
                       op : Op \cup {None}]]
    BY DEF IInv, TypeOK
  <2>2. [aFD |-> n, dir |-> "out"] \in Op
    BY <1>1 DEF Op, Dir
  <2> QED
    BY <1>0, <1>1, <1>2, <2>1, <2>2
<1>9. \A d \in Co : /\ \A x : Waits(d, x)' <=> Waits(d, x) \/ (kind = "connecting" /\ d = c /\ x = n)
                    /\ co'[d].pc = "suspended" =>
                          \/ co[d].pc = "suspended" /\ co'[d].op = co[d].op /\ d # c
                          \/ kind = "connecting" /\ d = c
  BY <1>2, <1>8 DEF Waits
<1>10. TypeOK'
  <2>1. mManagedFD' \in [FD -> AFD \cup {None}] /\ reused' \subseteq FD
    BY <1>0, <1>1 DEF IInv, TypeOK
  <2> QED
    BY <1>7, <1>8, <2>1 DEF IInv, TypeOK
<1>11. ManagedNumber'
  BY <1>1, <1>3 DEF IInv, ManagedNumber
<1>12. OwnedIsManaged'
  <2>1. \A d \in Co : \A a \in co[d].owned : a \in AFD /\ a[1] \in FD /\ mManagedFD[a[1]] = a
    BY Owners, Objects
  <2> QED
    BY <1>1, <1>3, <1>8, <2>1 DEF OwnedIsManaged
<1>13. OneOwner' /\ WaiterOwns'
  <2>1. OneOwner /\ WaiterOwns
    BY DEF IInv
  <2>2. OneOwner'
    BY <1>1, <1>8, <2>1 DEF OneOwner
  <2>3. WaiterOwns'
    BY <1>8, <1>9, <2>1 DEF WaiterOwns
  <2> QED
    BY <2>2, <2>3
<1>14. LoopKnows'
  <2>1. LoopKnows
    BY DEF IInv
  <2>2. loop.pc = "resumed" => loop.aFD \in AFD /\ aFD'[loop.aFD] = aFD[loop.aFD]
    BY <1>1, <1>7, <2>1 DEF LoopKnows
  <2> QED
    BY <1>2, <2>1, <2>2 DEF LoopKnows
<1>15. WatchedIsAwaited'
  <2>1. ASSUME NEW x \in AFD, x # n
        PROVE  aFD'[x].mNextIOState = {co'[d].op.dir : d \in {e \in Co : Waits(e, x)'}}
    <3>1. \A d \in Co : Waits(d, x)' <=> Waits(d, x)
      BY <1>9, <2>1
    <3>2. \A d \in Co : Waits(d, x) => co'[d].op = co[d].op
      BY <1>2, <1>8 DEF Waits
    <3>3. aFD[x].mNextIOState = {co[d].op.dir : d \in {e \in Co : Waits(e, x)}}
      BY DEF IInv, WatchedIsAwaited
    <3> QED
      BY <1>7, <2>1, <3>1, <3>2, <3>3
  <2>2. aFD'[n].mNextIOState = {co'[d].op.dir : d \in {e \in Co : Waits(e, n)'}}
    <3>1. \A d \in Co : Waits(d, n)' <=> kind = "connecting" /\ d = c
      BY <1>1, <1>9
    <3>2. CASE kind = "connecting"
      BY <1>7, <1>8, <3>1, <3>2
    <3>3. CASE kind # "connecting"
      BY <1>7, <3>1, <3>3
    <3> QED
      BY <3>2, <3>3
  <2> QED
    BY <2>1, <2>2 DEF WatchedIsAwaited
<1>16. \A g \in FD : mManagedFD'[g] # None =>
          \/ g # fd /\ mManagedFD'[g] = mManagedFD[g]
             /\ mManagedFD[g] \in AFD /\ mManagedFD[g] # n
             /\ aFD'[mManagedFD[g]] = aFD[mManagedFD[g]]
          \/ g = fd /\ mManagedFD'[g] = n
  BY <1>1, <1>3, <1>7 DEF IInv, TypeOK
<1>17. RegisteredFor'
  <2>1. RegisteredFor
    BY DEF IInv
  <2> QED
    BY <1>2, <1>7, <1>16, <2>1 DEF RegisteredFor
<1>18. FirstOperation'
  <2>1. FirstOperation
    BY DEF IInv
  <2>2. kind = "connecting" => AttachDir(kind) = "out"
    BY DEF AttachDir
  <2> QED
    BY <1>7, <1>16, <2>1, <2>2 DEF FirstOperation
<1>19. ClosedIsQuiet' /\ LeftoverNeedsReuse'
  BY <1>1, <1>3, Objects DEF IInv, ClosedIsQuiet, LeftoverNeedsReuse
<1>20. WaiterQueued'
  <2> SUFFICES ASSUME NEW d \in Co, co'[d].pc = "suspended"
               PROVE  LET r == aFD'[co'[d].op.aFD].mPendigOps
                      IN  \E i \in 1 .. Len(r) :
                             r[i] = d /\ (Resuming(co[d].op.aFD)' => i > 1)
    BY DEF WaiterQueued
  <2>1. CASE kind = "connecting" /\ d = c
    <3>1. aFD'[co'[d].op.aFD].mPendigOps = Append(<<>>, c) /\ ~Resuming(co[d].op.aFD)'
      BY <1>1, <1>7, <1>8, <2>1 DEF Resuming
    <3> QED
      BY <1>4, <2>1, <3>1
  <2>2. CASE co[d].pc = "suspended" /\ co'[d].op = co[d].op /\ d # c
    <3>1. co[d].op.aFD \in AFD /\ co[d].op.aFD # n
      BY <1>1, <2>2, Owners DEF Waits
    <3> QED
      BY <1>7, <2>2, <3>1 DEF IInv, WaiterQueued, Resuming
  <2> QED
    BY <1>9, <2>1, <2>2
<1>21. WakeupDue'
  <2> SUFFICES ASSUME NEW d \in Co, co'[d].pc = "suspended",
                      ready[co'[d].op.aFD[1]] \cap
                        (({co'[d].op.dir} \cap aFD'[co'[d].op.aFD].mIoState) \cup {"hup"}) # {}
               PROVE  co'[d].op.aFD[1] \in Range(rdllist) \cup Range(events)
    BY DEF WakeupDue
  <2>1. ~(kind = "connecting" /\ d = c)
    BY <1>1, <1>8 DEF IInv, ClosedIsQuiet
  <2>2. co[d].pc = "suspended" /\ co'[d].op = co[d].op /\ d # c
    BY <1>9, <2>1
  <2>3. co[d].op.aFD \in AFD /\ co[d].op.aFD # n
    BY <1>1, <2>2, Owners DEF Waits
  <2>4. aFD'[co'[d].op.aFD] = aFD[co[d].op.aFD]
    BY <1>7, <2>2, <2>3
  <2> QED
    BY <1>2, <2>2, <2>4 DEF IInv, WakeupDue
<1>22. EventsAreGood'
  <2> SUFFICES ASSUME NEW g \in Range(events) \ reused', mManagedFD'[g] # None
               PROVE  Good(mManagedFD[g])'
    BY <1>2 DEF EventsAreGood
  <2>1. g \in FD /\ g # fd /\ g \in Range(events) \ reused
    BY RangeFacts DEF IInv, TypeOK
  <2>2. Good(mManagedFD[g])
    BY <1>3, <2>1 DEF IInv, EventsAreGood
  <2> QED
    BY <1>16, <2>1, <2>2 DEF Good
<1>23. QueueIsWaiter'
  <2> SUFFICES ASSUME ~misdelivered, NEW x \in AFD
               PROVE  LET r == aFD'[x].mPendigOps
                      IN  /\ ~Resuming(x)' => \/ Len(r) = 0 /\ \A d \in Co : ~Waits(d, x)'
                                              \/ Len(r) = 1 /\ Waits(aFD[x].mPendigOps[1], x)'
                          /\ Resuming(x)' => \/ Len(r) = 1 /\ \A d \in Co : ~Waits(d, x)'
                                             \/ Len(r) = 2 /\ Waits(aFD[x].mPendigOps[2], x)'
    BY DEF IInv, QueueIsWaiter
  <2>1. Resuming(x)' <=> Resuming(x)
    BY DEF Resuming
  <2>2. CASE x # n
    <3>1. aFD[x].mPendigOps \in Seq(Co)
      BY DEF IInv, TypeOK, Object
    <3>2. /\ Len(aFD[x].mPendigOps) = 1 => aFD[x].mPendigOps[1] \in Co
          /\ Len(aFD[x].mPendigOps) = 2 => aFD[x].mPendigOps[2] \in Co
      BY <3>1, RangeFacts
    <3>3. /\ ~Resuming(x) => \/ Len(aFD[x].mPendigOps) = 0 /\ \A d \in Co : ~Waits(d, x)
                             \/ Len(aFD[x].mPendigOps) = 1 /\ Waits(aFD[x].mPendigOps[1], x)
          /\ Resuming(x) => \/ Len(aFD[x].mPendigOps) = 1 /\ \A d \in Co : ~Waits(d, x)
                            \/ Len(aFD[x].mPendigOps) = 2 /\ Waits(aFD[x].mPendigOps[2], x)
      BY DEF IInv, QueueIsWaiter
    <3>4. aFD'[x].mPendigOps = aFD[x].mPendigOps /\ \A d \in Co : Waits(d, x)' <=> Waits(d, x)
      BY <1>7, <1>9, <2>2
    <3>5. /\ Waits(aFD[x].mPendigOps[1], x) /\ aFD[x].mPendigOps[1] \in Co =>
                Waits(aFD[x].mPendigOps[1], x)'
          /\ Waits(aFD[x].mPendigOps[2], x) /\ aFD[x].mPendigOps[2] \in Co =>
                Waits(aFD[x].mPendigOps[2], x)'
      BY <1>2, <1>8, <3>4 DEF Waits
    <3> QED
      BY <2>1, <3>2, <3>3, <3>4, <3>5
  <2>3. CASE x = n
    <3>1. ~Resuming(x)'
      BY <1>1, <2>3 DEF Resuming
    <3>2. CASE kind = "connecting"
      <4>1. aFD'[x].mPendigOps = Append(<<>>, c)
        BY <1>7, <2>3, <3>2
      <4>2. Waits(aFD[x].mPendigOps[1], x)'
        BY <1>4, <1>8, <2>3, <3>2, <4>1 DEF Waits
      <4> QED
        BY <1>4, <3>1, <4>1, <4>2
    <3>3. CASE kind # "connecting"
      <4>1. Len(aFD'[x].mPendigOps) = 0
        BY <1>4, <1>7, <2>3, <3>3
      <4>2. \A d \in Co : ~Waits(d, x)'
        BY <1>1, <1>9, <2>3, <3>3
      <4> QED
        BY <3>1, <4>1, <4>2
    <3> QED
      BY <3>2, <3>3
  <2> QED
    BY <2>2, <2>3
<1> QED
  BY <1>10, <1>11, <1>12, <1>13, <1>14, <1>15, <1>17, <1>18, <1>19, <1>20, <1>21, <1>22, <1>23
     DEF IInv

\* A descriptor is registered.
LEMMA RegisterFDStep ==
    ASSUME IInv, NEW c \in Co, NEW fd \in FD, NEW kind \in Used, RegisterFD(c, fd, kind)
    PROVE  IInv'
<1>1. kind \in Kind /\ kind # "connecting" /\ Running(c) /\ mManagedFD[fd] = None
  BY UsedAssumption DEF RegisterFD
<1> QED
  BY <1>1, NewObjectStep DEF RegisterFD, kernel

\* A socket is registered and its coroutine waits for the connection.
LEMMA ConnectStep ==
    ASSUME IInv, NEW c \in Co, NEW fd \in FD, Connect(c, fd)
    PROVE  IInv'
<1>1. "connecting" \in Kind /\ Running(c) /\ mManagedFD[fd] = None
  BY DEF Connect, Kind
<1> QED
  BY <1>1, NewObjectStep DEF Connect, kernel


\* What a system call may use up.
LEMMA ConsumeFacts ==
    ASSUME IInv, NEW a \in AFD, NEW dir \in Dir, Consume(a, dir)
    PROVE  /\ ready' \in [FD -> SUBSET (Dir \cup {"hup"})]
           /\ \A g \in FD : ready'[g] \subseteq ready[g]
           /\ \A g \in FD : g # a[1] => ready'[g] = ready[g]
           /\ "hup" \in ready[a[1]] \/ aFD[a].kind = "pidfd" => ready'[a[1]] = ready[a[1]]
<1>1. a[1] \in FD /\ ready \in [FD -> SUBSET (Dir \cup {"hup"})]
  BY Objects DEF IInv, TypeOK
<1>2. CASE UNCHANGED ready
  BY <1>1, <1>2
<1>3. CASE /\ "hup" \notin ready[a[1]] /\ aFD[a].kind # "pidfd"
           /\ ready' = [ready EXCEPT ![a[1]] = @ \ {dir}]
  BY <1>1, <1>3
<1> QED
  BY <1>2, <1>3 DEF Consume

\* An operation that is over at once leaves nothing behind but readiness.
LEMMA CompleteAtOnceStep ==
    ASSUME IInv, NEW c \in Co, NEW op \in Op, CompleteAtOnce(c, op)
    PROVE  IInv'
<1>0. PICK a : a = op.aFD
  OBVIOUS
<1>1. /\ Running(c) /\ a \in co[c].owned /\ OpReady(op) /\ Consume(a, op.dir)
      /\ aFD' = [aFD EXCEPT ![a] = Unwatch(Watch(aFD[a], op.dir), op.dir)]
      /\ UNCHANGED <<mManagedFD, rdllist, loop, events, co, reused, misdelivered, updated>>
  BY <1>0 DEF CompleteAtOnce, MayAwait, history
<1>2. /\ a \in AFD /\ op.dir \in Dir /\ a[1] \in FD /\ mManagedFD[a[1]] = a
      /\ aFD[a] \in Object /\ aFD \in [AFD -> Object]
  BY <1>0, <1>1, Owners, Objects DEF Op, IInv, TypeOK
<1>3. loop.pc \in {"startup", "resumed"} /\ co[c].pc = "run"
  BY <1>1, WhoRuns
<1>4. aFD[a].mNextIOState = {} /\ \A d \in Co : ~Waits(d, a)
  BY <1>1, <1>2, <1>3, Watched
<1>5. /\ aFD' \in [AFD -> Object]
      /\ \A x \in AFD : x # a => aFD'[x] = aFD[x]
      /\ aFD'[a].kind = aFD[a].kind /\ aFD'[a].mIoState = aFD[a].mIoState
      /\ aFD'[a].mNextIOState = {} /\ aFD'[a].mPendigOps = aFD[a].mPendigOps
      /\ aFD'[a].fresh = FALSE
  <2>1. /\ Watch(aFD[a], op.dir) \in Object
        /\ Watch(aFD[a], op.dir).kind = aFD[a].kind
        /\ Watch(aFD[a], op.dir).mIoState = aFD[a].mIoState
        /\ Watch(aFD[a], op.dir).mNextIOState = {op.dir}
        /\ Watch(aFD[a], op.dir).mPendigOps = aFD[a].mPendigOps
    BY <1>2, <1>4 DEF Watch, Object
  <2> QED
    BY <1>1, <1>2, <2>1 DEF Unwatch, Object
<1>6. /\ ready' \in [FD -> SUBSET (Dir \cup {"hup"})]
      /\ \A g \in FD : ready'[g] \subseteq ready[g]
      /\ \A g \in FD : g # a[1] => ready'[g] = ready[g]
      /\ "hup" \in ready[a[1]] \/ aFD[a].kind = "pidfd" => ready'[a[1]] = ready[a[1]]
  BY <1>1, <1>2, ConsumeFacts
<1>7. \A x \in AFD : /\ aFD'[x].kind = aFD[x].kind /\ aFD'[x].mIoState = aFD[x].mIoState
                     /\ aFD'[x].mNextIOState = aFD[x].mNextIOState
                     /\ aFD'[x].mPendigOps = aFD[x].mPendigOps
                     /\ aFD'[x].fresh => aFD[x].fresh
  BY <1>4, <1>5
<1>8. TypeOK'
  BY <1>1, <1>5, <1>6 DEF IInv, TypeOK
<1>9. ManagedNumber' /\ OwnedIsManaged' /\ OneOwner' /\ WaiterOwns'
  <2>1. ManagedNumber /\ OwnedIsManaged /\ OneOwner /\ WaiterOwns
    BY DEF IInv
  <2> QED
    BY <1>1, <2>1 DEF ManagedNumber, OwnedIsManaged, OneOwner, WaiterOwns
<1>10. LoopKnows'
  <2>1. LoopKnows
    BY DEF IInv
  <2> QED
    BY <1>1, <1>3, <1>7, <2>1 DEF LoopKnows
<1>11. WatchedIsAwaited'
  <2>1. WatchedIsAwaited
    BY DEF IInv
  <2> QED
    BY <1>1, <1>7, <2>1 DEF WatchedIsAwaited, Waits
<1>12. \A g \in FD : mManagedFD[g] # None => mManagedFD[g] \in AFD
  BY DEF IInv, TypeOK
<1>13. RegisteredFor'
  <2>1. RegisteredFor
    BY DEF IInv
  <2> QED
    BY <1>1, <1>3, <1>7, <1>12, <2>1 DEF RegisteredFor
<1>14. FirstOperation'
  <2>1. FirstOperation
    BY DEF IInv
  <2> QED
    BY <1>1, <1>7, <1>12, <2>1 DEF FirstOperation
<1>15. ClosedIsQuiet' /\ LeftoverNeedsReuse'
  <2>1. ClosedIsQuiet /\ LeftoverNeedsReuse
    BY DEF IInv
  <2> QED
    BY <1>1, <1>6, <2>1 DEF ClosedIsQuiet, LeftoverNeedsReuse
<1>16. WaiterQueued'
  <2>1. WaiterQueued
    BY DEF IInv
  <2> QED
    BY <1>1, <1>7, <2>1, Owners DEF WaiterQueued, Resuming
<1>17. WakeupDue'
  <2>1. WakeupDue
    BY DEF IInv
  <2>2. \A d \in Co : co[d].pc = "suspended" => co[d].op.aFD \in AFD /\ co[d].op.aFD[1] \in FD
    BY Owners, Objects
  <2> QED
    BY <1>1, <1>6, <1>7, <2>1, <2>2 DEF WakeupDue
<1>18. EventsAreGood'
  <2> SUFFICES ASSUME NEW g \in Range(events) \ reused, mManagedFD[g] # None
               PROVE  Good(mManagedFD[g])'
    BY <1>1, <1>3 DEF EventsAreGood
  <2>1. g \in FD
    BY RangeFacts DEF IInv, TypeOK
  <2>2. Good(mManagedFD[g]) /\ mManagedFD[g] \in AFD /\ mManagedFD[g][1] = g
    BY <2>1 DEF IInv, EventsAreGood, TypeOK, ManagedNumber
  <2>3. CASE g # a[1]
    BY <1>1, <1>2, <1>5, <1>6, <2>1, <2>2, <2>3 DEF Good
  <2>4. CASE g = a[1]
    <3>1. mManagedFD[g] = a /\ Good(a)
      BY <1>2, <2>2, <2>4
    <3>2. CASE updated
      <4>1. "hup" \in ready[a[1]]
        BY <1>4, <3>1, <3>2 DEF Good
      <4> QED
        BY <1>1, <1>6, <3>1, <4>1 DEF Good
    <3>3. CASE ~updated /\ aFD[a].kind = "pidfd"
      BY <1>1, <1>4, <1>5, <1>6, <3>1, <3>3 DEF Good
    <3>4. CASE ~updated /\ aFD[a].kind # "pidfd"
      BY <1>1, <1>5, <3>1, <3>4 DEF Good
    <3> QED
      BY <3>2, <3>3, <3>4
  <2> QED
    BY <2>3, <2>4
<1>19. QueueIsWaiter'
  <2>1. QueueIsWaiter
    BY DEF IInv
  <2> QED
    BY <1>1, <1>7, <2>1 DEF QueueIsWaiter, Resuming, Waits
<1> QED
  BY <1>8, <1>9, <1>10, <1>11, <1>13, <1>14, <1>15, <1>16, <1>17, <1>18, <1>19 DEF IInv

\* A coroutine waits on its object, behind the handle that is to be popped.
LEMMA SuspendStep ==
    ASSUME IInv, NEW c \in Co, NEW op \in Op, Suspend(c, op)
    PROVE  IInv'
<1>0. PICK a : a = op.aFD
  OBVIOUS
<1>1. /\ Running(c) /\ a \in co[c].owned /\ ~OpReady(op) /\ op.dir \in Dirs(aFD[a])
      /\ aFD' = [aFD EXCEPT ![a] = Pending(aFD[a], c, op.dir)]
      /\ co' = [co EXCEPT ![c].pc = "suspended", ![c].op = op]
      /\ UNCHANGED <<mManagedFD, ready, rdllist, loop, events, reused, misdelivered, updated>>
  BY <1>0 DEF Suspend, MayAwait, history, kernel
<1>2. /\ a \in AFD /\ op.dir \in Dir /\ a[1] \in FD /\ mManagedFD[a[1]] = a
      /\ aFD[a] \in Object /\ aFD \in [AFD -> Object] /\ a # None
  BY <1>0, <1>1, Owners, Objects DEF Op, IInv, TypeOK
<1>3. loop.pc \in {"startup", "resumed"} /\ co[c].pc = "run"
  BY <1>1, WhoRuns
<1>4. aFD[a].mNextIOState = {} /\ \A d \in Co : ~Waits(d, a)
  BY <1>1, <1>2, <1>3, Watched
<1>5. /\ aFD' \in [AFD -> Object]
      /\ \A x \in AFD : x # a => aFD'[x] = aFD[x]
      /\ aFD'[a].kind = aFD[a].kind /\ aFD'[a].mIoState = aFD[a].mIoState
      /\ aFD'[a].mNextIOState = {op.dir} /\ aFD'[a].mPendigOps = Append(aFD[a].mPendigOps, c)
      /\ aFD'[a].fresh = aFD[a].fresh
  <2>1. /\ Watch(aFD[a], op.dir) \in Object
        /\ Watch(aFD[a], op.dir).kind = aFD[a].kind
        /\ Watch(aFD[a], op.dir).mIoState = aFD[a].mIoState
        /\ Watch(aFD[a], op.dir).mNextIOState = {op.dir}
        /\ Watch(aFD[a], op.dir).mPendigOps = aFD[a].mPendigOps
        /\ Watch(aFD[a], op.dir).fresh = aFD[a].fresh
    BY <1>2, <1>4 DEF Watch, Object
  <2>2. Append(aFD[a].mPendigOps, c) \in Seq(Co)
    BY <1>2 DEF Object
  <2> QED
    BY <1>1, <1>2, <2>1, <2>2 DEF Pending, Object
<1>6. /\ \A d \in Co : d # c => co'[d] = co[d]
      /\ co'[c].pc = "suspended" /\ co'[c].op = op /\ co'[c].owned = co[c].owned
      /\ co' \in [Co -> [pc : {"start", "run", "suspended"}, owned : SUBSET AFD,
                         op : Op \cup {None}]]
  <2>1. co \in [Co -> [pc : {"start", "run", "suspended"}, owned : SUBSET AFD,
                       op : Op \cup {None}]]
    BY DEF IInv, TypeOK
  <2> QED
    BY <1>1, <2>1
<1>7. /\ \A d \in Co : co'[d].owned = co[d].owned
      /\ \A d \in Co : \A x : Waits(d, x)' <=> Waits(d, x) \/ (d = c /\ x = a)
      /\ \A d \in Co : co'[d].pc = "suspended" =>
            \/ co[d].pc = "suspended" /\ co'[d].op = co[d].op /\ d # c /\ co[d].op.aFD # a
            \/ d = c
  BY <1>0, <1>3, <1>4, <1>6 DEF Waits
<1>8. LET q == aFD[a].mPendigOps
          r == aFD'[a].mPendigOps
      IN  /\ q \in Seq(Co) /\ Len(q) \in Nat /\ Len(r) = Len(q) + 1 /\ r[Len(q) + 1] = c
          /\ \A i \in 1 .. Len(q) : r[i] = q[i]
  <2>1. aFD[a].mPendigOps \in Seq(Co)
    BY <1>2 DEF Object
  <2> QED
    BY <1>5, <2>1, AppendFacts, RangeFacts
<1>9. TypeOK'
  BY <1>1, <1>5, <1>6 DEF IInv, TypeOK
<1>10. ManagedNumber' /\ OwnedIsManaged' /\ OneOwner' /\ WaiterOwns'
  <2>1. ManagedNumber /\ OwnedIsManaged /\ OneOwner /\ WaiterOwns
    BY DEF IInv
  <2>2. ManagedNumber' /\ OwnedIsManaged' /\ OneOwner'
    BY <1>1, <1>7, <2>1 DEF ManagedNumber, OwnedIsManaged, OneOwner
  <2>3. WaiterOwns'
    BY <1>0, <1>1, <1>6, <1>7, <2>1 DEF WaiterOwns
  <2> QED
    BY <2>2, <2>3
<1>11. LoopKnows'
  <2>1. LoopKnows
    BY DEF IInv
  <2>2. loop.pc = "resumed" =>
           Len(aFD'[loop.aFD].mPendigOps) >= loop.numPending /\ loop.numPending \in Nat
    <3>1. loop.pc = "resumed" => /\ Len(aFD[loop.aFD].mPendigOps) >= loop.numPending
                                 /\ loop.numPending \in Nat /\ loop.aFD \in AFD
      BY <2>1 DEF LoopKnows, IInv, TypeOK
    <3>2. CASE loop.aFD # a
      BY <1>5, <3>1, <3>2
    <3>3. CASE loop.aFD = a
      BY <1>8, <3>1, <3>3
    <3> QED
      BY <3>2, <3>3
  <2> QED
    BY <1>1, <1>3, <2>1, <2>2 DEF LoopKnows
<1>12. WatchedIsAwaited'
  <2>1. ASSUME NEW x \in AFD, x # a
        PROVE  aFD'[x].mNextIOState = {co'[d].op.dir : d \in {e \in Co : Waits(e, x)'}}
    <3>1. \A d \in Co : Waits(d, x)' <=> Waits(d, x)
      BY <1>7, <2>1
    <3>2. \A d \in Co : Waits(d, x) => co'[d].op = co[d].op
      BY <1>3, <1>6 DEF Waits
    <3>3. aFD[x].mNextIOState = {co[d].op.dir : d \in {e \in Co : Waits(e, x)}}
      BY DEF IInv, WatchedIsAwaited
    <3> QED
      BY <1>5, <2>1, <3>1, <3>2, <3>3
  <2>2. aFD'[a].mNextIOState = {co'[d].op.dir : d \in {e \in Co : Waits(e, a)'}}
    <3>1. \A d \in Co : Waits(d, a)' <=> d = c
      BY <1>4, <1>7
    <3> QED
      BY <1>5, <1>6, <3>1
  <2> QED
    BY <2>1, <2>2 DEF WatchedIsAwaited
<1>13. \A g \in FD : mManagedFD[g] # None =>
          /\ mManagedFD[g] \in AFD
          /\ \/ aFD'[mManagedFD[g]] = aFD[mManagedFD[g]]
             \/ g = a[1] /\ mManagedFD[g] = a
  BY <1>2, <1>5 DEF IInv, TypeOK, ManagedNumber
<1>14. RegisteredFor'
  <2>1. RegisteredFor
    BY DEF IInv
  <2> QED
    BY <1>1, <1>3, <1>5, <1>13, <2>1 DEF RegisteredFor
<1>15. aFD[a].fresh \/ aFD[a].kind = "pidfd" => op.dir = AttachDir(aFD[a].kind)
  <2>1. aFD[a].fresh => aFD[a].kind # "connecting"
    BY <1>2, <1>4 DEF IInv, FirstOperation
  <2> QED
    BY <1>1, <2>1 DEF Dirs, AttachDir
<1>16. FirstOperation'
  <2>1. FirstOperation
    BY DEF IInv
  <2> QED
    BY <1>1, <1>5, <1>13, <1>15, <2>1 DEF FirstOperation
<1>17. ClosedIsQuiet' /\ LeftoverNeedsReuse'
  <2>1. ClosedIsQuiet /\ LeftoverNeedsReuse
    BY DEF IInv
  <2> QED
    BY <1>1, <2>1 DEF ClosedIsQuiet, LeftoverNeedsReuse
<1>18. WaiterQueued'
  <2> SUFFICES ASSUME NEW d \in Co, co'[d].pc = "suspended"
               PROVE  LET r == aFD'[co'[d].op.aFD].mPendigOps
                      IN  \E i \in 1 .. Len(r) :
                             r[i] = d /\ (Resuming(co[d].op.aFD)' => i > 1)
    BY DEF WaiterQueued
  <2>1. CASE d = c
    <3> DEFINE i == Len(aFD[a].mPendigOps) + 1
    <3>1. i \in 1 .. Len(aFD'[a].mPendigOps) /\ aFD'[a].mPendigOps[i] = c
      BY <1>8
    <3>2. Resuming(a) => i > 1
      BY <1>8 DEF IInv, LoopKnows, TypeOK, Resuming
    <3>3. co'[d].op.aFD = a /\ (Resuming(co[d].op.aFD)' <=> Resuming(a))
      BY <1>0, <1>1, <1>6, <2>1 DEF Resuming
    <3> HIDE DEF i
    <3> QED
      BY <2>1, <3>1, <3>2, <3>3
  <2>2. CASE co[d].pc = "suspended" /\ co'[d].op = co[d].op /\ d # c /\ co[d].op.aFD # a
    <3>1. co[d].op.aFD \in AFD
      BY <2>2, Owners
    <3> QED
      BY <1>1, <1>5, <2>2, <3>1 DEF IInv, WaiterQueued, Resuming
  <2> QED
    BY <1>7, <2>1, <2>2
<1>19. WakeupDue'
  <2> SUFFICES ASSUME NEW d \in Co, co'[d].pc = "suspended",
                      ready[co'[d].op.aFD[1]] \cap
                        (({co'[d].op.dir} \cap aFD'[co'[d].op.aFD].mIoState) \cup {"hup"}) # {}
               PROVE  co'[d].op.aFD[1] \in Range(rdllist) \cup Range(events)
    BY <1>1 DEF WakeupDue
  <2>1. d # c
    BY <1>0, <1>1, <1>6 DEF OpReady
  <2>2. co[d].pc = "suspended" /\ co'[d].op = co[d].op /\ co[d].op.aFD # a
    BY <1>7, <2>1
  <2>3. aFD'[co'[d].op.aFD] = aFD[co[d].op.aFD]
    BY <1>5, <2>2, Owners
  <2> QED
    BY <1>3, <2>2, <2>3 DEF IInv, WakeupDue
<1>20. EventsAreGood'
  <2> SUFFICES ASSUME NEW g \in Range(events) \ reused, mManagedFD[g] # None
               PROVE  Good(mManagedFD[g])'
    BY <1>1, <1>3 DEF EventsAreGood
  <2>1. g \in FD
    BY RangeFacts DEF IInv, TypeOK
  <2>2. Good(mManagedFD[g])
    BY <2>1 DEF IInv, EventsAreGood
  <2>3. CASE aFD'[mManagedFD[g]] = aFD[mManagedFD[g]]
    BY <1>1, <2>2, <2>3 DEF Good
  <2>4. CASE g = a[1] /\ mManagedFD[g] = a
    <3>1. ~(updated \/ aFD[a].fresh \/ aFD[a].kind = "pidfd")
      <4>1. "hup" \notin ready[a[1]] /\ op.dir \notin ready[a[1]]
        BY <1>0, <1>1 DEF OpReady
      <4>2. ~updated
        BY <1>4, <2>2, <2>4, <4>1 DEF Good
      <4> QED
        BY <1>4, <1>15, <2>2, <2>4, <4>1, <4>2 DEF Good
    <3> QED
      BY <1>1, <1>5, <2>4, <3>1 DEF Good
  <2> QED
    BY <1>13, <2>1, <2>3, <2>4
<1>21. QueueIsWaiter'
  <2> SUFFICES ASSUME ~misdelivered, NEW x \in AFD
               PROVE  LET r == aFD'[x].mPendigOps
                      IN  /\ ~Resuming(x)' => \/ Len(r) = 0 /\ \A d \in Co : ~Waits(d, x)'
                                              \/ Len(r) = 1 /\ Waits(aFD[x].mPendigOps[1], x)'
                          /\ Resuming(x)' => \/ Len(r) = 1 /\ \A d \in Co : ~Waits(d, x)'
                                             \/ Len(r) = 2 /\ Waits(aFD[x].mPendigOps[2], x)'
    BY <1>1 DEF IInv, QueueIsWaiter
  <2>1. Resuming(x)' <=> Resuming(x)
    BY <1>1 DEF Resuming
  <2>2. /\ ~Resuming(x) => \/ Len(aFD[x].mPendigOps) = 0 /\ \A d \in Co : ~Waits(d, x)
                           \/ Len(aFD[x].mPendigOps) = 1 /\ Waits(aFD[x].mPendigOps[1], x)
        /\ Resuming(x) => \/ Len(aFD[x].mPendigOps) = 1 /\ \A d \in Co : ~Waits(d, x)
                          \/ Len(aFD[x].mPendigOps) = 2 /\ Waits(aFD[x].mPendigOps[2], x)
    BY DEF IInv, QueueIsWaiter
  <2>3. aFD[x].mPendigOps \in Seq(Co)
    BY DEF IInv, TypeOK, Object
  <2>4. /\ Len(aFD[x].mPendigOps) = 1 => aFD[x].mPendigOps[1] \in Co
        /\ Len(aFD[x].mPendigOps) = 2 => aFD[x].mPendigOps[2] \in Co
    BY <2>3, RangeFacts
  <2>5. CASE x # a
    <3>1. aFD'[x].mPendigOps = aFD[x].mPendigOps /\ \A d \in Co : Waits(d, x)' <=> Waits(d, x)
      BY <1>5, <1>7, <2>5
    <3>2. /\ Waits(aFD[x].mPendigOps[1], x) /\ aFD[x].mPendigOps[1] \in Co =>
                Waits(aFD[x].mPendigOps[1], x)'
          /\ Waits(aFD[x].mPendigOps[2], x) /\ aFD[x].mPendigOps[2] \in Co =>
                Waits(aFD[x].mPendigOps[2], x)'
      BY <1>3, <1>6, <3>1 DEF Waits
    <3> QED
      BY <2>1, <2>2, <2>4, <3>1, <3>2
  <2>6. CASE x = a
    <3>1. co'[c].pc = "suspended" /\ co'[c].op.aFD = x
      BY <1>0, <1>6, <2>6
    <3>2. CASE Resuming(x)
      <4>1. Len(aFD[x].mPendigOps) = 1
        BY <1>4, <2>2, <2>4, <2>6, <3>2
      <4>2. Len(aFD'[x].mPendigOps) = 2 /\ aFD'[x].mPendigOps[2] = c
        BY <1>8, <2>6, <4>1
      <4> QED
        BY <2>1, <3>1, <3>2, <4>2 DEF Waits
    <3>3. CASE ~Resuming(x)
      <4>1. Len(aFD[x].mPendigOps) = 0
        BY <1>4, <2>2, <2>4, <2>6, <3>3
      <4>2. Len(aFD'[x].mPendigOps) = 1 /\ aFD'[x].mPendigOps[1] = c
        BY <1>8, <2>6, <4>1
      <4> QED
        BY <2>1, <3>1, <3>3, <4>2 DEF Waits
    <3> QED
      BY <3>2, <3>3
  <2> QED
    BY <2>5, <2>6
<1> QED
  BY <1>9, <1>10, <1>11, <1>12, <1>14, <1>16, <1>17, <1>18, <1>19, <1>20, <1>21 DEF IInv


\* An object is closed by its owner, so that nobody waits for it.
LEMMA CloseAFDStep ==
    ASSUME IInv, NEW c \in Co, NEW a \in AFD, CloseAFD(c, a)
    PROVE  IInv'
<1>1. /\ Running(c) /\ a \in co[c].owned
      /\ mManagedFD' = [mManagedFD EXCEPT ![a[1]] = None]
      /\ aFD' = [aFD EXCEPT ![a] = IF loop.aFD = a
                                   THEN [Blank EXCEPT !.mPendigOps = aFD[a].mPendigOps]
                                   ELSE Blank]
      /\ ready' = [ready EXCEPT ![a[1]] = {}]
      /\ rdllist' \in Kept(rdllist, FD \ {a[1]})
      /\ co' = [co EXCEPT ![c].owned = @ \ {a}]
      /\ UNCHANGED <<loop, events, reused, misdelivered, updated>>
  BY DEF CloseAFD, history
<1>0. UNCHANGED <<loop, events, reused, misdelivered, updated>>
  BY <1>1
<1>2. a[1] \in FD /\ mManagedFD[a[1]] = a /\ aFD[a].mPendigOps \in Seq(Co)
  BY <1>1, Owners, Objects DEF IInv, TypeOK, Object
<1>3. loop.pc \in {"startup", "resumed"} /\ co[c].pc = "run"
  BY <1>1, WhoRuns
<1>4. /\ \A d \in Co : ~Waits(d, a)
      /\ \A d \in Co : co[d].pc = "suspended" => co[d].op.aFD[1] # a[1] /\ co[d].op.aFD # a
  BY <1>1, <1>3, Owners DEF Waits
<1>5. /\ mManagedFD' \in [FD -> AFD \cup {None}] /\ mManagedFD'[a[1]] = None
      /\ \A g \in FD : g # a[1] => mManagedFD'[g] = mManagedFD[g]
      /\ ready' \in [FD -> SUBSET (Dir \cup {"hup"})] /\ ready'[a[1]] = {}
      /\ \A g \in FD : g # a[1] => ready'[g] = ready[g]
  BY <1>1, <1>2 DEF IInv, TypeOK
<1>6. /\ rdllist' \in Seq(FD) /\ IsInjective(rdllist')
      /\ \A x \in FD : x # a[1] => (x \in Range(rdllist') <=> x \in Range(rdllist))
  <2>1. rdllist \in Seq(FD)
    BY DEF IInv, TypeOK
  <2> DEFINE stay == FD \ {a[1]}
  <2>2. rdllist' \in Kept(rdllist, stay) /\ \A x \in FD : x # a[1] => x \in stay
    BY <1>1
  <2> HIDE DEF stay
  <2>3. /\ rdllist' \in Seq(FD) /\ IsInjective(rdllist')
        /\ \A x : x \in Range(rdllist') <=> x \in Range(rdllist) /\ x \in stay
    BY <2>1, <2>2, KeptFacts
  <2> QED
    BY <2>2, <2>3
<1>7. /\ aFD' \in [AFD -> Object]
      /\ \A x \in AFD : x # a => aFD'[x] = aFD[x]
      /\ aFD'[a].mNextIOState = {}
      /\ loop.aFD = a => aFD'[a].mPendigOps = aFD[a].mPendigOps
      /\ loop.aFD # a => aFD'[a].mPendigOps = <<>>
  <2>1. aFD \in [AFD -> Object]
    BY DEF IInv, TypeOK
  <2>2. /\ Blank \in Object /\ Blank.mNextIOState = {} /\ Blank.mPendigOps = <<>>
    BY DEF Blank, Object
  <2>3. LET o == [Blank EXCEPT !.mPendigOps = aFD[a].mPendigOps]
        IN  o \in Object /\ o.mNextIOState = {} /\ o.mPendigOps = aFD[a].mPendigOps
    BY <1>2 DEF Blank, Object
  <2> QED
    BY <1>1, <2>1, <2>2, <2>3
<1>8. /\ \A d \in Co : d # c => co'[d] = co[d]
      /\ co'[c].owned = co[c].owned \ {a} /\ co'[c].pc = co[c].pc /\ co'[c].op = co[c].op
      /\ co' \in [Co -> [pc : {"start", "run", "suspended"}, owned : SUBSET AFD,
                         op : Op \cup {None}]]
  <2>1. co \in [Co -> [pc : {"start", "run", "suspended"}, owned : SUBSET AFD,
                       op : Op \cup {None}]]
    BY DEF IInv, TypeOK
  <2> QED
    BY <1>1, <2>1
<1>9. /\ \A d \in Co : co'[d].pc = co[d].pc /\ co'[d].op = co[d].op
      /\ \A d \in Co : \A x \in co'[d].owned : x \in co[d].owned /\ x # a
      /\ \A d \in Co : \A x : Waits(d, x)' <=> Waits(d, x)
  BY <1>1, <1>8, Owners DEF Waits
<1>10. TypeOK'
  BY <1>1, <1>5, <1>6, <1>7, <1>8 DEF IInv, TypeOK
<1>11. ManagedNumber'
  BY <1>5 DEF IInv, ManagedNumber
<1>12. OwnedIsManaged'
  <2> SUFFICES ASSUME NEW d \in Co, NEW x \in co'[d].owned PROVE mManagedFD'[x[1]] = x
    BY DEF OwnedIsManaged
  <2>1. x \in AFD /\ x[1] \in FD /\ mManagedFD[x[1]] = x /\ x # a
    BY <1>9, Owners, Objects
  <2> QED
    BY <1>2, <1>5, <2>1
<1>13. OneOwner' /\ WaiterOwns'
  <2>1. OneOwner'
    BY <1>9 DEF IInv, OneOwner
  <2>2. WaiterOwns'
    BY <1>3, <1>8 DEF IInv, WaiterOwns
  <2> QED
    BY <2>1, <2>2
<1>14. LoopKnows'
  <2>1. LoopKnows
    BY DEF IInv
  <2>2. loop.pc = "resumed" => aFD'[loop.aFD].mPendigOps = aFD[loop.aFD].mPendigOps
    BY <1>7, <2>1 DEF LoopKnows
  <2> QED
    BY <1>1, <1>3, <2>1, <2>2 DEF LoopKnows
<1>15. WatchedIsAwaited'
  <2>1. WatchedIsAwaited
    BY DEF IInv
  <2>2. aFD[a].mNextIOState = {}
    BY <1>1, <1>3, Watched
  <2>3. \A x \in AFD : aFD'[x].mNextIOState = aFD[x].mNextIOState
    BY <1>7, <2>2
  <2> QED
    BY <1>9, <2>1, <2>3 DEF WatchedIsAwaited
<1>16. \A g \in FD : mManagedFD'[g] # None =>
          /\ g # a[1] /\ mManagedFD'[g] = mManagedFD[g]
          /\ mManagedFD[g] \in AFD /\ mManagedFD[g][1] = g
          /\ aFD'[mManagedFD[g]] = aFD[mManagedFD[g]]
  BY <1>2, <1>5, <1>7 DEF IInv, TypeOK, ManagedNumber
<1>17. RegisteredFor' /\ FirstOperation'
  <2>1. RegisteredFor /\ FirstOperation
    BY DEF IInv
  <2>2. RegisteredFor'
    <3> SUFFICES ASSUME NEW g \in FD, mManagedFD'[g] # None
                 PROVE  LET o == aFD[mManagedFD[g]]
                        IN  o.kind \in Kind /\ (~updated => o.mIoState = {AttachDir(o.kind)})
      BY <1>0, <1>3, <1>16 DEF RegisteredFor
    <3> QED
      BY <1>16, <2>1 DEF RegisteredFor
  <2>3. FirstOperation'
    BY <1>16, <2>1 DEF FirstOperation
  <2> QED
    BY <2>2, <2>3
<1>18. ClosedIsQuiet' /\ LeftoverNeedsReuse'
  <2>1. ClosedIsQuiet /\ LeftoverNeedsReuse
    BY DEF IInv
  <2> QED
    BY <1>1, <1>5, <2>1 DEF ClosedIsQuiet, LeftoverNeedsReuse
<1>19. \A d \in Co : co'[d].pc = "suspended" =>
          /\ co[d].pc = "suspended" /\ co'[d].op = co[d].op
          /\ co[d].op.aFD \in AFD /\ co[d].op.aFD[1] \in FD /\ co[d].op.aFD[1] # a[1]
          /\ aFD'[co[d].op.aFD] = aFD[co[d].op.aFD]
  BY <1>4, <1>7, <1>9, Owners, Objects
<1>20. WaiterQueued'
  <2>1. WaiterQueued
    BY DEF IInv
  <2> QED
    BY <1>0, <1>19, <2>1 DEF WaiterQueued, Resuming
<1>21. WakeupDue'
  <2> SUFFICES ASSUME NEW d \in Co, co'[d].pc = "suspended",
                      ready'[co'[d].op.aFD[1]] \cap
                        (({co'[d].op.dir} \cap aFD'[co'[d].op.aFD].mIoState) \cup {"hup"}) # {}
               PROVE  co'[d].op.aFD[1] \in Range(rdllist') \/ co'[d].op.aFD[1] \in Range(events)
    BY <1>1 DEF WakeupDue
  <2>1. co[d].op.aFD[1] \in Range(rdllist) \cup Range(events)
    <3>1. /\ ready'[co[d].op.aFD[1]] = ready[co[d].op.aFD[1]] /\ co'[d].op = co[d].op
          /\ aFD'[co[d].op.aFD] = aFD[co[d].op.aFD] /\ co[d].pc = "suspended"
      BY <1>5, <1>19
    <3>2. WakeupDue
      BY DEF IInv
    <3> QED
      BY <1>3, <3>1, <3>2 DEF WakeupDue
  <2> QED
    BY <1>6, <1>19, <2>1
<1>22. EventsAreGood'
  <2> SUFFICES ASSUME NEW g \in Range(events) \ reused, mManagedFD'[g] # None
               PROVE  Good(mManagedFD[g])'
    BY <1>1, <1>3 DEF EventsAreGood
  <2>1. g \in FD
    BY RangeFacts DEF IInv, TypeOK
  <2>2. Good(mManagedFD[g])
    BY <1>16, <2>1 DEF IInv, EventsAreGood
  <2> QED
    BY <1>1, <1>5, <1>16, <2>1, <2>2 DEF Good
<1>23. QueueIsWaiter'
  <2>1. QueueIsWaiter
    BY DEF IInv
  <2>2. ASSUME NEW x \in AFD PROVE Resuming(x)' <=> Resuming(x)
    BY <1>1 DEF Resuming
  <2>3. loop.aFD # a => ~Resuming(a) /\ Len(aFD'[a].mPendigOps) = 0
    BY <1>7 DEF Resuming
  <2>4. loop.aFD = a => Resuming(a)
    BY <1>3, Objects DEF IInv, LoopKnows, Resuming
  <2>5. \A d, x : Waits(d, x)' <=> co'[d].pc = "suspended" /\ co'[d].op.aFD = x
    BY DEF Waits
  <2> SUFFICES ASSUME ~misdelivered, NEW x \in AFD
               PROVE  LET r == aFD'[x].mPendigOps
                      IN  /\ ~Resuming(x) => \/ Len(r) = 0 /\ \A d \in Co : ~Waits(d, x)'
                                             \/ Len(r) = 1 /\ Waits(aFD[x].mPendigOps[1], x)'
                          /\ Resuming(x) => \/ Len(r) = 1 /\ \A d \in Co : ~Waits(d, x)'
                                            \/ Len(r) = 2 /\ Waits(aFD[x].mPendigOps[2], x)'
    BY <1>1, <2>1, <2>2 DEF QueueIsWaiter
  <2>6. CASE x # a
    <3>1. aFD[x].mPendigOps \in Seq(Co)
      BY DEF IInv, TypeOK, Object
    <3>2. /\ Len(aFD[x].mPendigOps) = 1 => aFD[x].mPendigOps[1] \in Co
          /\ Len(aFD[x].mPendigOps) = 2 => aFD[x].mPendigOps[2] \in Co
      BY <3>1, RangeFacts
    <3>3. aFD'[x].mPendigOps = aFD[x].mPendigOps
      BY <1>7, <2>6
    <3>4. /\ Waits(aFD[x].mPendigOps[1], x) /\ aFD[x].mPendigOps[1] \in Co =>
                Waits(aFD[x].mPendigOps[1], x)'
          /\ Waits(aFD[x].mPendigOps[2], x) /\ aFD[x].mPendigOps[2] \in Co =>
                Waits(aFD[x].mPendigOps[2], x)'
      BY <1>9, <3>3 DEF Waits
    <3> QED
      BY <1>9, <2>1, <3>2, <3>3, <3>4 DEF QueueIsWaiter
  <2>7. CASE x = a
    <3>1. \A d \in Co : ~Waits(d, x)'
      BY <1>4, <1>9, <2>7
    <3>2. CASE loop.aFD # a
      BY <2>3, <2>7, <3>1, <3>2
    <3>3. CASE loop.aFD = a
      <4>1. \/ Len(aFD[a].mPendigOps) = 1
            \/ Len(aFD[a].mPendigOps) = 2 /\ Waits(aFD[a].mPendigOps[2], a)
        BY <2>1, <2>4, <3>3 DEF QueueIsWaiter
      <4>2. Len(aFD[a].mPendigOps) = 2 => aFD[a].mPendigOps[2] \in Co
        BY <1>2, RangeFacts
      <4>3. Len(aFD[a].mPendigOps) = 1
        BY <1>4, <4>1, <4>2
      <4> QED
        BY <1>7, <2>4, <2>7, <3>1, <3>3, <4>3
    <3> QED
      BY <3>2, <3>3
  <2> QED
    BY <2>6, <2>7
<1> QED
  BY <1>10, <1>11, <1>12, <1>13, <1>14, <1>15, <1>17, <1>18, <1>20, <1>21, <1>22, <1>23 DEF IInv

\* What a handle at the front of its queue finds when it is resumed.
LEMMA ResumedFacts ==
    ASSUME IInv, NEW c \in Co, Resume(c)
    PROVE  LET a == loop.aFD
           IN  /\ loop.pc = "resume" /\ NobodyRuns /\ a \in AFD /\ a[1] \notin Range(events)
               /\ co[c].pc = "suspended" /\ co[c].op.aFD = a /\ mManagedFD[a[1]] = a
               /\ co[c].op.dir \in Dir /\ aFD[a].mNextIOState = {co[c].op.dir}
               /\ \A d \in Co : co[d].pc = "suspended" /\ co[d].op.aFD[1] = a[1] => d = c
               /\ (updated \/ aFD[a].fresh \/ aFD[a].kind = "pidfd") /\ ~misdelivered =>
                     OpReady(co[c].op)
<1>1. /\ loop.pc = "resume" /\ co[c].pc = "suspended" /\ co[c].op.aFD = loop.aFD
  BY DEF Resume
<1>2. loop.aFD \in AFD /\ NobodyRuns /\ loop.aFD[1] \notin Range(events)
  BY <1>1 DEF IInv, LoopKnows
<1>3. /\ mManagedFD[loop.aFD[1]] = loop.aFD /\ co[c].op.dir \in Dir
      /\ loop.aFD \in co[c].owned
      /\ \A d \in Co : co[d].pc = "suspended" /\ co[d].op.aFD[1] = loop.aFD[1] => d = c
  BY <1>1, Owners
<1>4. aFD[loop.aFD].mNextIOState = {co[c].op.dir}
  BY <1>1, Watched
<1>5. ~misdelivered => Good(loop.aFD)
  BY <1>1 DEF IInv, EventsAreGood
<1>6. (updated \/ aFD[loop.aFD].fresh \/ aFD[loop.aFD].kind = "pidfd") /\ ~misdelivered =>
         OpReady(co[c].op)
  BY <1>1, <1>4, <1>5 DEF Good, OpReady
<1> QED
  BY <1>1, <1>2, <1>3, <1>4, <1>6

\* The waiter at the front of the queue is resumed.
LEMMA ResumeStep ==
    ASSUME IInv, NEW c \in Co, Resume(c)
    PROVE  IInv'
<1>0. PICK a : a = loop.aFD
  OBVIOUS
<1> DEFINE op == co[c].op
           again == aFD[a].kind = "pidfd" /\ ~OpReady(op)
<1>1. /\ loop.pc = "resume" /\ NobodyRuns /\ a \in AFD /\ a[1] \notin Range(events)
      /\ co[c].pc = "suspended" /\ op.aFD = a /\ mManagedFD[a[1]] = a
      /\ op.dir \in Dir /\ aFD[a].mNextIOState = {op.dir}
      /\ \A d \in Co : co[d].pc = "suspended" /\ co[d].op.aFD[1] = a[1] => d = c
      /\ aFD[a].kind = "pidfd" /\ ~misdelivered => ~again
  BY <1>0, ResumedFacts
<1>2. UNCHANGED <<mManagedFD, rdllist, events, reused, misdelivered, updated>>
  BY Zenon DEF Resume, history
<1>aFD. aFD' = [aFD EXCEPT ![a] = IF again
                                  THEN [Unwatch(aFD[a], op.dir) EXCEPT !.mPendigOps = Append(@, c)]
                                  ELSE Unwatch(aFD[a], op.dir)]
  BY <1>0, Zenon DEF Resume
<1>co. co' = [co EXCEPT ![c].pc = "run", ![c].op = None]
  BY Zenon DEF Resume
<1>loop. loop' = [loop EXCEPT !.pc = "resumed"]
  BY Zenon DEF Resume
<1>ready. IF OpReady(op) THEN Consume(a, op.dir) ELSE UNCHANGED ready
  BY <1>0 DEF Resume
<1>3. /\ ready' \in [FD -> SUBSET (Dir \cup {"hup"})]
      /\ \A g \in FD : ready'[g] \subseteq ready[g]
      /\ \A g \in FD : g # a[1] => ready'[g] = ready[g]
  <2>1. CASE OpReady(op)
    BY <1>1, <1>ready, <2>1, ConsumeFacts
  <2>2. CASE ~OpReady(op)
    BY <1>ready, <2>2 DEF IInv, TypeOK
  <2> QED
    BY <2>1, <2>2
<1> HIDE DEF again
<1>4. /\ loop' \in [pc : {"resumed"}, aFD : AFD \cup {None}, numPending : Nat]
      /\ loop'.pc = "resumed" /\ loop'.aFD = a /\ loop'.numPending = loop.numPending
      /\ loop.numPending \in Nat /\ loop.numPending >= 1
      /\ Len(aFD[a].mPendigOps) >= loop.numPending
  BY <1>0, <1>1, <1>loop DEF IInv, TypeOK, LoopKnows
<1>5. aFD[a] \in Object /\ aFD \in [AFD -> Object] /\ aFD[a].mPendigOps \in Seq(Co)
  BY <1>1 DEF IInv, TypeOK, Object
<1>6. /\ Append(aFD[a].mPendigOps, c) \in Seq(Co)
      /\ Len(aFD[a].mPendigOps) \in Nat
      /\ Len(Append(aFD[a].mPendigOps, c)) = Len(aFD[a].mPendigOps) + 1
  BY <1>5
<1>7. LET o == Unwatch(aFD[a], op.dir)
      IN  /\ o \in Object /\ o.kind = aFD[a].kind /\ o.mIoState = aFD[a].mIoState
          /\ o.mNextIOState = {} /\ o.mPendigOps = aFD[a].mPendigOps
  BY <1>1, <1>5 DEF Unwatch, Object
<1>8. LET o == [Unwatch(aFD[a], op.dir) EXCEPT !.mPendigOps = Append(@, c)]
      IN  /\ o \in Object /\ o.kind = aFD[a].kind /\ o.mIoState = aFD[a].mIoState
          /\ o.mNextIOState = {} /\ o.mPendigOps = Append(aFD[a].mPendigOps, c)
  BY <1>6, <1>7 DEF Object
<1>9. /\ aFD' \in [AFD -> Object]
      /\ \A x \in AFD : x # a => aFD'[x] = aFD[x]
      /\ aFD'[a].kind = aFD[a].kind /\ aFD'[a].mIoState = aFD[a].mIoState
      /\ aFD'[a].mNextIOState = {}
      /\ aFD'[a].mPendigOps = IF again THEN Append(aFD[a].mPendigOps, c) ELSE aFD[a].mPendigOps
      /\ Len(aFD'[a].mPendigOps) >= Len(aFD[a].mPendigOps)
  <2>2. CASE again
    BY <1>1, <1>5, <1>6, <1>8, <1>aFD, <2>2
  <2>3. CASE ~again
    BY <1>1, <1>5, <1>6, <1>7, <1>aFD, <2>3
  <2> QED
    BY <2>2, <2>3
<1>10. /\ \A d \in Co : d # c => co'[d] = co[d]
       /\ co'[c].pc = "run" /\ co'[c].owned = co[c].owned
       /\ co' \in [Co -> [pc : {"start", "run", "suspended"}, owned : SUBSET AFD,
                          op : Op \cup {None}]]
  <2>1. co \in [Co -> [pc : {"start", "run", "suspended"}, owned : SUBSET AFD,
                       op : Op \cup {None}]]
    BY DEF IInv, TypeOK
  <2> QED
    BY <1>co, <2>1
<1>11. /\ \A d \in Co : co'[d].owned = co[d].owned
       /\ \A d \in Co : co'[d].pc = "suspended" =>
             /\ co[d].pc = "suspended" /\ co'[d].op = co[d].op
             /\ co[d].op.aFD[1] # a[1] /\ co[d].op.aFD # a
             /\ co[d].op.aFD \in AFD /\ co[d].op.aFD[1] \in FD
       /\ \A d \in Co, x \in AFD : Waits(d, x)' <=> Waits(d, x) /\ x # a
  BY <1>1, <1>10, Owners, Objects DEF Waits
<1>12. \A d \in Co : ~Waits(d, a)'
  BY <1>1, <1>11
<1>13. TypeOK'
  BY <1>2, <1>3, <1>4, <1>9, <1>10 DEF IInv, TypeOK
<1>14. ManagedNumber' /\ OwnedIsManaged' /\ OneOwner' /\ WaiterOwns'
  <2>1. ManagedNumber /\ OwnedIsManaged /\ OneOwner /\ WaiterOwns
    BY DEF IInv
  <2>2. ManagedNumber' /\ OwnedIsManaged' /\ OneOwner'
    BY <1>2, <1>11, <2>1 DEF ManagedNumber, OwnedIsManaged, OneOwner
  <2>3. WaiterOwns'
    BY <1>11, <2>1 DEF WaiterOwns
  <2> QED
    BY <2>2, <2>3
<1>15. LoopKnows'
  <2>1. IsInjective(events)
    BY DEF IInv, LoopKnows
  <2>2. Len(aFD'[a].mPendigOps) >= loop.numPending
    <3>1. Len(aFD'[a].mPendigOps) \in Nat
      BY <1>1, <1>9 DEF Object
    <3> QED
      BY <1>4, <1>6, <1>9, <3>1
  <2> QED
    BY <1>1, <1>2, <1>4, <2>1, <2>2 DEF LoopKnows
<1>16. WatchedIsAwaited'
  <2>1. ASSUME NEW x \in AFD, x # a
        PROVE  aFD'[x].mNextIOState = {co'[d].op.dir : d \in {e \in Co : Waits(e, x)'}}
    <3>1. \A d \in Co : Waits(d, x)' <=> Waits(d, x)
      BY <1>11, <2>1
    <3>2. \A d \in Co : Waits(d, x) => co'[d].op = co[d].op
      BY <1>11, <3>1 DEF Waits
    <3>3. aFD[x].mNextIOState = {co[d].op.dir : d \in {e \in Co : Waits(e, x)}}
      BY DEF IInv, WatchedIsAwaited
    <3> QED
      BY <1>9, <2>1, <3>1, <3>2, <3>3
  <2>2. aFD'[a].mNextIOState = {co'[d].op.dir : d \in {e \in Co : Waits(e, a)'}}
    BY <1>9, <1>12
  <2> QED
    BY <2>1, <2>2 DEF WatchedIsAwaited
<1>17. \A g \in FD : mManagedFD[g] # None =>
          /\ mManagedFD[g] \in AFD /\ mManagedFD[g][1] = g
          /\ \/ aFD'[mManagedFD[g]] = aFD[mManagedFD[g]]
             \/ g = a[1] /\ mManagedFD[g] = a
  BY <1>9 DEF IInv, TypeOK, ManagedNumber
<1>18. aFD'[a].fresh = FALSE
  <2>1. Unwatch(aFD[a], op.dir).fresh = FALSE
    BY <1>5 DEF Unwatch, Object
  <2> QED
    BY <1>1, <1>5, <1>7, <1>aFD, <2>1 DEF Object
<1>19. RegisteredFor' /\ FirstOperation'
  <2>1. RegisteredFor /\ FirstOperation
    BY DEF IInv
  <2>2. RegisteredFor'
    <3> SUFFICES ASSUME NEW g \in FD, mManagedFD[g] # None
                 PROVE  LET o == aFD'[mManagedFD[g]]
                        IN  o.kind \in Kind /\ (~updated => o.mIoState = {AttachDir(o.kind)})
      BY <1>2, <1>4 DEF RegisteredFor
    <3>1. /\ aFD'[mManagedFD[g]].kind = aFD[mManagedFD[g]].kind
          /\ aFD'[mManagedFD[g]].mIoState = aFD[mManagedFD[g]].mIoState
      BY <1>9, <1>17
    <3> QED
      BY <2>1, <3>1 DEF RegisteredFor
  <2>3. FirstOperation'
    BY <1>2, <1>9, <1>17, <1>18, <2>1 DEF FirstOperation
  <2> QED
    BY <2>2, <2>3
<1>20. ClosedIsQuiet' /\ LeftoverNeedsReuse'
  <2>1. ClosedIsQuiet
    BY DEF IInv
  <2> QED
    BY <1>2, <1>3, <1>4, <2>1 DEF ClosedIsQuiet, LeftoverNeedsReuse
<1>21. WaiterQueued'
  <2>1. WaiterQueued
    BY DEF IInv
  <2>2. \A d \in Co : co'[d].pc = "suspended" =>
           aFD'[co[d].op.aFD] = aFD[co[d].op.aFD] /\ ~Resuming(co[d].op.aFD)'
    BY <1>4, <1>9, <1>11 DEF Resuming
  <2> QED
    BY <1>11, <2>1, <2>2 DEF WaiterQueued
<1>22. WakeupDue'
  <2> SUFFICES ASSUME NEW d \in Co, co'[d].pc = "suspended",
                      ready'[co'[d].op.aFD[1]] \cap
                        (({co'[d].op.dir} \cap aFD'[co'[d].op.aFD].mIoState) \cup {"hup"}) # {}
               PROVE  co'[d].op.aFD[1] \in Range(rdllist) \cup Range(events)
    BY <1>2 DEF WakeupDue
  <2>1. aFD'[co'[d].op.aFD] = aFD[co[d].op.aFD] /\ ready'[co[d].op.aFD[1]] = ready[co[d].op.aFD[1]]
    BY <1>3, <1>9, <1>11
  <2> QED
    BY <1>0, <1>11, <2>1 DEF IInv, WakeupDue
<1>23. EventsAreGood'
  <2> SUFFICES ASSUME NEW g \in Range(events) \ reused, mManagedFD[g] # None
               PROVE  Good(mManagedFD[g])'
    BY <1>2, <1>4 DEF EventsAreGood
  <2>1. g \in FD /\ g # a[1]
    BY <1>1, RangeFacts DEF IInv, TypeOK
  <2>2. Good(mManagedFD[g])
    BY <2>1 DEF IInv, EventsAreGood
  <2> QED
    BY <1>2, <1>3, <1>17, <2>1, <2>2 DEF Good
<1>24. QueueIsWaiter'
  <2> SUFFICES ASSUME ~misdelivered
               PROVE  /\ loop'.numPending = 1
                      /\ \A x \in AFD :
                         LET r == aFD'[x].mPendigOps
                         IN  /\ ~Resuming(x)' => \/ Len(r) = 0 /\ \A d \in Co : ~Waits(d, x)'
                                                 \/ Len(r) = 1 /\ Waits(aFD[x].mPendigOps[1], x)'
                             /\ Resuming(x)' => \/ Len(r) = 1 /\ \A d \in Co : ~Waits(d, x)'
                                                \/ Len(r) = 2 /\ Waits(aFD[x].mPendigOps[2], x)'
    BY <1>2 DEF QueueIsWaiter
  <2>1. QueueIsWaiter /\ loop.numPending = 1
    BY <1>1 DEF IInv, QueueIsWaiter
  <2>2. \A x \in AFD : ~Resuming(x) /\ (Resuming(x)' <=> x = a)
    BY <1>1, <1>4 DEF Resuming
  <2>3. \A x \in AFD : \/ Len(aFD[x].mPendigOps) = 0 /\ \A d \in Co : ~Waits(d, x)
                       \/ Len(aFD[x].mPendigOps) = 1 /\ Waits(aFD[x].mPendigOps[1], x)
    BY <2>1, <2>2 DEF QueueIsWaiter
  <2>4. ASSUME NEW x \in AFD, x # a
        PROVE  \/ Len(aFD'[x].mPendigOps) = 0 /\ \A d \in Co : ~Waits(d, x)'
               \/ Len(aFD'[x].mPendigOps) = 1 /\ Waits(aFD[x].mPendigOps[1], x)'
    <3>1. aFD'[x].mPendigOps = aFD[x].mPendigOps
      BY <1>9, <2>4
    <3>2. CASE Len(aFD[x].mPendigOps) = 0 /\ \A d \in Co : ~Waits(d, x)
      BY <1>11, <3>1, <3>2
    <3>3. CASE Len(aFD[x].mPendigOps) = 1 /\ Waits(aFD[x].mPendigOps[1], x)
      <4>1. aFD[x].mPendigOps \in Seq(Co)
        BY DEF IInv, TypeOK, Object
      <4>2. aFD[x].mPendigOps[1] \in Co
        BY <3>3, <4>1, RangeFacts
      <4>3. aFD[x].mPendigOps[1] # c
        BY <1>1, <2>4, <3>3 DEF Waits
      <4> QED
        BY <1>10, <3>1, <3>3, <4>2, <4>3 DEF Waits
    <3> QED
      BY <2>3, <3>2, <3>3
  <2>5. Len(aFD'[a].mPendigOps) = 1
    <3>1. ~again
      BY <1>1 DEF again
    <3>2. Len(aFD[a].mPendigOps) = 0 \/ Len(aFD[a].mPendigOps) = 1
      BY <1>1, <2>3
    <3>3. Len(aFD[a].mPendigOps) = 1
      BY <1>4, <2>1, <3>2
    <3> QED
      BY <1>9, <3>1, <3>3
  <2> QED
    BY <1>4, <1>12, <2>1, <2>2, <2>4, <2>5
<1> QED
  BY <1>13, <1>14, <1>15, <1>16, <1>19, <1>20, <1>21, <1>22, <1>23, <1>24 DEF IInv


\* Every step preserves the invariant.
LEMMA StepInv == ASSUME IInv, [Next]_vars PROVE IInv'
<1>1. CASE EnterRun \/ EpollWait \/ Dispatch \/ Pop \/ UpdateIoStates \/ ResumeLeftover
  BY <1>1, EnterRunStep, EpollWaitStep, DispatchStep, PopStep, UpdateIoStatesStep,
     ResumeLeftoverStep
<1>2. CASE \E c \in Co : Resume(c)
  BY <1>2, ResumeStep
<1>3. CASE \E c \in Co : Start(c)
  BY <1>3, StartStep
<1>4. ASSUME NEW c \in Co, CoStep(c) PROVE IInv'
  <2>1. CASE \E fd \in FD, kind \in Used : RegisterFD(c, fd, kind)
    BY <2>1, RegisterFDStep
  <2>2. CASE \E fd \in FD : Connect(c, fd)
    BY <2>2, ConnectStep
  <2>3. CASE \E op \in Op : CompleteAtOnce(c, op) \/ Suspend(c, op)
    BY <2>3, CompleteAtOnceStep, SuspendStep
  <2>4. CASE \E a \in AFD : CloseAFD(c, a)
    BY <2>4, CloseAFDStep
  <2> QED
    BY <1>4, <2>1, <2>2, <2>3, <2>4 DEF CoStep
<1>5. CASE \E fd \in FD, what \in Dir \cup {"hup"} : BecomesReady(fd, what)
  BY <1>5, BecomesReadyStep
<1>6. CASE UNCHANGED vars
  <2> USE <1>6 DEF vars
  <2>1. /\ ManagedNumber' /\ OwnedIsManaged' /\ OneOwner' /\ WaiterOwns' /\ WatchedIsAwaited'
        /\ FirstOperation'
    BY SameObjects
  <2>2. TypeOK' /\ RegisteredFor' /\ ClosedIsQuiet' /\ LeftoverNeedsReuse'
    BY DEF IInv, TypeOK, RegisteredFor, ClosedIsQuiet, LeftoverNeedsReuse
  <2>3. LoopKnows'
    BY DEF IInv, LoopKnows, NobodyRuns, Running
  <2>4. WaiterQueued'
    BY DEF IInv, WaiterQueued, Resuming
  <2>5. WakeupDue'
    BY DEF IInv, WakeupDue
  <2>6. EventsAreGood'
    BY DEF IInv, EventsAreGood, Good
  <2>7. QueueIsWaiter'
    BY DEF IInv, QueueIsWaiter, Resuming, Waits
  <2> QED
    BY <2>1, <2>2, <2>3, <2>4, <2>5, <2>6, <2>7 DEF IInv
<1> QED
  BY <1>1, <1>2, <1>3, <1>4, <1>5, <1>6 DEF Next, RunLoop

\* The invariant holds throughout.
THEOREM Invariance == Spec => []IInv
<1>1. Init => IInv
  BY InitInv
<1>2. IInv /\ [Next]_vars => IInv'
  BY StepInv
<1> QED
  BY <1>1, <1>2, PTL DEF Spec

-----------------------------------------------------------------------------
(***************************************************************************)
(* What follows.                                                           *)
(***************************************************************************)

\* All variables have the values their types say, whatever the coroutines register,
\* await and close; in particular the kernel's list has no descriptor twice.
THEOREM TypeCorrect == Spec => []TypeOK
<1>1. IInv => TypeOK
  BY DEF IInv
<1> QED
  BY <1>1, Invariance, PTL

\* No wakeup is lost while run() waits in epoll_wait, although registrations are
\* updated once per batch: attach registers for the first operation, updateIoStates
\* for what is watched, and every new registration polls the descriptor.
THEOREM WakeupsAreKept == Spec => []NoLostWakeup
<1>1. ASSUME IInv PROVE NoLostWakeup
  <2> SUFFICES ASSUME loop.pc = "wait", NEW c \in Co, co[c].pc = "suspended",
                      Covered(co[c].op.aFD)
               PROVE  LET a == co[c].op.aFD
                      IN  /\ mManagedFD[a[1]] = a
                          /\ co[c].op.dir \in Interest(a[1])
                          /\ OpReady(co[c].op) => a[1] \in Range(rdllist)
    BY DEF NoLostWakeup
  <2> DEFINE a == co[c].op.aFD
  <2>1. mManagedFD[a[1]] = a /\ a \in AFD /\ a[1] \in FD /\ a # None
    BY <1>1, Owners, Objects
  <2>2. aFD[a].mNextIOState = {co[c].op.dir}
    BY <1>1, Watched
  <2>3. /\ updated => aFD[a].mIoState = aFD[a].mNextIOState
        /\ ~updated => aFD[a].mIoState = {AttachDir(aFD[a].kind)}
        /\ aFD[a].fresh => aFD[a].mNextIOState \subseteq {AttachDir(aFD[a].kind)}
    BY <1>1, <2>1 DEF IInv, RegisteredFor, FirstOperation
  <2>4. co[c].op.dir \in aFD[a].mIoState
    BY <2>2, <2>3 DEF Covered
  <2>5. ~(\E x : x \in Range(events))
    BY <1>1 DEF IInv, LoopKnows, Range
  <2>6. OpReady(co[c].op) => a[1] \in Range(rdllist)
    BY <1>1, <2>4, <2>5 DEF IInv, WakeupDue, OpReady
  <2> QED
    BY <2>1, <2>4, <2>6 DEF Interest
<1> QED
  BY <1>1, Invariance, PTL

\* Between batches each queue of operations holds the coroutine that waits there and
\* nothing else, as long as no event went to the next life of its descriptor number:
\* the pop of resumePendingOps never removes the handle of a coroutine that suspended
\* again.
THEOREM QueuesMatch == Spec => []QueuesMatchCoroutines
<1>1. ASSUME IInv PROVE QueuesMatchCoroutines
  <2> SUFFICES ASSUME loop.pc = "wait", ~misdelivered, NEW a \in AFD
               PROVE  aFD[a].mPendigOps \in
                         SetToSeqs({c \in Co : co[c].pc = "suspended" /\ co[c].op.aFD = a})
    BY DEF QueuesMatchCoroutines
  <2> DEFINE q == aFD[a].mPendigOps
             waiting == {c \in Co : co[c].pc = "suspended" /\ co[c].op.aFD = a}
  <2>1. q \in Seq(Co)
    BY <1>1 DEF IInv, TypeOK, Object
  <2>2. \/ Len(q) = 0 /\ \A c \in Co : ~Waits(c, a)
        \/ Len(q) = 1 /\ Waits(q[1], a)
    BY <1>1 DEF IInv, QueueIsWaiter, Resuming
  <2>3. DOMAIN q = 1 .. Len(q) /\ q = [i \in 1 .. Len(q) |-> q[i]]
    BY <2>1, LenProperties
  <2>4. CASE Len(q) = 0 /\ \A c \in Co : ~Waits(c, a)
    <3>1. waiting = {} /\ Cardinality(waiting) = 0
      BY <2>4, FS_EmptySet DEF Waits
    <3>2. 1 .. 0 = {}
      OBVIOUS
    <3>3. q \in [1 .. 0 -> waiting]
      <4>1. q = [i \in 1 .. 0 |-> q[i]]
        BY <2>3, <2>4
      <4> QED
        BY <3>2, <4>1
    <3>4. \A i, j \in 1 .. 0 : i # j => q[i] # q[j]
      BY <3>2
    <3> QED
      BY <3>1, <3>3, <3>4 DEF SetToSeqs
  <2>5. CASE Len(q) = 1 /\ Waits(q[1], a)
    <3>1. q[1] \in Co
      BY <2>1, <2>5, RangeFacts
    <3>2. waiting = {q[1]}
      BY <1>1, <2>5, <3>1, Owners DEF Waits
    <3>3. Cardinality(waiting) = 1
      BY <3>2, FS_Singleton
    <3>4. q \in [1 .. 1 -> waiting] /\ \A i, j \in 1 .. 1 : i # j => q[i] # q[j]
      BY <2>3, <2>5, <3>2
    <3> QED
      BY <3>3, <3>4 DEF SetToSeqs
  <2> QED
    BY <2>2, <2>4, <2>5
<1> QED
  BY <1>1, Invariance, PTL

\* A handle whose operation is over is never resumed, unless an event went to the next
\* life of a descriptor number.
THEOREM LeftoversNeedReuse == Spec => []LeftoverNeedsReuse
<1>1. IInv => LeftoverNeedsReuse
  BY DEF IInv
<1> QED
  BY <1>1, Invariance, PTL

\* An operation that the loop resumes finds its system call ready, unless an event went
\* to the next life of a descriptor number: nothing that an earlier coroutine of the
\* batch does can make the event stale.
THEOREM ReadyWhenResumed == Spec => ResumedOnlyWhenReady
<1> DEFINE Resumed == \A c \in Co : co[c].pc = "suspended" /\ Covered(co[c].op.aFD)
                                     /\ co'[c].pc = "run" => OpReady(co[c].op) \/ misdelivered
<1>1. ASSUME IInv, [Next]_vars PROVE [Resumed]_vars
  <2> SUFFICES ASSUME NEW c \in Co, co[c].pc = "suspended", Covered(co[c].op.aFD),
                      co'[c].pc = "run"
               PROVE  OpReady(co[c].op) \/ misdelivered
    OBVIOUS
  <2>0. co \in [Co -> [pc : {"start", "run", "suspended"}, owned : SUBSET AFD,
                       op : Op \cup {None}]]
    BY <1>1 DEF IInv, TypeOK
  <2>1. Resume(c)
    <3>1. CASE UNCHANGED co
      BY <3>1
    <3>2. CASE \E d \in Co : Resume(d)
      <4>1. PICK d \in Co : Resume(d)
        BY <3>2
      <4>2. co' = [co EXCEPT ![d].pc = "run", ![d].op = None]
        BY <4>1 DEF Resume
      <4>3. d = c
        BY <2>0, <4>2
      <4> QED
        BY <4>1, <4>3
    <3>3. CASE \E d \in Co : Start(d)
      BY <2>0, <3>3 DEF Start
    <3>4. ASSUME NEW d \in Co, Running(d), \A e \in Co : e # d => co'[e] = co[e] PROVE FALSE
      BY <3>4 DEF Running
    <3>5. ASSUME NEW d \in Co, CoStep(d)
          PROVE  co' = co \/ (Running(d) /\ \A e \in Co : e # d => co'[e] = co[e])
      <4>1. CASE \E fd \in FD, kind \in Used : RegisterFD(d, fd, kind)
        BY <2>0, <4>1 DEF RegisterFD
      <4>2. CASE \E fd \in FD : Connect(d, fd)
        BY <2>0, <4>2 DEF Connect
      <4>3. CASE \E op \in Op : CompleteAtOnce(d, op) \/ Suspend(d, op)
        BY <2>0, <4>3 DEF CompleteAtOnce, Suspend, MayAwait
      <4>4. CASE \E a \in AFD : CloseAFD(d, a)
        BY <2>0, <4>4 DEF CloseAFD
      <4> QED
        BY <3>5, <4>1, <4>2, <4>3, <4>4 DEF CoStep
    <3>6. CASE EnterRun \/ EpollWait \/ Dispatch \/ Pop \/ UpdateIoStates \/ ResumeLeftover
      BY <3>6, <3>1 DEF EnterRun, EpollWait, Dispatch, Pop, UpdateIoStates, ResumeLeftover
    <3>7. CASE \E fd \in FD, what \in Dir \cup {"hup"} : BecomesReady(fd, what)
      BY <3>7, <3>1 DEF BecomesReady
    <3>8. CASE UNCHANGED vars
      BY <3>8, <3>1 DEF vars
    <3> QED
      BY <1>1, <3>1, <3>2, <3>3, <3>4, <3>5, <3>6, <3>7, <3>8 DEF Next, RunLoop
  <2> QED
    BY <1>1, <2>1, ResumedFacts DEF Covered
<1>2. Spec => [][Resumed]_vars
  BY <1>1, Invariance, PTL DEF Spec
<1> QED
  BY <1>2 DEF ResumedOnlyWhenReady

=============================================================================
