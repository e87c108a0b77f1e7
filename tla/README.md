# Verification of shared-state-async

TLA+ models of [shared-state-async](../src/README.md), a daemon and a command
line tool that replicate small JSON maps ("data types") between the nodes of a
mesh network.  The models are written from the C++ source; `PROJECT.json` names,
for every definition, the lines it stands for.

## 1. The system

One binary plays two roles.  `shared-state-async peer` is the daemon, one per
node, a single-threaded process of coroutines over epoll.  `insert`, `dump`,
`get`, `sync`, `register` and `discover` are short-lived processes with a state of
their own that talk to daemons by the same protocol daemons use among themselves.

| component | state it keeps | operations | correct if |
|---|---|---|---|
| State and merge (`sharedstate.cc`) | `mStates`: per type, key -> author, TTL, data | `merge`, `bleach` | entries are replaced as a whole, the fresher one wins, own entries are protected from peers, and everything fades out |
| Replication protocol (`sharedstate.cc`, `shared_state_cli.cc`) | states of daemons and commands, slices in flight | `syncWithPeer`, `handleReqSyncConnection`, `insert`, `dump`, `get`, `sync`, the bleach loop | inserts take effect, stale slices do no harm |
| Session on the wire (`sharedstate.cc`, `async_socket.cc`) | position in the dialogue, bytes, results | handshakes, `sendNetworkMessage`, `receiveNetworkMessage`, `recv`, `send` | success means what it says, nobody waits forever, versions do not mix |
| Registered types (`sharedstate.cc`) | `shared-state-async.conf`, `mTypeConf` | `registerDataType`, `loadRegisteredTypes` | no type or state is lost while the file is rewritten |
| Event loop (`io_context.*`, `async_file_descriptor.hh`, `awaitable_syscall.hh`, `*_operation.cc`) | `mManagedFD`, per descriptor `mIoState`, `mNextIOState`, `mPendigOps` | `run`, `registerFD`, `attach*`, `watch*`, `unwatch*`, `closeAFD`, await and resume | no wakeup is lost, no handle resumed twice or for another's event |
| Daemon loops (`shared_state_cli.cc`) | timers, time of the last bleach | accept, peer and bleach loop | each goes on whatever the others do |
| Hooks, discovery (`sharedstate.cc`) | child processes | `notifyHooks`, `getCandidatesNeighbours` | changes are announced, failures stay local |
| Child processes, timers (`async_command.cc`, `async_timer.cc`) | pipes, pidfd, timerfd | `execute`, `writeStdIn`, `readStdOut`, `waitTermination`, `wait` | every command ends, is reaped, and leaves no descriptor; children do not wait for each other |
| Network statistics (`sharedstate.cc`) | `network_statistics.json` | `collectStat` | bounded, no record lost under the lock, a torn file heals |
| Task type (`task.hh`) | frames, the waiter in a promise, the native stack | `co_await`, `resume`, final suspension | every completion is delivered once, to whoever waits |
| Errors, logging, arguments | - | - | see `components` in `PROJECT.json` |

Interaction: the accept loop awaits one `handleReqSyncConnection` at a time, the
peer loop one `syncWithPeer` at a time, so a daemon can be client and server of a
session at once, with its state changed by either, and by the bleach loop, while
the other waits for the network.  All of them reload the configuration file, which
`register` processes rewrite.  Hooks and discovery are child processes awaited by
the loop that started them.

What is hard to test here: slices that are merged long after they were taken; a
session that fails after one side has merged; streams that end in the middle of a
field; restarts that forget everything while the network remembers; edge-triggered
registrations that are updated once per batch; descriptor numbers that are reused
within a batch; the configuration file caught truncated, or the statistics torn;
loops of several daemons, clients and hooks that wait for one another without a
timeout; pipes that other children inherit; copies that keep each other alive.
`PROJECT.json` lists these hazards at their lines, with the properties that watch
them.

## 2. Modules

| module | models | composes |
|---|---|---|
| `StateMerge` | one type's state as a function from keys to entries or `Absent`; `merge`, `bleach`, `significantChanges` as operators | - |
| `ReplicatedMap` | what the replication protocol promises: views of one map that learn, fade and forget | - |
| `Gossip` | daemons, commands and their sessions, for one data type; implements `ReplicatedMap` | `StateMerge`, `ReplicatedMap` |
| `GossipProofs` | theorems about `Gossip`, its refinement of `ReplicatedMap` included | `Gossip` |
| `Fading` | the bleach and peer loops of several hosts in time, for one entry | `StateMerge` |
| `SyncSession` | one session byte by byte | - |
| `TypeConfig` | configuration file, `register` processes, the reloading daemon | - |
| `EventLoop` | `IOContext`, `AsyncFileDescriptor`, `AwaitableSyscall` over an edge-triggered epoll | - |
| `Task` | `std::task`: who awaits whom, and the stack of `resume()` calls | - |
| `PeerDaemon` | the accept and the peer loop of several daemons, their clients and children, the sockets these inherit, and what each waits for | - |
| `AsyncCommand` | the daemon's child processes, their pipes and what they inherit | - |
| `StatLog` | what the statistics promise: a log per peer, pruned at every addition | - |
| `NetworkStats` | `collectStat` of several processes on one file; with the lock it implements `StatLog` | `StatLog` |
| `SyncSessionProofs`, `TypeConfigProofs`, `EventLoopProofs`, `TaskProofs`, `AsyncCommandProofs`, `NetworkStatsProofs` | theorems about the module of that name | that module |
| `DaemonProofs` | theorems about the daemons' loops: how copies age and spread, and what the loops wait for | `Fading`, `PeerDaemon` |
| `MC*` | instances for TLC: constants and symmetries | the module of that name |

Definitions called `...` after a comment `Mutant:` are wrong on purpose: put in the
place of the definition below them they break a property, which shows that the
property can fail.

**Gossip.**  `mStates[n]` is the daemon's map, `command[n]` the command of a host
with its own map and the addresses it still has to visit.  `syncing[c]` and
`accepting[s]` are the two ends of a session, each of which may fail alone: an
abandoned request stays in `accepting[s].request` and is merged later, which is
what a daemon does with a request it had read before its client died.
`HandleReqSyncConnection` merges and answers in one step because the code does not
suspend between `merge` and `fromStateSlice`.  `IsRemote` is the loopback test of
`merge`.  `published` is history: what users inserted.

**SyncSession.**  The dialogue of each end is a script of sends, receives and local
steps in the order of the code; a direction of the connection is a pair of byte
counts.  `FieldValid` says what each caller of `recv` makes of a field of which only
a part arrived: nothing in the code compares the count with what was asked for.

**TypeConfig.**  A file is read in one step and written in two (truncate, write);
`overlapped` records that a second `register` process was at work during a write,
`cutShort` that one ended with the file truncated.

**EventLoop.**  Coroutines are arbitrary: they register descriptors, await
operations on them and close them in any order.  Only what the code fixes is fixed:
the direction a kind of descriptor is attached for and its first operation.  A
connecting socket is registered and suspended in `connect` in one step, as
non-blocking TCP connects do not complete at once.
Objects and descriptor numbers are distinct, since `run` keeps a pointer to the
object whose queue it works off, while its number may be given out again.  A left
over handle that is resumed (undefined in C++) stops the model in `undefined`; this
is why the run `event_loop_reuse` does not check for deadlock.

**Task.**  `frame` is what became of each coroutine frame with the waiter in its
promise, `stack` the `resume()` calls that have not returned.  `co_await` resumes the
awaited coroutine from within the suspension of the one that awaits, and a finished
one resumes its waiter from within its own; only when the top suspends for a system
call does the stack unwind, down to a coroutine that runs (`peer`, which resumes its
two loops and goes on) or to the event loop.  The frame of a finished task is freed by
its waiter while its `resume()` is still on the stack.

**PeerDaemon.**  A step is what a loop does until it has to wait for someone else: a
connection to serve, the other end of a session, a child.  A session is one step at both
ends, since `SyncSession` shows that two ends that go on finish; a client may also fail, its
link may die without a word (`Silent`, of a user's command or of a peer: nothing has a
timeout), and a session may break before or after the server's merge.  `child` is the child
process a loop awaits, a hook with whether it was given the current state or one that has
changed since.  `stuck` is what keeps it from ending: it is `hung`, or `jammed` with output
that nobody reads, which ends with the daemon, whose death leaves the pipe without a reader.
`MayStick` says whose children may.  Sockets are opened without CLOEXEC.  A child therefore
has the listening socket open, and with it the queue, after its daemon has ended: clients
still connect there and are not told that nobody will accept them, and `DaemonStarts` has
to wait.  It also has the connection that the other loop had at the fork: `kept` names its
client, and what the daemon has closed of it is a `Kept` connection at the other end, which
does not see an end of the stream before that child has ended.  A hook may run a command that
connects to its own daemon; of the hooks run for one change one does (a bound).  `Faults`
names what ends daemons: a signal, a failing `accept` and a bad line of the discovery command,
the last two because their callers pass no errbub.

**AsyncCommand.**  Commands are numbered in the order of `fork`.  `mStdIn[c]` and
`mStdOut[c]` are the processes that hold the parent's ends of its pipes: the daemon
and every child that was forked while the daemon had them open, because sockets and
pipes are opened without CLOEXEC.  Pipes hold counted chunks.  Whether a child reads
its input, how much it prints, and whether it ends, is chosen when it is forked: it may hang
for a reason of its own, such as a command that waits for this daemon, or leave a process
behind that keeps what it inherited (`stays`).  `waitTermination` fails if `waitpid` does:
nothing of the command is closed then.  That `close` fails is not modelled.

**NetworkStats.**  `collectStat` does not suspend, so what interleaves is a daemon and
commands, at their system calls.  `None` is a file that cannot be parsed: not there,
truncated, or written over by two processes.  The refinement maps a truncated file to
what its writer will put there; a writer that dies is the abstract `Forget`.  Whether the
build has the lock is chosen in `Init`; the refinement says nothing of one without.  How
many records are dropped is computed as in the code, in unsigned numbers that wrap and are
then taken for an `int` (`IntLimit`).

**Fading.**  Time passes in ticks of a fraction of a second, and no further while a
loop is overdue by more than `MaxDelay`.  Hosts start with any phase of their timers
and of the seconds of their clocks.  The timers' 999 ms count as a second.

**ReplicatedMap.**  The abstract map says nothing of sessions: a host's view gains
entries that were published, with no more time than `insert` gives, never in exchange
for a longer lasting one; it fades, and is forgotten in a restart.

## 3. Runs

| run | question | result |
|---|---|---|
| `gossip` | an author, `sync`, stale slices, failures and restarts: does the protocol implement `ReplicatedMap`, and does a key reach the neighbour? | holds, 86 thousand states |
| `gossip_echo` | is an own entry's data safe from equal-TTL copies, as the comment in `merge` says? | violated |
| `sync_session` | what acknowledgements, versions and lengths guarantee; that both ends return | holds, 24 thousand states |
| `type_config` | does a registered type, and a state in use, survive rewrites that do not overlap, and what ends a daemon that reloads? | holds, 8 thousand states |
| `event_loop` | lost wakeups, handles, no deadlock, two coroutines | holds, 0.8 million states |
| `event_loop_reuse` | readiness on resume; what an event of a descriptor number's former life can do; is every ready operation resumed? | holds, 0.45 million states |
| `task` | are completions delivered once, and does one coroutine run at a time? | holds, 0.6 million states |
| `async_command` | who can hold a pipe open, is anything left of a finished command, does every command end, is a dead daemon's port freed? | holds but for programs that jam or stay, 371 thousand states |
| `peer_daemon` | two daemons that are each other's clients, dead links, a hook that calls back, children that stick, daemons that end: is everybody served, do rounds end, can a daemon be started again? | holds but for what the properties except, 78 thousand states |
| `peer_daemon_hooks` | is the last hook to act on a state given the current one? | violated |
| `network_stats` | is `collectStat` atomic under its lock, and the lock always released; what is left of the promise without it? | holds, 132 thousand states |
| `fading` | is an entry nobody publishes gone in the end, from three hosts that all echo it? | holds, 0.8 million states |

The violated ones are disagreements between the code and what its comments or
documents say; `findings` in `PROJECT.json` quotes both sides.

### Properties

* `TtlWithinInsertTtl`: all copies of an entry, held or in flight, have between one
  second and the TTL its author's `insert` gave.  `merge` of a stale slice may give
  an entry time back, but never beyond that.
* `Provenance`: what is found under a key was inserted so by its author.
* `InsertConfirmed`: the reply to an `insert` contains the inserted entries, or
  another author's with a higher TTL than `insert` gives.  This is what the loopback rule
  of `merge` is for.
* `OwnTtlRaisedOnlyByCommand`: a peer cannot lengthen the life of a known own entry.
* `SyncedMeansServerMerged`, `ServedMeansReplyReceived`: what each end may conclude.
* `OnlyAcceptableMerged`: no merge between versions, although a client takes an early
  end of the stream for a matching version; no part of an oversized state, although
  lengths may arrive in part.
* `SessionEnds`: both calls return and both sockets are closed, whatever fails, as long as
  a failure is noticed: a link that dies silently is in `PeerDaemon` only.
* `RegisteredTypesStay`, `ReferenceStaysValid`: without overlapping `register`
  processes nothing registered is lost and the reference `syncWithPeer` holds while it
  connects stays valid.
* `ReloadFailsOnlyInRewrite`: a daemon ends on a reload only while a `register` process
  has the file truncated, or after one was cut short there or two overlapped.
* `NoLostWakeup`, `QueuesMatchCoroutines`, `ResumedOnlyWhenReady`, `ReadyIsResumed`:
  the loop's side of the bargain with coroutines.  The second and third hold until
  an event is delivered to a descriptor number's next life (`misdelivered`), which
  the code does not prevent; `ReadyIsResumed` holds even then.
* `LeftoverNeedsReuse`: only after such an event can a handle whose operation is over
  be resumed.
* `ImplementsMap`: every behaviour of `Gossip` is one of `ReplicatedMap`.
* `KeysSpread`: a key a daemon goes on knowing reaches every neighbour.
* `AwaitsOneTask`, `OneRuns`: a coroutine awaits a task if and only if that task is not
  done; the nesting of `resume()` calls never has two coroutines run.  They say nothing of
  what a call does with a frame that was freed under it (audit A1).
* `ClientsServed`, `RoundsEnd`: no circle of waiting among loops, clients and children of
  several daemons, except in the ways named.  `ChildStuck`: a child that hangs, a jammed
  hook, and a hook whose command waits in the queue of the loop which awaits that hook, or of
  a listener that only the hook has left open.  `Wedged`: an accept loop that serves a client
  whose link died, awaits a stuck hook, or waits for the end of a connection that a stuck
  hook of the client's daemon has inherited.  `Stranded`: a client of a wedged loop, or of a
  dead daemon whose listener, or whose end of the connection, a stuck child has open.  The
  code prevents none of these, as it has no timeout.
* `RestartPossible`: a daemon that ended can be started again once its children have ended,
  and they do unless one is stuck; a jammed hook is not, since its output has lost its reader.
* `HooksEndUpCurrent` (violated): it looks at hooks that run, and does not notice a session
  that breaks after its merge while no hook runs.
* `OnlyLaterChildrenInherit`, `DoneIsReapedAndClosed`, `CommandsEnd`, `PortIsFreed`:
  inherited pipe ends delay a command's end of input, but in the order of `fork` only,
  so that all end, and the port is freed; except that a hook that prints more than a pipe
  holds (`Jammed`) stops its loop, a program that hangs does too, and one that hangs or leaves
  a process behind keeps what it inherited: the input of an earlier command, and the port.
* `LockedIsAtomic`, `LockIsReleased`, `UndisturbedRepairs`: with the lock the file is
  `StatLog`; without it records are lost and the file torn, but one undisturbed call
  repairs it, and the limit on records holds in every interleaving (`TypeOK`).  `StatLog` may
  forget its records at any time; that only the death of a process makes it do so is the
  theorem `RecordsAreKept`.
* `Expires`: fading wins over echoes, where rounds are sparse: in an update interval every
  host has one round, and copies it raised are aged again within a second (and the delays of
  two loops), unless the next host's round raises them.  `RoundsAreSparse` says that the
  rounds of all hosts cannot fill the interval in this way; section 5 says what happens if
  they can.

### Bounds

Two hosts and one key: `merge` and `bleach` treat keys independently, and a second
host is enough for echoes, since a copy that took a longer way is a copy with a
lower TTL.  One of them discovers the other, inserts, and visits it by `sync` too, so
that two of its slices of different age are on their way to one daemon; sessions carry
state both ways.  A TTL of 3 seconds leaves room for a fresh, an aged and an expiring
copy.  `MaxBleach` is 1; larger delays are sequences of these as far as `<=` is
concerned.  The proofs cover all values, several authors and mutual neighbours included.
Fields of one or two bytes: one complete, one
that can be cut.  `SocketBuf` 2: smaller than a frame, so that sends block.  Two
types and two `register` processes: a lost update and mixed contents.  Two
descriptors and two coroutines: batches that concern both, and one coroutine that
takes over the number the other closed.  For a misdelivered event a coroutine needs
two descriptors to itself, so `event_loop_reuse` has one coroutine, batches of two
and the kinds that matter to reuse: one that suspends as it registers, and the
multi-shot one, whose operation may also be ready at once.
Two daemons, a user and a hook's command: up to three clients of one daemon, one
served, one in a backlog of one, and one that finds no room.  One daemon's accept hooks call
back, the children of the other's peer loop may stick, and the links of the user and of the
second daemon may die, so that every disjunct of what the properties except arises,
and the inherited connections of either loop; one loop each is enough, as the two kinds of
trouble meet in what the daemons wait for.  Three commands of two loops: a child that inherits the pipes of a
command which inherited another's; pipes of one chunk and a state of two, so that
writing blocks; two chunks of output, so that a hook can jam; the first two may stay, so that
the program which stays is awaited itself or holds what an earlier command waits for.  Two records per
peer and a clock of three readings, with records too old at the next: both ways of
pruning; an `IntLimit` of 4, so that the difference wraps.  Three hosts in `Fading`, of which
two are not the author and echo the entry between them, an interval of four seconds, the
shortest that is sparse, and an entry of six seconds; a tick is a second, and loops take
turns in any order within it.  What a late bleach truncates is not exercised there, see
`BleachAgesWithTime`.
`MaxStack` 9 in `Task`: three tasks that are done at once on top of each other and of
the two loops.
Symmetry is used for interchangeable values only, never with liveness.

### Fairness

`SyncSession` assumes that an end that can go on does (weak fairness of `Step`), as
coroutines are resumed when their socket is ready, which is what `EventLoop` shows;
errors and deaths are never required to happen.  `EventLoop` assumes that the loop
does not rest while it can act; that coroutines return to the loop is the premise of
`ReadyIsResumed`.

`PeerDaemon` and `AsyncCommand` assume weak fairness of what a loop does by itself: the
event loop resumes whoever can go on.  A client notices that its server is gone (its
socket is reset), unless a child has that socket too.  A child that is not stuck and waits
for nobody ends: `CommandsEnd` shows what that depends on.  Programs that neither hang nor
wait are assumed to read, print and end.  Rounds, users,
failures and restarts are never required to happen.  `NetworkStats` assumes that a
process inside `collectStat` runs on.  `Fading` assumes that time passes and that loops
take their turn before they are overdue by more than `MaxDelay`; sessions are not
required to succeed.

`KeysSpread` needs strong fairness of two steps, and `Gossip` states it in `FairSpec`
only: a daemon that keeps trying a neighbour gets a connection (the kernel serves the
backlog in order), and if it is connected again and again one of its requests is merged,
that is, not every session fails.  Without the second a link that always breaks is a
counterexample.  `TypeConfig`, `Task` and `gossip_echo` state safety only and assume no
fairness.

`CHECK_DEADLOCK FALSE` is said where the instance may stop: when the bound on commands
is reached (`async_command`), when the clock has (`network_stats`), and in
`event_loop_reuse`, see above.

## 4. Proofs

`GossipProofs` proves, for any sets of hosts, keys and data, any configuration per
host, any neighbourhoods and any delays of the bleach loop:

* `TypeCorrect`: `Spec => []TypeOK`
* `TtlBounded`: `Spec => []TtlWithinInsertTtl`
* `ProvenanceHolds`: `Spec => []Provenance`
* `InsertIsConfirmed`: `Spec => []InsertConfirmed`
* `OwnTtlProtected`: `Spec => OwnTtlRaisedOnlyByCommand`
* `GossipImplementsMap`: `Spec => ImplementsMap`, the refinement of `ReplicatedMap`

Assumptions: the configured times are natural numbers, a host is not its own
neighbour, `MaxBleach` is positive, `None` and `Absent` are no values.  TLC
evaluates all of them.

The first needs no strengthening.  `TtlWithinInsertTtl` and `Provenance` speak of
entries one by one; the inductive `SlicesGood` says the same of every place a slice
may be, and rests on two facts: `merge` yields at each key one of the two entries it
is given (`MergeChooses`), and `bleach` lowers TTLs but not to zero (`BleachAges`).
`InsertConfirmed` is not inductive: that the reply confirms the insert depends on the
request in flight being the command's own.  `SessionInv` adds that the daemon serving
an `insert` is the one on its host, and that the request it holds, if the command
still waits for it, is the command's state.  With it, `FreshEntryTaken` shows what the loopback
rule does: only a higher TTL beats a fresh entry, and by `TtlBounded` an own entry cannot
have one, whatever margin `insert` gives, since `merge` takes an equal one.  `OwnTtlProtected` follows from the types and
`RemoteKeepsOwnTtl`.

In the refinement initial states map to initial states; a step that merges is a `Learn`
(`MergeLearns`: what `merge` takes is from the slice, which by `SlicesGood` is genuine,
and has no less time than what it replaces), a bleach a `Fade` (`BleachFades`), a restart
a `Forget`, an insert a `Publish`, and every other step leaves the views alone.

`AsyncCommandProofs` proves, for any number of commands and coroutines, any size of
pipes and data:

* `TypeCorrect`: `Spec => []TypeOK`
* `NoCircularInheritance`: `Spec => []OnlyLaterChildrenInherit`
* `NothingLeaks`: `Spec => []DoneIsReapedAndClosed`

`OnlyLaterChildrenInherit` is not inductive, since a fork opens the pipes of a new
number: `HolderInv` adds that the pipes of commands not yet executed have no holder
(`NotYetOpen`).  `DoneIsReapedAndClosed` is inductive given the types; the lemma
`DoneKept` covers the steps that release no command.  Programs may stay, and `waitpid` may
fail.  Assumptions: sizes are natural numbers, a pipe holds something, `None` is no command.

`EventLoopProofs` proves, for any finite set of descriptor numbers, any coroutines, any
kinds of descriptors in use and any size of a batch:

* `TypeCorrect`: `Spec => []TypeOK`
* `WakeupsAreKept`: `Spec => []NoLostWakeup`
* `QueuesMatch`: `Spec => []QueuesMatchCoroutines`
* `LeftoversNeedReuse`: `Spec => []LeftoverNeedsReuse`
* `ReadyWhenResumed`: `Spec => ResumedOnlyWhenReady`

None of them is inductive, as they speak of the moment the loop waits or resumes.  `IInv`
says what holds in between: an object has one owner (`OneOwner`), so at most one
coroutine waits for it, and `mNextIOState` is what that one awaits (`WatchedIsAwaited`);
registrations are what was watched at the last update, or what `attach` asked for
(`RegisteredFor`, `FirstOperation`); what a waiting coroutine is registered for and could
have is in epoll's list, in the batch, or being resumed (`WakeupDue`); each event of a
batch that is not of a former life still says something true of its descriptor
(`EventsAreGood`), whatever the coroutines resumed before it did; and a queue holds the
waiter behind at most one handle that is to be popped (`WaiterQueued`, `QueueIsWaiter`).
The last two depend on `misdelivered`, the rest does not: misdelivered events can break
the queues, but lose no wakeup.  Lists of descriptors are reasoned about by their members
(`KeptFacts`, `BatchFacts`, `JoinFacts`, `EnqueueFacts`).  Assumptions: descriptor
numbers are finitely many, a batch is not empty, `None` is no value.

`SyncSessionProofs` proves, for any widths of the fields, any buffer and any versions:

* `TypeCorrect`: `Spec => []TypeOK`
* `SyncedAtServer`: `Spec => []SyncedMeansServerMerged`
* `ServedIsReceived`: `Spec => []ServedMeansReplyReceived`
* `MergedIsAcceptable`: `Spec => []OnlyAcceptableMerged`

What an end may conclude from its position depends on how many bytes both ends have sent
and received, so `IInv` is an account of bytes: `SendBase` and `RecvBase` are what a script
has sent and received before a position (the lemmas `ClientScriptFacts` and
`ServerScriptFacts` derive them from the scripts), `SentIsDue` and `ReceivedIsDue` say that
an end is there, unless its stream ended before, and `TotalIsOfFrame`, `AckIsTotal` and
`MergedIsTotal` carry the count from the frame to the acknowledgement and the merge.
`ChecksPassed` and `CutClientIsGone` are about streams that end in a field: which check
was passed on bytes that did not all arrive, and that the client of a request cut short
has given up.  Assumptions: every field and the buffer have at least one byte.

`TypeConfigProofs` proves, for any types and any number of `register` processes:

* `TypeCorrect`: `Spec => []TypeOK`
* `TypesStayRegistered`: `Spec => []RegisteredTypesStay`
* `ReferenceIsValid`: `Spec => []ReferenceStaysValid`
* `ReloadFails`: `Spec => ReloadFailsOnlyInRewrite`

`RegisteredTypesStay` needs that a process which has loaded the file knows all registered
types as long as no writes overlap (`NothingForgotten`), that nobody knows more
(`NothingInvented`), and that the file which is about to be written is empty
(`WritesToEmptyFile`); `ReloadFailsOnlyInRewrite` that a file does not parse for these
reasons only (`BrokenOnlyInRewrite`).

`TaskProofs` proves, for any coroutines, any spawned by `peer` and any depth of the stack:

* `TypeCorrect`: `Spec => []TypeOK`
* `OnlyOneRuns`: `Spec => []OneRuns`
* `AwaitsExactlyOneTask`: `Spec => []AwaitsOneTask`

`AwaitsOneTask` is three facts in the other direction, from a task to its waiter
(`WaitersAwait`, `OneTaskPerWaiter`, `AwaitsSomeTask`).  `OneRuns` needs that the only
coroutine that goes on below others, `Main`, is on the stack while it runs
(`MainOnStack`): that is where unwinding stops.

`NetworkStatsProofs` proves, for any number of processes and peers and any limits:

* `TypeCorrect`: `Spec => []TypeOK`, the limit on records included, lock or no lock
* `LockDiscipline`: the lock is held by exactly the process inside
* `UndisturbedWriteRepairs`: `Spec => UndisturbedRepairs`
* `RecordsAreKept`: with the lock, the log changes only as a record is added to the whole
  of it, or as a process dies between truncating and writing the file
* `ImplementsLog`: `Spec => LockedIsAtomic`, the refinement of `StatLog`

The refinement needs that what a process read is still what the file has when it writes
(`ReadIsCurrent`), and that a truncated file has one writer (`LockHeldInside`,
`TruncatedIsEmpty`); then the truncation maps to `Record`, the write to no step, and
a death with the file truncated to `Forget`.  That the wrapped count comes out right
(`ExcessFacts`) needs the limit to be below `IntLimit`, which is assumed.

`DaemonProofs` proves of `Fading`, for any hosts and neighbourhoods, any configured times,
any number of ticks to a second and any delay of the loops:

* `TypeCorrect`: `Spec => []TypeOK`, the limit on TTLs included
* `NothingElseSpreads`: `Spec => []OnePublication`, copies are of what the author published
* `EchoesMakeNoTime`: for every `t`, once no copy has more than `t` seconds left none ever
  will; `GoneForGood`: an entry that has expired everywhere never comes back
* `SessionsLevelCopies`: `Spec => SessionsLevel`, one session makes two copies equal, except
  that an author keeps its own if that has less time
* `OwnCopyAges`: `Spec => OwnCopyOnlyAges`, peers give an author's copy no time
* `BleachAgesWithTime`: `Spec => AgesWithTime`, a late bleach takes off no more than the time
  that has passed and more than half of it

`IInv` adds to the types that rounds visit neighbours (`RoundVisitsNeighbours`), so that a
session has two different ends, and `OnePublication`.  All rest on one lemma about the steps,
`CopiesAreMadeOfCopies`: what a host has after a step was made of what some host had, with no
more time.  These are what is safe about `Expires`; that the highest TTL does fall is a
matter of fairness and of the interval (section 5), and left to the run.  Together they say
how an echo works: it cannot add time, and it does not raise the author's own copy, which
takes part only as one that is lost when it expires and then comes back from a peer; a
session evens two copies out at the higher TTL, and this is all it can do against aging.
Assumptions: the configured update interval and a second are positive, a host is not its
own neighbour, `Absent` is no entry.

Of `PeerDaemon`, which it takes as the instance `D`, it proves, for any discovery, users,
hooks, stuck children, dead links, faults and length of the queue:

* `LoopsTypeCorrect`: `D!Spec => []D!TypeOK`, the limit of the queue included
* `LoopsAwaitOneThing`: `D!Spec => [](AcceptLoopSequential /\ PeerLoopSequential)`, no loop
  is in a session while it awaits a child
* `SelfWaitIsForever`: `D!Spec => WaitIsForever`, a hook of the accept loop whose command
  waits in the queue of that same loop does so until the command gives up

The theorems have `D!ConstAssumption` as a hypothesis, the assumption of `PeerDaemon` that
TLC evaluates in its runs.  `LoopInv` is inductive: what a loop awaits when a session ends
depends on the daemons at both ends being alive, so it says that the loops of a dead daemon
have nothing open (`DeadDoNothing`), that there is a queue only where a daemon or a child has
the listener open (`QueuesAreHeld`), and that only a hook that runs may start its command
(`OnlyRunningHooksCall`).  `WaitIsForever` is the safety side of what `ClientsServed` and
`RestartPossible` except: it shows that a loop wedged by its own hook is a deadlock, not a
delay.  Not even the death of the daemon ends it, because the hook has the listener open on
which its command waits, and by `QueuesAreHeld` and the guard of `DaemonStarts` no new daemon
gets that queue.

Only model-checked, because the prover does not treat fairness: liveness (`SessionEnds`,
`ReadyIsResumed`, `KeysSpread`, `ClientsServed`, `RoundsEnd`, `RestartPossible`,
`CommandsEnd`, `PortIsFreed`, `LockIsReleased`, `Expires`).  Every invariant and every other
action property of a passing run has a theorem.

## 5. Findings

Two runs show a disagreement between the code and its comments or documents:

1. `merge` computes `minUpdateTtl` and does not use it (`sharedstate.cc:893-896`): a
   neighbour's copy with an equal TTL overwrites an own entry that was just replaced
   (`gossip_echo`).
2. A hook that was given an old state may be the last to act on it: hooks of the two
   loops overlap, and no hook is called when a session breaks after the server's merge
   (`peer_daemon_hooks`).

Others are behaviours of the models, each in the definition named:

* A reply cut short counts as a successful, empty one (`SyncSession`: `FieldValid` and
  `Merge`; `SyncedMeansServerMerged` and `ServedMeansReplyReceived` say what is left).
* A reload of a truncated file ends the daemon (`TypeConfig`: `DaemonReload`;
  `ReloadFailsOnlyInRewrite` says when), where `refactor-critique.md:99-100` expects it
  to keep its configuration.
* `register` cannot recreate a missing file: the constructor ends the process first
  (`TypeConfig`: `RegisterStart`), whatever `sharedstate.cc:724-725` announces.
* A bad line of the discovery command ends the daemon (`PeerDaemon`:
  `DiscoverBadLine`), not just the round, as `refactor-critique.md:107-108` has it.
* Echoes can keep an entry alive for ever, where `protocol-spec-DRAFT.md:28-29` has entries
  "expire by TTL": whenever the rounds of the hosts follow each other within a second, each
  host may raise the copies of the others just before they would age for good.  TLC finds the
  entry kept in all instances tried of `Fading` in which
  `Interval <= Cardinality(Host) * (Second + MaxDelay)`, and gone in the others: two hosts
  with one or two ticks to a second, delays of none and one, and intervals of one to six
  seconds; three hosts with an interval of two, three and four.  The author takes part once
  its own copy has expired.  It takes as many hosts in reach of each other as the interval
  has seconds, with rounds at the right times; `RoundsAreSparse`, the premise of `Expires`,
  is on the safe side of this.
* A child that hangs, waits for its own daemon, or leaves a process behind keeps the daemon's
  port after the daemon has ended (`PortIsFreed` and `RestartPossible` except it), as
  `protocol-spec-DRAFT.md:187-191` and audit D1 have it, and it keeps clients in the queue of
  that listener, and connections of the other loop, without an answer (`Stranded`).
* A jammed hook stops the loop that awaits it (`Jammed`, `ChildStuck`), as
  `protocol-spec-DRAFT.md:182-186` says; unlike the former it ends with the daemon.
* The bleach loop loses the fraction of a second of every late iteration (`Fading`:
  `BleachTimes`), less than half of the time that passes (`BleachAgesWithTime`).

## 6. Left to do

A composition of `EventLoop` and `Task`: the handle that the loop resumes is the innermost
coroutine's, which each of them assumes of the other; the accesses to a frame that was freed
under its own `resume()` would belong there.  A bound on how long an entry lives after its
last publication, as a function of hosts, interval and delay, and `Expires` with three hosts
and late iterations, which is too large for TLC.
