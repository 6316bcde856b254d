# A TLA+ model of the FogWS connection

FogWS is a WebSocket client for asyncio: a thin Python facade
(`fogws/client.py`) over a Rust extension (`src/*.rs`). What is hard in it is
mostly one file, `src/src/driver.rs`: a connection is two Tokio tasks, a timer task
and any number of calls that share watch channels, flags, bounded queues and a
socket, and six different paths may end it. Around it three smaller parts have a
protocol of their own: the facade's `receive()`, which survives the cancellation of
its callers; the rules about which process may touch a connection; and the limits.
This directory models all four, checks them with TLC on small instances, and proves
most of what is checked with TLAPS for every instance. Paths below are relative to
the repository (`src/`); line numbers are of `src/src/driver.rs` unless a file is
named.

## 1. The system

| Component | State | Operations | Modelled in |
|---|---|---|---|
| outcomes and signals (`driver.rs`, `error.rs`) | watch channels `state` (Open, Closing, PeerClosed, Closed) and `shutdown` (Running, LocalClose, PeerClose, Abort) | `publish_*`, `begin_close`'s update, `signal_*`, `classify_close`, `terminal_error`, `close_result` | `DriverOutcomes` |
| reader task | socket read half, message in hand, byte permit | `run_reader`, `queue_inbound`, `finish_peer_close`, `finish_reader_failure` | `DriverReader` |
| writer task | socket write half, command in hand | `run_writer`, `next_writer_event`, `close_writer` | `DriverWriter` |
| callers | task guards, byte and item permits, oneshots, `receive_active` | `close`/`begin_close`, watchdog, `abort`, `Drop`, `try_admit_outbound`/`send_admitted`, `receive` | `DriverCalls` |
| Python bridge (`py.rs`) | the owner loop, the driver reference | forwards calls, cancels their futures, posts results, `_abort`, loop and process checks, limits, exceptions | `DriverCalls`, `DriverFlow`, `ClientReceive`, `RuntimeContext`, `Config` |
| facade (`fogws/client.py`) | retained receive, waiter flag | `receive` with `shield`, `__del__`, `connect` | `ClientReceive`, `RuntimeContext` |
| configuration (`config.rs`) | limits | `ConnectionConfig::new`, `websocket_config` | `Config` |
| connect (`client.rs`) | none | one attempt | `RuntimeContext`, in outline |
| runtime (`runtime.rs`) | owner process | fork and subinterpreter guards | `RuntimeContext` |
| registration (`lib.rs`), scripts | none | | not modelled: no state |

How they interact. The reader owns the read half and the only sender of the
inbound queue; the writer owns the write half and the only receivers of the
outbound queue and of the control channel. Both publish into `state` and both are
told to stop through `shutdown`; each holds a sender of the watch channels, so
these never close. The reader can abort the writer; the watchdog and `abort()`
abort both. `close()` waits for a terminal `state`, then for the count of task
guards to reach zero. A send acquires bytes and a slot on the Python thread
(`try_admit_outbound`) and is pushed by a task (`send_admitted`) some time later.
The bridge runs each call as a Tokio task that posts its result to the event loop
of the caller; the facade keeps one native receive, and the future that will hold
its result, across any number of public calls. A forked child has all of these
objects in its memory and none of the tasks.

What is hard, and the properties that answer it:

- **Who ends the connection.** Reader end, reader timeout, writer failure, writer
  end of the handshake, watchdog, abort, in any order: `OutcomeKept`, `OneOutcome`,
  `ImplementsLifecycle`.
- **Stopping only after the outcome is known.** A caller that finds a dead channel
  reads the outcome from `state`: `EndsAfterOutcome`, `NoFallbackOutcome`, and the
  invariant behind both, `OutcomeInv`.
- **Cleanup before `close()` returns**, with guards handed from a call to the
  watchdog: `CloseReturnsAfterCleanup`, `CloseTerminates`, and the invariant behind the
  first, `CleanupInv`, which contains the exact count of the guards (`GuardsCounted`).
- **Permits that come back exactly once** on every path: `OutboundBudget`,
  `InboundBudget`, together `BudgetInv`.
- **What a result says**: `WireTellsResults`, `InboundInOrder`, `OneReceiver`.
- **Who closed first**: `RemoteCloseIsRemote`.
- **What callers may reason with.** The driver as one small receive queue:
  `ImplementsNativeReceive`.
- **A receive that outlives its caller**: `Lossless`, `FlagHasOwner`,
  `NativeNeverRefuses`, `AbandonedIsSilent`, `ReceiveReturns`, `DropReleases`.
- **Fork**: `Quarantine`, `FailsClosed`, `NoOrphan`, `UnwantedConnectEnds`.
- **Limits at their edges**: `RunsWithoutPanic`, `EveryFrameFits`.
- **Progress against a silent peer and a stuck socket**: `ClosingEnds`,
  `TasksEnd`, `CloseTerminates`, `ReceiveEnds`; and what can be said of it without
  fairness, that no timer, signal or abort is lost on the way: `WakeInv`.

## 2. The modules

| Module | Contents |
|---|---|
| `DriverOutcomes` | the values of both watch channels and the pure functions on them; one abstract cause per place that builds an error text |
| `DriverChannels` | constants and their assumptions, all shared variables, the groups the frame conditions use, watch channel and task guard |
| `DriverReader`, `DriverWriter`, `DriverCalls` | one action per step of each actor |
| `Driver` | `Init`, `Next`, `Fairness`, `TypeOK`, lifecycle properties, the refinement of `ConnectionLifecycle` |
| `ConnectionLifecycle` | the abstract connection: phase, outcome, whether the transport is held, what each `close()` was told |
| `DriverFlow` | budgets, queues, order, results, what the program is told; the invariants `BudgetInv`, `FlowInv` and `OriginInv`; the refinement of `NativeReceive`; the three statements of the documentation the code does not keep |
| `DriverInvariant` | `OutcomeInv`, one part per actor, `CleanupInv` and `WakeInv` |
| `NativeReceive` | the abstract driver as its receivers see it: messages queued, one end with one outcome, one call inside |
| `ClientReceive` | the facade's `receive()` and finalizer, futures and Tokio tasks of the bridge, on top of `NativeReceive` |
| `ClientReceiveInvariant` | `ReceiveInv` and its parts |
| `RuntimeContext` | processes, ids, imports, forks; a connection from `_connect` to its finalizer in the memory of each |
| `Config` | limits from Python integers to semaphores, channels and the write buffer |
| `DriverTypeProofs`, `DriverOutcomeProofs`, `DriverFlowProofs`, `DriverBudgetProofs`, `DriverLifecycleProofs`, `ClientReceiveProofs`, `RuntimeContextProofs`, `ConfigProofs` | the theorems |
| `MCDriver`, `MCClientReceive`, `MCRuntimeContext`, `MCConfig` | message sizes, outcomes, boundary values and symmetry for TLC |

The driver and the facade are composed through `NativeReceive`: `Driver` implements
it (`ImplementsNativeReceive`, checked in `inbound` and proved), and
`ClientReceive` extends it, with the driver's tasks and queues out of sight. What is
safe of the facade on the abstract driver is thus safe on the real one. Only safety
carries over: the facade's liveness is checked on the abstract driver, under fairness
of its receives, and that the real one gives each receive its end is `ReceiveEnds`,
checked apart.

**From code to actions: the driver.** A step is what a task does between two points where
another thread can observe or change shared state: each load, swap, store, lock,
`send_modify`, `try_send` or abort is its own action, since the runtime has two
worker threads and calls arrive from the Python thread. `readerPc`, `writerPc`,
`closePc[c]`, `sendPc[s]`, `recvPc[r]`, `watchdogPc` and `abandonPc` are the
places in the functions. Local variables are `readerMsg`, `readerOutcome`,
`writerCmd`, `writerError` and `closeTerminal`.

- *Watch channel.* `Signal` sets the value and marks it unseen for both tasks
  when it changed (`send_if_modified`). `readerUnseen` and `writerUnseen` are what
  `changed()` waits for; `AwaitPeer` marks the value seen, `ReaderCheck` and
  `QueueCheck` only borrow it.
- *Biased select* (584-604). The writer polls the signal first, and goes on
  to the events in the same poll; a signal sent in between is seen one event
  later. Hence `WriterPollsEvents` and the place `"events"`, where the writer
  does not look at the signal. An idle writer passes it too: what becomes ready
  between the two polls is taken, so a writer may find the reader gone although
  the signal was sent before (`TakeControlClosed`). When nothing is ready it goes back
  (`WriterFindsNothing`) and polls the signal first again.
- *Writes.* `SinkExt::send` is a write and a flush; either may take for ever, fail
  (`WriteFaults`) or be cut by an abort. `wire` is the frames written and
  `flushed` how many of them left. A message carries no content, only its sender.
- *Cancellation.* `AbortHandle::abort` takes effect where a task waits
  (`ReaderCancelled`, `WriterCancelled`): the message or command in hand is
  dropped with its permit, its oneshot without a value. A task that is running
  straight-line code finishes it.
- *Cancelled calls.* The bridge polls the Rust future before it looks at the
  cancellation, so a send is cancelled only after its push (`"waiting"`), a
  close or receive only while it waits.
- *Bytes.* `inboundBytes` and `outboundBytes` are the semaphores. Sizes are
  numbers; `max_write_buffer_size` is the subject of `Config`.

**External parts**, modelled from how the code uses them: a dropped mpsc
receiver closes the queue, then drains it (`WriterClosesQueue`, `DrainCommand`,
`WriterDropsQueue`); a push through an owned permit succeeds even after that; a
tungstenite socket refuses every data or close frame as soon as it has read or
written a close frame, which happens inside `read` and so before the reader task
publishes anything (`ReadClose`, `WriteRefused`). A stream that breaks is an error of
the socket (`ReadError`, 486-503), and tungstenite should report an end without a close
frame as one too. The code also handles a stream that just ends (459-461, 506-512), so
the model lets it end at any time (`ReadEnd`): more behaviours than the library is
expected to have, and the properties hold for them all. `Drop` of the driver repeats
`abort()`, which has no further effect after `AbandonNext`.

**From code to actions: the facade.** The event loop, the Tokio runtime and the
finalizer are three threads of control. In the loop a step is what a task does
between two suspensions, so `receive()` (`fogws/client.py:50-95`) has one action per
way in (refused, fresh native receive, retained one pending or complete) and one per
way out of the `await` (`CancelledError`, other exception or value, `GeneratorExit`).
In the runtime a step is one of the native receive, the check of the future, the post
to the loop (`NativeSteps`, `BridgeSteps`). `future[r]`, `bridge[r]` and `recvPc[r]`
are the three parts of one native receive, which are finished at different times.
`_abort` (`py.rs:41-51`) is two steps, since the finalizer may run beside the others.
A cancelled native future is told to the Tokio task by a callback of the loop, and
not at all once the loop is closed. External: `asyncio.shield`, `Task.cancel`,
`asyncio.run`, and the future, the post and the completor of `pyo3-async-runtimes`.

**Processes.** `RuntimeContext` keeps the memory of every process apart: `loader`,
`OWNER_PROCESS`, `stage`, `cancelled` and `loopOpen` are copied by `Fork`, drivers and
attempts are not. An import, a `_connect` or an operation is one action with its
checks in the order of the code; `touched` records who reached Tokio state. A connect
goes through five places (attempt, driver started, result posted, delivered to the
task, `Connection` built), and a fork, a cancellation or a closed loop may come
between any two. External: `fork`, `exit`, ids of processes, and what asyncio does
with a result nobody takes.

**Limits.** `Config` is sequential: every combination of arguments goes through
`extract_limit`, the early returns of `ConnectionConfig::new` in their order, and
`websocket_config` with the width of `usize`. The widths are constants; TLC uses
scaled ones, the theorems any with three bits between `u32` and `usize` (all targets
that wheels are built for are 64-bit). A timeout is not a duration, zero or positive.

## 3. The runs

`CHECK_DEADLOCK FALSE` everywhere: a connection whose calls are over stops, a peer may
stay silent for ever, a process may exit.

| Run | Instance | Shows |
|---|---|---|
| `lifecycle` | two closes, abort, peer closes / ends / breaks, write faults (2.04 M states) | types, order of outcome and end, the outcome is final, guard count and cleanup (`CleanupInv`), no lost wake-up (`WakeInv`), who closed first, refinement of `ConnectionLifecycle`, `OutcomeInv` |
| `outbound` | three sends of 2, 1, 1 bytes against 2 bytes and one slot, one close, write faults (3.03 M) | every permit comes back once; results agree with the wire |
| `abandoned` | one send, one receive, a message, a peer that ends the stream, write faults, cancellation, abort and drop (489 k) | queues, commands, answers and the wire agree and no send is forgotten (`FlowInv`); a send and a receive that fail are told the one outcome, never a fallback; a pending receive returns |
| `inbound` | three messages of 1 or 2 bytes, a ping, one slot, 2 bytes, two receives, one close (1.67 M) | order, backpressure, one receiver, refinement of `NativeReceive` |
| `liveness` | one cancellable close, one cancellable receive, write faults, a peer that closes, ends or is silent (343 k) | the handshake ends, all tasks stop, a pending receive returns |
| `close_terminates` | two racing closes, write faults, a peer that closes or is silent, a socket that may never take a byte (223 k) | both return |
| `config` | every combination of values at, below and above each boundary | no panic, every accepted message admitted, room for every frame |
| `receive` | two public and two native receives, two messages, cancellation, discarded coroutine, cancelled native future, closing loop, finalizer (361 k) | nothing lost or doubled, one owner of the flag, no unprovoked refusal, no late completion; a receive returns, a finalized driver is released |
| `fork` | two processes, one connection (37 k) | an inherited driver is left alone, calls are refused, no driver without an owner, an unwanted connect ends |
| `stranded_send`, `clean_close`, `budget_retry` | one or two sends | violated: section 6 |

**Bounds.** Every queue and channel has one slot, and budgets hold one or two of
the smallest messages: full and empty are one step apart, which is where the
refusals, the backpressure and the releases are; a larger queue repeats the same
transitions. Two closes are enough for every pair of guards that can meet (the
first goes to the watchdog, all others are dropped by the same code). Two sends
race for the last slot, three for bytes and a slot at once. `MaxData` and
`MaxPings` bound what the peer sends; nothing in the code counts them. Two waiters
and two native receives are what can overlap: the flag admits one, a retained or
forgotten receive meets its successor. Two processes are a parent and a child, forked
at every stage; a grandchild inherits what the child has, and `stage` and `loader` tell
them apart in no other way. `NoFallbackOutcome` and `OneOutcome` are about what calls are
told when a channel is dead, so they are checked in `abandoned`, where a send and a receive
meet an ended stream, a failed write, an abort and a dropped driver; the other ways to stop
(a close, its timeouts) are covered by their theorems. A ping is read only in `inbound`,
whose socket takes what is written: that a control flush fails (`WriteFails` at `"flush"`)
is covered by the theorems too, which hold for all of these sizes, except where section 4
says so. `"Normal"` stands for the close frames: frames differ only in the pure
`classify_close`.
Symmetry is used only in runs without liveness and with equal message sizes.

**Fairness** (`Fairness` in `Driver`). Weak fairness for each task's own steps,
each call's, the watchdog's and the rest of an `abort()` once it began: the
runtime polls what is woken, and `abort()` is straight-line code. Timers fire
(`ReaderTimesOut`, `WatchdogExpires` are among the fair steps), at any time, so a
timeout can beat any answer. A cancelled task is polled once more. That an idle writer may
poll over and over (`WriterPollsEvents`, `WriterFindsNothing`) hides nothing: each round
polls the signal, so one that was sent is seen, and whoever aborts the writer comes after a
signal (to stop, or to begin the handshake). No fairness for
the peer (`ReaderInput`), for writes and flushes (`WriterIO`), or for starting and
cancelling calls. `CloseTerminates` therefore holds with a socket that never takes
a byte.

In `ClientReceive` the loop runs callbacks that are ready and resumes tasks that are
woken, as long as it is open; the runtime polls every native receive and its bridge; a
finalizer that began goes on, and an aborted driver ends and is dropped. Nothing is
assumed of the program or the peer: messages, ends, cancellations, the closing of the
loop and the start of the finalizer may never come. In `RuntimeContext` only the post of
an established connection and the drop of a result without a taker are fair.

## 4. What is proved

Of the driver, for every `Senders`, `Receivers`, finite `Closers`, sizes and
configuration allowed by the named assumptions in `DriverChannels` (what
`ConnectionConfig::new` accepts; the peer's messages within `max_message_size`, as
tungstenite enforces):

| Module | Theorem | Statement |
|---|---|---|
| `DriverTypeProofs` | `TypeCorrect` | `Spec => []TypeOK` |
| `DriverOutcomeProofs` | `OutcomeFirst` | `Spec => []OutcomeInv` |
| | `EndsAfterOutcomeHolds` | `Spec => []EndsAfterOutcome` |
| | `NoFallbackOutcomeHolds` | `Spec => []NoFallbackOutcome` |
| | `OutcomeKeptHolds` | `Spec => OutcomeKept` |
| `DriverFlowProofs` | `FlowInvHolds` | `Spec => []FlowInv` |
| | `NoSendForgottenHolds` | `Spec => []NoSendForgotten` |
| | `InboundInOrderHolds` | `Spec => []InboundInOrder` |
| | `WireTellsResultsHolds` | `Spec => []WireTellsResults` |
| | `OneOutcomeHolds` | `Spec => []OneOutcome` |
| | `OneReceiverHolds` | `Spec => []OneReceiver` |
| | `ImplementsNativeReceiveHolds` | `Spec => ImplementsNativeReceive` |
| `DriverBudgetProofs` | `BudgetInvHolds` | `Spec => []BudgetInv` |
| | `OutboundBudgetHolds` | `Spec => []OutboundBudget` |
| | `InboundBudgetHolds` | `Spec => []InboundBudget` |
| `DriverLifecycleProofs` | `CleanupHolds` | `Spec => []CleanupInv` |
| | `GuardsCountedHolds` | `Spec => []GuardsCounted` |
| | `CloseReturnsAfterCleanupHolds` | `Spec => []CloseReturnsAfterCleanup` |
| | `WakeInvHolds` | `Spec => []WakeInv` |
| | `OriginInvHolds` | `Spec => []OriginInv` |
| | `RemoteCloseIsRemoteHolds` | `Spec => []RemoteCloseIsRemote` |
| | `ImplementsLifecycleHolds` | `Spec => ImplementsLifecycle` |

Of the other three, for every set of waiters and receives, processes and connections,
machine widths and arguments:

| Module | Theorem | Statement |
|---|---|---|
| `ClientReceiveProofs` | `ReceiveInvHolds`, `TypeCorrect` | `Spec => [](Types /\ ReceiveInv)`, `Spec => []TypeOK` |
| | `FlagHasOwnerHolds`, `LosslessHolds` | `Spec => []FlagHasOwner`, `Spec => []Lossless` |
| | `NativeNeverRefusesHolds`, `AbandonedIsSilentHolds` | `Spec => []NativeNeverRefuses`, `Spec => []AbandonedIsSilent` |
| `RuntimeContextProofs` | `TypeCorrect`, `OwnerInvHolds`, `QuarantineHolds`, `FailsClosedHolds`, `NoOrphanHolds` | the same, assuming `~MayRecycle` |
| `ConfigProofs` | `LimitsAreUsize`, `RunsWithoutPanicHolds`, `EveryFrameFitsHolds` | under `PlatformAssumption` and `DefaultsAssumption` |

`TypeOK` of the driver is inductive because it also says what the locals hold where
they are used: the reader's outcome is an error wherever it is published, the writer
has a command in hand exactly where it writes and answers one.

`EndsAfterOutcome` is not inductive: that a task may leave depends on why it was
told to. `OutcomeInv` says for each actor what it may rely on at each point of its
program: a signal `Abort` or an abort flag implies Closed, `PeerClose` implies that
the peer's outcome is published, a `PeerClosed` state belongs to the reader that
still waits for the handshake, the writer reaches the end of the handshake only
after one of the two. Then every step is checked against two facts: its own part
(one lemma per actor, one case per action), and `Forward`, the relation between the
old and the new `state` and `shutdown` that every step satisfies; `FrameOutcome`
shows once that `Forward` keeps the parts of all actors that did not move.
`Forward` is also the body of `OutcomeKept`.

`GuardsCounted` is not inductive either: whether `CloseArm` spawns the watchdog
depends on a flag, so the count needs that no watchdog runs while the flag is unset;
and that a returned `close()` stays right needs that no other call begins the
handshake afterwards, which follows from `OutcomeInv` (the connection is Closed, and
a call that finds it so goes past the handshake). `CleanupInv` is the three together.
The last steps of the two tasks and of the watchdog drop a guard and three steps of a
`close()` take, hand over or drop one; for each of them the proof adds up the live
guards before and after. All other steps are shown to be moves that keep every
guard.

`WakeInv` is the safety core of `ClosingEnds` and `TasksEnd`: liveness fails in this code
when nobody is left who would wake somebody. It says three things. A handshake has a
timer (`HandshakeTimed`): while the state is Closing the watchdog sleeps or is about to
publish, or the call that began the handshake is between its publication and the start
of the watchdog. There the bridge cannot cancel it, as `begin_close` has no `await`. A
task that goes on with its work has the signal to stop still unseen (`SignalsSeen`):
seeing it and leaving is one step, and the places where the writer does not look at it
are covered. And once the connection ended, each task is on its way out, aborted,
signalled, or owed its abort by an actor that is not done (`WriterTold`, `ReaderTold`).
The last part is inductive because whoever publishes is itself the one who owes: the
reader its abort of the writer, the writer its signal, the watchdog and `abort()` both
aborts, and the writer that finishes the handshake finds the reader waiting for just that
outcome (`OutcomeInv`). `CleanupInv` enters where a call starts the watchdog: no earlier
one is replaced.

The messages need six facts at once, `FlowInv`. A message is dropped only after a
signal, so as long as `shutdown` is Running (or the reader has not looked) what was
read equals what was delivered, queued and in hand (`InboundInv`); that is what keeps
`InboundInOrder`, which only speaks of what is left, from breaking at the next push.
A command is in the queue or in the writer's hand, never both, until it is answered
(`QueueInv`, `HandInv`): so no answer is given twice, and with `OutcomeInv` and `OutcomeKept` a
dropped oneshot is read when `state` is final, which gives `OneOutcome`. A send without an
answer is in one of these two places (`NoSendForgotten`): the writer, its cancellation and
its drain lose none, so what `stranded_send` shows is the only way to wait for ever: to be
pushed into a queue that was drained. A frame on the
wire was in hand once and success follows a flush (`WireInv`). One call at a time is
inside `receive` (`ExclusionInv`); `OneReceiver`, which counts, follows with a second
induction on the cardinality of the receives that succeeded. `ImplementsNativeReceive`
maps the queue to its length and the end of the reader task to the end of the
connection: a step of the reader that pushes is `Arrive`, its last step is `End` (the
outcome is published by then: `OutcomeInv`, and kept: `OutcomeKept`), the five steps of
a call map one to one, and everything else stutters.

`BudgetInv` adds up the bytes of two permit sets that grow and shrink on seven paths.
`OutboundBudget` says that the free bytes and the sizes of `PermitHolders` make the budget;
by `QueueInv` and `HandInv` a permit is in exactly one place (an admitted send, the queue,
the writer's hand), so a step moves it, which keeps the set, or adds or removes one
element of it. `InboundBudget` adds up a sequence of messages: a push and a pop change the
sum over its indices by one term. Sums are folds of the library, which chooses a
function that satisfies a recursive equation on sets: that there is one, that adding an
element adds its size, and that the sum of a finite set is a number, is proved by
induction on its cardinality. The induction is first-order, on a set of numbers or of
sets instead of a predicate (`LeastNumber`, `SetInduction`, `FiniteInduction`). `Senders` may be
infinite, as a program may send for ever; that only finitely many hold a permit is part of
the invariant. `BudgetInv` was checked with TLC in the instances of `outbound`, `inbound`
and `abandoned`; the first two list its sums.

`RemoteCloseIsRemote` is about two tasks that do not synchronise: the reader loads the
flag after it read a close frame, a `close()` sets it and the writer sends our frame.
`OriginInv` follows the flag: it is set before a `close()` publishes, so before a
signal, so before our frame (`FlagInv`); hence a reader that finds it unset has the
peer's frame while ours is not written, and from then on the socket refuses it
(`RemoteInv`). Its third part, `ResultInv`, says of which kind an outcome is at the
place that publishes it; with `OutcomeInv` and `CleanupInv` that gives
`ImplementsLifecycle`: the steps that publish are `BeginClose`, `PeerCloses`,
`FinishHandshake`, `Fail` or repeat what is published, the last of the two tasks to
stop is `LetGo`, a `close()` that returns is `Tell` (it finds both tasks stopped:
`CleanupInv`), and everything else stutters.

`Lossless` is not inductive because a message is out of the facade's sight between the
native receive and the loop. `ReceiveInv` says how far the future, the Tokio task and
the native call may be apart (`BridgeInv`), that what is under way is retained,
forgotten with its waiter or cancelled, and that a retained message comes after all
that were returned (`FlowInv` there). `NativeNeverRefuses` and `AbandonedIsSilent`
assume that no waiter was discarded (and, for the first, that no native receive was
cancelled) so far; both are states the program can see, and the proof shows that
they never turn back (`HistoryKept`).

`Quarantine` compares an id the code compares with a process the code does not know:
`OwnerInv` is what connects the two, that ids are used once, that `OWNER_PROCESS` is
the id of the process that loaded the module, and that whatever a process holds came
from that process. The invariants were first checked with TLC, all but `OriginInv`
by the runs above; it holds in the instances of `lifecycle`, `inbound`, `outbound` and
`abandoned`, and stays out of their lists because `RemoteCloseIsRemote` and
`ImplementsLifecycle`, which it serves, are in them.

Only model-checked: all liveness (`ReceiveEnds`, `ClosingEnds`, `TasksEnd`,
`CloseTerminates`, `ReceiveReturns`, `DropReleases`, `UnwantedConnectEnds`): fairness and
`ENABLED` are outside of what the prover handles. Every invariant, every action property
and both refinements that a run checks are proved.

## 5. What is not modelled, and the plan

Left out for good: the text of errors, payloads and their UTF-8, TLS and the HTTP
handshake, the checks of scheme and port in `client.rs` (each of them is
`ConnectFails`), the builder of the runtime, class registration (`lib.rs`), packaging.

Left out of a module that models the rest:

- An event loop that is closed under a suspended `receive()`, which `asyncio.run`
  does not do, and the garbage collection of a suspended task (closing its coroutine
  is modelled).
- Cancelling a future of an inherited connection in a forked child: what the callback
  then does in a runtime without threads is `pyo3-async-runtimes`' own.
- That every pong is flushed: it needs a socket that takes bytes, and a flush request
  that meets a full control channel is redundant (483).
- What tungstenite keeps in its write buffer beside a frame that is blocked:
  `EveryFrameFits` is about an empty buffer.
- 32-bit targets: `PlatformAssumption`.

Next, in order: three processes with liveness; the driver's `close()` composed with the
facade; what `WakeInv` is to the driver, for the facade's `ReceiveReturns`.

## 6. Where code and documentation disagree

- `stranded_send`: a send admitted before the writer dropped its queue and pushed
  after it (280-296) is neither written nor answered: it waits for ever on a closed
  connection and keeps its bytes. `docs/client.md:73-74` promises ownership
  "through flush or terminal failure".
- `clean_close`: a send the writer starts between the read of a clean close frame
  and its publication fails, the state is still Open, and the connection ends with
  a transport failure (630-638) although the peer closed with 1000, for which
  `docs/client.md:88` lists `ConnectionClosedOK`. A `close()` that meets the same
  gap ends with "close failed" for the same reason.
- `budget_retry`: the sender is answered before its byte permit is released
  (631-644), so a next send may be refused for bytes that nobody uses, although the
  refusal says to retry once an accepted send completes (258).

Seen while modelling, and not stated as a property a run must violate:

- A `receive()` whose coroutine is closed while it waits forgets its native receive
  (`fogws/client.py:65-67`), which keeps the native guard: the next `receive()` is
  refused with `ConcurrencyError` although no other is active, and the message the
  forgotten one takes is given to nobody. `NativeNeverRefuses` and `Lossless` name the
  exception.
- `is_owner_process` compares process ids (`src/src/runtime.rs:32`). With
  `MayRecycle = TRUE`, three processes and two ids, `Quarantine` is violated: the
  process that loaded the module exits, and a fork of its child gets its id.
