--------------------------- MODULE DriverChannels ---------------------------
(***************************************************************************)
(* What the tasks and the callers of one ConnectionDriver share            *)
(* (src/src/driver.rs): two watch channels, the flags, the abort handles   *)
(* and the count of live task guards, the bounded queues with their byte   *)
(* budgets, and the WebSocket itself.  The actors are DriverReader,        *)
(* DriverWriter and DriverCalls; Driver composes them.                     *)
(***************************************************************************)
EXTENDS DriverOutcomes, Naturals, Sequences, FiniteSets

CONSTANTS
    Senders,           \* one element per call of send_text or send_bytes
    Receivers,         \* one element per native call of receive
    Closers,           \* one element per call of close
    Size,              \* Size[s]: bytes of the message of sender s
    InboundSizes,      \* sizes of the messages the peer may send
    MaxQueue, MaxBufferedBytes, MaxMessageSize,   \* ConnectionConfig
    ControlCapacity,   \* slots of the control channel
    PeerEvents,        \* what reading the socket may yield besides messages
    MaxData, MaxPings, \* bounds: data messages and pings the peer sends
    WriteFaults,       \* may a write or a flush fail
    MayAbandon,        \* may the connection be abandoned
    MayCancel          \* may the waiter of a call be cancelled

NoCommand == "no command"
CloseSent == "Close"
NoMessage == [id |-> 0, size |-> 0]

ASSUME CallersAssumption ==
    /\ IsFiniteSet(Closers)
    /\ NoCommand \notin Senders /\ CloseSent \notin Senders
ASSUME SizeAssumption == Size \in [Senders -> Nat]
\* ConnectionConfig::new refuses every other configuration, and tungstenite
\* refuses to read a message above max_message_size.
ASSUME ConfigAssumption ==
    /\ MaxQueue \in Nat \ {0}
    /\ MaxMessageSize \in Nat \ {0}
    /\ MaxBufferedBytes \in Nat /\ MaxBufferedBytes >= MaxMessageSize
    /\ ControlCapacity \in Nat \ {0}
    /\ InboundSizes \subseteq 0..MaxMessageSize
ASSUME EnvironmentAssumption ==
    /\ PeerEvents \subseteq CloseFrames \cup {"End", "Error"}
    /\ MaxData \in Nat /\ MaxPings \in Nat
    /\ {WriteFaults, MayAbandon, MayCancel} \subseteq BOOLEAN

VARIABLES
    state,              \* watch channel of DriverState
    shutdown,           \* watch channel of ShutdownSignal ...
    readerUnseen,       \* ... with a version the reader has not seen
    writerUnseen,       \* ... with a version the writer has not seen
    closing,            \* AtomicBool
    closeTimeoutStarted,\* AtomicBool
    tasksRemaining,     \* watch channel counting live DriverTaskGuards
    readerAborted, writerAborted,  \* AbortHandle::abort was called
    ws, wire, flushed,  \* WebSocket: close state, frames written, how many flushed
    control,            \* flush requests queued for the writer
    inbound, inboundBytes,         \* queue of messages, byte permits left
    outbound, outboundBytes,       \* queue of commands, byte permits left
    response,           \* response[s]: the oneshot of sender s
    readerPc, readerFrame, readerMsg, readerOutcome, dataRead, pingsRead,
    writerPc, writerCmd, writerError,
    watchdogPc, closePc, closeTerminal, closeResult, abandonPc,
    sendPc, sendResult,
    receiveActive, recvPc, recvResult, delivered

signalVars   == <<shutdown, readerUnseen, writerUnseen>>
flagVars     == <<closing, closeTimeoutStarted>>
taskVars     == <<tasksRemaining, readerAborted, writerAborted>>
socketVars   == <<ws, wire, flushed>>
inboundVars  == <<inbound, inboundBytes>>
outboundVars == <<outbound, outboundBytes, response>>
readerVars   == <<readerPc, readerFrame, readerMsg, readerOutcome, dataRead, pingsRead>>
writerVars   == <<writerPc, writerCmd, writerError>>
closeVars    == <<watchdogPc, closePc, closeTerminal, closeResult, abandonPc>>
sendVars     == <<sendPc, sendResult>>
recvVars     == <<receiveActive, recvPc, recvResult, delivered>>

vars == <<state, signalVars, flagVars, taskVars, socketVars, control,
          inboundVars, outboundVars, readerVars, writerVars, closeVars,
          sendVars, recvVars>>

-----------------------------------------------------------------------------
(* Watch channel: a modification marks the value unseen for both tasks.    *)

Signal(next) ==
    /\ shutdown' = next
    /\ readerUnseen' = (readerUnseen \/ next # shutdown)
    /\ writerUnseen' = (writerUnseen \/ next # shutdown)

(* Task guards: DriverTaskGuard::new and its Drop.                         *)

TaskStarted == tasksRemaining' = tasksRemaining + 1
TaskEnded   == tasksRemaining' = IF tasksRemaining = 0 THEN 0 ELSE tasksRemaining - 1

(* The ends of the queues live and die with the task that owns them.       *)

ReaderGone  == readerPc \in {"gone", "stopped"}
WriterGone  == writerPc \in {"draining", "gone", "stopped"}
DriverGone  == abandonPc = "dropped"

\* Item permits of the outbound channel in use: reserved, or queued.
ItemsHeld == Len(outbound) + Cardinality({s \in Senders : sendPc[s] = "admitted"})

=============================================================================
