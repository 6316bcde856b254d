------------------------------- MODULE Driver -------------------------------
(***************************************************************************)
(* One ConnectionDriver from ConnectionDriver::start on: the reader task,  *)
(* the writer task, the close watchdog and the callers, interleaved on a   *)
(* multi-threaded runtime.  This module composes them and states what must *)
(* hold of the connection's lifecycle; DriverFlow states what must hold of *)
(* the messages.                                                           *)
(***************************************************************************)
EXTENDS DriverReader, DriverWriter, DriverCalls

Init ==
    /\ state = Open /\ shutdown = "Running"
    /\ readerUnseen = FALSE /\ writerUnseen = FALSE
    /\ closing = FALSE /\ closeTimeoutStarted = FALSE
    /\ tasksRemaining = 2
    /\ readerAborted = FALSE /\ writerAborted = FALSE
    /\ ws = "Active" /\ wire = << >> /\ flushed = 0
    /\ control = 0
    /\ inbound = << >> /\ inboundBytes = MaxBufferedBytes
    /\ outbound = << >> /\ outboundBytes = MaxBufferedBytes
    /\ response = [s \in Senders |-> Pending]
    /\ readerPc = "check" /\ readerFrame = "none" /\ readerMsg = NoMessage
    /\ readerOutcome = NoError /\ dataRead = 0 /\ pingsRead = 0
    /\ writerPc = "select" /\ writerCmd = NoCommand /\ writerError = NoError
    /\ watchdogPc = "none" /\ abandonPc = "idle"
    /\ closePc = [c \in Closers |-> "idle"]
    /\ closeTerminal = [c \in Closers |-> NoError]
    /\ closeResult = [c \in Closers |-> Pending]
    /\ sendPc = [s \in Senders |-> "idle"]
    /\ sendResult = [s \in Senders |-> Pending]
    /\ receiveActive = FALSE
    /\ recvPc = [r \in Receivers |-> "idle"]
    /\ recvResult = [r \in Receivers |-> Pending]
    /\ delivered = << >>

Next ==
    \/ ReaderNext \/ WriterNext \/ WatchdogStep \/ AbandonNext
    \/ \E c \in Closers : CloserNext(c)
    \/ \E s \in Senders : SenderNext(s)
    \/ \E r \in Receivers : ReceiverNext(r)

Spec == Init /\ [][Next]_vars

\* The runtime polls every task that can move, fires its timers, and cancels
\* an aborted task at its next wait.  Nothing is owed by the peer, by a write
\* or a flush, or by the program that starts and cancels calls.
Fairness ==
    /\ WF_vars(ReaderStep) /\ WF_vars(ReaderCancelled)
    /\ WF_vars(WriterStep) /\ WF_vars(WriterCancelled)
    /\ WF_vars(WatchdogStep) /\ WF_vars(AbandonRest)
    /\ \A c \in Closers : WF_vars(CloseStep(c))
    /\ \A s \in Senders : WF_vars(SendStep(s))
    /\ \A r \in Receivers : WF_vars(ReceiveStep(r))

FairSpec == Spec /\ Fairness

-----------------------------------------------------------------------------
ReaderPcs == {"check", "select", "queue", "acquire", "enqueue", "load closing",
              "store closing", "publish peer", "signal peer", "await terminal",
              "timeout publish", "fail publish", "fail signal", "abort writer",
              "stop", "gone", "stopped"}
WriterPcs == {"select", "events", "flush", "write", "command flush", "respond",
              "release", "send close", "send close flush", "await peer",
              "close flush", "close done", "fail publish", "fail signal",
              "fail respond", "stop", "draining", "gone", "stopped"}
WatchdogPcs == {"none", "sleeping", "publish", "abort reader", "abort writer", "drop", "done"}
ClosePcs == HoldsGuard \cup {"idle", "guard", "wait terminal", "wait tasks", "done", "cancelled"}
AbandonPcs == {"idle", "publish", "signal", "abort reader", "abort writer", "done", "dropped"}
SendPcs == {"idle", "acquire", "reserve", "admitted", "waiting", "done", "cancelled"}
RecvPcs == {"idle", "waiting", "unclaim", "done"}
Messages == [id : Nat, size : Nat]

Outcomes == DriverErrors \cup {NoError}

StateTypes  == state \in DriverStates
SignalTypes == shutdown \in ShutdownSignals /\ readerUnseen \in BOOLEAN /\ writerUnseen \in BOOLEAN
FlagTypes   == closing \in BOOLEAN /\ closeTimeoutStarted \in BOOLEAN
TaskTypes   == tasksRemaining \in Nat /\ readerAborted \in BOOLEAN /\ writerAborted \in BOOLEAN
SocketTypes ==
    /\ ws \in {"Active", "ClosedByUs", "ClosedByPeer", "CloseAcknowledged", "Terminated"}
    /\ wire \in Seq(Senders \cup {CloseSent}) /\ flushed \in Nat
ControlTypes  == control \in Nat
InboundTypes  == inbound \in Seq(Messages) /\ inboundBytes \in Nat
OutboundTypes == /\ outbound \in Seq(Senders) /\ outboundBytes \in Nat
                 /\ response \in [Senders -> Results]
SendTypes == sendPc \in [Senders -> SendPcs] /\ sendResult \in [Senders -> Results]
RecvTypes == /\ receiveActive \in BOOLEAN /\ delivered \in Seq(Nat)
             /\ recvPc \in [Receivers -> RecvPcs] /\ recvResult \in [Receivers -> Results]

\* An outcome is computed before the step that publishes it.
ReaderTypes ==
    /\ readerPc \in ReaderPcs /\ readerFrame \in CloseFrames \cup {"none", "End"}
    /\ readerMsg \in Messages /\ dataRead \in Nat /\ pingsRead \in Nat
    /\ readerOutcome \in Outcomes
    /\ readerPc \in {"store closing", "publish peer", "signal peer", "await terminal",
                     "timeout publish", "fail publish"} => readerOutcome \in DriverErrors
    /\ readerPc = "load closing" => readerFrame # "none"

\* A command is in hand exactly where it is written and answered.
WriterTypes ==
    /\ writerPc \in WriterPcs /\ writerCmd \in Senders \cup {NoCommand}
    /\ writerError \in Outcomes
    /\ writerPc \in {"fail publish", "fail signal", "fail respond"} => writerError \in DriverErrors
    /\ writerPc \in {"write", "command flush", "respond", "release", "fail respond"}
          => writerCmd \in Senders

CloseTypes ==
    /\ watchdogPc \in WatchdogPcs /\ abandonPc \in AbandonPcs
    /\ closePc \in [Closers -> ClosePcs]
    /\ closeTerminal \in [Closers -> Outcomes]
    /\ closeResult \in [Closers -> Results]
    /\ \A c \in Closers : closePc[c] = "wait tasks" => closeTerminal[c] \in DriverErrors

\* The values the fields of ConnectionDriver and ReaderContext and the locals of
\* the tasks may take; what a task publishes, answers or returns was set on
\* every path that leads there (driver.rs:100-127, 438-716).
TypeOK ==
    /\ StateTypes /\ SignalTypes /\ FlagTypes /\ TaskTypes /\ SocketTypes /\ ControlTypes
    /\ InboundTypes /\ OutboundTypes /\ ReaderTypes /\ WriterTypes /\ CloseTypes
    /\ SendTypes /\ RecvTypes

-----------------------------------------------------------------------------
(* Safety of the lifecycle                                                 *)

B2N(b) == IF b THEN 1 ELSE 0
Holders == {c \in Closers : closePc[c] \in HoldsGuard}
LiveGuards == B2N(readerPc # "stopped") + B2N(writerPc # "stopped")
                + B2N(watchdogPc \notin {"none", "done"}) + Cardinality(Holders)

\* The count close() waits on is exactly the number of live task guards: no
\* guard is lost when one of two racing closes hands its guard over and the
\* other drops it, and the saturating subtraction never saturates
\* (driver.rs:67-80, 353-388).
GuardsCounted == tasksRemaining = LiveGuards

\* A task is aborted, told to abort, or gone only after the connection has an
\* outcome: what a caller finds when a channel ends is that outcome, whichever
\* of the six paths that end a connection got there first (driver.rs:344-351,
\* 530-534, 588-645).
EndsAfterOutcome ==
    \/ shutdown = "Abort" \/ readerAborted \/ writerAborted
    \/ readerPc \in {"stop", "gone", "stopped"}
    \/ writerPc \in {"stop", "draining", "gone", "stopped"}
    => is_terminal(state)

\* A close() that returned did so after both tasks had released their half of
\* the socket and no watchdog was left to abort anything (driver.rs:323-342).
CloseReturnsAfterCleanup ==
    \A c \in Closers : closePc[c] = "done" =>
        readerPc = "stopped" /\ writerPc = "stopped" /\ watchdogPc \in {"none", "done"}

\* Everyone who learns how the connection ended learns the same: every close()
\* returns the result of the one outcome, and the end that receive() and an
\* admitted send() report is that outcome (driver.rs:323-342, 317-320, 298-300).
Learned(result) == result = state.error /\ is_terminal(state)
OneOutcome ==
    /\ \A c \in Closers : closePc[c] = "done" =>
          closeResult[c] = close_result(state.error) /\ is_terminal(state)
    /\ \A r \in Receivers : recvResult[r] \notin {Pending, Ok, Cancelled, Concurrency}
          => Learned(recvResult[r])
    /\ \A s \in Senders :
          /\ response[s] \notin {Pending, Ok, Dropped} => Learned(response[s])
          /\ sendPc[s] = "done" /\ response[s] = Dropped => Learned(sendResult[s])

\* The fallback outcomes for a task that vanished are never what a caller is
\* told: the writer that finds the reader gone, and a call that finds its
\* channel closed, come after a published outcome (driver.rs:616-625, 403).
Fallback == {Transport("reader stopped"), Transport("stopped unexpectedly")}
NoFallbackOutcome ==
    /\ state.error \notin Fallback
    /\ \A r \in Receivers : recvResult[r] \notin Fallback
    /\ \A s \in Senders : sendResult[s] \notin Fallback

\* The outcome is final once Closed, and the outcome of the peer's close frame
\* survives everything but abort(): not a writer failure, a reply that cannot
\* be flushed, or either timeout replaces it (driver.rs:702-716, 739-776).
OutcomeKept ==
    [][ /\ is_terminal(state) => UNCHANGED state
        /\ state.tag = "PeerClosed" /\ state' # state =>
              state' \in {Closed(state.error), Closed(Transport("abandoned"))} ]_vars

\* The driver implements the lifecycle a user of the connection reasons with:
\* its state channel is the phase and the outcome, the transport is held while
\* the reader or the writer task lives, and close() tells (driver.rs:25-37,
\* 130-195, 323-342).
Lifecycle == INSTANCE ConnectionLifecycle
    WITH phase <- state.tag, outcome <- state.error,
         held <- readerPc # "stopped" \/ writerPc # "stopped",
         told <- closeResult
ImplementsLifecycle == Lifecycle!LifecycleSpec

-----------------------------------------------------------------------------
(* Progress of the lifecycle                                               *)

\* Every close() comes back, although the peer may stay silent and the socket
\* may never take another byte: the watchdog or the reader's own timeout ends
\* the handshake (driver.rs:323-388, 518-528).
CloseTerminates ==
    \A c \in Closers : closePc[c] # "idle" ~> closePc[c] \in {"done", "cancelled"}

\* Once the handshake began the connection ends, even if the waiter of the
\* close() that began it was cancelled (docs/client.md:91, driver.rs:353-388).
ClosingEnds == state.tag \in {"Closing", "PeerClosed"} ~> is_terminal(state)

\* However the connection ended, both tasks and the watchdog stop, without
\* anyone calling close() (driver.rs:438-649).
TasksEnd == is_terminal(state) ~> tasksRemaining = 0

\* A pending receive() never outlives the connection (driver.rs:314-321).
ReceiveEnds ==
    \A r \in Receivers : recvPc[r] # "idle" /\ is_terminal(state) ~> recvPc[r] = "done"

=============================================================================
