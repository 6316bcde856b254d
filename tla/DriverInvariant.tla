-------------------------- MODULE DriverInvariant ---------------------------
(***************************************************************************)
(* Why the lifecycle properties of Driver hold: the inductive invariants   *)
(* behind EndsAfterOutcome, OneOutcome, NoFallbackOutcome and OutcomeKept, *)
(* behind the cleanup before a close() returns, and behind the end that    *)
(* reaches every task.  Each part of OutcomeInv says what one actor may    *)
(* assume of the published state at each point of its program, so that no  *)
(* part has to look at another actor.                                      *)
(***************************************************************************)
EXTENDS Driver

\* The peer closed, or the connection ended: both are final enough that no
\* step takes them back.
Ending == state.tag \in {"PeerClosed", "Closed"}

\* The outcome on the state channel is never a fallback, and a PeerClosed one
\* is the reader's, which still waits for the handshake to end.
StateInv ==
    /\ state.error \notin Fallback
    /\ state.tag = "PeerClosed" =>
          /\ readerPc \in {"signal peer", "await terminal", "timeout publish"}
          /\ state.error = readerOutcome

\* The signals never run ahead of the state they tell about.
ShutdownInv ==
    /\ shutdown = "Abort" => is_terminal(state)
    /\ shutdown = "PeerClose" => Ending

AbortInv == readerAborted \/ writerAborted => is_terminal(state)

ReaderInv ==
    /\ readerPc \in {"fail signal", "abort writer", "stop", "gone", "stopped"}
          => is_terminal(state)
    /\ readerPc \in {"signal peer", "await terminal", "timeout publish"} => Ending
    /\ readerOutcome \notin Fallback

\* The writer leaves the handshake, and answers a failed command, only with
\* the published outcome.
WriterInv ==
    /\ writerPc \in {"stop", "draining", "gone", "stopped"} => is_terminal(state)
    /\ writerPc \in {"fail signal", "fail respond"} => Learned(writerError)
    /\ writerPc \in {"close flush", "close done"} => Ending
    /\ writerPc \in {"send close", "send close flush", "await peer"} => shutdown # "Running"
    /\ writerError \in Fallback => is_terminal(state)

WatchdogInv ==
    watchdogPc \in {"abort reader", "abort writer", "drop", "done"} => is_terminal(state)

AbandonInv ==
    abandonPc \in {"signal", "abort reader", "abort writer", "done", "dropped"}
        => is_terminal(state)

CloserInv ==
    \A c \in Closers :
        /\ closePc[c] \in {"wait tasks", "done"} => Learned(closeTerminal[c])
        /\ closePc[c] = "done" => closeResult[c] = close_result(closeTerminal[c])

\* A sender is answered with the published outcome, or dropped after it.
ResponseInv ==
    \A s \in Senders :
        /\ response[s] \notin {Pending, Ok, Dropped} => Learned(response[s])
        /\ response[s] = Dropped => is_terminal(state)

SendInv == \A s \in Senders : sendResult[s] \notin Fallback

RecvInv ==
    \A r \in Receivers :
        recvResult[r] \notin {Pending, Ok, Cancelled, Concurrency} => Learned(recvResult[r])

\* At every point of every actor, what it goes on to tell was published first
\* (driver.rs:323-406, 438-776).
OutcomeInv ==
    /\ StateInv /\ ShutdownInv /\ AbortInv /\ ReaderInv /\ WriterInv /\ WatchdogInv
    /\ AbandonInv /\ CloserInv /\ ResponseInv /\ SendInv /\ RecvInv

-----------------------------------------------------------------------------
(* The cleanup                                                             *)

\* Nobody will start the watchdog, or abort anything, any more.
Quiet ==
    /\ readerPc = "stopped" /\ writerPc = "stopped" /\ watchdogPc \in {"none", "done"}
    /\ \A c \in Closers : closePc[c] \notin {"signal", "arm"}

\* The guards are counted, the watchdog is started once, and what a close()
\* that returned found quiet stays quiet, also while others still begin
\* (driver.rs:67-80, 323-388).
CleanupInv ==
    /\ GuardsCounted
    /\ ~closeTimeoutStarted => watchdogPc = "none"
    /\ (\E c \in Closers : closePc[c] = "done") => Quiet

-----------------------------------------------------------------------------
(* No wake-up is lost                                                      *)

\* A handshake has a timer: the call that began it starts the watchdog, whoever
\* else calls or is cancelled (driver.rs:353-388).
Arming == {c \in Closers : closePc[c] \in {"signal", "arm"}}
HandshakeTimed ==
    /\ closeTimeoutStarted \/ Arming # {} => state.tag # "Open"
    /\ state.tag = "Closing" =>
          IF closeTimeoutStarted THEN watchdogPc \in {"sleeping", "publish"} ELSE Arming # {}

\* A task that goes on with its work has no signal to stop behind it.
SignalsSeen ==
    /\ shutdown # "Running" /\ writerPc \in {"select", "events", "flush", "write",
                                             "command flush", "respond", "release"}
          => writerUnseen
    /\ shutdown = "Abort" /\ readerPc \in {"select", "queue", "acquire", "enqueue"}
          => readerUnseen

\* A task is told of the end: it is on its way out, it was aborted or signalled, or
\* an actor that is not done goes on to do so.
WriterTold ==
    \/ writerPc \in {"fail signal", "fail respond", "stop", "draining", "gone", "stopped"}
    \/ writerAborted
    \/ readerPc \in {"fail signal", "abort writer"}
    \/ watchdogPc \in {"abort reader", "abort writer"}
    \/ abandonPc \in {"signal", "abort reader", "abort writer"}
ReaderTold ==
    \/ readerPc \in {"signal peer", "await terminal", "timeout publish",
                     "fail signal", "abort writer", "stop", "gone", "stopped"}
    \/ readerAborted \/ shutdown = "Abort"
    \/ writerPc = "fail signal"
    \/ watchdogPc = "abort reader"
    \/ abandonPc \in {"signal", "abort reader"}

\* Whichever of the six paths ended the connection, no task is left waiting for a
\* signal that was sent, for an abort that nobody owes it, or for a timer that does
\* not run (driver.rs:344-388, 438-534, 575-649, 652-716).
WakeInv ==
    /\ HandshakeTimed /\ SignalsSeen
    /\ is_terminal(state) => WriterTold /\ ReaderTold

=============================================================================
