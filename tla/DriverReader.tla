---------------------------- MODULE DriverReader ----------------------------
(***************************************************************************)
(* The reader task: run_reader with queue_inbound, finish_peer_close and   *)
(* finish_reader_failure.  It reads the socket, queues messages under the  *)
(* inbound byte budget and capacity, and turns the end of the connection   *)
(* into an outcome.  Every read or write of shared state is a step.        *)
(***************************************************************************)
EXTENDS DriverChannels

\* The reader holds the byte permit of its message only while it waits for a
\* slot of the inbound queue.
ReaderPermit == IF readerPc = "enqueue" THEN readerMsg.size ELSE 0

\* What no step of the reader changes, but for the task it aborts and its own
\* task guard.
readerOthers == <<taskVars, outboundVars, writerVars, closeVars, sendVars, recvVars>>

ReaderCheck ==
    /\ readerPc = "check"
    /\ readerPc' = IF shutdown = "Abort" THEN "stop" ELSE "select"
    /\ UNCHANGED <<readerFrame, readerMsg, readerOutcome, dataRead, pingsRead>>
    /\ UNCHANGED <<state, signalVars, flagVars, socketVars, control, inboundVars, readerOthers>>

ReaderSeesSignal ==
    /\ readerPc = "select" /\ readerUnseen
    /\ readerUnseen' = FALSE
    /\ readerPc' = IF shutdown = "Abort" THEN "stop" ELSE "check"
    /\ UNCHANGED <<readerFrame, readerMsg, readerOutcome, dataRead, pingsRead>>
    /\ UNCHANGED <<state, shutdown, writerUnseen, flagVars, socketVars, control,
                   inboundVars, readerOthers>>

ReadData ==
    /\ readerPc = "select" /\ dataRead < MaxData
    /\ \E size \in InboundSizes : readerMsg' = [id |-> dataRead + 1, size |-> size]
    /\ dataRead' = dataRead + 1
    /\ readerPc' = "queue"
    /\ UNCHANGED <<readerFrame, readerOutcome, pingsRead>>
    /\ UNCHANGED <<state, signalVars, flagVars, socketVars, control, inboundVars, readerOthers>>

\* tungstenite has queued the pong; the writer is asked to flush it, and a
\* full or closed control channel is ignored.
ReadPing ==
    /\ readerPc = "select" /\ pingsRead < MaxPings
    /\ pingsRead' = pingsRead + 1
    /\ control' = IF control < ControlCapacity /\ ~WriterGone THEN control + 1 ELSE control
    /\ readerPc' = "check"
    /\ UNCHANGED <<readerFrame, readerMsg, readerOutcome, dataRead>>
    /\ UNCHANGED <<state, signalVars, flagVars, socketVars, inboundVars, readerOthers>>

\* Mutant: the end of the stream ends the task without an outcome.
ReadEndSilently ==
    /\ readerPc = "select" /\ "End" \in PeerEvents
    /\ readerFrame' = "End"
    /\ ws' = "Terminated"
    /\ readerPc' = "stop"
    /\ UNCHANGED <<readerMsg, readerOutcome, dataRead, pingsRead, wire, flushed>>
    /\ UNCHANGED <<state, signalVars, flagVars, control, inboundVars, readerOthers>>

\* The end of the stream: None, or the ConnectionClosed error.
ReadEnd ==
    /\ readerPc = "select" /\ "End" \in PeerEvents
    /\ readerFrame' = "End"
    /\ ws' = "Terminated"
    /\ readerPc' = "load closing"
    /\ UNCHANGED <<readerMsg, readerOutcome, dataRead, pingsRead, wire, flushed>>
    /\ UNCHANGED <<state, signalVars, flagVars, control, inboundVars, readerOthers>>

ReadError ==
    /\ readerPc = "select" /\ "Error" \in PeerEvents
    /\ readerOutcome' = Transport("receive failed")
    /\ readerPc' = "fail publish"
    /\ UNCHANGED <<readerFrame, readerMsg, dataRead, pingsRead>>
    /\ UNCHANGED <<state, signalVars, flagVars, socketVars, control, inboundVars, readerOthers>>

\* Reading a close frame changes the WebSocket before the reader runs on:
\* from then on every write but a flush is refused.
ReadClose ==
    /\ readerPc = "select"
    /\ \E frame \in PeerEvents \cap CloseFrames : readerFrame' = frame
    /\ ws' = IF ws = "Active" THEN "ClosedByPeer" ELSE "CloseAcknowledged"
    /\ readerPc' = "load closing"
    /\ UNCHANGED <<readerMsg, readerOutcome, dataRead, pingsRead, wire, flushed>>
    /\ UNCHANGED <<state, signalVars, flagVars, control, inboundVars, readerOthers>>

-----------------------------------------------------------------------------
(* queue_inbound                                                           *)

\* Mutant: the shutdown signal is not looked at before a message is queued.
QueueWithoutCheck ==
    /\ readerPc = "queue"
    /\ readerPc' = "acquire"
    /\ UNCHANGED <<readerFrame, readerMsg, readerOutcome, dataRead, pingsRead>>
    /\ UNCHANGED <<state, signalVars, flagVars, socketVars, control, inboundVars, readerOthers>>

QueueCheck ==
    /\ readerPc = "queue"
    /\ IF shutdown # "Running"
       THEN readerPc' = "check" /\ readerMsg' = NoMessage
       ELSE readerPc' = "acquire" /\ UNCHANGED readerMsg
    /\ UNCHANGED <<readerFrame, readerOutcome, dataRead, pingsRead>>
    /\ UNCHANGED <<state, signalVars, flagVars, socketVars, control, inboundVars, readerOthers>>

AcquireInbound ==
    /\ readerPc = "acquire" /\ inboundBytes >= readerMsg.size
    /\ inboundBytes' = inboundBytes - readerMsg.size
    /\ readerPc' = "enqueue"
    /\ UNCHANGED <<readerFrame, readerMsg, readerOutcome, dataRead, pingsRead, inbound>>
    /\ UNCHANGED <<state, signalVars, flagVars, socketVars, control, readerOthers>>

Enqueue ==
    /\ readerPc = "enqueue" /\ Len(inbound) < MaxQueue /\ ~DriverGone
    /\ inbound' = Append(inbound, readerMsg)
    /\ readerMsg' = NoMessage
    /\ readerPc' = "check"
    /\ UNCHANGED <<readerFrame, readerOutcome, dataRead, pingsRead, inboundBytes>>
    /\ UNCHANGED <<state, signalVars, flagVars, socketVars, control, readerOthers>>

\* A shutdown signal ends the wait for bytes or for a slot: the message is
\* dropped and its permit, if it has one, released.
AbandonMessage ==
    /\ readerPc \in {"acquire", "enqueue"} /\ readerUnseen
    /\ readerUnseen' = FALSE
    /\ inboundBytes' = inboundBytes + ReaderPermit
    /\ readerMsg' = NoMessage
    /\ readerPc' = "check"
    /\ UNCHANGED <<readerFrame, readerOutcome, dataRead, pingsRead, inbound>>
    /\ UNCHANGED <<state, shutdown, writerUnseen, flagVars, socketVars, control, readerOthers>>

\* The receiving end is gone with the driver: run_reader leaves its loop.
EnqueueFails ==
    /\ readerPc = "enqueue" /\ DriverGone
    /\ inboundBytes' = inboundBytes + ReaderPermit
    /\ readerMsg' = NoMessage
    /\ readerFrame' = "End"
    /\ readerPc' = "load closing"
    /\ UNCHANGED <<readerOutcome, dataRead, pingsRead, inbound>>
    /\ UNCHANGED <<state, signalVars, flagVars, socketVars, control, readerOthers>>

-----------------------------------------------------------------------------
(* The end of the connection, seen by the reader                           *)

\* Mutant: no outcome is computed.
LoadClosingOnly ==
    /\ readerPc = "load closing"
    /\ readerPc' = IF closing THEN "publish peer" ELSE "fail publish"
    /\ UNCHANGED <<readerFrame, readerMsg, readerOutcome, dataRead, pingsRead>>
    /\ UNCHANGED <<state, signalVars, flagVars, socketVars, control, inboundVars, readerOthers>>

\* Mutant: the frame of the peer is always taken for the first one.
LoadClosingRemote ==
    /\ readerPc = "load closing"
    /\ IF readerFrame = "End"
       THEN IF closing
            THEN readerOutcome' = local_normal /\ readerPc' = "publish peer"
            ELSE readerOutcome' = Transport("ended") /\ readerPc' = "fail publish"
       ELSE readerOutcome' = classify_close(readerFrame, FALSE) /\ readerPc' = "store closing"
    /\ UNCHANGED <<readerFrame, readerMsg, dataRead, pingsRead>>
    /\ UNCHANGED <<state, signalVars, flagVars, socketVars, control, inboundVars, readerOthers>>

LoadClosing ==
    /\ readerPc = "load closing"
    /\ IF readerFrame = "End"
       THEN IF closing
            THEN readerOutcome' = local_normal /\ readerPc' = "publish peer"
            ELSE readerOutcome' = Transport("ended") /\ readerPc' = "fail publish"
       ELSE readerOutcome' = classify_close(readerFrame, closing) /\ readerPc' = "store closing"
    /\ UNCHANGED <<readerFrame, readerMsg, dataRead, pingsRead>>
    /\ UNCHANGED <<state, signalVars, flagVars, socketVars, control, inboundVars, readerOthers>>

StoreClosing ==
    /\ readerPc = "store closing"
    /\ closing' = TRUE
    /\ readerPc' = "publish peer"
    /\ UNCHANGED <<readerFrame, readerMsg, readerOutcome, dataRead, pingsRead>>
    /\ UNCHANGED <<state, signalVars, closeTimeoutStarted, socketVars, control,
                   inboundVars, readerOthers>>

PublishPeerClosed ==
    /\ readerPc = "publish peer"
    /\ state' = publish_peer_closed(state, readerOutcome)
    /\ readerPc' = "signal peer"
    /\ UNCHANGED <<readerFrame, readerMsg, readerOutcome, dataRead, pingsRead>>
    /\ UNCHANGED <<signalVars, flagVars, socketVars, control, inboundVars, readerOthers>>

SignalPeerClose ==
    /\ readerPc = "signal peer"
    /\ Signal(signal_peer_close(shutdown))
    /\ readerPc' = "await terminal"
    /\ UNCHANGED <<readerFrame, readerMsg, readerOutcome, dataRead, pingsRead>>
    /\ UNCHANGED <<state, flagVars, socketVars, control, inboundVars, readerOthers>>

\* wait_for_terminal under close_timeout: the terminal state, or the timer.
ReaderSeesTerminal ==
    /\ readerPc = "await terminal" /\ is_terminal(state)
    /\ readerPc' = "stop"
    /\ UNCHANGED <<readerFrame, readerMsg, readerOutcome, dataRead, pingsRead>>
    /\ UNCHANGED <<state, signalVars, flagVars, socketVars, control, inboundVars, readerOthers>>

ReaderTimesOut ==
    /\ readerPc = "await terminal"
    /\ readerPc' = "timeout publish"
    /\ UNCHANGED <<readerFrame, readerMsg, readerOutcome, dataRead, pingsRead>>
    /\ UNCHANGED <<state, signalVars, flagVars, socketVars, control, inboundVars, readerOthers>>

\* publish_terminal, on a failure or when the timer fired.
ReaderPublishes ==
    /\ readerPc \in {"fail publish", "timeout publish"}
    /\ state' = publish_terminal(state, readerOutcome)
    /\ readerPc' = IF readerPc = "fail publish" THEN "fail signal" ELSE "abort writer"
    /\ UNCHANGED <<readerFrame, readerMsg, readerOutcome, dataRead, pingsRead>>
    /\ UNCHANGED <<signalVars, flagVars, socketVars, control, inboundVars, readerOthers>>

ReaderSignalsAbort ==
    /\ readerPc = "fail signal"
    /\ Signal(signal_abort(shutdown))
    /\ readerPc' = "abort writer"
    /\ UNCHANGED <<readerFrame, readerMsg, readerOutcome, dataRead, pingsRead>>
    /\ UNCHANGED <<state, flagVars, socketVars, control, inboundVars, readerOthers>>

\* Mutant: the reader relies on the signal to stop the writer.
ReaderSparesWriter ==
    /\ readerPc = "abort writer"
    /\ readerPc' = "stop"
    /\ UNCHANGED <<readerFrame, readerMsg, readerOutcome, dataRead, pingsRead>>
    /\ UNCHANGED <<state, signalVars, flagVars, socketVars, control, inboundVars, readerOthers>>

ReaderAbortsWriter ==
    /\ readerPc = "abort writer"
    /\ writerAborted' = TRUE
    /\ readerPc' = "stop"
    /\ UNCHANGED <<readerFrame, readerMsg, readerOutcome, dataRead, pingsRead>>
    /\ UNCHANGED <<tasksRemaining, readerAborted>>
    /\ UNCHANGED <<state, signalVars, flagVars, socketVars, control, inboundVars,
                   outboundVars, writerVars, closeVars, sendVars, recvVars>>

-----------------------------------------------------------------------------
(* The end of the task                                                     *)

\* Mutant: the permit held across the cancelled wait leaks.
ReaderCancelledLeaks ==
    /\ readerAborted
    /\ readerPc \in {"check", "select", "acquire", "enqueue", "await terminal"}
    /\ readerMsg' = NoMessage
    /\ readerPc' = "stop"
    /\ UNCHANGED <<readerFrame, readerOutcome, dataRead, pingsRead, inboundVars>>
    /\ UNCHANGED <<state, signalVars, flagVars, socketVars, control, readerOthers>>

\* AbortHandle::abort takes effect where the task waits, or before it first runs.
ReaderCancelled ==
    /\ readerAborted
    /\ readerPc \in {"check", "select", "acquire", "enqueue", "await terminal"}
    /\ inboundBytes' = inboundBytes + ReaderPermit
    /\ readerMsg' = NoMessage
    /\ readerPc' = "stop"
    /\ UNCHANGED <<readerFrame, readerOutcome, dataRead, pingsRead, inbound>>
    /\ UNCHANGED <<state, signalVars, flagVars, socketVars, control, readerOthers>>

\* ReaderContext is dropped, and with it the senders of both channels.
ReaderDropsContext ==
    /\ readerPc = "stop"
    /\ readerPc' = "gone"
    /\ UNCHANGED <<readerFrame, readerMsg, readerOutcome, dataRead, pingsRead>>
    /\ UNCHANGED <<state, signalVars, flagVars, socketVars, control, inboundVars, readerOthers>>

ReaderStops ==
    /\ readerPc = "gone"
    /\ TaskEnded
    /\ readerPc' = "stopped"
    /\ UNCHANGED <<readerFrame, readerMsg, readerOutcome, dataRead, pingsRead>>
    /\ UNCHANGED <<readerAborted, writerAborted>>
    /\ UNCHANGED <<state, signalVars, flagVars, socketVars, control, inboundVars,
                   outboundVars, writerVars, closeVars, sendVars, recvVars>>

-----------------------------------------------------------------------------
\* Steps of the environment: what the peer sends is never owed.
ReaderInput == ReadData \/ ReadPing \/ ReadEnd \/ ReadError \/ ReadClose

\* Steps the runtime owes the task.
ReaderStep ==
    \/ ReaderCheck \/ ReaderSeesSignal
    \/ QueueCheck \/ AcquireInbound \/ Enqueue \/ AbandonMessage \/ EnqueueFails
    \/ LoadClosing \/ StoreClosing \/ PublishPeerClosed \/ SignalPeerClose
    \/ ReaderSeesTerminal \/ ReaderTimesOut
    \/ ReaderPublishes \/ ReaderSignalsAbort \/ ReaderAbortsWriter
    \/ ReaderDropsContext \/ ReaderStops

ReaderNext == ReaderInput \/ ReaderStep \/ ReaderCancelled

=============================================================================
