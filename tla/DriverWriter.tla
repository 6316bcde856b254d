---------------------------- MODULE DriverWriter ----------------------------
(***************************************************************************)
(* The writer task: run_writer with next_writer_event and close_writer.    *)
(* It is the only task that writes messages and the close frame; it obeys  *)
(* the shutdown signal before it takes the next control or outbound event. *)
(***************************************************************************)
EXTENDS DriverChannels

\* What no step of the writer changes, but for its own task guard.
writerOthers == <<flagVars, taskVars, inboundVars, readerVars, closeVars, sendVars, recvVars>>

\* Answer the sender of the command in hand and release its byte permit.
Answer(s, result) == response' = [response EXCEPT ![s] = result]
Release(s) == outboundBytes' = outboundBytes + Size[s]

ControlReady  == control > 0 \/ ReaderGone
OutboundReady == outbound # << >> \/ DriverGone

\* The arm of the biased select that watches the shutdown signal.
WriterSeesSignal ==
    /\ writerPc = "select" /\ writerUnseen
    /\ writerUnseen' = FALSE
    /\ writerPc' = CASE shutdown = "Abort"      -> "stop"
                     [] shutdown = "LocalClose" -> "send close"
                     [] shutdown = "PeerClose"  -> "close flush"
                     [] shutdown = "Running"    -> "select"
    /\ UNCHANGED <<writerCmd, writerError>>
    /\ UNCHANGED <<state, shutdown, readerUnseen, socketVars, control, outboundVars, writerOthers>>

\* No signal was there when polled: the same poll goes on to the events, whatever
\* happens in between, also of an idle writer that nothing woke yet.
WriterPollsEvents ==
    /\ writerPc = "select" /\ ~writerUnseen
    /\ writerPc' = "events"
    /\ UNCHANGED <<writerCmd, writerError>>
    /\ UNCHANGED <<state, signalVars, socketVars, control, outboundVars, writerOthers>>

\* Nothing was there either: the writer waits, and polls the signal first again.
WriterFindsNothing ==
    /\ writerPc = "events" /\ ~ControlReady /\ ~OutboundReady
    /\ writerPc' = "select"
    /\ UNCHANGED <<writerCmd, writerError>>
    /\ UNCHANGED <<state, signalVars, socketVars, control, outboundVars, writerOthers>>

TakeFlush ==
    /\ writerPc = "events" /\ control > 0
    /\ control' = control - 1
    /\ writerPc' = "flush"
    /\ UNCHANGED <<writerCmd, writerError>>
    /\ UNCHANGED <<state, signalVars, socketVars, outboundVars, writerOthers>>

TakeControlClosed ==
    /\ writerPc = "events" /\ control = 0 /\ ReaderGone
    /\ writerError' = Transport("reader stopped")
    /\ writerPc' = "fail publish"
    /\ UNCHANGED <<writerCmd>>
    /\ UNCHANGED <<state, signalVars, socketVars, control, outboundVars, writerOthers>>

TakeCommand ==
    /\ writerPc = "events" /\ outbound # << >>
    /\ writerCmd' = Head(outbound)
    /\ outbound' = Tail(outbound)
    /\ writerPc' = "write"
    /\ UNCHANGED <<writerError, outboundBytes, response>>
    /\ UNCHANGED <<state, signalVars, socketVars, control, writerOthers>>

TakeOutboundClosed ==
    /\ writerPc = "events" /\ outbound = << >> /\ DriverGone
    /\ writerPc' = "stop"
    /\ UNCHANGED <<writerCmd, writerError>>
    /\ UNCHANGED <<state, signalVars, socketVars, control, outboundVars, writerOthers>>

-----------------------------------------------------------------------------
(* Writing: SinkExt::send writes the frame, then flushes it.               *)

\* Mutant: the sender is answered before the frame is flushed.
WriteCommandUnflushed ==
    /\ writerPc = "write" /\ ws = "Active"
    /\ wire' = Append(wire, writerCmd)
    /\ writerPc' = "respond"
    /\ UNCHANGED <<writerCmd, writerError, ws, flushed>>
    /\ UNCHANGED <<state, signalVars, control, outboundVars, writerOthers>>

WriteCommand ==
    /\ writerPc = "write" /\ ws = "Active"
    /\ wire' = Append(wire, writerCmd)
    /\ writerPc' = "command flush"
    /\ UNCHANGED <<writerCmd, writerError, ws, flushed>>
    /\ UNCHANGED <<state, signalVars, control, outboundVars, writerOthers>>

WriteClose ==
    /\ writerPc = "send close" /\ ws = "Active"
    /\ wire' = Append(wire, CloseSent)
    /\ ws' = "ClosedByUs"
    /\ writerPc' = "send close flush"
    /\ UNCHANGED <<writerCmd, writerError, flushed>>
    /\ UNCHANGED <<state, signalVars, control, outboundVars, writerOthers>>

\* Mutant: a refused write is signalled before it is published.
WriteRefusedUnpublished ==
    /\ writerPc \in {"write", "send close"} /\ ws # "Active"
    /\ writerError' = Transport("close failed")
    /\ writerPc' = "fail signal"
    /\ UNCHANGED <<writerCmd>>
    /\ UNCHANGED <<state, signalVars, socketVars, control, outboundVars, writerOthers>>

\* tungstenite refuses a frame once a close frame was read or written.
WriteRefused ==
    /\ writerPc \in {"write", "send close"} /\ ws # "Active"
    /\ writerError' = Transport(IF writerPc = "write" THEN "send failed" ELSE "close failed")
    /\ writerPc' = "fail publish"
    /\ UNCHANGED <<writerCmd>>
    /\ UNCHANGED <<state, signalVars, socketVars, control, outboundVars, writerOthers>>

Flush ==
    /\ writerPc \in {"flush", "command flush", "send close flush", "close flush"}
    /\ flushed' = Len(wire)
    /\ writerPc' = CASE writerPc = "flush"            -> "select"
                     [] writerPc = "command flush"    -> "respond"
                     [] writerPc = "send close flush" -> "await peer"
                     [] writerPc = "close flush"      -> "close done"
    /\ UNCHANGED <<writerCmd, writerError, ws, wire>>
    /\ UNCHANGED <<state, signalVars, control, outboundVars, writerOthers>>

WriteFails ==
    /\ WriteFaults
    /\ writerPc \in {"write", "send close", "flush", "command flush",
                     "send close flush", "close flush"}
    /\ writerError' = Transport(CASE writerPc = "flush" -> "flush failed"
                                  [] writerPc \in {"write", "command flush"} -> "send failed"
                                  [] OTHER -> "close failed")
    /\ writerPc' = "fail publish"
    /\ UNCHANGED <<writerCmd>>
    /\ UNCHANGED <<state, signalVars, socketVars, control, outboundVars, writerOthers>>

\* The oneshot is completed first; the command, and its permit, is dropped at
\* the end of the match arm.
Respond ==
    /\ writerPc = "respond"
    /\ Answer(writerCmd, Ok)
    /\ writerPc' = "release"
    /\ UNCHANGED <<writerCmd, writerError, outbound, outboundBytes>>
    /\ UNCHANGED <<state, signalVars, socketVars, control, writerOthers>>

ReleasePermit ==
    /\ writerPc = "release"
    /\ Release(writerCmd)
    /\ writerCmd' = NoCommand
    /\ writerPc' = "select"
    /\ UNCHANGED <<writerError, outbound, response>>
    /\ UNCHANGED <<state, signalVars, socketVars, control, writerOthers>>

-----------------------------------------------------------------------------
(* close_writer after its close frame, and the outcome of the handshake    *)

AwaitPeer ==
    /\ writerPc = "await peer" /\ shutdown # "LocalClose"
    /\ writerUnseen' = FALSE
    /\ writerPc' = IF shutdown = "Abort" THEN "close done" ELSE "close flush"
    /\ UNCHANGED <<writerCmd, writerError>>
    /\ UNCHANGED <<state, shutdown, readerUnseen, socketVars, control, outboundVars, writerOthers>>

\* The state is terminal, or holds the outcome of the peer's close.
PublishOutcome ==
    /\ writerPc = "close done"
    /\ state' = IF state.tag = "PeerClosed" THEN publish_terminal(state, state.error) ELSE state
    /\ writerPc' = "stop"
    /\ UNCHANGED <<writerCmd, writerError>>
    /\ UNCHANGED <<signalVars, socketVars, control, outboundVars, writerOthers>>

-----------------------------------------------------------------------------
(* A failure: publish, signal, answer the command in hand, return          *)

\* Mutant: the sender is told the writer's own error, not the outcome.
PublishFailureKeepsError ==
    /\ writerPc = "fail publish"
    /\ state' = publish_writer_failure(state, writerError)
    /\ writerPc' = "fail signal"
    /\ UNCHANGED <<writerCmd, writerError>>
    /\ UNCHANGED <<signalVars, socketVars, control, outboundVars, writerOthers>>

\* Mutant: a failure is signalled but not published.
FailureUnpublished ==
    /\ writerPc = "fail publish"
    /\ writerPc' = "fail signal"
    /\ UNCHANGED <<writerCmd, writerError>>
    /\ UNCHANGED <<state, signalVars, socketVars, control, outboundVars, writerOthers>>

PublishFailure ==
    /\ writerPc = "fail publish"
    /\ state' = publish_writer_failure(state, writerError)
    /\ writerError' = state'.error
    /\ writerPc' = "fail signal"
    /\ UNCHANGED <<writerCmd>>
    /\ UNCHANGED <<signalVars, socketVars, control, outboundVars, writerOthers>>

\* Mutant: the failing writer does not signal the reader.
WriterFailsAlone ==
    /\ writerPc = "fail signal"
    /\ writerPc' = IF writerCmd = NoCommand THEN "stop" ELSE "fail respond"
    /\ UNCHANGED <<writerCmd, writerError>>
    /\ UNCHANGED <<state, signalVars, socketVars, control, outboundVars, writerOthers>>

WriterSignalsAbort ==
    /\ writerPc = "fail signal"
    /\ Signal(signal_abort(shutdown))
    /\ writerPc' = IF writerCmd = NoCommand THEN "stop" ELSE "fail respond"
    /\ UNCHANGED <<writerCmd, writerError>>
    /\ UNCHANGED <<state, socketVars, control, outboundVars, writerOthers>>

RespondFailure ==
    /\ writerPc = "fail respond"
    /\ Answer(writerCmd, writerError)
    /\ Release(writerCmd)
    /\ writerCmd' = NoCommand
    /\ writerPc' = "stop"
    /\ UNCHANGED <<writerError, outbound>>
    /\ UNCHANGED <<state, signalVars, socketVars, control, writerOthers>>

-----------------------------------------------------------------------------
(* The end of the task                                                     *)

\* Mutant: the permit of the command in hand leaks when the task is cancelled.
WriterCancelledLeaks ==
    /\ writerAborted
    /\ writerPc \in {"select", "write", "command flush", "flush", "send close",
                     "send close flush", "await peer", "close flush"}
    /\ IF writerCmd = NoCommand THEN UNCHANGED response ELSE Answer(writerCmd, Dropped)
    /\ writerCmd' = NoCommand
    /\ writerPc' = "stop"
    /\ UNCHANGED <<writerError, outbound, outboundBytes>>
    /\ UNCHANGED <<state, signalVars, socketVars, control, writerOthers>>

\* AbortHandle::abort takes effect where the task waits, or before it first
\* runs; the command in hand is dropped with its response and its permit.
WriterCancelled ==
    /\ writerAborted
    /\ writerPc \in {"select", "write", "command flush", "flush", "send close",
                     "send close flush", "await peer", "close flush"}
    /\ IF writerCmd = NoCommand
       THEN UNCHANGED <<response, outboundBytes>>
       ELSE Answer(writerCmd, Dropped) /\ Release(writerCmd)
    /\ writerCmd' = NoCommand
    /\ writerPc' = "stop"
    /\ UNCHANGED <<writerError, outbound>>
    /\ UNCHANGED <<state, signalVars, socketVars, control, writerOthers>>

\* The receiving ends are dropped: both channels close ...
WriterClosesQueue ==
    /\ writerPc = "stop"
    /\ writerPc' = "draining"
    /\ UNCHANGED <<writerCmd, writerError>>
    /\ UNCHANGED <<state, signalVars, socketVars, control, outboundVars, writerOthers>>

\* ... and the outbound queue is drained.  What a sender pushes into its
\* reserved slot after that stays in the channel.
DrainCommand ==
    /\ writerPc = "draining" /\ outbound # << >>
    /\ Answer(Head(outbound), Dropped)
    /\ Release(Head(outbound))
    /\ outbound' = Tail(outbound)
    /\ UNCHANGED <<writerPc, writerCmd, writerError>>
    /\ UNCHANGED <<state, signalVars, socketVars, control, writerOthers>>

WriterDropsQueue ==
    /\ writerPc = "draining" /\ outbound = << >>
    /\ writerPc' = "gone"
    /\ UNCHANGED <<writerCmd, writerError>>
    /\ UNCHANGED <<state, signalVars, socketVars, control, outboundVars, writerOthers>>

WriterStops ==
    /\ writerPc = "gone"
    /\ TaskEnded
    /\ writerPc' = "stopped"
    /\ UNCHANGED <<writerCmd, writerError, readerAborted, writerAborted>>
    /\ UNCHANGED <<state, signalVars, flagVars, socketVars, control, inboundVars,
                   outboundVars, readerVars, closeVars, sendVars, recvVars>>

-----------------------------------------------------------------------------
\* Steps of the socket, which may keep the writer waiting for ever.
WriterIO == WriteCommand \/ WriteClose \/ Flush \/ WriteFails

\* Steps the runtime owes the task.
WriterStep ==
    \/ WriterSeesSignal \/ WriterPollsEvents \/ WriterFindsNothing
    \/ TakeFlush \/ TakeControlClosed \/ TakeCommand \/ TakeOutboundClosed
    \/ WriteRefused \/ Respond \/ ReleasePermit
    \/ AwaitPeer \/ PublishOutcome
    \/ PublishFailure \/ WriterSignalsAbort \/ RespondFailure
    \/ WriterClosesQueue \/ DrainCommand \/ WriterDropsQueue \/ WriterStops

WriterNext == WriterIO \/ WriterStep \/ WriterCancelled

=============================================================================
