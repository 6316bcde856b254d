---------------------------- MODULE DriverCalls -----------------------------
(***************************************************************************)
(* The callers of one ConnectionDriver: close() and its timeout watchdog,  *)
(* abort() (reached from the finalizer of the Python object), the two      *)
(* halves of a send (admission on the Python thread, send_admitted in a    *)
(* task) and the native receive().  Each call of the program is one        *)
(* element of Closers, Senders or Receivers.                               *)
(***************************************************************************)
EXTENDS DriverChannels

\* Where a call holds a DriverTaskGuard of its own.
HoldsGuard == {"swap", "publish", "signal", "arm", "drop guard"}

At(pc, c, from, to) == pc[c] = from /\ pc' = [pc EXCEPT ![c] = to]

closeOthers == <<socketVars, control, inboundVars, outboundVars, readerVars,
                 writerVars, sendVars, recvVars>>
sendOthers  == <<state, signalVars, flagVars, taskVars, socketVars, control,
                 inboundVars, readerVars, writerVars, closeVars, recvVars>>
recvOthers  == <<state, signalVars, flagVars, taskVars, socketVars, control,
                 outboundVars, readerVars, writerVars, closeVars, sendVars>>

-----------------------------------------------------------------------------
(* close() and begin_close()                                               *)

CloseStart(c) ==
    /\ closePc[c] = "idle" /\ ~DriverGone
    /\ IF is_terminal(state)
       THEN /\ closePc' = [closePc EXCEPT ![c] = "wait tasks"]
            /\ closeTerminal' = [closeTerminal EXCEPT ![c] = state.error]
       ELSE /\ closePc' = [closePc EXCEPT ![c] = "guard"]
            /\ UNCHANGED closeTerminal
    /\ UNCHANGED <<state, signalVars, flagVars, taskVars, watchdogPc, closeResult,
                   abandonPc, closeOthers>>

CloseTakesGuard(c) ==
    /\ At(closePc, c, "guard", "swap")
    /\ TaskStarted
    /\ UNCHANGED <<state, signalVars, flagVars, readerAborted, writerAborted, watchdogPc,
                   closeTerminal, closeResult, abandonPc, closeOthers>>

\* closing.swap: only the first close goes on to the handshake.
CloseSwap(c) ==
    /\ At(closePc, c, "swap", IF closing THEN "drop guard" ELSE "publish")
    /\ closing' = TRUE
    /\ UNCHANGED <<state, signalVars, closeTimeoutStarted, taskVars, watchdogPc,
                   closeTerminal, closeResult, abandonPc, closeOthers>>

\* Mutant: close() goes on to the handshake although the connection ended.
ClosePublishBlindly(c) ==
    /\ At(closePc, c, "publish", "signal")
    /\ state' = begin_closing(state)
    /\ UNCHANGED <<signalVars, flagVars, taskVars, watchdogPc,
                   closeTerminal, closeResult, abandonPc, closeOthers>>

ClosePublish(c) ==
    /\ At(closePc, c, "publish", IF state = Open THEN "signal" ELSE "drop guard")
    /\ state' = begin_closing(state)
    /\ UNCHANGED <<signalVars, flagVars, taskVars, watchdogPc,
                   closeTerminal, closeResult, abandonPc, closeOthers>>

CloseSignal(c) ==
    /\ At(closePc, c, "signal", "arm")
    /\ Signal(signal_local_close(shutdown))
    /\ UNCHANGED <<state, flagVars, taskVars, watchdogPc,
                   closeTerminal, closeResult, abandonPc, closeOthers>>

\* Mutant: the spawning close drops the guard it gave to the watchdog.
CloseArmDropsGuard(c) ==
    /\ At(closePc, c, "arm", "wait terminal")
    /\ closeTimeoutStarted' = TRUE
    /\ watchdogPc' = "sleeping"
    /\ TaskEnded
    /\ UNCHANGED <<state, signalVars, closing, readerAborted, writerAborted,
                   closeTerminal, closeResult, abandonPc, closeOthers>>

\* Mutant: no watchdog is spawned.
CloseUnarmed(c) ==
    /\ At(closePc, c, "arm", "drop guard")
    /\ closeTimeoutStarted' = TRUE
    /\ UNCHANGED <<state, signalVars, closing, taskVars, watchdogPc,
                   closeTerminal, closeResult, abandonPc, closeOthers>>

\* The guard moves into the watchdog that is spawned here.
CloseArm(c) ==
    /\ At(closePc, c, "arm", IF closeTimeoutStarted THEN "drop guard" ELSE "wait terminal")
    /\ closeTimeoutStarted' = TRUE
    /\ watchdogPc' = IF closeTimeoutStarted THEN watchdogPc ELSE "sleeping"
    /\ UNCHANGED <<state, signalVars, closing, taskVars,
                   closeTerminal, closeResult, abandonPc, closeOthers>>

CloseDropsGuard(c) ==
    /\ At(closePc, c, "drop guard", "wait terminal")
    /\ TaskEnded
    /\ UNCHANGED <<state, signalVars, flagVars, readerAborted, writerAborted, watchdogPc,
                   closeTerminal, closeResult, abandonPc, closeOthers>>

CloseSeesTerminal(c) ==
    /\ is_terminal(state)
    /\ At(closePc, c, "wait terminal", "wait tasks")
    /\ closeTerminal' = [closeTerminal EXCEPT ![c] = state.error]
    /\ UNCHANGED <<state, signalVars, flagVars, taskVars, watchdogPc, closeResult,
                   abandonPc, closeOthers>>

\* Mutant: close() does not wait for the tasks.
CloseReturnsEarly(c) ==
    /\ At(closePc, c, "wait tasks", "done")
    /\ closeResult' = [closeResult EXCEPT ![c] = close_result(closeTerminal[c])]
    /\ UNCHANGED <<state, signalVars, flagVars, taskVars, watchdogPc, closeTerminal,
                   abandonPc, closeOthers>>

CloseReturns(c) ==
    /\ tasksRemaining = 0
    /\ At(closePc, c, "wait tasks", "done")
    /\ closeResult' = [closeResult EXCEPT ![c] = close_result(closeTerminal[c])]
    /\ UNCHANGED <<state, signalVars, flagVars, taskVars, watchdogPc, closeTerminal,
                   abandonPc, closeOthers>>

\* A cancelled close() stops waiting; what it began goes on.
CloseCancelled(c) ==
    /\ MayCancel /\ closePc[c] \in {"wait terminal", "wait tasks"}
    /\ closePc' = [closePc EXCEPT ![c] = "cancelled"]
    /\ closeResult' = [closeResult EXCEPT ![c] = Cancelled]
    /\ UNCHANGED <<state, signalVars, flagVars, taskVars, watchdogPc, closeTerminal,
                   abandonPc, closeOthers>>

-----------------------------------------------------------------------------
(* The watchdog: sleep(close_timeout) against the terminal state           *)

watchdogOthers == <<signalVars, flagVars, closePc, closeTerminal, closeResult,
                    abandonPc, closeOthers>>

WatchdogSeesTerminal ==
    /\ watchdogPc = "sleeping" /\ is_terminal(state)
    /\ watchdogPc' = "drop"
    /\ UNCHANGED <<state, taskVars, watchdogOthers>>

WatchdogExpires ==
    /\ watchdogPc = "sleeping"
    /\ watchdogPc' = "publish"
    /\ UNCHANGED <<state, taskVars, watchdogOthers>>

\* Mutant: the watchdog aborts the tasks without an outcome.
WatchdogOnlyAborts ==
    /\ watchdogPc = "publish"
    /\ watchdogPc' = "abort reader"
    /\ UNCHANGED <<state, taskVars, watchdogOthers>>

WatchdogPublishes ==
    /\ watchdogPc = "publish"
    /\ state' = publish_close_timeout(state)
    /\ watchdogPc' = "abort reader"
    /\ UNCHANGED <<taskVars, watchdogOthers>>

WatchdogAbortsReader ==
    /\ watchdogPc = "abort reader"
    /\ readerAborted' = TRUE
    /\ watchdogPc' = "abort writer"
    /\ UNCHANGED <<state, tasksRemaining, writerAborted, watchdogOthers>>

\* Mutant: the watchdog aborts only the reader.
WatchdogSparesWriter ==
    /\ watchdogPc = "abort writer"
    /\ watchdogPc' = "drop"
    /\ UNCHANGED <<state, taskVars, watchdogOthers>>

WatchdogAbortsWriter ==
    /\ watchdogPc = "abort writer"
    /\ writerAborted' = TRUE
    /\ watchdogPc' = "drop"
    /\ UNCHANGED <<state, tasksRemaining, readerAborted, watchdogOthers>>

WatchdogStops ==
    /\ watchdogPc = "drop"
    /\ TaskEnded
    /\ watchdogPc' = "done"
    /\ UNCHANGED <<state, readerAborted, writerAborted, watchdogOthers>>

-----------------------------------------------------------------------------
(* abort(), and the drop of the driver after it                            *)

abandonOthers == <<watchdogPc, closePc, closeTerminal, closeResult, closeOthers>>
AbandonStep(from, to) == abandonPc = from /\ abandonPc' = to

AbandonStores ==
    /\ MayAbandon
    /\ AbandonStep("idle", "publish")
    /\ closing' = TRUE
    /\ UNCHANGED <<state, signalVars, closeTimeoutStarted, taskVars, abandonOthers>>

AbandonPublishes ==
    /\ AbandonStep("publish", "signal")
    /\ state' = publish_terminal(state, Transport("abandoned"))
    /\ UNCHANGED <<signalVars, flagVars, taskVars, abandonOthers>>

AbandonSignals ==
    /\ AbandonStep("signal", "abort reader")
    /\ Signal(signal_abort(shutdown))
    /\ UNCHANGED <<state, flagVars, taskVars, abandonOthers>>

AbandonAbortsReader ==
    /\ AbandonStep("abort reader", "abort writer")
    /\ readerAborted' = TRUE
    /\ UNCHANGED <<state, signalVars, flagVars, tasksRemaining, writerAborted, abandonOthers>>

AbandonAbortsWriter ==
    /\ AbandonStep("abort writer", "done")
    /\ writerAborted' = TRUE
    /\ UNCHANGED <<state, signalVars, flagVars, tasksRemaining, readerAborted, abandonOthers>>

\* The last reference goes once no call is in flight.  Drop repeats abort(),
\* which changes nothing more.
DropDriver ==
    /\ AbandonStep("done", "dropped")
    /\ \A c \in Closers : closePc[c] \in {"idle", "done", "cancelled"}
    /\ \A s \in Senders : sendPc[s] \in {"idle", "done", "cancelled"}
    /\ \A r \in Receivers : recvPc[r] \in {"idle", "done"}
    /\ UNCHANGED <<state, signalVars, flagVars, taskVars, abandonOthers>>

\* ... and with it the receiving end of the inbound queue.
DropInbound ==
    /\ DriverGone /\ inbound # << >>
    /\ inboundBytes' = inboundBytes + Head(inbound).size
    /\ inbound' = Tail(inbound)
    /\ UNCHANGED <<recvOthers, recvVars>>

-----------------------------------------------------------------------------
(* try_admit_outbound and send_admitted                                    *)

Finish(s, result) ==
    /\ sendPc' = [sendPc EXCEPT ![s] = "done"]
    /\ sendResult' = [sendResult EXCEPT ![s] = result]

SendValidate(s) ==
    /\ sendPc[s] = "idle" /\ ~DriverGone
    /\ IF state # Open THEN Finish(s, ensure_open(state))
       ELSE IF Size[s] > MaxMessageSize THEN Finish(s, ResourceLimit("message size"))
       ELSE sendPc' = [sendPc EXCEPT ![s] = "acquire"] /\ UNCHANGED sendResult
    /\ UNCHANGED <<outboundVars, sendOthers>>

SendAcquire(s) ==
    /\ sendPc[s] = "acquire"
    /\ IF outboundBytes >= Size[s]
       THEN /\ outboundBytes' = outboundBytes - Size[s]
            /\ sendPc' = [sendPc EXCEPT ![s] = "reserve"]
            /\ UNCHANGED sendResult
       ELSE Finish(s, ResourceLimit("byte budget")) /\ UNCHANGED outboundBytes
    /\ UNCHANGED <<outbound, response, sendOthers>>

SendReserve(s) ==
    /\ sendPc[s] = "reserve"
    /\ IF ~WriterGone /\ ItemsHeld < MaxQueue
       THEN /\ sendPc' = [sendPc EXCEPT ![s] = "admitted"]
            /\ UNCHANGED <<sendResult, outboundBytes>>
       ELSE /\ Finish(s, IF WriterGone THEN terminal_error(state)
                         ELSE ResourceLimit("item queue"))
            /\ outboundBytes' = outboundBytes + Size[s]
    /\ UNCHANGED <<outbound, response, sendOthers>>

\* The task of send_admitted fills the reserved slot, whether or not the
\* receiving end still exists.
SendPush(s) ==
    /\ At(sendPc, s, "admitted", "waiting")
    /\ outbound' = Append(outbound, s)
    /\ UNCHANGED <<sendResult, outboundBytes, response, sendOthers>>

SendReturns(s) ==
    /\ sendPc[s] = "waiting" /\ response[s] # Pending
    /\ Finish(s, IF response[s] = Dropped THEN terminal_error(state) ELSE response[s])
    /\ UNCHANGED <<outboundVars, sendOthers>>

SendCancelled(s) ==
    /\ MayCancel
    /\ At(sendPc, s, "waiting", "cancelled")
    /\ sendResult' = [sendResult EXCEPT ![s] = Cancelled]
    /\ UNCHANGED <<outboundVars, sendOthers>>

-----------------------------------------------------------------------------
(* receive() and its ReceiveGuard                                          *)

\* Mutant: a refused receive drops a guard it never had.
ReceiveClaimClears(r) ==
    /\ recvPc[r] = "idle" /\ ~DriverGone
    /\ receiveActive' = ~receiveActive
    /\ recvPc' = [recvPc EXCEPT ![r] = IF receiveActive THEN "done" ELSE "waiting"]
    /\ recvResult' = IF receiveActive THEN [recvResult EXCEPT ![r] = Concurrency]
                     ELSE recvResult
    /\ UNCHANGED <<delivered, inboundVars, recvOthers>>

ReceiveClaim(r) ==
    /\ recvPc[r] = "idle" /\ ~DriverGone
    /\ receiveActive' = TRUE
    /\ recvPc' = [recvPc EXCEPT ![r] = IF receiveActive THEN "done" ELSE "waiting"]
    /\ recvResult' = IF receiveActive THEN [recvResult EXCEPT ![r] = Concurrency]
                     ELSE recvResult
    /\ UNCHANGED <<delivered, inboundVars, recvOthers>>

ReceiveMessage(r) ==
    /\ inbound # << >>
    /\ At(recvPc, r, "waiting", "unclaim")
    /\ recvResult' = [recvResult EXCEPT ![r] = Ok]
    /\ delivered' = Append(delivered, Head(inbound).id)
    /\ inboundBytes' = inboundBytes + Head(inbound).size
    /\ inbound' = Tail(inbound)
    /\ UNCHANGED <<receiveActive, recvOthers>>

\* Mutant: the end of the connection overtakes the messages still queued.
ReceiveEndUndrained(r) ==
    /\ ReaderGone
    /\ At(recvPc, r, "waiting", "unclaim")
    /\ recvResult' = [recvResult EXCEPT ![r] = terminal_error(state)]
    /\ UNCHANGED <<receiveActive, delivered, inboundVars, recvOthers>>

\* The queue is drained before its end is seen.
ReceiveEnd(r) ==
    /\ inbound = << >> /\ ReaderGone
    /\ At(recvPc, r, "waiting", "unclaim")
    /\ recvResult' = [recvResult EXCEPT ![r] = terminal_error(state)]
    /\ UNCHANGED <<receiveActive, delivered, inboundVars, recvOthers>>

ReceiveCancelled(r) ==
    /\ MayCancel
    /\ At(recvPc, r, "waiting", "unclaim")
    /\ recvResult' = [recvResult EXCEPT ![r] = Cancelled]
    /\ UNCHANGED <<receiveActive, delivered, inboundVars, recvOthers>>

ReceiveUnclaims(r) ==
    /\ At(recvPc, r, "unclaim", "done")
    /\ receiveActive' = FALSE
    /\ UNCHANGED <<recvResult, delivered, inboundVars, recvOthers>>

-----------------------------------------------------------------------------
CloseStep(c) ==
    \/ CloseTakesGuard(c) \/ CloseSwap(c) \/ ClosePublish(c) \/ CloseSignal(c)
    \/ CloseArm(c) \/ CloseDropsGuard(c) \/ CloseSeesTerminal(c) \/ CloseReturns(c)

WatchdogStep ==
    \/ WatchdogSeesTerminal \/ WatchdogExpires \/ WatchdogPublishes
    \/ WatchdogAbortsReader \/ WatchdogAbortsWriter \/ WatchdogStops

AbandonRest == AbandonPublishes \/ AbandonSignals \/ AbandonAbortsReader
                 \/ AbandonAbortsWriter

SendStep(s) == SendAcquire(s) \/ SendReserve(s) \/ SendPush(s) \/ SendReturns(s)

ReceiveStep(r) == ReceiveMessage(r) \/ ReceiveEnd(r) \/ ReceiveUnclaims(r)

\* Calls start, and their waiters are cancelled, when the program likes.
CloserNext(c)   == CloseStart(c) \/ CloseStep(c) \/ CloseCancelled(c)
SenderNext(s)   == SendValidate(s) \/ SendStep(s) \/ SendCancelled(s)
ReceiverNext(r) == ReceiveClaim(r) \/ ReceiveStep(r) \/ ReceiveCancelled(r)
AbandonNext     == AbandonStores \/ AbandonRest \/ DropDriver \/ DropInbound

=============================================================================
