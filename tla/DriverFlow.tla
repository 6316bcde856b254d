----------------------------- MODULE DriverFlow -----------------------------
(***************************************************************************)
(* What must hold of the messages that pass through one ConnectionDriver:  *)
(* the byte budgets and queue bounds of both directions, what the result   *)
(* of a send says of the wire, and the order of what receive() hands out.  *)
(***************************************************************************)
EXTENDS Driver, FiniteSetsExt

BytesOf(senders) == SumFunctionOnSet(Size, senders)
Sizes(queue)     == [i \in 1..Len(queue) |-> queue[i].size]
BytesIn(queue)   == SumFunctionOnSet(Sizes(queue), 1..Len(queue))
Elements(queue)  == {queue[i] : i \in 1..Len(queue)}

\* The senders whose byte permit is out: between admission and push, in the
\* queue, and in the writer's hand.
PermitHolders ==
    {s \in Senders : sendPc[s] \in {"reserve", "admitted"}}
        \cup Elements(outbound) \cup ({writerCmd} \ {NoCommand})

\* Every outbound byte permit is held by exactly one unfinished send and comes
\* back once, on success, write failure, cancellation of the task, drain and
\* refused reservation alike; reserved and queued items never exceed
\* max_queue (driver.rs:246-301, 626-645).
OutboundBudget ==
    /\ outboundBytes + BytesOf(PermitHolders) = MaxBufferedBytes
    /\ ItemsHeld <= MaxQueue

\* The same for the inbound direction: queued messages and the one the reader
\* is about to queue (driver.rs:536-573, 314-321).
InboundBudget ==
    /\ inboundBytes + BytesIn(inbound) + ReaderPermit = MaxBufferedBytes
    /\ Len(inbound) <= MaxQueue

\* What the result of a send says of the wire: success means its frame was
\* written and flushed, exactly once; a send refused before it was queued left
\* nothing there; and no message follows the close frame (driver.rs:246-301,
\* 626-645, 670-676).
Written(s) == {i \in 1..Len(wire) : wire[i] = s}
WireTellsResults ==
    /\ \A s \in Senders :
          /\ Cardinality(Written(s)) <= 1
          /\ response[s] = Ok => \E i \in Written(s) : i <= flushed
          /\ sendPc[s] \in {"idle", "acquire", "reserve", "admitted"} => Written(s) = {}
          /\ sendPc[s] = "done" /\ response[s] = Pending => Written(s) = {}
    /\ \A i \in 1..Len(wire) : wire[i] = CloseSent => i = Len(wire)

\* What receive() handed out and still can is the beginning of what the peer
\* sent, in order and without a gap, although messages are dropped once a
\* shutdown was signalled and receives are cancelled at will (driver.rs:536-573).
InboundInOrder ==
    /\ \A i \in 1..Len(delivered) : delivered[i] = i
    /\ ~DriverGone => \A i \in 1..Len(inbound) : inbound[i].id = Len(delivered) + i
    /\ readerPc \in {"acquire", "enqueue"} /\ ~DriverGone
          => readerMsg.id = Len(delivered) + Len(inbound) + 1

\* At most one receive() is inside, a refused one is the only cost of trying,
\* and the flag never outlives its owner (driver.rs:415-436).
Receiving == {r \in Receivers : recvPc[r] \in {"waiting", "unclaim"}}
OneReceiver ==
    /\ Cardinality(Receiving) = B2N(receiveActive)
    /\ Cardinality({r \in Receivers : recvResult[r] = Ok}) = Len(delivered)

\* The driver implements the receive() its callers reason with: whatever the
\* tasks, the queue and its permits do, messages are handed out one by one in
\* the order they arrived, the outcome comes after the last of them and never
\* changes again, and calls exclude each other (driver.rs:314-321, 415-436).
Native == INSTANCE NativeReceive
    WITH queued <- Len(inbound), ended <- ReaderGone, dropped <- DriverGone,
         outcome <- IF ReaderGone THEN state.error ELSE NoError
ImplementsNativeReceive == Native!NativeSpec

-----------------------------------------------------------------------------
(* Why it holds: the inductive invariant of the messages                   *)

\* As long as nothing was signalled the reader has lost no message; a signal
\* the reader has not seen was sent.
InboundInv ==
    /\ InboundInOrder
    /\ readerUnseen => shutdown # "Running"
    /\ dataRead <= MaxData
    /\ readerPc \in {"queue", "acquire", "enqueue"} => readerMsg.id = dataRead
    /\ shutdown = "Running" /\ ~DriverGone =>
          /\ readerPc \in {"check", "select"} => dataRead = Len(delivered) + Len(inbound)
          /\ readerPc = "queue" => dataRead = Len(delivered) + Len(inbound) + 1

\* The flag is set exactly while a call is inside, and no two are; a call that
\* waits was given nothing yet, and keeps the driver alive.
ExclusionInv ==
    /\ \A r, q \in Receiving : r = q
    /\ receiveActive <=> Receiving # {}
    /\ \A r \in Receivers : recvPc[r] \in {"idle", "waiting"} => recvResult[r] = Pending
    /\ DriverGone => Receiving = {}

\* A command is in one place, in the queue or in the writer's hand, until it is
\* answered, and its sender waits for the answer or was cancelled.
Unanswered == Elements(outbound) \cup
                  (IF writerPc = "release" THEN {} ELSE {writerCmd} \ {NoCommand})
QueueInv ==
    /\ \A i, j \in 1..Len(outbound) : outbound[i] = outbound[j] => i = j
    /\ writerCmd \notin Elements(outbound)
    /\ \A s \in Unanswered : response[s] = Pending /\ sendPc[s] \in {"waiting", "cancelled"}
    /\ writerPc = "release" => response[writerCmd] # Pending
    /\ \A s \in Senders :
          /\ sendPc[s] \in {"idle", "acquire", "reserve", "admitted"} => response[s] = Pending
          /\ sendPc[s] = "done" /\ response[s] = Dropped => Learned(sendResult[s])

\* A frame on the wire was in the writer's hand once; success is told of what
\* was flushed; after our close frame the socket is no longer active.
Flushed(s) == \E i \in Written(s) : i <= flushed
WireInv ==
    /\ \A i, j \in 1..Len(wire) : wire[i] = wire[j] => i = j
    /\ \A i \in 1..Len(wire) : wire[i] = CloseSent => i = Len(wire) /\ ws # "Active"
    /\ flushed <= Len(wire)
    /\ \A s \in Senders \cap Elements(wire) :
          /\ s \notin Elements(outbound) /\ (s = writerCmd => writerPc # "write")
          /\ sendPc[s] \in {"waiting", "cancelled", "done"}
          /\ sendPc[s] = "done" => response[s] # Pending
    /\ \A s \in Senders : response[s] = Ok => Flushed(s)
    /\ writerPc = "respond" => Flushed(writerCmd)
    /\ writerPc = "command flush" => writerCmd \in Elements(wire)

\* The writer has a command in hand only between the steps that take and finish
\* one, so it never takes the next command over one that is not answered ...
Carrying == {"write", "command flush", "respond", "release",
             "fail publish", "fail signal", "fail respond"}
HandInv == writerPc \notin Carrying => writerCmd = NoCommand

\* ... and nobody waits for an answer who is not in the queue or in the writer's
\* hand: the sends that wait for ever are those pushed after the queue was drained.
NoSendForgotten ==
    \A s \in Senders : sendPc[s] \in {"waiting", "cancelled"} /\ response[s] = Pending
        => s \in Unanswered

\* Queues, commands, answers and the wire agree at every point of the reader, the
\* writer and the calls (driver.rs:246-321, 415-436, 536-573, 606-691).
FlowInv ==
    /\ InboundInv /\ ExclusionInv
    /\ QueueInv /\ WireInv /\ HandInv /\ NoSendForgotten

\* Permits given and permits held add up at every point, for the finitely many
\* senders that hold one (driver.rs:246-321, 536-573, 626-691).
BudgetInv == IsFiniteSet(PermitHolders) /\ OutboundBudget /\ InboundBudget

-----------------------------------------------------------------------------
(* What the program is told                                                *)

\* The exception a call raises for an error, and the attribute that says who
\* closed first.
driver_error_to_python(error) ==
    [class |-> IF error.kind = "ClosedOk" THEN "ConnectionClosedOK"
               ELSE IF error.kind \in {"ClosedError", "Transport"} THEN "ConnectionClosedError"
               ELSE error.kind,
     initiated_by_local |-> IF error.kind \in {"ClosedOk", "ClosedError"}
                            THEN IF error.local THEN "True" ELSE "False" ELSE "None"]
Reported == IF is_terminal(state) THEN driver_error_to_python(state.error).initiated_by_local
            ELSE "None"

\* A connection that is reported as closed by the remote endpoint was: its
\* close frame was read, and none of ours went out before, although a close()
\* may set the flag, publish and signal at any point of the reader's steps
\* (driver.rs:476-481, 718-737, 669-676).
RemoteCloseIsRemote ==
    Reported = "False" => readerFrame \in CloseFrames /\ CloseSent \notin Elements(wire)

\* Why it holds, and why the driver's outcomes are those of ConnectionLifecycle.
\* The flag is set before anything that only a close brings about, our close
\* frame last of all ...
OurCloseSent == CloseSent \in Elements(wire)
FlagInv ==
    /\ readerPc \in {"publish peer", "signal peer"} => closing
    /\ \A c \in Closers : closePc[c] \in {"publish", "signal"} => closing
    /\ shutdown \in {"LocalClose", "PeerClose"} \/ writerPc = "send close" => closing
    /\ OurCloseSent => closing

\* ... so a reader that read a close frame and found the flag unset computed its
\* outcome before our frame, which tungstenite then refuses to write; and
\* nobody else publishes such an outcome.
Remote(error) == error.kind \in {"ClosedOk", "ClosedError"} /\ ~error.local
Undecided == {"check", "select", "queue", "acquire", "enqueue", "load closing"}
RemoteInv ==
    /\ OurCloseSent \/ readerFrame \in CloseFrames => ws # "Active"
    /\ Remote(readerOutcome) =>
          readerFrame \in CloseFrames /\ ~OurCloseSent /\ readerPc \notin Undecided
    /\ Remote(state.error) => state.error = readerOutcome

\* What is about to be published is of the kind its place says, and a close()
\* that is under way was told nothing.
ResultInv ==
    /\ readerPc \in {"store closing", "publish peer"} => readerOutcome \in Lifecycle!Handshaken
    /\ readerPc = "fail publish" => readerOutcome \in Lifecycle!Failures
    /\ writerPc = "fail publish" => writerError \in Lifecycle!Failures
    /\ \A c \in Closers : closePc[c] \notin {"done", "cancelled"} => closeResult[c] = Pending

\* Where the outcomes come from, at every point of the reader, the writer and the
\* close() calls (driver.rs:353-388, 438-534, 652-776).
OriginInv == FlagInv /\ RemoteInv /\ ResultInv

-----------------------------------------------------------------------------
(* What the documentation and the error texts say                          *)

\* "Once admitted, the driver owns it through flush or terminal failure"
\* (docs/client.md:73-74): an admitted send does not outwait the end of the
\* connection.
AdmittedSendResolves ==
    \A s \in Senders :
        sendPc[s] = "waiting" /\ is_terminal(state) ~> sendPc[s] \in {"done", "cancelled"}

\* "peer close 1000 or 1001 | ConnectionClosedOK from receive()"
\* (docs/client.md:88): with nothing else wrong, a clean close frame from the
\* peer ends the connection cleanly.
CleanPeerClose ==
    readerFrame \in {"Normal", "Away"} /\ is_terminal(state) => state.error.kind = "ClosedOk"

\* "outbound byte budget is exhausted; retry after an accepted send completes"
\* (driver.rs:258): a send is refused for bytes only while another accepted
\* send is not completed.
RefusedForBytes(s) == sendResult[s] = ResourceLimit("byte budget")
BudgetRefusalJustified ==
    [][\A s \in Senders : ~RefusedForBytes(s) /\ RefusedForBytes(s)' =>
          \E t \in Senders \ {s} : sendPc[t] \in {"reserve", "admitted", "waiting"}]_vars

=============================================================================
