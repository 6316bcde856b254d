-------------------------- MODULE DriverFlowProofs --------------------------
(***************************************************************************)
(* What happens to the messages: FlowInv of DriverFlow is inductive for    *)
(* every set of senders and receivers, whatever the peer sends and the     *)
(* queues hold, and from it follow the order of what receive() hands out,  *)
(* the exclusion of receives, what the result of a send says of the wire,  *)
(* and that the driver implements NativeReceive.  The steps of most actors *)
(* leave a part of the invariant alone; that is shown first.               *)
(***************************************************************************)
EXTENDS DriverFlow, DriverOutcomeProofs, FiniteSetTheorems

\* Nothing that was signalled or dropped is taken back, and the reader is shown
\* only what was signalled.
NeverBack ==
    /\ DriverGone => DriverGone'
    /\ shutdown # "Running" => shutdown' # "Running"
    /\ readerUnseen' => readerUnseen \/ shutdown' # "Running"

InboundStill == UNCHANGED <<inboundVars, delivered, readerVars>> /\ NeverBack

\* The writer neither takes nor finishes a command.
InHand == {"write", "command flush", "respond", "release"}
OutboundStill ==
    /\ UNCHANGED <<wire, flushed, outboundVars, sendPc, sendResult, writerCmd>>
    /\ ws # "Active" => ws' # "Active"
    /\ writerPc' \in InHand => writerPc' = writerPc
    /\ writerPc = "release" => writerPc' = "release"

ExclusionStill ==
    /\ UNCHANGED <<receiveActive, recvPc, recvResult>>
    /\ DriverGone' => DriverGone \/ Receiving = {}

-----------------------------------------------------------------------------
(* What the steps of each actor leave alone                                *)

\* The reader leaves the commands and the calls alone, and never opens the socket
\* again (driver.rs:438-573).
LEMMA ReaderFrame ==
    ASSUME Forward, ReaderNext
    PROVE  OutboundStill /\ ExclusionStill /\ UNCHANGED <<delivered, abandonPc>>
<1>1. CASE ReaderCheck
  BY <1>1
     DEF OutboundStill, InHand, ExclusionStill, DriverGone, readerOthers, closeVars,
         outboundVars, writerVars, sendVars, recvVars, socketVars, ReaderCheck
<1>2. CASE ReaderSeesSignal
  BY <1>2
     DEF OutboundStill, InHand, ExclusionStill, DriverGone, readerOthers, closeVars,
         outboundVars, writerVars, sendVars, recvVars, socketVars, ReaderSeesSignal
<1>3. CASE ReadData
  BY <1>3
     DEF OutboundStill, InHand, ExclusionStill, DriverGone, readerOthers, closeVars,
         outboundVars, writerVars, sendVars, recvVars, socketVars, ReadData
<1>4. CASE ReadPing
  BY <1>4
     DEF OutboundStill, InHand, ExclusionStill, DriverGone, readerOthers, closeVars,
         outboundVars, writerVars, sendVars, recvVars, socketVars, ReadPing
<1>5. CASE ReadEnd
  BY <1>5
     DEF OutboundStill, InHand, ExclusionStill, DriverGone, readerOthers, closeVars,
         outboundVars, writerVars, sendVars, recvVars, socketVars, ReadEnd
<1>6. CASE ReadError
  BY <1>6
     DEF OutboundStill, InHand, ExclusionStill, DriverGone, readerOthers, closeVars,
         outboundVars, writerVars, sendVars, recvVars, socketVars, ReadError
<1>7. CASE ReadClose
  BY <1>7
     DEF OutboundStill, InHand, ExclusionStill, DriverGone, readerOthers, closeVars,
         outboundVars, writerVars, sendVars, recvVars, socketVars, ReadClose
<1>8. CASE QueueCheck
  BY <1>8
     DEF OutboundStill, InHand, ExclusionStill, DriverGone, readerOthers, closeVars,
         outboundVars, writerVars, sendVars, recvVars, socketVars, QueueCheck
<1>9. CASE AcquireInbound
  BY <1>9
     DEF OutboundStill, InHand, ExclusionStill, DriverGone, readerOthers, closeVars,
         outboundVars, writerVars, sendVars, recvVars, socketVars, AcquireInbound
<1>10. CASE Enqueue
  BY <1>10
     DEF OutboundStill, InHand, ExclusionStill, DriverGone, readerOthers, closeVars,
         outboundVars, writerVars, sendVars, recvVars, socketVars, Enqueue
<1>11. CASE AbandonMessage
  BY <1>11
     DEF OutboundStill, InHand, ExclusionStill, DriverGone, readerOthers, closeVars,
         outboundVars, writerVars, sendVars, recvVars, socketVars, AbandonMessage
<1>12. CASE EnqueueFails
  BY <1>12
     DEF OutboundStill, InHand, ExclusionStill, DriverGone, readerOthers, closeVars,
         outboundVars, writerVars, sendVars, recvVars, socketVars, EnqueueFails
<1>13. CASE LoadClosing
  BY <1>13
     DEF OutboundStill, InHand, ExclusionStill, DriverGone, readerOthers, closeVars,
         outboundVars, writerVars, sendVars, recvVars, socketVars, LoadClosing
<1>14. CASE StoreClosing
  BY <1>14
     DEF OutboundStill, InHand, ExclusionStill, DriverGone, readerOthers, closeVars,
         outboundVars, writerVars, sendVars, recvVars, socketVars, StoreClosing
<1>15. CASE PublishPeerClosed
  BY <1>15
     DEF OutboundStill, InHand, ExclusionStill, DriverGone, readerOthers, closeVars,
         outboundVars, writerVars, sendVars, recvVars, socketVars, PublishPeerClosed
<1>16. CASE SignalPeerClose
  BY <1>16
     DEF OutboundStill, InHand, ExclusionStill, DriverGone, readerOthers, closeVars,
         outboundVars, writerVars, sendVars, recvVars, socketVars, SignalPeerClose
<1>17. CASE ReaderSeesTerminal
  BY <1>17
     DEF OutboundStill, InHand, ExclusionStill, DriverGone, readerOthers, closeVars,
         outboundVars, writerVars, sendVars, recvVars, socketVars, ReaderSeesTerminal
<1>18. CASE ReaderTimesOut
  BY <1>18
     DEF OutboundStill, InHand, ExclusionStill, DriverGone, readerOthers, closeVars,
         outboundVars, writerVars, sendVars, recvVars, socketVars, ReaderTimesOut
<1>19. CASE ReaderPublishes
  BY <1>19
     DEF OutboundStill, InHand, ExclusionStill, DriverGone, readerOthers, closeVars,
         outboundVars, writerVars, sendVars, recvVars, socketVars, ReaderPublishes
<1>20. CASE ReaderSignalsAbort
  BY <1>20
     DEF OutboundStill, InHand, ExclusionStill, DriverGone, readerOthers, closeVars,
         outboundVars, writerVars, sendVars, recvVars, socketVars, ReaderSignalsAbort
<1>21. CASE ReaderAbortsWriter
  BY <1>21
     DEF OutboundStill, InHand, ExclusionStill, DriverGone, readerOthers, closeVars,
         outboundVars, writerVars, sendVars, recvVars, socketVars, ReaderAbortsWriter
<1>22. CASE ReaderCancelled
  BY <1>22
     DEF OutboundStill, InHand, ExclusionStill, DriverGone, readerOthers, closeVars,
         outboundVars, writerVars, sendVars, recvVars, socketVars, ReaderCancelled
<1>23. CASE ReaderDropsContext
  BY <1>23
     DEF OutboundStill, InHand, ExclusionStill, DriverGone, readerOthers, closeVars,
         outboundVars, writerVars, sendVars, recvVars, socketVars, ReaderDropsContext
<1>24. CASE ReaderStops
  BY <1>24
     DEF OutboundStill, InHand, ExclusionStill, DriverGone, readerOthers, closeVars,
         outboundVars, writerVars, sendVars, recvVars, socketVars, ReaderStops
<1>25. QED
  BY <1>1, <1>2, <1>3, <1>4, <1>5, <1>6, <1>7, <1>8, <1>9, <1>10, <1>11, <1>12, <1>13, <1>14,
     <1>15, <1>16, <1>17, <1>18, <1>19, <1>20, <1>21, <1>22, <1>23, <1>24
     DEF ReaderNext, ReaderInput, ReaderStep

\* The writer leaves the inbound queue and the receives alone (driver.rs:575-716).
LEMMA WriterFrame ==
    ASSUME Forward, WriterNext
    PROVE  InboundStill /\ ExclusionStill
<1>1. CASE WriterSeesSignal
  BY <1>1
     DEF InboundStill, NeverBack, DriverGone, ExclusionStill, writerOthers, inboundVars,
         signalVars, readerVars, closeVars, recvVars, WriterSeesSignal
<1>2. CASE WriterPollsEvents \/ WriterFindsNothing
  BY <1>2
     DEF InboundStill, NeverBack, DriverGone, ExclusionStill, writerOthers, inboundVars,
         signalVars, readerVars, closeVars, recvVars, WriterPollsEvents, WriterFindsNothing
<1>3. CASE TakeFlush
  BY <1>3
     DEF InboundStill, NeverBack, DriverGone, ExclusionStill, writerOthers, inboundVars,
         signalVars, readerVars, closeVars, recvVars, TakeFlush
<1>4. CASE TakeControlClosed
  BY <1>4
     DEF InboundStill, NeverBack, DriverGone, ExclusionStill, writerOthers, inboundVars,
         signalVars, readerVars, closeVars, recvVars, TakeControlClosed
<1>5. CASE TakeCommand
  BY <1>5
     DEF InboundStill, NeverBack, DriverGone, ExclusionStill, writerOthers, inboundVars,
         signalVars, readerVars, closeVars, recvVars, TakeCommand
<1>6. CASE TakeOutboundClosed
  BY <1>6
     DEF InboundStill, NeverBack, DriverGone, ExclusionStill, writerOthers, inboundVars,
         signalVars, readerVars, closeVars, recvVars, TakeOutboundClosed
<1>7. CASE WriteCommand
  BY <1>7
     DEF InboundStill, NeverBack, DriverGone, ExclusionStill, writerOthers, inboundVars,
         signalVars, readerVars, closeVars, recvVars, WriteCommand
<1>8. CASE WriteClose
  BY <1>8
     DEF InboundStill, NeverBack, DriverGone, ExclusionStill, writerOthers, inboundVars,
         signalVars, readerVars, closeVars, recvVars, WriteClose
<1>9. CASE WriteRefused
  BY <1>9
     DEF InboundStill, NeverBack, DriverGone, ExclusionStill, writerOthers, inboundVars,
         signalVars, readerVars, closeVars, recvVars, WriteRefused
<1>10. CASE Flush
  BY <1>10
     DEF InboundStill, NeverBack, DriverGone, ExclusionStill, writerOthers, inboundVars,
         signalVars, readerVars, closeVars, recvVars, Flush
<1>11. CASE WriteFails
  BY <1>11
     DEF InboundStill, NeverBack, DriverGone, ExclusionStill, writerOthers, inboundVars,
         signalVars, readerVars, closeVars, recvVars, WriteFails
<1>12. CASE Respond
  BY <1>12
     DEF InboundStill, NeverBack, DriverGone, ExclusionStill, writerOthers, inboundVars,
         signalVars, readerVars, closeVars, recvVars, Respond
<1>13. CASE ReleasePermit
  BY <1>13
     DEF InboundStill, NeverBack, DriverGone, ExclusionStill, writerOthers, inboundVars,
         signalVars, readerVars, closeVars, recvVars, ReleasePermit
<1>14. CASE AwaitPeer
  BY <1>14
     DEF InboundStill, NeverBack, DriverGone, ExclusionStill, writerOthers, inboundVars,
         signalVars, readerVars, closeVars, recvVars, AwaitPeer
<1>15. CASE PublishOutcome
  BY <1>15
     DEF InboundStill, NeverBack, DriverGone, ExclusionStill, writerOthers, inboundVars,
         signalVars, readerVars, closeVars, recvVars, PublishOutcome
<1>16. CASE PublishFailure
  BY <1>16
     DEF InboundStill, NeverBack, DriverGone, ExclusionStill, writerOthers, inboundVars,
         signalVars, readerVars, closeVars, recvVars, PublishFailure
<1>17. CASE WriterSignalsAbort
  BY <1>17
     DEF Forward, InboundStill, NeverBack, DriverGone, ExclusionStill, writerOthers,
         inboundVars, signalVars, readerVars, closeVars, recvVars, Signal, signal_abort,
         WriterSignalsAbort
<1>18. CASE RespondFailure
  BY <1>18
     DEF InboundStill, NeverBack, DriverGone, ExclusionStill, writerOthers, inboundVars,
         signalVars, readerVars, closeVars, recvVars, RespondFailure
<1>19. CASE WriterCancelled
  BY <1>19
     DEF InboundStill, NeverBack, DriverGone, ExclusionStill, writerOthers, inboundVars,
         signalVars, readerVars, closeVars, recvVars, WriterCancelled
<1>20. CASE WriterClosesQueue
  BY <1>20
     DEF InboundStill, NeverBack, DriverGone, ExclusionStill, writerOthers, inboundVars,
         signalVars, readerVars, closeVars, recvVars, WriterClosesQueue
<1>21. CASE DrainCommand
  BY <1>21
     DEF InboundStill, NeverBack, DriverGone, ExclusionStill, writerOthers, inboundVars,
         signalVars, readerVars, closeVars, recvVars, DrainCommand
<1>22. CASE WriterDropsQueue
  BY <1>22
     DEF InboundStill, NeverBack, DriverGone, ExclusionStill, writerOthers, inboundVars,
         signalVars, readerVars, closeVars, recvVars, WriterDropsQueue
<1>23. CASE WriterStops
  BY <1>23
     DEF InboundStill, NeverBack, DriverGone, ExclusionStill, writerOthers, inboundVars,
         signalVars, readerVars, closeVars, recvVars, WriterStops
<1>24. QED
  BY <1>1, <1>2, <1>3, <1>4, <1>5, <1>6, <1>7, <1>8, <1>9, <1>10, <1>11, <1>12, <1>13, <1>14,
     <1>15, <1>16, <1>17, <1>18, <1>19, <1>20, <1>21, <1>22, <1>23
     DEF WriterNext, WriterIO, WriterStep

\* Nine steps of the writer touch a command or the wire (driver.rs:606-691).
LEMMA WriterMoves ==
    ASSUME TypeOK, Forward, WriterNext,
           ~TakeCommand, ~WriteCommand, ~WriteClose, ~Flush, ~Respond, ~ReleasePermit,
           ~RespondFailure, ~WriterCancelled, ~DrainCommand
    PROVE  OutboundStill
<1>1. CASE WriterSeesSignal
  BY <1>1
     DEF OutboundStill, InHand, writerOthers, outboundVars, socketVars, sendVars,
         WriterSeesSignal, TypeOK, SignalTypes, ShutdownSignals
<1>2. CASE WriterPollsEvents \/ WriterFindsNothing
  BY <1>2
     DEF OutboundStill, InHand, writerOthers, outboundVars, socketVars, sendVars,
         WriterPollsEvents, WriterFindsNothing
<1>3. CASE TakeFlush
  BY <1>3 DEF OutboundStill, InHand, writerOthers, outboundVars, socketVars, sendVars, TakeFlush
<1>4. CASE TakeControlClosed
  BY <1>4
     DEF OutboundStill, InHand, writerOthers, outboundVars, socketVars, sendVars,
         TakeControlClosed
<1>5. CASE TakeOutboundClosed
  BY <1>5
     DEF OutboundStill, InHand, writerOthers, outboundVars, socketVars, sendVars,
         TakeOutboundClosed
<1>6. CASE WriteRefused
  BY <1>6
     DEF OutboundStill, InHand, writerOthers, outboundVars, socketVars, sendVars, WriteRefused
<1>7. CASE WriteFails
  BY <1>7
     DEF OutboundStill, InHand, writerOthers, outboundVars, socketVars, sendVars, WriteFails
<1>8. CASE AwaitPeer
  BY <1>8 DEF OutboundStill, InHand, writerOthers, outboundVars, socketVars, sendVars, AwaitPeer
<1>9. CASE PublishOutcome
  BY <1>9
     DEF OutboundStill, InHand, writerOthers, outboundVars, socketVars, sendVars,
         PublishOutcome
<1>10. CASE PublishFailure
  BY <1>10
     DEF OutboundStill, InHand, writerOthers, outboundVars, socketVars, sendVars,
         PublishFailure
<1>11. CASE WriterSignalsAbort
  BY <1>11
     DEF OutboundStill, InHand, writerOthers, outboundVars, socketVars, sendVars,
         WriterSignalsAbort
<1>12. CASE WriterClosesQueue
  BY <1>12
     DEF OutboundStill, InHand, writerOthers, outboundVars, socketVars, sendVars,
         WriterClosesQueue
<1>13. CASE WriterDropsQueue
  BY <1>13
     DEF OutboundStill, InHand, writerOthers, outboundVars, socketVars, sendVars,
         WriterDropsQueue
<1>14. CASE WriterStops
  BY <1>14
     DEF OutboundStill, InHand, writerOthers, outboundVars, socketVars, sendVars, WriterStops
<1>15. QED
  BY <1>1, <1>2, <1>3, <1>4, <1>5, <1>6, <1>7, <1>8, <1>9, <1>10, <1>11, <1>12, <1>13, <1>14
     DEF WriterNext, WriterIO, WriterStep

\* close() touches no message (driver.rs:323-388).
LEMMA CloserFrame ==
    ASSUME NEW c \in Closers, Forward, CloserNext(c)
    PROVE  InboundStill /\ OutboundStill /\ ExclusionStill
<1>1. CASE CloseStart(c)
  BY <1>1
     DEF InboundStill, NeverBack, DriverGone, OutboundStill, InHand, ExclusionStill,
         closeOthers, At, inboundVars, outboundVars, signalVars, socketVars, readerVars,
         writerVars, sendVars, recvVars, CloseStart
<1>2. CASE CloseTakesGuard(c)
  BY <1>2
     DEF InboundStill, NeverBack, DriverGone, OutboundStill, InHand, ExclusionStill,
         closeOthers, At, inboundVars, outboundVars, signalVars, socketVars, readerVars,
         writerVars, sendVars, recvVars, CloseTakesGuard
<1>3. CASE CloseSwap(c)
  BY <1>3
     DEF InboundStill, NeverBack, DriverGone, OutboundStill, InHand, ExclusionStill,
         closeOthers, At, inboundVars, outboundVars, signalVars, socketVars, readerVars,
         writerVars, sendVars, recvVars, CloseSwap
<1>4. CASE ClosePublish(c)
  BY <1>4
     DEF InboundStill, NeverBack, DriverGone, OutboundStill, InHand, ExclusionStill,
         closeOthers, At, inboundVars, outboundVars, signalVars, socketVars, readerVars,
         writerVars, sendVars, recvVars, ClosePublish
<1>5. CASE CloseSignal(c)
  BY <1>5
     DEF Forward, InboundStill, NeverBack, DriverGone, OutboundStill, InHand, ExclusionStill,
         closeOthers, At, inboundVars, outboundVars, signalVars, socketVars, readerVars,
         writerVars, sendVars, recvVars, Signal, signal_local_close, CloseSignal
<1>6. CASE CloseArm(c)
  BY <1>6
     DEF InboundStill, NeverBack, DriverGone, OutboundStill, InHand, ExclusionStill,
         closeOthers, At, inboundVars, outboundVars, signalVars, socketVars, readerVars,
         writerVars, sendVars, recvVars, CloseArm
<1>7. CASE CloseDropsGuard(c)
  BY <1>7
     DEF InboundStill, NeverBack, DriverGone, OutboundStill, InHand, ExclusionStill,
         closeOthers, At, inboundVars, outboundVars, signalVars, socketVars, readerVars,
         writerVars, sendVars, recvVars, CloseDropsGuard
<1>8. CASE CloseSeesTerminal(c)
  BY <1>8
     DEF InboundStill, NeverBack, DriverGone, OutboundStill, InHand, ExclusionStill,
         closeOthers, At, inboundVars, outboundVars, signalVars, socketVars, readerVars,
         writerVars, sendVars, recvVars, CloseSeesTerminal
<1>9. CASE CloseReturns(c)
  BY <1>9
     DEF InboundStill, NeverBack, DriverGone, OutboundStill, InHand, ExclusionStill,
         closeOthers, At, inboundVars, outboundVars, signalVars, socketVars, readerVars,
         writerVars, sendVars, recvVars, CloseReturns
<1>10. CASE CloseCancelled(c)
  BY <1>10
     DEF InboundStill, NeverBack, DriverGone, OutboundStill, InHand, ExclusionStill,
         closeOthers, At, inboundVars, outboundVars, signalVars, socketVars, readerVars,
         writerVars, sendVars, recvVars, CloseCancelled
<1>11. QED
  BY <1>1, <1>2, <1>3, <1>4, <1>5, <1>6, <1>7, <1>8, <1>9, <1>10 DEF CloserNext, CloseStep

\* Nor does the watchdog (driver.rs:380-387).
LEMMA WatchdogFrame ==
    ASSUME Forward, WatchdogStep
    PROVE  InboundStill /\ OutboundStill /\ ExclusionStill
<1>1. CASE WatchdogSeesTerminal
  BY <1>1
     DEF InboundStill, NeverBack, DriverGone, OutboundStill, InHand, ExclusionStill,
         watchdogOthers, closeOthers, inboundVars, outboundVars, signalVars, socketVars,
         readerVars, writerVars, sendVars, recvVars, WatchdogSeesTerminal
<1>2. CASE WatchdogExpires
  BY <1>2
     DEF InboundStill, NeverBack, DriverGone, OutboundStill, InHand, ExclusionStill,
         watchdogOthers, closeOthers, inboundVars, outboundVars, signalVars, socketVars,
         readerVars, writerVars, sendVars, recvVars, WatchdogExpires
<1>3. CASE WatchdogPublishes
  BY <1>3
     DEF InboundStill, NeverBack, DriverGone, OutboundStill, InHand, ExclusionStill,
         watchdogOthers, closeOthers, inboundVars, outboundVars, signalVars, socketVars,
         readerVars, writerVars, sendVars, recvVars, WatchdogPublishes
<1>4. CASE WatchdogAbortsReader
  BY <1>4
     DEF InboundStill, NeverBack, DriverGone, OutboundStill, InHand, ExclusionStill,
         watchdogOthers, closeOthers, inboundVars, outboundVars, signalVars, socketVars,
         readerVars, writerVars, sendVars, recvVars, WatchdogAbortsReader
<1>5. CASE WatchdogAbortsWriter
  BY <1>5
     DEF InboundStill, NeverBack, DriverGone, OutboundStill, InHand, ExclusionStill,
         watchdogOthers, closeOthers, inboundVars, outboundVars, signalVars, socketVars,
         readerVars, writerVars, sendVars, recvVars, WatchdogAbortsWriter
<1>6. CASE WatchdogStops
  BY <1>6
     DEF InboundStill, NeverBack, DriverGone, OutboundStill, InHand, ExclusionStill,
         watchdogOthers, closeOthers, inboundVars, outboundVars, signalVars, socketVars,
         readerVars, writerVars, sendVars, recvVars, WatchdogStops
<1>7. QED
  BY <1>1, <1>2, <1>3, <1>4, <1>5, <1>6 DEF WatchdogStep

\* Nor does abort() (driver.rs:344-351).
LEMMA AbandonFrame ==
    ASSUME Forward, AbandonNext, ~DropInbound
    PROVE  InboundStill /\ OutboundStill /\ ExclusionStill
<1>1. CASE AbandonStores
  BY <1>1
     DEF InboundStill, NeverBack, DriverGone, OutboundStill, InHand, ExclusionStill,
         AbandonStep, abandonOthers, closeOthers, inboundVars, outboundVars, signalVars,
         socketVars, readerVars, writerVars, sendVars, recvVars, AbandonStores
<1>2. CASE AbandonPublishes
  BY <1>2
     DEF InboundStill, NeverBack, DriverGone, OutboundStill, InHand, ExclusionStill,
         AbandonStep, abandonOthers, closeOthers, inboundVars, outboundVars, signalVars,
         socketVars, readerVars, writerVars, sendVars, recvVars, AbandonPublishes
<1>3. CASE AbandonSignals
  BY <1>3
     DEF Forward, InboundStill, NeverBack, DriverGone, OutboundStill, InHand, ExclusionStill,
         AbandonStep, abandonOthers, closeOthers, inboundVars, outboundVars, signalVars,
         socketVars, readerVars, writerVars, sendVars, recvVars, Signal, signal_abort,
         AbandonSignals
<1>4. CASE AbandonAbortsReader
  BY <1>4
     DEF InboundStill, NeverBack, DriverGone, OutboundStill, InHand, ExclusionStill,
         AbandonStep, abandonOthers, closeOthers, inboundVars, outboundVars, signalVars,
         socketVars, readerVars, writerVars, sendVars, recvVars, AbandonAbortsReader
<1>5. CASE AbandonAbortsWriter
  BY <1>5
     DEF InboundStill, NeverBack, DriverGone, OutboundStill, InHand, ExclusionStill,
         AbandonStep, abandonOthers, closeOthers, inboundVars, outboundVars, signalVars,
         socketVars, readerVars, writerVars, sendVars, recvVars, AbandonAbortsWriter
<1>6. CASE DropDriver
  BY <1>6
     DEF InboundStill, NeverBack, DriverGone, OutboundStill, InHand, ExclusionStill,
         AbandonStep, abandonOthers, closeOthers, inboundVars, outboundVars, signalVars,
         socketVars, readerVars, writerVars, sendVars, recvVars, DropDriver, Receiving
<1>7. QED
  BY <1>1, <1>2, <1>3, <1>4, <1>5, <1>6 DEF AbandonNext, AbandonRest

\* A send leaves the inbound queue and the receives alone (driver.rs:246-312).
LEMMA SenderFrame ==
    ASSUME NEW s \in Senders, Forward, SenderNext(s)
    PROVE  InboundStill /\ ExclusionStill
<1>1. CASE SendValidate(s)
  BY <1>1
     DEF InboundStill, NeverBack, DriverGone, ExclusionStill, sendOthers, closeVars,
         inboundVars, signalVars, readerVars, recvVars, SendValidate
<1>2. CASE SendAcquire(s)
  BY <1>2
     DEF InboundStill, NeverBack, DriverGone, ExclusionStill, sendOthers, closeVars,
         inboundVars, signalVars, readerVars, recvVars, SendAcquire
<1>3. CASE SendReserve(s)
  BY <1>3
     DEF InboundStill, NeverBack, DriverGone, ExclusionStill, sendOthers, closeVars,
         inboundVars, signalVars, readerVars, recvVars, SendReserve
<1>4. CASE SendPush(s)
  BY <1>4
     DEF InboundStill, NeverBack, DriverGone, ExclusionStill, sendOthers, closeVars,
         inboundVars, signalVars, readerVars, recvVars, SendPush
<1>5. CASE SendReturns(s)
  BY <1>5
     DEF InboundStill, NeverBack, DriverGone, ExclusionStill, sendOthers, closeVars,
         inboundVars, signalVars, readerVars, recvVars, SendReturns
<1>6. CASE SendCancelled(s)
  BY <1>6
     DEF InboundStill, NeverBack, DriverGone, ExclusionStill, sendOthers, closeVars,
         inboundVars, signalVars, readerVars, recvVars, SendCancelled
<1>7. QED
  BY <1>1, <1>2, <1>3, <1>4, <1>5, <1>6 DEF SenderNext, SendStep

\* A receive leaves the commands and the socket alone (driver.rs:314-321).
LEMMA ReceiverFrame ==
    ASSUME NEW r \in Receivers, Forward, ReceiverNext(r)
    PROVE  OutboundStill
<1>1. CASE ReceiveClaim(r)
  BY <1>1
     DEF OutboundStill, InHand, recvOthers, outboundVars, socketVars, writerVars, sendVars,
         ReceiveClaim
<1>2. CASE ReceiveMessage(r)
  BY <1>2
     DEF OutboundStill, InHand, recvOthers, outboundVars, socketVars, writerVars, sendVars,
         ReceiveMessage
<1>3. CASE ReceiveEnd(r)
  BY <1>3
     DEF OutboundStill, InHand, recvOthers, outboundVars, socketVars, writerVars, sendVars,
         ReceiveEnd
<1>4. CASE ReceiveCancelled(r)
  BY <1>4
     DEF OutboundStill, InHand, recvOthers, outboundVars, socketVars, writerVars, sendVars,
         ReceiveCancelled
<1>5. CASE ReceiveUnclaims(r)
  BY <1>5
     DEF OutboundStill, InHand, recvOthers, outboundVars, socketVars, writerVars, sendVars,
         ReceiveUnclaims
<1>6. QED
  BY <1>1, <1>2, <1>3, <1>4, <1>5 DEF ReceiverNext, ReceiveStep

\* Only one of its steps takes a message (driver.rs:314-321).
LEMMA ReceiverMoves ==
    ASSUME NEW r \in Receivers, Forward, ReceiverNext(r), ~ReceiveMessage(r)
    PROVE  InboundStill
<1>1. CASE ReceiveClaim(r)
  BY <1>1
     DEF InboundStill, NeverBack, DriverGone, recvOthers, inboundVars, signalVars,
         readerVars, closeVars, ReceiveClaim
<1>2. CASE ReceiveEnd(r)
  BY <1>2
     DEF InboundStill, NeverBack, DriverGone, recvOthers, inboundVars, signalVars,
         readerVars, closeVars, ReceiveEnd
<1>3. CASE ReceiveCancelled(r)
  BY <1>3
     DEF InboundStill, NeverBack, DriverGone, recvOthers, inboundVars, signalVars,
         readerVars, closeVars, ReceiveCancelled
<1>4. CASE ReceiveUnclaims(r)
  BY <1>4
     DEF InboundStill, NeverBack, DriverGone, recvOthers, inboundVars, signalVars,
         readerVars, closeVars, ReceiveUnclaims
<1>5. QED
  BY <1>1, <1>2, <1>3, <1>4 DEF ReceiverNext, ReceiveStep

-----------------------------------------------------------------------------
(* InboundInv                                                              *)

\* Who leaves the inbound queue and the reader alone keeps the order
\* (driver.rs:536-573).
LEMMA StillKeepsInbound ==
    ASSUME InboundInv, InboundStill
    PROVE  InboundInv'
<1>1. UNCHANGED <<inbound, delivered, readerPc, readerMsg, dataRead>>
  BY DEF InboundStill, inboundVars, readerVars
<1>2. /\ DriverGone => DriverGone'
      /\ shutdown # "Running" => shutdown' # "Running"
      /\ readerUnseen' => readerUnseen \/ shutdown' # "Running"
  BY DEF InboundStill, NeverBack
<1>3. InboundInOrder'
  BY <1>1, <1>2 DEF InboundInv, InboundInOrder
<1>4. (readerUnseen => shutdown # "Running")'
  BY <1>2 DEF InboundInv
<1>5. QED
  BY <1>1, <1>2, <1>3, <1>4 DEF InboundInv

\* The reader queues what it read in order, and drops a message only once a
\* signal tells it to (driver.rs:438-573).
LEMMA ReaderKeepsInbound ==
    ASSUME TypeOK, InboundInv, Forward, ReaderNext
    PROVE  InboundInv'
<1>1. /\ inbound \in Seq(Messages) /\ delivered \in Seq(Nat) /\ dataRead \in Nat
      /\ Len(inbound) \in Nat /\ Len(delivered) \in Nat /\ readerMsg \in Messages
  <2>1. /\ inbound \in Seq(Messages) /\ delivered \in Seq(Nat)
        /\ dataRead \in Nat /\ readerMsg \in Messages
    BY DEF TypeOK, InboundTypes, RecvTypes, ReaderTypes
  <2>2. QED
    BY <2>1
<1>2. shutdown # "Running" => shutdown' # "Running"
  BY DEF Forward
<1>3. CASE ReaderCheck
  <2>1. /\ readerPc = "check" /\ readerPc' \in {"select", "stop"}
        /\ UNCHANGED <<inbound, delivered, readerMsg, dataRead, shutdown, readerUnseen, abandonPc>>
    BY <1>3 DEF ReaderCheck, readerOthers, inboundVars, signalVars, closeVars, recvVars
  <2>2. InboundInOrder'
    BY <2>1 DEF InboundInv, InboundInOrder, DriverGone
  <2>3. QED
    BY <2>1, <2>2 DEF InboundInv, DriverGone
<1>4. CASE ReaderSeesSignal
  BY <1>1, <1>2, <1>4, EnvironmentAssumption
     DEF ReaderSeesSignal, InboundInv, InboundInOrder, DriverGone, readerOthers, inboundVars,
         signalVars, closeVars, recvVars
<1>5. CASE ReadData
  BY <1>1, <1>2, <1>5, EnvironmentAssumption
     DEF ReadData, InboundInv, InboundInOrder, DriverGone, readerOthers, inboundVars,
         signalVars, closeVars, recvVars
<1>6. CASE ReadPing
  BY <1>1, <1>2, <1>6, EnvironmentAssumption
     DEF ReadPing, InboundInv, InboundInOrder, DriverGone, readerOthers, inboundVars,
         signalVars, closeVars, recvVars
<1>7. CASE ReadEnd
  BY <1>1, <1>2, <1>7, EnvironmentAssumption
     DEF ReadEnd, InboundInv, InboundInOrder, DriverGone, readerOthers, inboundVars,
         signalVars, closeVars, recvVars
<1>8. CASE ReadError
  BY <1>1, <1>2, <1>8, EnvironmentAssumption
     DEF ReadError, InboundInv, InboundInOrder, DriverGone, readerOthers, inboundVars,
         signalVars, closeVars, recvVars
<1>9. CASE ReadClose
  BY <1>1, <1>2, <1>9, EnvironmentAssumption
     DEF ReadClose, InboundInv, InboundInOrder, DriverGone, readerOthers, inboundVars,
         signalVars, closeVars, recvVars
<1>10. CASE QueueCheck
  BY <1>1, <1>2, <1>10, EnvironmentAssumption
     DEF QueueCheck, InboundInv, InboundInOrder, DriverGone, readerOthers, inboundVars,
         signalVars, closeVars, recvVars
<1>11. CASE AcquireInbound
  BY <1>1, <1>2, <1>11, EnvironmentAssumption
     DEF AcquireInbound, InboundInv, InboundInOrder, DriverGone, readerOthers, inboundVars,
         signalVars, closeVars, recvVars
<1>12. CASE Enqueue
  <2>1. /\ readerPc = "enqueue" /\ readerPc' = "check" /\ ~DriverGone /\ ~DriverGone'
        /\ inbound' = Append(inbound, readerMsg)
        /\ UNCHANGED <<delivered, dataRead, shutdown, readerUnseen>>
    BY <1>12 DEF Enqueue, DriverGone, readerOthers, signalVars, closeVars, recvVars
  <2>2. /\ Len(inbound') = Len(inbound) + 1 /\ inbound'[Len(inbound) + 1] = readerMsg
        /\ \A i \in 1..Len(inbound) : inbound'[i] = inbound[i]
    BY <1>1, <2>1
  <2>3. readerMsg.id = Len(delivered) + Len(inbound) + 1 /\ readerMsg.id = dataRead
    BY <2>1 DEF InboundInv, InboundInOrder
  <2>4. \A i \in 1..Len(inbound') : inbound'[i].id = Len(delivered') + i
    <3>1. TAKE i \in 1..Len(inbound')
    <3>2. CASE i = Len(inbound) + 1
      BY <1>1, <2>1, <2>2, <2>3, <3>2
    <3>3. CASE i \in 1..Len(inbound)
      BY <2>1, <2>2, <3>3 DEF InboundInv, InboundInOrder
    <3>4. QED
      BY <1>1, <2>2, <3>2, <3>3
  <2>5. InboundInOrder'
    BY <2>1, <2>4 DEF InboundInv, InboundInOrder
  <2>6. dataRead' = Len(delivered') + Len(inbound')
    BY <1>1, <2>1, <2>2, <2>3
  <2>7. QED
    BY <2>1, <2>5, <2>6 DEF InboundInv
<1>13. CASE AbandonMessage
  BY <1>1, <1>2, <1>13, EnvironmentAssumption
     DEF AbandonMessage, InboundInv, InboundInOrder, DriverGone, readerOthers, inboundVars,
         signalVars, closeVars, recvVars
<1>14. CASE EnqueueFails
  BY <1>1, <1>2, <1>14, EnvironmentAssumption
     DEF EnqueueFails, InboundInv, InboundInOrder, DriverGone, readerOthers, inboundVars,
         signalVars, closeVars, recvVars
<1>15. CASE LoadClosing
  BY <1>1, <1>2, <1>15, EnvironmentAssumption
     DEF LoadClosing, InboundInv, InboundInOrder, DriverGone, readerOthers, inboundVars,
         signalVars, closeVars, recvVars
<1>16. CASE StoreClosing
  BY <1>1, <1>2, <1>16, EnvironmentAssumption
     DEF StoreClosing, InboundInv, InboundInOrder, DriverGone, readerOthers, inboundVars,
         signalVars, closeVars, recvVars
<1>17. CASE PublishPeerClosed
  BY <1>1, <1>2, <1>17, EnvironmentAssumption
     DEF PublishPeerClosed, InboundInv, InboundInOrder, DriverGone, readerOthers,
         inboundVars, signalVars, closeVars, recvVars
<1>18. CASE SignalPeerClose
  BY <1>1, <1>2, <1>18, EnvironmentAssumption
     DEF SignalPeerClose, Signal, signal_peer_close, InboundInv, InboundInOrder, DriverGone,
         readerOthers, inboundVars, signalVars, closeVars, recvVars
<1>19. CASE ReaderSeesTerminal
  BY <1>1, <1>2, <1>19, EnvironmentAssumption
     DEF ReaderSeesTerminal, InboundInv, InboundInOrder, DriverGone, readerOthers,
         inboundVars, signalVars, closeVars, recvVars
<1>20. CASE ReaderTimesOut
  BY <1>1, <1>2, <1>20, EnvironmentAssumption
     DEF ReaderTimesOut, InboundInv, InboundInOrder, DriverGone, readerOthers, inboundVars,
         signalVars, closeVars, recvVars
<1>21. CASE ReaderPublishes
  BY <1>1, <1>2, <1>21, EnvironmentAssumption
     DEF ReaderPublishes, InboundInv, InboundInOrder, DriverGone, readerOthers, inboundVars,
         signalVars, closeVars, recvVars
<1>22. CASE ReaderSignalsAbort
  BY <1>1, <1>2, <1>22, EnvironmentAssumption
     DEF ReaderSignalsAbort, Signal, signal_abort, InboundInv, InboundInOrder, DriverGone,
         readerOthers, inboundVars, signalVars, closeVars, recvVars
<1>23. CASE ReaderAbortsWriter
  BY <1>1, <1>2, <1>23, EnvironmentAssumption
     DEF ReaderAbortsWriter, InboundInv, InboundInOrder, DriverGone, readerOthers,
         inboundVars, signalVars, closeVars, recvVars
<1>24. CASE ReaderCancelled
  BY <1>1, <1>2, <1>24, EnvironmentAssumption
     DEF ReaderCancelled, InboundInv, InboundInOrder, DriverGone, readerOthers, inboundVars,
         signalVars, closeVars, recvVars
<1>25. CASE ReaderDropsContext
  BY <1>1, <1>2, <1>25, EnvironmentAssumption
     DEF ReaderDropsContext, InboundInv, InboundInOrder, DriverGone, readerOthers,
         inboundVars, signalVars, closeVars, recvVars
<1>26. CASE ReaderStops
  BY <1>1, <1>2, <1>26, EnvironmentAssumption
     DEF ReaderStops, InboundInv, InboundInOrder, DriverGone, readerOthers, inboundVars,
         signalVars, closeVars, recvVars
<1>27. QED
  BY <1>3, <1>4, <1>5, <1>6, <1>7, <1>8, <1>9, <1>10, <1>11, <1>12, <1>13, <1>14, <1>15,
     <1>16, <1>17, <1>18, <1>19, <1>20, <1>21, <1>22, <1>23, <1>24, <1>25, <1>26
     DEF ReaderNext, ReaderInput, ReaderStep

\* A receive takes the first message (driver.rs:314-321).
LEMMA ReceiverKeepsInbound ==
    ASSUME NEW r \in Receivers, TypeOK, InboundInv, ExclusionInv, Forward, ReceiverNext(r)
    PROVE  InboundInv'
<1>1. CASE ~ReceiveMessage(r)
  BY <1>1, ReceiverMoves, StillKeepsInbound
<1>2. CASE ReceiveMessage(r)
  <2>1. /\ inbound # << >> /\ inbound' = Tail(inbound)
        /\ delivered' = Append(delivered, Head(inbound).id)
        /\ UNCHANGED <<abandonPc, shutdown, readerUnseen, readerPc, readerMsg, dataRead>>
    BY <1>2 DEF ReceiveMessage, recvOthers, signalVars, readerVars, closeVars
  <2>2. inbound \in Seq(Messages) /\ delivered \in Seq(Nat) /\ Head(inbound).id \in Nat
    BY <2>1, HeadTyped DEF TypeOK, InboundTypes, RecvTypes
  <2>3. /\ Len(inbound) \in Nat /\ Len(inbound) > 0 /\ Len(inbound') = Len(inbound) - 1
        /\ \A i \in 1..Len(inbound') : inbound'[i] = inbound[i + 1]
        /\ Head(inbound) = inbound[1]
    BY <2>1, <2>2
  <2>4. /\ Len(delivered) \in Nat /\ Len(delivered') = Len(delivered) + 1
        /\ \A i \in 1..Len(delivered) : delivered'[i] = delivered[i]
        /\ delivered'[Len(delivered) + 1] = Head(inbound).id
    BY <2>1, <2>2
  <2>5. ~DriverGone /\ ~DriverGone'
    BY <1>2, <2>1 DEF ReceiveMessage, At, ExclusionInv, Receiving, DriverGone
  <2>6. Head(inbound).id = Len(delivered) + 1
    BY <2>3, <2>5 DEF InboundInv, InboundInOrder
  <2>7. \A i \in 1..Len(delivered') : delivered'[i] = i
    BY <2>4, <2>6 DEF InboundInv, InboundInOrder
  <2>8. \A i \in 1..Len(inbound') : inbound'[i].id = Len(delivered') + i
    <3>1. TAKE i \in 1..Len(inbound')
    <3>2. i + 1 \in 1..Len(inbound) /\ inbound'[i] = inbound[i + 1]
      BY <2>3
    <3>3. inbound[i + 1].id = Len(delivered) + (i + 1)
      BY <2>5, <3>2 DEF InboundInv, InboundInOrder
    <3>4. QED
      BY <2>4, <3>2, <3>3
  <2>9. Len(delivered') + Len(inbound') = Len(delivered) + Len(inbound)
    BY <2>3, <2>4
  <2>10. InboundInOrder'
    BY <2>1, <2>5, <2>7, <2>8, <2>9 DEF InboundInv, InboundInOrder
  <2>11. QED
    BY <2>1, <2>5, <2>9, <2>10 DEF InboundInv
<1>3. QED
  BY <1>1, <1>2

\* What a dropped driver discards was queued (driver.rs:409-413).
LEMMA DropInboundKeepsInbound ==
    ASSUME InboundInv, ExclusionInv, DropInbound
    PROVE  InboundInv' /\ ExclusionInv' /\ OutboundStill
<1>1. /\ DriverGone /\ DriverGone'
      /\ UNCHANGED <<delivered, recvVars, shutdown, readerUnseen, readerPc, readerMsg, dataRead>>
  BY DEF DropInbound, DriverGone, recvOthers, signalVars, readerVars, closeVars, recvVars
<1>2. InboundInv'
  BY <1>1 DEF InboundInv, InboundInOrder
<1>3. ExclusionInv'
  BY <1>1 DEF ExclusionInv, Receiving, recvVars
<1>4. QED
  BY <1>2, <1>3 DEF OutboundStill, InHand, DropInbound, recvOthers, outboundVars, socketVars,
                    writerVars, sendVars

-----------------------------------------------------------------------------
(* ExclusionInv                                                            *)

\* Who leaves the receives alone keeps them apart (driver.rs:415-436).
LEMMA StillKeepsExclusion ==
    ASSUME ExclusionInv, ExclusionStill
    PROVE  ExclusionInv'
<1>1. Receiving' = Receiving
  BY DEF ExclusionStill, Receiving
<1>2. QED
  BY <1>1 DEF ExclusionInv, ExclusionStill

\* A receive() enters only when nobody is inside, and lowers the flag when it
\* leaves (driver.rs:415-436).
LEMMA ReceiverKeepsExclusion ==
    ASSUME NEW r \in Receivers, TypeOK, ExclusionInv, ReceiverNext(r)
    PROVE  ExclusionInv'
<1>1. recvPc \in [Receivers -> RecvPcs] /\ recvResult \in [Receivers -> Results]
  BY DEF TypeOK, RecvTypes
<1>2. UNCHANGED abandonPc /\ DriverGone' = DriverGone
  BY DEF ReceiverNext, ReceiveStep, ReceiveClaim, ReceiveMessage, ReceiveEnd, ReceiveCancelled,
         ReceiveUnclaims, recvOthers, closeVars, DriverGone
<1>3. CASE ReceiveClaim(r) /\ receiveActive
  <2>1. /\ recvPc[r] = "idle" /\ recvPc' = [recvPc EXCEPT ![r] = "done"] /\ receiveActive'
        /\ recvResult' = [recvResult EXCEPT ![r] = Concurrency] /\ ~DriverGone
    BY <1>3 DEF ReceiveClaim
  <2>2. Receiving' = Receiving
    BY <1>1, <2>1 DEF Receiving
  <2>3. \A q \in Receivers : recvPc'[q] \in {"idle", "waiting"} => recvResult'[q] = Pending
    BY <1>1, <2>1 DEF ExclusionInv
  <2>4. QED
    BY <1>2, <1>3, <2>1, <2>2, <2>3 DEF ExclusionInv
<1>4. CASE ReceiveClaim(r) /\ ~receiveActive
  <2>1. /\ recvPc[r] = "idle" /\ recvPc' = [recvPc EXCEPT ![r] = "waiting"] /\ receiveActive'
        /\ recvResult' = recvResult /\ ~DriverGone
    BY <1>4 DEF ReceiveClaim
  <2>2. Receiving' = {r}
    BY <1>1, <1>4, <2>1 DEF ExclusionInv, Receiving
  <2>3. \A q \in Receivers : recvPc'[q] \in {"idle", "waiting"} => recvResult'[q] = Pending
    BY <1>1, <2>1 DEF ExclusionInv
  <2>4. QED
    BY <1>2, <2>1, <2>2, <2>3 DEF ExclusionInv
<1>5. CASE ReceiveMessage(r) \/ ReceiveEnd(r) \/ ReceiveCancelled(r)
  <2>1. /\ recvPc[r] = "waiting" /\ recvPc' = [recvPc EXCEPT ![r] = "unclaim"]
        /\ UNCHANGED receiveActive
        /\ \A q \in Receivers : q # r => recvResult'[q] = recvResult[q]
    BY <1>1, <1>5 DEF ReceiveMessage, ReceiveEnd, ReceiveCancelled, At
  <2>2. Receiving' = Receiving
    BY <1>1, <2>1 DEF Receiving
  <2>3. \A q \in Receivers : recvPc'[q] \in {"idle", "waiting"} => recvResult'[q] = Pending
    BY <1>1, <2>1 DEF ExclusionInv
  <2>4. QED
    BY <1>2, <2>1, <2>2, <2>3 DEF ExclusionInv
<1>6. CASE ReceiveUnclaims(r)
  <2>1. /\ recvPc[r] = "unclaim" /\ recvPc' = [recvPc EXCEPT ![r] = "done"]
        /\ receiveActive' = FALSE /\ UNCHANGED recvResult
    BY <1>6 DEF ReceiveUnclaims, At
  <2>2. r \in Receiving
    BY <2>1 DEF Receiving
  <2>3. Receiving' = {}
    BY <1>1, <2>1, <2>2 DEF ExclusionInv, Receiving
  <2>4. \A q \in Receivers : recvPc'[q] \in {"idle", "waiting"} => recvResult'[q] = Pending
    BY <1>1, <2>1 DEF ExclusionInv
  <2>5. QED
    BY <2>1, <2>3, <2>4 DEF ExclusionInv
<1>7. QED
  BY <1>3, <1>4, <1>5, <1>6 DEF ReceiverNext, ReceiveStep

-----------------------------------------------------------------------------
(* QueueInv and WireInv                                                    *)

\* What the steps of the senders and the writer rely on, and the queue as a
\* sequence (driver.rs:246-312, 606-691).
LEMMA CommandFacts ==
    ASSUME TypeOK, QueueInv
    PROVE  /\ outbound \in Seq(Senders) /\ wire \in Seq(Senders \cup {CloseSent})
           /\ Len(outbound) \in Nat /\ Len(wire) \in Nat /\ flushed \in Nat
           /\ response \in [Senders -> Results] /\ sendPc \in [Senders -> SendPcs]
           /\ sendResult \in [Senders -> Results]
           /\ Elements(outbound) \subseteq Senders
           /\ \A i \in 1..Len(outbound) : outbound[i] \in Senders
           /\ NoCommand \notin Senders /\ CloseSent \notin Senders
<1>1. /\ outbound \in Seq(Senders) /\ wire \in Seq(Senders \cup {CloseSent}) /\ flushed \in Nat
      /\ response \in [Senders -> Results] /\ sendPc \in [Senders -> SendPcs]
      /\ sendResult \in [Senders -> Results]
  BY DEF TypeOK, OutboundTypes, SocketTypes, SendTypes
<1>2. \A i \in 1..Len(outbound) : outbound[i] \in Senders
  BY <1>1
<1>3. QED
  BY <1>1, <1>2, CallersAssumption DEF Elements

\* Taking the first command of the queue (driver.rs:585-604, 626-634).
LEMMA HeadOfQueue ==
    ASSUME TypeOK, QueueInv, outbound # << >>
    PROVE  /\ Head(outbound) \in Senders /\ Head(outbound) \in Elements(outbound)
           /\ Elements(Tail(outbound)) = Elements(outbound) \ {Head(outbound)}
           /\ \A i, j \in 1..Len(Tail(outbound)) : Tail(outbound)[i] = Tail(outbound)[j] => i = j
<1>1. outbound \in Seq(Senders) /\ Len(outbound) \in Nat /\ Len(outbound) > 0
  BY CommandFacts
<1>2. /\ Head(outbound) = outbound[1] /\ Len(Tail(outbound)) = Len(outbound) - 1
      /\ \A i \in 1..(Len(outbound) - 1) : Tail(outbound)[i] = outbound[i + 1]
  BY <1>1
<1>3. \A i, j \in 1..Len(outbound) : outbound[i] = outbound[j] => i = j
  BY DEF QueueInv
<1>4. Head(outbound) \in Senders /\ Head(outbound) \in Elements(outbound)
  BY <1>1, <1>2, CommandFacts DEF Elements
<1>5. \A i, j \in 1..Len(Tail(outbound)) : Tail(outbound)[i] = Tail(outbound)[j] => i = j
  <2>1. TAKE i, j \in 1..Len(Tail(outbound))
  <2>2. i + 1 \in 1..Len(outbound) /\ j + 1 \in 1..Len(outbound)
    BY <1>1, <1>2
  <2>3. QED
    BY <1>1, <1>2, <1>3, <2>2
<1>6. Elements(Tail(outbound)) \subseteq Elements(outbound) \ {Head(outbound)}
  <2>1. SUFFICES ASSUME NEW i \in 1..Len(Tail(outbound))
                 PROVE  Tail(outbound)[i] \in Elements(outbound) \ {Head(outbound)}
    BY DEF Elements
  <2>2. i + 1 \in 1..Len(outbound) /\ i + 1 # 1 /\ 1 \in 1..Len(outbound)
    BY <1>1, <1>2
  <2>3. Tail(outbound)[i] = outbound[i + 1] /\ outbound[i + 1] # outbound[1]
    BY <1>1, <1>2, <1>3, <2>2
  <2>4. QED
    BY <1>2, <2>2, <2>3 DEF Elements
<1>7. Elements(outbound) \ {Head(outbound)} \subseteq Elements(Tail(outbound))
  <2>1. SUFFICES ASSUME NEW i \in 1..Len(outbound), outbound[i] # Head(outbound)
                 PROVE  outbound[i] \in Elements(Tail(outbound))
    BY DEF Elements
  <2>2. i # 1 /\ i - 1 \in 1..Len(Tail(outbound)) /\ i - 1 \in 1..(Len(outbound) - 1)
    BY <1>1, <1>2, <2>1
  <2>3. Tail(outbound)[i - 1] = outbound[(i - 1) + 1] /\ (i - 1) + 1 = i
    BY <1>2, <2>2
  <2>4. QED
    BY <2>2, <2>3 DEF Elements
<1>8. QED
  BY <1>4, <1>5, <1>6, <1>7

\* Appending to a sequence without repetition (driver.rs:290-301, 626-645).
LEMMA Appended ==
    ASSUME NEW S, NEW q \in Seq(S), NEW e \in S
    PROVE  /\ Len(Append(q, e)) = Len(q) + 1 /\ Append(q, e)[Len(q) + 1] = e
           /\ \A i \in 1..Len(q) : Append(q, e)[i] = q[i]
           /\ Elements(Append(q, e)) = Elements(q) \cup {e}
           /\ (\A i, j \in 1..Len(q) : q[i] = q[j] => i = j) /\ e \notin Elements(q) =>
                 \A i, j \in 1..Len(Append(q, e)) : Append(q, e)[i] = Append(q, e)[j] => i = j
<1>1. /\ Len(q) \in Nat /\ Len(Append(q, e)) = Len(q) + 1 /\ Append(q, e)[Len(q) + 1] = e
      /\ \A i \in 1..Len(q) : Append(q, e)[i] = q[i]
  OBVIOUS
<1>2. \A i \in 1..Len(Append(q, e)) : i \in 1..Len(q) \/ i = Len(q) + 1
  BY <1>1
<1>3. \A i \in 1..Len(q) : i \in 1..Len(Append(q, e))
  BY <1>1
<1>4. Len(q) + 1 \in 1..Len(Append(q, e))
  BY <1>1
<1>5. Elements(Append(q, e)) = Elements(q) \cup {e}
  BY <1>1, <1>2, <1>3, <1>4 DEF Elements
<1>6. ASSUME \A i, j \in 1..Len(q) : q[i] = q[j] => i = j, e \notin Elements(q)
      PROVE  \A i, j \in 1..Len(Append(q, e)) : Append(q, e)[i] = Append(q, e)[j] => i = j
  BY <1>1, <1>2, <1>6 DEF Elements
<1>7. QED
  BY <1>1, <1>5, <1>6

\* Who neither takes nor finishes a command keeps both parts
\* (driver.rs:606-691).
LEMMA StillKeepsCommands ==
    ASSUME QueueInv, WireInv, OutboundStill, Forward
    PROVE  QueueInv' /\ WireInv'
<1>1. /\ UNCHANGED <<wire, flushed, outbound, response, sendPc, sendResult, writerCmd>>
      /\ ws # "Active" => ws' # "Active"
      /\ writerPc' \in InHand => writerPc' = writerPc
      /\ writerPc = "release" => writerPc' = "release"
  BY DEF OutboundStill, outboundVars
<1>2. \A e : Learned(e) => Learned(e)'
  BY DEF Forward, Learned
<1>3. /\ Elements(outbound)' = Elements(outbound) /\ Elements(wire)' = Elements(wire)
      /\ \A s : Written(s)' = Written(s) /\ (Flushed(s) <=> Flushed(s)')
  BY <1>1 DEF Elements, Written, Flushed
<1>4. Unanswered' \subseteq Unanswered
  BY <1>1, <1>3 DEF Unanswered, InHand
<1>5. QueueInv'
  <2>1. \A s \in Unanswered' : response'[s] = Pending /\ sendPc'[s] \in {"waiting", "cancelled"}
    BY <1>1, <1>4 DEF QueueInv
  <2>2. writerPc' = "release" => response'[writerCmd'] # Pending
    BY <1>1 DEF QueueInv, InHand
  <2>3. \A s \in Senders : sendPc'[s] = "done" /\ response'[s] = Dropped => Learned(sendResult[s])'
    BY <1>1, <1>2 DEF QueueInv
  <2>4. QED
    BY <1>1, <1>3, <2>1, <2>2, <2>3 DEF QueueInv
<1>6. WireInv'
  BY <1>1, <1>3 DEF WireInv, InHand
<1>7. QED
  BY <1>5, <1>6

\* A command is answered once: whoever answers it has let go of it
\* (driver.rs:626-691).
LEMMA AnswerKeepsCommands ==
    ASSUME TypeOK, QueueInv, WireInv, Forward,
           NEW c \in Unanswered \cap Senders, NEW result \in Results \ {Pending},
           Answer(c, result), result = Ok => Flushed(c),
           UNCHANGED <<wire, flushed, ws, sendPc, sendResult>>,
           Unanswered' \subseteq Unanswered \ {c},
           Elements(outbound)' \subseteq Elements(outbound),
           \A i, j \in 1..Len(outbound') : outbound'[i] = outbound'[j] => i = j,
           writerCmd' \notin Elements(outbound)',
           writerPc' \notin {"write", "command flush", "respond"},
           writerPc' = "release" => writerCmd' = c
    PROVE  QueueInv' /\ WireInv'
<1>1. response \in [Senders -> Results] /\ sendPc \in [Senders -> SendPcs]
  BY CommandFacts
<1>2. response' = [response EXCEPT ![c] = result] /\ result # Pending
  BY DEF Answer
<1>3. response[c] = Pending /\ sendPc[c] \in {"waiting", "cancelled"} /\ Unanswered \subseteq Senders
  BY CommandFacts DEF QueueInv, Unanswered, TypeOK, WriterTypes
<1>4. \A e : Learned(e) => Learned(e)'
  BY DEF Forward, Learned
<1>5. /\ Elements(wire)' = Elements(wire)
      /\ \A s : Flushed(s) <=> Flushed(s)'
  <2>1. wire' = wire /\ flushed' = flushed
    OBVIOUS
  <2>2. Elements(wire)' = Elements(wire)
    BY <2>1 DEF Elements
  <2>3. \A s : Written(s)' = Written(s)
    BY <2>1 DEF Written
  <2>4. \A s : Flushed(s) <=> Flushed(s)'
    BY <2>1, <2>3 DEF Flushed
  <2>5. QED
    BY <2>2, <2>4
<1>6. QueueInv'
  <2>1. \A s \in Unanswered' : response'[s] = Pending /\ sendPc'[s] \in {"waiting", "cancelled"}
    <3>1. TAKE s \in Unanswered'
    <3>2. s \in Unanswered /\ s \in Senders /\ s # c
      BY <1>3
    <3>3. response[s] = Pending /\ sendPc[s] \in {"waiting", "cancelled"}
      BY <3>2 DEF QueueInv
    <3>4. response'[s] = response[s]
      BY <1>1, <1>2, <3>2
    <3>5. QED
      BY <3>3, <3>4
  <2>2. writerPc' = "release" => response'[writerCmd'] # Pending
    BY <1>1, <1>2
  <2>3. \A s \in Senders :
          /\ sendPc'[s] \in {"idle", "acquire", "reserve", "admitted"} => response'[s] = Pending
          /\ sendPc'[s] = "done" /\ response'[s] = Dropped => Learned(sendResult[s])'
    BY <1>1, <1>2, <1>3, <1>4 DEF QueueInv
  <2>4. QED
    BY <2>1, <2>2, <2>3 DEF QueueInv
<1>7. WireInv'
  <2>1. \A s \in Senders : response'[s] = Ok => Flushed(s)'
    BY <1>1, <1>2, <1>5 DEF WireInv
  <2>2. \A s \in Senders \cap Elements(wire)' :
          /\ s \notin Elements(outbound)' /\ (s = writerCmd' => writerPc' # "write")
          /\ sendPc'[s] \in {"waiting", "cancelled", "done"}
          /\ sendPc'[s] = "done" => response'[s] # Pending
    BY <1>1, <1>2, <1>5 DEF WireInv
  <2>3. QED
    BY <2>1, <2>2 DEF WireInv
<1>8. QED
  BY <1>6, <1>7

\* Taking, writing, flushing and letting go of a command (driver.rs:585-645).
LEMMA WriterStepsKeepCommands ==
    ASSUME TypeOK, QueueInv, WireInv, Forward,
           TakeCommand \/ WriteCommand \/ WriteClose \/ Flush \/ ReleasePermit
    PROVE  QueueInv' /\ WireInv'
<1>1. /\ outbound \in Seq(Senders) /\ wire \in Seq(Senders \cup {CloseSent})
      /\ Len(wire) \in Nat /\ flushed \in Nat
      /\ NoCommand \notin Senders /\ CloseSent \notin Senders
      /\ Elements(outbound) \subseteq Senders
  BY CommandFacts
<1>2. UNCHANGED <<response, sendPc, sendResult>>
  BY DEF TakeCommand, WriteCommand, WriteClose, Flush, ReleasePermit, outboundVars,
         writerOthers, sendVars
<1>3. \A e : Learned(e) => Learned(e)'
  BY DEF Forward, Learned
<1>4. \A s \in Senders :
        /\ sendPc'[s] \in {"idle", "acquire", "reserve", "admitted"} => response'[s] = Pending
        /\ sendPc'[s] = "done" /\ response'[s] = Dropped => Learned(sendResult[s])'
  BY <1>2, <1>3 DEF QueueInv
<1>5. Len(wire) \in Nat /\ flushed \in Nat /\ flushed <= Len(wire)
  BY CommandFacts DEF WireInv
<1>6. CASE TakeCommand
  <2>1. /\ outbound # << >> /\ writerCmd' = Head(outbound) /\ outbound' = Tail(outbound)
        /\ writerPc = "events" /\ writerPc' = "write" /\ UNCHANGED <<ws, wire, flushed>>
    BY <1>6 DEF TakeCommand, socketVars
  <2>2. /\ Head(outbound) \in Senders /\ Head(outbound) \in Elements(outbound)
        /\ Elements(outbound') = Elements(outbound) \ {Head(outbound)}
        /\ \A i, j \in 1..Len(outbound') : outbound'[i] = outbound'[j] => i = j
    BY <2>1, HeadOfQueue
  <2>3. Elements(outbound)' = Elements(outbound') /\ Elements(wire)' = Elements(wire)
    BY <2>1 DEF Elements
  <2>4. Unanswered' = Elements(outbound) /\ Elements(outbound) \subseteq Unanswered
    BY <1>1, <2>1, <2>2, <2>3 DEF Unanswered
  <2>5. QueueInv'
    BY <1>2, <1>4, <2>1, <2>2, <2>3, <2>4 DEF QueueInv
  <2>6. \A s : Flushed(s) <=> Flushed(s)'
    BY <2>1 DEF Flushed, Written
  <2>7. Head(outbound) \notin Elements(wire)
    BY <2>2 DEF WireInv
  <2>8. WireInv'
    BY <1>2, <2>1, <2>2, <2>3, <2>6, <2>7 DEF WireInv
  <2>9. QED
    BY <2>5, <2>8
<1>7. CASE WriteCommand
  <2>1. /\ writerPc = "write" /\ writerPc' = "command flush" /\ ws = "Active"
        /\ wire' = Append(wire, writerCmd) /\ UNCHANGED <<ws, flushed, writerCmd, outbound>>
    BY <1>7 DEF WriteCommand, outboundVars
  <2>2. writerCmd \in Senders /\ writerCmd \in Senders \cup {CloseSent}
    BY <2>1 DEF TypeOK, WriterTypes
  <2>3. writerCmd \notin Elements(wire) /\ CloseSent \notin Elements(wire)
    BY <2>1, <2>2 DEF WireInv, Elements
  <2>4. /\ Len(wire') = Len(wire) + 1 /\ wire'[Len(wire) + 1] = writerCmd
        /\ \A i \in 1..Len(wire) : wire'[i] = wire[i]
        /\ Elements(wire') = Elements(wire) \cup {writerCmd}
        /\ \A i, j \in 1..Len(wire') : wire'[i] = wire'[j] => i = j
    <3>1. \A i, j \in 1..Len(wire) : wire[i] = wire[j] => i = j
      BY DEF WireInv
    <3>2. wire \in Seq(Senders \cup {CloseSent})
      BY <1>1
    <3> DEFINE w == Append(wire, writerCmd)
    <3>3. /\ Len(w) = Len(wire) + 1 /\ w[Len(wire) + 1] = writerCmd
          /\ \A i \in 1..Len(wire) : w[i] = wire[i]
          /\ Elements(w) = Elements(wire) \cup {writerCmd}
          /\ \A i, j \in 1..Len(w) : w[i] = w[j] => i = j
      BY <2>2, <2>3, <3>1, <3>2, Appended
    <3>4. w = wire'
      BY <2>1
    <3> HIDE DEF w
    <3>5. QED
      BY <3>3, <3>4
  <2>5. Elements(wire)' = Elements(wire') /\ Elements(outbound)' = Elements(outbound)
    BY <2>1 DEF Elements
  <2>6. Unanswered' = Unanswered /\ writerCmd \in Unanswered
    BY <1>1, <2>1, <2>2, <2>5 DEF Unanswered
  <2>7. QueueInv'
    BY <1>2, <1>4, <2>1, <2>5, <2>6 DEF QueueInv
  <2>8. \A s : Flushed(s) => Flushed(s)'
    <3>1. \A i \in 1..Len(wire) : i \in 1..Len(wire') /\ wire'[i] = wire[i]
      BY <1>5, <2>4
    <3>2. UNCHANGED flushed
      BY <2>1
    <3>3. QED
      BY <3>1, <3>2 DEF Flushed, Written
  <2>9. \A i \in 1..Len(wire') : wire'[i] # CloseSent
    BY <1>1, <2>2, <2>3, <2>4, <2>5 DEF Elements
  <2>10. /\ sendPc[writerCmd] \in {"waiting", "cancelled"} /\ writerCmd \notin Elements(outbound)
    BY <2>6 DEF QueueInv
  <2>11. flushed' <= Len(wire')
    <3>1. flushed' = flushed /\ Len(wire') = Len(wire) + 1
      BY <2>1, <2>4
    <3>2. QED
      BY <1>5, <3>1
  <2>12. WireInv'
    BY <1>2, <2>1, <2>2, <2>4, <2>5, <2>8, <2>9, <2>10, <2>11 DEF WireInv
  <2>13. QED
    BY <2>7, <2>12
<1>8. CASE WriteClose
  <2>1. /\ writerPc = "send close" /\ writerPc' = "send close flush"
        /\ ws = "Active" /\ ws' = "ClosedByUs"
        /\ wire' = Append(wire, CloseSent) /\ UNCHANGED <<flushed, writerCmd, outbound>>
    BY <1>8 DEF WriteClose, outboundVars
  <2>2. CloseSent \notin Elements(wire) /\ CloseSent \in Senders \cup {CloseSent}
    BY <2>1 DEF WireInv, Elements
  <2>3. /\ Len(wire') = Len(wire) + 1 /\ wire'[Len(wire) + 1] = CloseSent
        /\ \A i \in 1..Len(wire) : wire'[i] = wire[i]
        /\ Elements(wire') = Elements(wire) \cup {CloseSent}
        /\ \A i, j \in 1..Len(wire') : wire'[i] = wire'[j] => i = j
    <3>1. \A i, j \in 1..Len(wire) : wire[i] = wire[j] => i = j
      BY DEF WireInv
    <3>2. wire \in Seq(Senders \cup {CloseSent})
      BY <1>1
    <3> DEFINE w == Append(wire, CloseSent)
    <3>3. /\ Len(w) = Len(wire) + 1 /\ w[Len(wire) + 1] = CloseSent
          /\ \A i \in 1..Len(wire) : w[i] = wire[i]
          /\ Elements(w) = Elements(wire) \cup {CloseSent}
          /\ \A i, j \in 1..Len(w) : w[i] = w[j] => i = j
      BY <2>2, <3>1, <3>2, Appended
    <3>4. w = wire'
      BY <2>1
    <3> HIDE DEF w
    <3>5. QED
      BY <3>3, <3>4
  <2>4. /\ Elements(wire)' = Elements(wire') /\ Elements(outbound)' = Elements(outbound)
        /\ Senders \cap Elements(wire)' = Senders \cap Elements(wire)
    <3>1. Elements(wire)' = Elements(wire')
      BY DEF Elements
    <3>2. Elements(outbound)' = Elements(outbound)
      BY <2>1 DEF Elements
    <3>3. QED
      BY <1>1, <2>3, <3>1, <3>2
  <2>5. Unanswered' = Unanswered
    BY <2>1, <2>4 DEF Unanswered
  <2>6. QueueInv'
    BY <1>2, <1>4, <2>1, <2>4, <2>5 DEF QueueInv
  <2>7. \A s : Flushed(s) => Flushed(s)'
    <3>1. \A i \in 1..Len(wire) : i \in 1..Len(wire') /\ wire'[i] = wire[i]
      BY <1>5, <2>3
    <3>2. UNCHANGED flushed
      BY <2>1
    <3>3. QED
      BY <3>1, <3>2 DEF Flushed, Written
  <2>8. \A i \in 1..Len(wire') : wire'[i] = CloseSent => i = Len(wire')
    BY <1>1, <2>2, <2>3 DEF Elements
  <2>9. flushed' <= Len(wire')
    <3>1. flushed' = flushed /\ Len(wire') = Len(wire) + 1
      BY <2>1, <2>3
    <3>2. QED
      BY <1>5, <3>1
  <2>10. WireInv'
    BY <1>2, <2>1, <2>3, <2>4, <2>7, <2>8, <2>9 DEF WireInv
  <2>11. QED
    BY <2>6, <2>10
<1>9. CASE Flush
  <2>1. /\ flushed' = Len(wire) /\ UNCHANGED <<ws, wire, writerCmd, outbound>>
        /\ writerPc \in {"flush", "command flush", "send close flush", "close flush"}
        /\ writerPc' \in {"select", "respond", "await peer", "close done"}
        /\ writerPc' = "respond" => writerPc = "command flush"
    BY <1>9 DEF Flush, outboundVars
  <2>2. Elements(wire)' = Elements(wire) /\ Elements(outbound)' = Elements(outbound)
    BY <2>1 DEF Elements
  <2>3. Unanswered' = Unanswered
    BY <2>1, <2>2 DEF Unanswered
  <2>4. QueueInv'
    BY <1>2, <1>4, <2>1, <2>2, <2>3 DEF QueueInv
  <2>5. \A s : s \in Elements(wire) => Flushed(s)'
    <3>1. \A i \in 1..Len(wire) : i <= flushed'
      <4>1. flushed' = Len(wire)
        BY <2>1
      <4>2. QED
        BY <1>5, <4>1
    <3>2. UNCHANGED wire
      BY <2>1
    <3>3. QED
      BY <3>1, <3>2 DEF Flushed, Written, Elements
  <2>6. \A s : Flushed(s) => Flushed(s)'
    BY <2>5 DEF Flushed, Written, Elements
  <2>7. flushed' <= Len(wire')
    <3>1. flushed' = Len(wire) /\ wire' = wire
      BY <2>1
    <3>2. QED
      BY <1>5, <3>1
  <2>8. WireInv'
    BY <1>2, <2>1, <2>2, <2>5, <2>6, <2>7 DEF WireInv
  <2>9. QED
    BY <2>4, <2>8
<1>10. CASE ReleasePermit
  <2>1. /\ writerPc = "release" /\ writerPc' = "select" /\ writerCmd' = NoCommand
        /\ UNCHANGED <<ws, wire, flushed, outbound>>
    BY <1>10 DEF ReleasePermit, socketVars
  <2>2. Elements(wire)' = Elements(wire) /\ Elements(outbound)' = Elements(outbound)
    BY <2>1 DEF Elements
  <2>3. Unanswered' = Unanswered /\ NoCommand \notin Elements(outbound)
    BY <1>1, <2>1, <2>2 DEF Unanswered
  <2>4. QueueInv'
    BY <1>2, <1>4, <2>1, <2>2, <2>3 DEF QueueInv
  <2>5. \A s : Flushed(s) <=> Flushed(s)'
    BY <2>1 DEF Flushed, Written
  <2>6. WireInv'
    BY <1>1, <1>2, <2>1, <2>2, <2>5 DEF WireInv
  <2>7. QED
    BY <2>4, <2>6
<1>11. QED
  BY <1>6, <1>7, <1>8, <1>9, <1>10

\* The four steps that answer a command (driver.rs:626-691).
LEMMA AnswersKeepCommands ==
    ASSUME TypeOK, QueueInv, WireInv, Forward,
           Respond \/ RespondFailure \/ WriterCancelled \/ DrainCommand
    PROVE  QueueInv' /\ WireInv'
<1>1. /\ UNCHANGED <<wire, flushed, ws, sendPc, sendResult>>
  BY DEF Respond, RespondFailure, WriterCancelled, DrainCommand, writerOthers, socketVars,
         sendVars
<1>2. /\ NoCommand \notin Senders /\ Elements(outbound) \subseteq Senders
      /\ writerCmd \in Senders \cup {NoCommand} /\ writerCmd \notin Elements(outbound)
      /\ \A i, j \in 1..Len(outbound) : outbound[i] = outbound[j] => i = j
  BY CommandFacts DEF TypeOK, WriterTypes, QueueInv
<1>3. /\ Ok \in Results \ {Pending} /\ Dropped \in Results \ {Pending} /\ Dropped # Ok
      /\ DriverErrors \subseteq Results \ {Pending, Ok}
  <2>1. Pending # Ok /\ Pending # Dropped /\ Dropped # Ok
    BY DEF Pending, Ok, Dropped
  <2>2. Pending \notin DriverErrors /\ Ok \notin DriverErrors
    BY DEF DriverErrors, Pending, Ok
  <2>3. QED
    BY <2>1, <2>2 DEF Results
<1>4. CASE Respond
  <2>1. /\ writerPc = "respond" /\ writerPc' = "release" /\ Answer(writerCmd, Ok)
        /\ UNCHANGED <<writerCmd, outbound>>
    BY <1>4 DEF Respond
  <2>2. writerCmd \in Senders /\ Flushed(writerCmd)
    BY <2>1 DEF TypeOK, WriterTypes, WireInv
  <2>3. Elements(outbound)' = Elements(outbound)
    BY <2>1 DEF Elements
  <2>4. writerCmd \in Unanswered /\ Unanswered' = Elements(outbound)
    BY <1>2, <2>1, <2>2, <2>3 DEF Unanswered
  <2>5. Unanswered' \subseteq Unanswered \ {writerCmd}
    BY <1>2, <2>4 DEF Unanswered
  <2>6. QED
    BY <1>1, <1>2, <1>3, <2>1, <2>2, <2>3, <2>4, <2>5, AnswerKeepsCommands
<1>5. CASE RespondFailure
  <2>1. /\ writerPc = "fail respond" /\ writerPc' = "stop" /\ Answer(writerCmd, writerError)
        /\ writerCmd' = NoCommand /\ UNCHANGED outbound
    BY <1>5 DEF RespondFailure
  <2>2. writerCmd \in Senders /\ writerError \in DriverErrors
    BY <2>1 DEF TypeOK, WriterTypes
  <2>3. Elements(outbound)' = Elements(outbound)
    BY <2>1 DEF Elements
  <2>4. writerCmd \in Unanswered /\ Unanswered' = Elements(outbound)
    BY <1>2, <2>1, <2>2, <2>3 DEF Unanswered
  <2>5. Unanswered' \subseteq Unanswered \ {writerCmd}
    BY <1>2, <2>4 DEF Unanswered
  <2>6. QED
    BY <1>1, <1>2, <1>3, <2>1, <2>2, <2>3, <2>4, <2>5, AnswerKeepsCommands
<1>6. CASE WriterCancelled /\ writerCmd = NoCommand
  <2>1. OutboundStill
    BY <1>1, <1>6 DEF WriterCancelled, OutboundStill, outboundVars, InHand
  <2>2. QED
    BY <2>1, StillKeepsCommands
<1>7. CASE WriterCancelled /\ writerCmd # NoCommand
  <2>1. /\ writerPc # "release" /\ writerPc' = "stop" /\ Answer(writerCmd, Dropped)
        /\ writerCmd' = NoCommand /\ UNCHANGED outbound
    BY <1>7 DEF WriterCancelled
  <2>2. writerCmd \in Senders
    BY <1>2, <1>7
  <2>3. Elements(outbound)' = Elements(outbound)
    BY <2>1 DEF Elements
  <2>4. writerCmd \in Unanswered /\ Unanswered' = Elements(outbound)
    BY <1>2, <2>1, <2>2, <2>3 DEF Unanswered
  <2>5. Unanswered' \subseteq Unanswered \ {writerCmd}
    BY <1>2, <2>4 DEF Unanswered
  <2>6. QED
    BY <1>1, <1>2, <1>3, <2>1, <2>2, <2>3, <2>4, <2>5, AnswerKeepsCommands
<1>8. CASE DrainCommand
  <2> DEFINE c == Head(outbound)
  <2>1. /\ writerPc = "draining" /\ outbound # << >> /\ Answer(c, Dropped)
        /\ outbound' = Tail(outbound) /\ UNCHANGED <<writerPc, writerCmd>>
    BY <1>8 DEF DrainCommand
  <2>2. /\ c \in Senders /\ c \in Elements(outbound)
        /\ Elements(outbound)' = Elements(outbound) \ {c}
        /\ \A i, j \in 1..Len(outbound') : outbound'[i] = outbound'[j] => i = j
    <3>1. Elements(outbound)' = Elements(Tail(outbound))
      BY <2>1 DEF Elements
    <3>2. QED
      BY <2>1, <3>1, HeadOfQueue
  <2>3. c \in Unanswered /\ Unanswered' = Unanswered \ {c}
    BY <1>2, <2>1, <2>2 DEF Unanswered
  <2> HIDE DEF c
  <2>4. QED
    BY <1>1, <1>2, <1>3, <2>1, <2>2, <2>3, AnswerKeepsCommands
<1>9. QED
  BY <1>4, <1>5, <1>6, <1>7, <1>8

\* So every step of the writer keeps both parts (driver.rs:575-716).
LEMMA WriterKeepsCommands ==
    ASSUME TypeOK, QueueInv, WireInv, Forward, WriterNext
    PROVE  QueueInv' /\ WireInv'
BY WriterMoves, StillKeepsCommands, WriterStepsKeepCommands, AnswersKeepCommands

\* A send pushes its command once, and leaves with an answer or before it was
\* queued (driver.rs:246-312).
LEMMA SenderKeepsCommands ==
    ASSUME NEW s \in Senders, TypeOK, OutcomeInv, QueueInv, WireInv, SenderNext(s)
    PROVE  QueueInv' /\ WireInv'
<1>1. /\ outbound \in Seq(Senders) /\ sendPc \in [Senders -> SendPcs]
      /\ sendResult \in [Senders -> Results]
  BY CommandFacts
<1>2. UNCHANGED <<state, wire, flushed, ws, response, writerPc, writerCmd>>
  BY DEF SenderNext, SendStep, SendValidate, SendAcquire, SendReserve, SendPush, SendReturns,
         SendCancelled, sendOthers, outboundVars, socketVars, writerVars
<1>3. /\ \A e : Learned(e)' <=> Learned(e)
      /\ \A t : Flushed(t)' <=> Flushed(t)
      /\ Elements(wire)' = Elements(wire)
  BY <1>2 DEF Learned, Flushed, Written, Elements
<1>4. NoCommand \notin Senders /\ writerCmd \in Senders \cup {NoCommand}
  BY CommandFacts DEF TypeOK, WriterTypes
<1>5. CASE SendPush(s)
  <2>1. /\ sendPc[s] = "admitted" /\ sendPc' = [sendPc EXCEPT ![s] = "waiting"]
        /\ outbound' = Append(outbound, s) /\ UNCHANGED sendResult
    BY <1>5 DEF SendPush, At
  <2>2. response[s] = Pending
    BY <2>1 DEF QueueInv
  <2>3. s \notin Elements(outbound)
    BY <2>1 DEF QueueInv, Unanswered
  <2>4. s # writerCmd
    BY <1>4, <2>1, <2>2 DEF QueueInv, Unanswered
  <2>5. /\ \A i, j \in 1..Len(outbound') : outbound'[i] = outbound'[j] => i = j
        /\ Elements(outbound)' = Elements(outbound) \cup {s}
    <3> DEFINE q == Append(outbound, s)
    <3>1. \A i, j \in 1..Len(outbound) : outbound[i] = outbound[j] => i = j
      BY DEF QueueInv
    <3>2. /\ Elements(q) = Elements(outbound) \cup {s}
          /\ \A i, j \in 1..Len(q) : q[i] = q[j] => i = j
      BY <1>1, <2>3, <3>1, Appended
    <3>3. q = outbound'
      BY <2>1
    <3> HIDE DEF q
    <3>4. Elements(outbound)' = Elements(q)
      BY <3>3 DEF Elements
    <3>5. QED
      BY <3>2, <3>3, <3>4
  <2>6. Unanswered' = Unanswered \cup {s}
    BY <1>2, <2>5 DEF Unanswered
  <2>7. \A t \in Unanswered' : response'[t] = Pending /\ sendPc'[t] \in {"waiting", "cancelled"}
    <3>1. TAKE t \in Unanswered'
    <3>2. CASE t = s
      BY <1>1, <1>2, <2>1, <2>2, <3>2
    <3>3. CASE t # s
      <4>1. t \in Unanswered
        BY <2>6, <3>3
      <4>2. sendPc'[t] = sendPc[t]
        BY <1>1, <2>1, <3>3
      <4>3. QED
        BY <1>2, <4>1, <4>2 DEF QueueInv
    <3>4. QED
      BY <3>2, <3>3
  <2>8. \A t \in Senders :
          /\ sendPc'[t] \in {"idle", "acquire", "reserve", "admitted"} => response'[t] = Pending
          /\ sendPc'[t] = "done" /\ response'[t] = Dropped => Learned(sendResult[t])'
    BY <1>1, <1>2, <1>3, <2>1 DEF QueueInv
  <2>9. writerCmd' \notin Elements(outbound)'
    BY <1>2, <2>4, <2>5 DEF QueueInv
  <2>10. QueueInv'
    BY <1>2, <2>5, <2>7, <2>8, <2>9 DEF QueueInv
  <2>11. s \notin Elements(wire)
    BY <2>1 DEF WireInv
  <2>12. \A t \in Senders \cap Elements(wire)' :
           /\ t \notin Elements(outbound)' /\ (t = writerCmd' => writerPc' # "write")
           /\ sendPc'[t] \in {"waiting", "cancelled", "done"}
           /\ sendPc'[t] = "done" => response'[t] # Pending
    BY <1>1, <1>2, <1>3, <2>1, <2>5, <2>11 DEF WireInv
  <2>13. WireInv'
    BY <1>2, <1>3, <2>12 DEF WireInv
  <2>14. QED
    BY <2>10, <2>13
<1>6. CASE ~SendPush(s)
  <2>1. /\ UNCHANGED outbound
        /\ \A t \in Senders : t # s => sendPc'[t] = sendPc[t] /\ sendResult'[t] = sendResult[t]
    BY <1>1, <1>6 DEF SenderNext, SendStep, SendValidate, SendAcquire, SendReserve, SendReturns,
                      SendCancelled, Finish, At, outboundVars
  <2>2. Elements(outbound)' = Elements(outbound) /\ Unanswered' = Unanswered
    BY <1>2, <2>1 DEF Elements, Unanswered
  <2>3. \/ /\ sendPc[s] \in {"idle", "acquire", "reserve"}
           /\ sendPc'[s] \in {"acquire", "reserve", "admitted", "done"}
        \/ /\ sendPc[s] = "waiting" /\ sendPc'[s] = "done" /\ response[s] # Pending
           /\ response[s] = Dropped => sendResult'[s] = terminal_error(state)
        \/ sendPc[s] = "waiting" /\ sendPc'[s] = "cancelled"
    BY <1>1, <1>6 DEF SenderNext, SendStep, SendValidate, SendAcquire, SendReserve, SendReturns,
                      SendCancelled, Finish, At
  <2>4. \A t \in Unanswered' : response'[t] = Pending /\ sendPc'[t] \in {"waiting", "cancelled"}
    <3>1. TAKE t \in Unanswered'
    <3>2. response[t] = Pending /\ sendPc[t] \in {"waiting", "cancelled"} /\ t \in Senders
      BY <1>4, <2>2, CommandFacts DEF QueueInv, Unanswered
    <3>3. CASE t = s
      BY <1>2, <2>3, <3>2, <3>3
    <3>4. CASE t # s
      BY <1>2, <2>1, <3>2, <3>4
    <3>5. QED
      BY <3>3, <3>4
  <2>5. sendPc[s] = "waiting" /\ sendPc'[s] = "done" /\ response[s] = Dropped
           => Learned(sendResult'[s])
    BY <2>3 DEF OutcomeInv, ResponseInv, Learned, terminal_error, is_terminal
  <2>6. sendPc[s] \in {"idle", "acquire", "reserve"} => response[s] = Pending
    BY DEF QueueInv
  <2>7. Pending # Dropped
    BY DEF Pending, Dropped
  <2>8. \A t \in Senders :
          /\ sendPc'[t] \in {"idle", "acquire", "reserve", "admitted"} => response'[t] = Pending
          /\ sendPc'[t] = "done" /\ response'[t] = Dropped => Learned(sendResult[t])'
    <3>1. TAKE t \in Senders
    <3>2. Learned(sendResult[t])' <=> Learned(sendResult'[t])
      BY <1>2 DEF Learned
    <3>3. CASE t = s
      BY <1>2, <2>3, <2>5, <2>6, <2>7, <3>2, <3>3
    <3>4. CASE t # s
      BY <1>2, <1>3, <2>1, <3>2, <3>4 DEF QueueInv
    <3>5. QED
      BY <3>3, <3>4
  <2>9. QueueInv'
    BY <1>2, <2>1, <2>2, <2>4, <2>8 DEF QueueInv
  <2>10. \A t \in Senders \cap Elements(wire)' :
           /\ t \notin Elements(outbound)' /\ (t = writerCmd' => writerPc' # "write")
           /\ sendPc'[t] \in {"waiting", "cancelled", "done"}
           /\ sendPc'[t] = "done" => response'[t] # Pending
    <3>1. TAKE t \in Senders \cap Elements(wire)'
    <3>2. /\ t \notin Elements(outbound) /\ (t = writerCmd => writerPc # "write")
          /\ sendPc[t] \in {"waiting", "cancelled", "done"}
          /\ sendPc[t] = "done" => response[t] # Pending
      BY <1>3 DEF WireInv
    <3>3. CASE t = s
      BY <1>2, <2>2, <2>3, <3>2, <3>3
    <3>4. CASE t # s
      BY <1>2, <2>1, <2>2, <3>2, <3>4
    <3>5. QED
      BY <3>3, <3>4
  <2>11. WireInv'
    BY <1>2, <1>3, <2>10 DEF WireInv
  <2>12. QED
    BY <2>9, <2>11
<1>7. QED
  BY <1>5, <1>6

-----------------------------------------------------------------------------
(* HandInv and NoSendForgotten                                             *)

\* Only the writer takes or drops a command (driver.rs:606-691).
LEMMA OnlyWriterMovesHand ==
    ASSUME [Next]_vars
    PROVE  WriterNext \/ UNCHANGED <<writerPc, writerCmd>>
<1>1. ReaderNext => UNCHANGED <<writerPc, writerCmd>>
  BY DEF ReaderNext, ReaderInput, ReaderStep, ReaderCheck, ReaderSeesSignal, ReadData,
         ReadPing, ReadEnd, ReadError, ReadClose, QueueCheck, AcquireInbound, Enqueue,
         AbandonMessage, EnqueueFails, LoadClosing, StoreClosing, PublishPeerClosed,
         SignalPeerClose, ReaderSeesTerminal, ReaderTimesOut, ReaderPublishes,
         ReaderSignalsAbort, ReaderAbortsWriter, ReaderCancelled, ReaderDropsContext,
         ReaderStops, readerOthers, writerVars
<1>2. WatchdogStep => UNCHANGED <<writerPc, writerCmd>>
  BY DEF WatchdogStep, WatchdogSeesTerminal, WatchdogExpires, WatchdogPublishes,
         WatchdogAbortsReader, WatchdogAbortsWriter, WatchdogStops, watchdogOthers,
         closeOthers, writerVars
<1>3. AbandonNext => UNCHANGED <<writerPc, writerCmd>>
  BY DEF AbandonNext, AbandonRest, AbandonStores, AbandonPublishes, AbandonSignals,
         AbandonAbortsReader, AbandonAbortsWriter, DropDriver, DropInbound, AbandonStep,
         abandonOthers, closeOthers, recvOthers, writerVars
<1>4. \A c \in Closers : CloserNext(c) => UNCHANGED <<writerPc, writerCmd>>
  BY DEF CloserNext, CloseStep, CloseStart, CloseTakesGuard, CloseSwap, ClosePublish,
         CloseSignal, CloseArm, CloseDropsGuard, CloseSeesTerminal, CloseReturns,
         CloseCancelled, closeOthers, writerVars
<1>5. \A s \in Senders : SenderNext(s) => UNCHANGED <<writerPc, writerCmd>>
  BY DEF SenderNext, SendStep, SendValidate, SendAcquire, SendReserve, SendPush, SendReturns,
         SendCancelled, sendOthers, writerVars
<1>6. \A r \in Receivers : ReceiverNext(r) => UNCHANGED <<writerPc, writerCmd>>
  BY DEF ReceiverNext, ReceiveStep, ReceiveClaim, ReceiveMessage, ReceiveEnd,
         ReceiveCancelled, ReceiveUnclaims, recvOthers, writerVars
<1>7. UNCHANGED vars => UNCHANGED <<writerPc, writerCmd>>
  BY DEF vars, writerVars
<1>8. QED
  BY <1>1, <1>2, <1>3, <1>4, <1>5, <1>6, <1>7 DEF Next

\* The writer is without a command wherever it waits for the next event or ends
\* (driver.rs:606-691).
LEMMA WriterKeepsHand ==
    ASSUME TypeOK, HandInv, WriterNext
    PROVE  HandInv'
<1>1. CASE ReleasePermit \/ RespondFailure \/ WriterCancelled
  BY <1>1 DEF HandInv, ReleasePermit, RespondFailure, WriterCancelled
<1>2. CASE TakeCommand \/ WriteCommand \/ PublishFailure \/ Respond
  BY <1>2 DEF HandInv, Carrying, TakeCommand, WriteCommand, PublishFailure, Respond
<1>3. CASE Flush
  BY <1>3 DEF HandInv, Carrying, Flush
<1>4. CASE WriterSignalsAbort
  BY <1>4 DEF HandInv, Carrying, WriterSignalsAbort
<1>5. CASE WriteRefused \/ WriteFails
  BY <1>5 DEF HandInv, Carrying, WriteRefused, WriteFails
<1>6. CASE \/ WriterSeesSignal \/ WriterPollsEvents \/ WriterFindsNothing \/ TakeFlush
           \/ TakeControlClosed \/ TakeOutboundClosed \/ WriteClose \/ AwaitPeer
           \/ PublishOutcome
           \/ WriterClosesQueue \/ DrainCommand \/ WriterDropsQueue \/ WriterStops
  <2>1. UNCHANGED writerCmd /\ writerPc \notin Carrying
    BY <1>6
       DEF Carrying, WriterSeesSignal, WriterPollsEvents, WriterFindsNothing, TakeFlush,
           TakeControlClosed, TakeOutboundClosed, WriteClose, AwaitPeer, PublishOutcome,
           WriterClosesQueue,
           DrainCommand, WriterDropsQueue, WriterStops
  <2>2. QED
    BY <2>1 DEF HandInv
<1>7. QED
  BY <1>1, <1>2, <1>3, <1>4, <1>5, <1>6 DEF WriterNext, WriterIO, WriterStep

\* So the hand is empty where it must be after every step (driver.rs:606-691).
LEMMA NextKeepsHand ==
    ASSUME TypeOK, HandInv, [Next]_vars
    PROVE  HandInv'
<1>1. CASE WriterNext
  BY <1>1, WriterKeepsHand
<1>2. CASE UNCHANGED <<writerPc, writerCmd>>
  BY <1>2 DEF HandInv
<1>3. QED
  BY <1>1, <1>2, OnlyWriterMovesHand

\* Who neither takes nor finishes a command forgets none (driver.rs:606-691).
LEMMA StillForgetsNobody ==
    ASSUME NoSendForgotten, OutboundStill
    PROVE  NoSendForgotten'
<1>1. /\ UNCHANGED <<outbound, response, sendPc, writerCmd>>
      /\ writerPc' = "release" <=> writerPc = "release"
  BY DEF OutboundStill, outboundVars, InHand
<1>2. Unanswered' = Unanswered
  BY <1>1 DEF Unanswered, Elements
<1>3. QED
  BY <1>1, <1>2 DEF NoSendForgotten

\* A command leaves the queue for the writer's hand, and the hand when it is
\* answered: by a result, by the outcome, or by the drop of its oneshot
\* (driver.rs:580-691).
LEMMA WriterForgetsNobody ==
    ASSUME TypeOK, Forward, QueueInv, HandInv, NoSendForgotten, WriterNext
    PROVE  NoSendForgotten'
<1>1. /\ NoCommand \notin Senders /\ response \in [Senders -> Results]
      /\ writerCmd \in Senders \cup {NoCommand}
  BY CommandFacts DEF TypeOK, WriterTypes
<1>2. UNCHANGED sendPc
  BY DEF WriterNext, WriterIO, WriterStep, WriterSeesSignal, WriterPollsEvents,
         WriterFindsNothing, TakeFlush, TakeControlClosed, TakeCommand, TakeOutboundClosed,
         WriteCommand, WriteClose,
         WriteRefused, Flush, WriteFails, Respond, ReleasePermit, AwaitPeer, PublishOutcome,
         PublishFailure, WriterSignalsAbort, RespondFailure, WriterCancelled,
         WriterClosesQueue, DrainCommand, WriterDropsQueue, WriterStops, writerOthers, sendVars
<1>3. ASSUME UNCHANGED response, Unanswered \subseteq Unanswered'
      PROVE  NoSendForgotten'
  BY <1>2, <1>3 DEF NoSendForgotten
<1>4. ASSUME NEW c \in Senders, NEW result \in Results \ {Pending}, Answer(c, result),
             Unanswered \ {c} \subseteq Unanswered'
      PROVE  NoSendForgotten'
  <2>1. response'[c] # Pending /\ \A s \in Senders : s # c => response'[s] = response[s]
    BY <1>1, <1>4 DEF Answer
  <2>2. QED
    BY <1>2, <1>4, <2>1 DEF NoSendForgotten
<1>5. CASE TakeCommand
  <2>1. /\ writerPc = "events" /\ writerPc' = "write" /\ outbound # << >>
        /\ writerCmd' = Head(outbound) /\ outbound' = Tail(outbound) /\ UNCHANGED response
    BY <1>5 DEF TakeCommand
  <2>2. /\ Head(outbound) \in Senders
        /\ Elements(outbound') = Elements(outbound) \ {Head(outbound)}
    BY <2>1, HeadOfQueue
  <2>3. Elements(outbound)' = Elements(outbound')
    BY DEF Elements
  <2>4. Unanswered = Elements(outbound)
    BY <2>1 DEF Unanswered, HandInv, Carrying
  <2>5. Unanswered \subseteq Unanswered'
    BY <1>1, <2>1, <2>2, <2>3, <2>4 DEF Unanswered
  <2>6. QED
    BY <1>3, <2>1, <2>5
<1>6. CASE WriteCommand \/ WriteClose \/ Flush
  <2>1. UNCHANGED <<response, outbound, writerCmd>> /\ writerPc' # "release"
    BY <1>6 DEF WriteCommand, WriteClose, Flush, outboundVars
  <2>2. Unanswered \subseteq Unanswered'
    BY <2>1 DEF Unanswered, Elements
  <2>3. QED
    BY <1>3, <2>1, <2>2
<1>7. CASE ReleasePermit
  <2>1. UNCHANGED <<response, outbound>> /\ writerPc = "release"
    BY <1>7 DEF ReleasePermit
  <2>2. Unanswered \subseteq Unanswered'
    BY <2>1 DEF Unanswered, Elements
  <2>3. QED
    BY <1>3, <2>1, <2>2
<1>8. CASE Respond \/ RespondFailure \/ (WriterCancelled /\ writerCmd # NoCommand)
  <2>1. /\ writerCmd \in Senders /\ UNCHANGED outbound
        /\ RespondFailure => Answer(writerCmd, writerError) /\ writerError \in DriverErrors
        /\ ~RespondFailure => \E result \in {Ok, Dropped} : Answer(writerCmd, result)
    BY <1>1, <1>8
       DEF Respond, RespondFailure, WriterCancelled, TypeOK, WriterTypes
  <2>2. Ok \in Results \ {Pending} /\ Dropped \in Results \ {Pending}
    BY DEF Results, Ok, Dropped, Pending
  <2>3. DriverErrors \subseteq Results \ {Pending}
    <3>1. Pending \notin DriverErrors
      BY DEF DriverErrors, Pending
    <3>2. QED
      BY <3>1 DEF Results
  <2>4. \E result \in Results \ {Pending} : Answer(writerCmd, result)
    BY <2>1, <2>2, <2>3
  <2>5. Unanswered \ {writerCmd} \subseteq Unanswered'
    BY <2>1 DEF Unanswered, Elements
  <2>6. QED
    BY <1>4, <2>1, <2>4, <2>5
<1>9. CASE WriterCancelled /\ writerCmd = NoCommand
  <2>1. UNCHANGED <<response, outbound, writerCmd>> /\ writerPc' # "release"
    BY <1>9 DEF WriterCancelled
  <2>2. Unanswered \subseteq Unanswered'
    BY <2>1 DEF Unanswered, Elements
  <2>3. QED
    BY <1>3, <2>1, <2>2
<1>10. CASE DrainCommand
  <2> DEFINE c == Head(outbound)
  <2>1. /\ writerPc = "draining" /\ outbound # << >> /\ Answer(c, Dropped)
        /\ outbound' = Tail(outbound) /\ UNCHANGED <<writerPc, writerCmd>>
    BY <1>10 DEF DrainCommand
  <2>2. c \in Senders /\ Elements(outbound') = Elements(outbound) \ {c}
    BY <2>1, HeadOfQueue
  <2>3. Elements(outbound)' = Elements(outbound')
    BY DEF Elements
  <2> HIDE DEF c
  <2>4. Unanswered \ {c} \subseteq Unanswered'
    BY <2>1, <2>2, <2>3 DEF Unanswered
  <2>5. Dropped \in Results \ {Pending}
    BY DEF Results, Dropped, Pending
  <2>6. QED
    BY <1>4, <2>1, <2>2, <2>4, <2>5
<1>11. QED
  BY <1>5, <1>6, <1>7, <1>8, <1>9, <1>10, WriterMoves, StillForgetsNobody

\* A send that begins to wait is in the queue; it ends with its answer or with its
\* cancellation (driver.rs:290-301).
LEMMA SenderForgetsNobody ==
    ASSUME NEW s \in Senders, TypeOK, QueueInv, NoSendForgotten, SenderNext(s)
    PROVE  NoSendForgotten'
<1>1. outbound \in Seq(Senders) /\ sendPc \in [Senders -> SendPcs]
  BY CommandFacts
<1>2. UNCHANGED <<response, writerPc, writerCmd>>
  BY DEF SenderNext, SendStep, SendValidate, SendAcquire, SendReserve, SendPush, SendReturns,
         SendCancelled, sendOthers, outboundVars, writerVars
<1>3. CASE SendPush(s)
  <2>1. sendPc' = [sendPc EXCEPT ![s] = "waiting"] /\ outbound' = Append(outbound, s)
    BY <1>3 DEF SendPush, At
  <2> DEFINE q == Append(outbound, s)
  <2>2. Elements(q) = Elements(outbound) \cup {s}
    BY <1>1, Appended
  <2>3. q = outbound'
    BY <2>1
  <2> HIDE DEF q
  <2>4. Elements(outbound)' = Elements(outbound) \cup {s}
    BY <2>2, <2>3 DEF Elements
  <2>5. Unanswered' = Unanswered \cup {s}
    BY <1>2, <2>4 DEF Unanswered
  <2>6. \A t \in Senders : t # s => sendPc'[t] = sendPc[t]
    BY <1>1, <2>1
  <2>7. QED
    BY <1>2, <2>5, <2>6 DEF NoSendForgotten
<1>4. CASE ~SendPush(s)
  <2>1. /\ UNCHANGED outbound /\ \A t \in Senders : t # s => sendPc'[t] = sendPc[t]
        /\ sendPc'[s] \in {"waiting", "cancelled"} => sendPc[s] \in {"waiting", "cancelled"}
    BY <1>1, <1>4 DEF SenderNext, SendStep, SendValidate, SendAcquire, SendReserve, SendReturns,
                      SendCancelled, Finish, At, outboundVars
  <2>2. Unanswered' = Unanswered
    BY <1>2, <2>1 DEF Unanswered, Elements
  <2>3. QED
    BY <1>2, <2>1, <2>2 DEF NoSendForgotten
<1>5. QED
  BY <1>3, <1>4

-----------------------------------------------------------------------------
(* FlowInv is inductive                                                    *)

\* A connection that just started has no message anywhere (driver.rs:130-195).
LEMMA InitFlow == Init => FlowInv
<1> SUFFICES ASSUME Init PROVE FlowInv
  OBVIOUS
<1>1. /\ outbound = << >> /\ inbound = << >> /\ wire = << >> /\ delivered = << >>
      /\ flushed = 0 /\ Len(inbound) = 0 /\ Len(outbound) = 0 /\ Len(wire) = 0
      /\ Len(delivered) = 0
  BY DEF Init
<1>2. Elements(outbound) = {} /\ Elements(wire) = {}
  BY <1>1 DEF Elements
<1>3. InboundInv
  BY <1>1, EnvironmentAssumption DEF Init, InboundInv, InboundInOrder
<1>4. ExclusionInv
  BY DEF Init, ExclusionInv, Receiving, DriverGone
<1>5. QueueInv
  BY <1>1, <1>2 DEF Init, QueueInv, Unanswered
<1>6. Pending # Ok
  BY DEF Pending, Ok
<1>7. WireInv
  BY <1>1, <1>2, <1>6 DEF Init, WireInv
<1>8. HandInv /\ NoSendForgotten
  BY DEF Init, HandInv, Carrying, NoSendForgotten
<1>9. QED
  BY <1>3, <1>4, <1>5, <1>7, <1>8 DEF FlowInv

\* Every step keeps the messages where they belong (driver.rs:246-776).
LEMMA NextKeepsFlow ==
    ASSUME TypeOK, OutcomeInv, FlowInv, [Next]_vars
    PROVE  FlowInv'
<1>1. /\ InboundInv /\ ExclusionInv /\ QueueInv /\ WireInv /\ HandInv /\ NoSendForgotten
      /\ Forward /\ HandInv'
  BY NextKeepsOutcome, NextKeepsHand DEF FlowInv
<1>2. CASE ReaderNext
  BY <1>1, <1>2, ReaderFrame, ReaderKeepsInbound, StillKeepsExclusion, StillKeepsCommands,
     StillForgetsNobody
     DEF FlowInv
<1>3. CASE WriterNext
  BY <1>1, <1>3, WriterFrame, StillKeepsInbound, StillKeepsExclusion, WriterKeepsCommands,
     WriterForgetsNobody
     DEF FlowInv
<1>4. CASE WatchdogStep
  BY <1>1, <1>4, WatchdogFrame, StillKeepsInbound, StillKeepsExclusion, StillKeepsCommands,
     StillForgetsNobody
     DEF FlowInv
<1>5. CASE AbandonNext
  BY <1>1, <1>5, AbandonFrame, StillKeepsInbound, StillKeepsExclusion, StillKeepsCommands,
     StillForgetsNobody,
     DropInboundKeepsInbound DEF FlowInv
<1>6. ASSUME NEW c \in Closers, CloserNext(c) PROVE FlowInv'
  BY <1>1, <1>6, CloserFrame, StillKeepsInbound, StillKeepsExclusion, StillKeepsCommands,
     StillForgetsNobody
     DEF FlowInv
<1>7. ASSUME NEW s \in Senders, SenderNext(s) PROVE FlowInv'
  BY <1>1, <1>7, SenderFrame, StillKeepsInbound, StillKeepsExclusion, SenderKeepsCommands,
     SenderForgetsNobody
     DEF FlowInv
<1>8. ASSUME NEW r \in Receivers, ReceiverNext(r) PROVE FlowInv'
  BY <1>1, <1>8, ReceiverFrame, ReceiverKeepsInbound, ReceiverKeepsExclusion,
     StillKeepsCommands,
     StillForgetsNobody DEF FlowInv
<1>9. CASE UNCHANGED vars
  <2>1. InboundStill /\ ExclusionStill /\ OutboundStill
    BY <1>9
       DEF InboundStill, NeverBack, ExclusionStill, OutboundStill, InHand, DriverGone, vars,
                signalVars, socketVars, inboundVars, outboundVars, writerVars, closeVars,
                sendVars, recvVars
  <2>2. QED
    BY <1>1, <2>1, StillKeepsInbound, StillKeepsExclusion, StillKeepsCommands,
     StillForgetsNobody DEF FlowInv
<1>10. QED
  BY <1>2, <1>3, <1>4, <1>5, <1>6, <1>7, <1>8, <1>9 DEF Next

\* Queues, commands, answers and the wire agree in every reachable state
\* (driver.rs:246-321, 415-436, 536-573, 606-691).
THEOREM FlowInvHolds == Spec => []FlowInv
<1>1. TypeOK /\ OutcomeInv /\ FlowInv /\ [Next]_vars => FlowInv'
  BY NextKeepsFlow
<1>2. QED
  BY <1>1, InitFlow, TypeCorrect, OutcomeFirst, PTL DEF Spec

\* A send without an answer is in the queue or in the writer's hand, so the sends
\* that wait for ever are those pushed after the drain (driver.rs:288-300, 575-716).
THEOREM NoSendForgottenHolds == Spec => []NoSendForgotten
<1>1. FlowInv => NoSendForgotten
  BY DEF FlowInv
<1>2. QED
  BY <1>1, FlowInvHolds, PTL

\* What receive() hands out is the beginning of what the peer sent, in order
\* and without a gap (driver.rs:314-321, 536-573).
THEOREM InboundInOrderHolds == Spec => []InboundInOrder
<1>1. FlowInv => InboundInOrder
  BY DEF FlowInv, InboundInv
<1>2. QED
  BY <1>1, FlowInvHolds, PTL

\* The set of places of something that occurs once.
LEMMA AtMostOne ==
    ASSUME NEW S, \A a, b \in S : a = b
    PROVE  /\ S = {} => Cardinality(S) = 0
           /\ S # {} => Cardinality(S) = 1
<1>1. S = {} => Cardinality(S) = 0
  BY FS_EmptySet
<1>2. ASSUME S # {} PROVE Cardinality(S) = 1
  <2>1. PICK a \in S : TRUE
    BY <1>2
  <2>2. S = {a}
    BY <2>1
  <2>3. QED
    BY <2>2, FS_Singleton
<1>3. QED
  BY <1>1, <1>2

\* Success was written and flushed exactly once, what was refused never, and
\* nothing follows the close frame (driver.rs:246-301, 626-676).
THEOREM WireTellsResultsHolds == Spec => []WireTellsResults
<1>1. FlowInv => WireTellsResults
  <2> SUFFICES ASSUME FlowInv PROVE WireTellsResults
    OBVIOUS
  <2>1. WireInv
    BY DEF FlowInv
  <2>2. ASSUME NEW s \in Senders
        PROVE  /\ Cardinality(Written(s)) <= 1
               /\ response[s] = Ok => \E i \in Written(s) : i <= flushed
               /\ sendPc[s] \in {"idle", "acquire", "reserve", "admitted"} => Written(s) = {}
               /\ sendPc[s] = "done" /\ response[s] = Pending => Written(s) = {}
    <3>1. \A i, j \in Written(s) : i = j
      BY <2>1 DEF WireInv, Written
    <3>2. Cardinality(Written(s)) <= 1
      BY <3>1, AtMostOne
    <3>3. response[s] = Ok => \E i \in Written(s) : i <= flushed
      BY <2>1 DEF WireInv, Flushed
    <3>4. Written(s) # {} => s \in Senders \cap Elements(wire)
      BY DEF Written, Elements
    <3>5. QED
      BY <2>1, <3>2, <3>3, <3>4 DEF WireInv
  <2>3. QED
    BY <2>1, <2>2 DEF WireInv, WireTellsResults
<1>2. QED
  BY <1>1, FlowInvHolds, PTL

\* Every close(), receive() and admitted send() that learns how the connection
\* ended learns the same (driver.rs:298-300, 317-342).
THEOREM OneOutcomeHolds == Spec => []OneOutcome
<1>1. OutcomeInv /\ FlowInv => OneOutcome
  <2> SUFFICES ASSUME OutcomeInv, FlowInv PROVE OneOutcome
    OBVIOUS
  <2>1. \A c \in Closers : closePc[c] = "done" =>
           closeResult[c] = close_result(state.error) /\ is_terminal(state)
    BY DEF OutcomeInv, CloserInv, Learned
  <2>2. \A r \in Receivers : recvResult[r] \notin {Pending, Ok, Cancelled, Concurrency}
           => Learned(recvResult[r])
    BY DEF OutcomeInv, RecvInv
  <2>3. \A s \in Senders :
           /\ response[s] \notin {Pending, Ok, Dropped} => Learned(response[s])
           /\ sendPc[s] = "done" /\ response[s] = Dropped => Learned(sendResult[s])
    BY DEF OutcomeInv, ResponseInv, FlowInv, QueueInv
  <2>4. QED
    BY <2>1, <2>2, <2>3 DEF OneOutcome
<1>2. QED
  BY <1>1, OutcomeFirst, FlowInvHolds, PTL

-----------------------------------------------------------------------------
(* One receive() at a time, one message each                               *)

Given == {r \in Receivers : recvResult[r] = Ok}
GivenCounted == IsFiniteSet(Given) /\ Cardinality(Given) = Len(delivered)

\* Only the step that takes a message hands one out (driver.rs:314-321).
LEMMA NextCountsGiven ==
    ASSUME TypeOK, OutcomeInv, FlowInv, GivenCounted, [Next]_vars
    PROVE  GivenCounted'
<1>1. Forward /\ InboundInv /\ ExclusionInv /\ recvResult \in [Receivers -> Results]
      /\ recvPc \in [Receivers -> RecvPcs] /\ delivered \in Seq(Nat)
  BY NextKeepsOutcome DEF FlowInv, TypeOK, RecvTypes
<1>2. ASSUME UNCHANGED <<recvResult, delivered>> PROVE GivenCounted'
  <2>1. Given' = Given
    BY <1>2 DEF Given
  <2>2. QED
    BY <1>2, <2>1 DEF GivenCounted
<1>3. CASE ReaderNext \/ WriterNext \/ WatchdogStep \/ AbandonNext \/ UNCHANGED vars
  <2>1. CASE ReaderNext
    BY <1>1, <1>2, <2>1, ReaderFrame DEF ExclusionStill
  <2>2. CASE DropInbound
    BY <1>2, <2>2 DEF DropInbound, recvVars
  <2>3. CASE UNCHANGED vars
    BY <1>2, <2>3 DEF vars, recvVars
  <2>4. QED
    BY <1>1, <1>2, <1>3, <2>1, <2>2, <2>3, WriterFrame, WatchdogFrame, AbandonFrame
       DEF InboundStill, ExclusionStill
<1>4. ASSUME NEW c \in Closers, CloserNext(c) PROVE GivenCounted'
  BY <1>1, <1>2, <1>4, CloserFrame DEF InboundStill, ExclusionStill
<1>5. ASSUME NEW s \in Senders, SenderNext(s) PROVE GivenCounted'
  BY <1>1, <1>2, <1>5, SenderFrame DEF InboundStill, ExclusionStill
<1>6. ASSUME NEW r \in Receivers, ReceiverNext(r) PROVE GivenCounted'
  <2>1. Concurrency # Ok /\ Cancelled # Ok /\ Pending # Ok
    BY DEF Concurrency, Cancelled, Pending, Ok
  <2>2. CASE ReceiveMessage(r)
    <3>1. /\ recvPc[r] = "waiting" /\ recvResult' = [recvResult EXCEPT ![r] = Ok]
          /\ delivered' = Append(delivered, Head(inbound).id) /\ inbound # << >>
      BY <2>2 DEF ReceiveMessage, At
    <3>2. r \notin Given
      BY <2>1, <3>1, <1>1 DEF ExclusionInv, Given
    <3>3. Given' = Given \cup {r}
      BY <1>1, <3>1 DEF Given
    <3>4. IsFiniteSet(Given') /\ Cardinality(Given') = Cardinality(Given) + 1
      BY <3>2, <3>3, FS_AddElement DEF GivenCounted
    <3>5. Head(inbound).id \in Nat
      BY <3>1, HeadTyped DEF TypeOK, InboundTypes
    <3>6. Len(delivered') = Len(delivered) + 1
      BY <1>1, <3>1, <3>5
    <3>7. QED
      BY <3>4, <3>6 DEF GivenCounted
  <2>3. CASE ~ReceiveMessage(r)
    <3>1. UNCHANGED delivered
      BY <1>1, <1>6, <2>3, ReceiverMoves DEF InboundStill
    <3>2. Ok # terminal_error(state)
      <4>1. terminal_error(state) \in DriverErrors
        BY StatesTyped DEF TypeOK, StateTypes
      <4>2. Ok \notin DriverErrors
        BY DEF DriverErrors, Ok
      <4>3. QED
        BY <4>1, <4>2
    <3>3. /\ \A q \in Receivers : q # r => recvResult'[q] = recvResult[q]
          /\ recvResult'[r] # recvResult[r] => recvResult[r] = Pending /\ recvResult'[r] # Ok
      <4>1. CASE ReceiveClaim(r) \/ ReceiveCancelled(r) \/ ReceiveUnclaims(r)
        BY <1>1, <2>1, <4>1
           DEF ReceiveClaim, ReceiveCancelled, ReceiveUnclaims, At, ExclusionInv
      <4>2. CASE ReceiveEnd(r)
        BY <1>1, <3>2, <4>2 DEF ReceiveEnd, At, ExclusionInv
      <4>3. QED
        BY <1>6, <2>3, <4>1, <4>2 DEF ReceiverNext, ReceiveStep
    <3>4. Given' = Given
      BY <2>1, <3>3 DEF Given
    <3>5. QED
      BY <3>1, <3>4 DEF GivenCounted
  <2>4. QED
    BY <2>2, <2>3
<1>7. QED
  BY <1>3, <1>4, <1>5, <1>6 DEF Next

\* At most one receive() is inside and the flag never outlives its owner; each
\* message was given to one call (driver.rs:415-436).
THEOREM OneReceiverHolds == Spec => []OneReceiver
<1>1. Init => GivenCounted
  <2> SUFFICES ASSUME Init PROVE GivenCounted
    OBVIOUS
  <2>1. Given = {} /\ Len(delivered) = 0
    BY DEF Init, Given, Pending, Ok
  <2>2. QED
    BY <2>1, FS_EmptySet DEF GivenCounted
<1>2. TypeOK /\ OutcomeInv /\ FlowInv /\ GivenCounted /\ [Next]_vars => GivenCounted'
  BY NextCountsGiven
<1>3. FlowInv /\ GivenCounted => OneReceiver
  <2> SUFFICES ASSUME FlowInv, GivenCounted PROVE OneReceiver
    OBVIOUS
  <2>1. \A r, q \in Receiving : r = q
    BY DEF FlowInv, ExclusionInv
  <2>2. /\ Receiving = {} => Cardinality(Receiving) = 0
        /\ Receiving # {} => Cardinality(Receiving) = 1
    BY <2>1, AtMostOne
  <2>3. receiveActive <=> Receiving # {}
    BY DEF FlowInv, ExclusionInv
  <2>4. Cardinality(Receiving) = B2N(receiveActive)
    BY <2>2, <2>3 DEF B2N
  <2>5. QED
    BY <2>4 DEF OneReceiver, GivenCounted, Given
<1>4. QED
  BY <1>1, <1>2, <1>3, TypeCorrect, OutcomeFirst, FlowInvHolds, PTL DEF Spec

-----------------------------------------------------------------------------
(* The driver implements NativeReceive                                     *)

\* What the driver shows of itself where nothing arrives, ends or is received.
nativeStill ==
    UNCHANGED <<receiveActive, recvPc, recvResult, delivered, inbound, DriverGone>>

\* An outcome that can be seen is final, so a step that neither ends the reader
\* nor touches the receives is no step of NativeReceive (driver.rs:314-321).
LEMMA StutterNative ==
    ASSUME TypeOK, OutcomeInv, Forward, nativeStill, ReaderGone' <=> ReaderGone
    PROVE  UNCHANGED Native!nativeVars
<1>1. ReaderGone => is_terminal(state)
  BY DEF OutcomeInv, ReaderInv, ReaderGone
<1>2. ReaderGone => state' = state
  BY <1>1 DEF Forward
<1>3. ReaderGone' = ReaderGone
  BY DEF ReaderGone
<1>4. (IF ReaderGone THEN state.error ELSE NoError)' = IF ReaderGone THEN state.error ELSE NoError
  BY <1>2, <1>3
<1>5. QED
  BY <1>3, <1>4 DEF nativeStill, Native!nativeVars, Native!receiveVars, Native!sourceVars

\* Only two steps of the reader show (driver.rs:438-573).
LEMMA ReaderStaysNative ==
    ASSUME Forward, ReaderNext, ~Enqueue, ~ReaderDropsContext
    PROVE  UNCHANGED inbound /\ (ReaderGone' <=> ReaderGone)
<1>1. CASE ReaderCheck
  BY <1>1 DEF ReaderGone, inboundVars, ReaderCheck
<1>2. CASE ReaderSeesSignal
  BY <1>2 DEF ReaderGone, inboundVars, ReaderSeesSignal
<1>3. CASE ReadData
  BY <1>3 DEF ReaderGone, inboundVars, ReadData
<1>4. CASE ReadPing
  BY <1>4 DEF ReaderGone, inboundVars, ReadPing
<1>5. CASE ReadEnd
  BY <1>5 DEF ReaderGone, inboundVars, ReadEnd
<1>6. CASE ReadError
  BY <1>6 DEF ReaderGone, inboundVars, ReadError
<1>7. CASE ReadClose
  BY <1>7 DEF ReaderGone, inboundVars, ReadClose
<1>8. CASE QueueCheck
  BY <1>8 DEF ReaderGone, inboundVars, QueueCheck
<1>9. CASE AcquireInbound
  BY <1>9 DEF ReaderGone, inboundVars, AcquireInbound
<1>10. CASE AbandonMessage
  BY <1>10 DEF ReaderGone, inboundVars, AbandonMessage
<1>11. CASE EnqueueFails
  BY <1>11 DEF ReaderGone, inboundVars, EnqueueFails
<1>12. CASE LoadClosing
  BY <1>12 DEF ReaderGone, inboundVars, LoadClosing
<1>13. CASE StoreClosing
  BY <1>13 DEF ReaderGone, inboundVars, StoreClosing
<1>14. CASE PublishPeerClosed
  BY <1>14 DEF ReaderGone, inboundVars, PublishPeerClosed
<1>15. CASE SignalPeerClose
  BY <1>15 DEF ReaderGone, inboundVars, SignalPeerClose
<1>16. CASE ReaderSeesTerminal
  BY <1>16 DEF ReaderGone, inboundVars, ReaderSeesTerminal
<1>17. CASE ReaderTimesOut
  BY <1>17 DEF ReaderGone, inboundVars, ReaderTimesOut
<1>18. CASE ReaderPublishes
  BY <1>18 DEF ReaderGone, inboundVars, ReaderPublishes
<1>19. CASE ReaderSignalsAbort
  BY <1>19 DEF ReaderGone, inboundVars, ReaderSignalsAbort
<1>20. CASE ReaderAbortsWriter
  BY <1>20 DEF ReaderGone, inboundVars, ReaderAbortsWriter
<1>21. CASE ReaderCancelled
  BY <1>21 DEF ReaderGone, inboundVars, ReaderCancelled
<1>22. CASE ReaderStops
  BY <1>22 DEF ReaderGone, inboundVars, ReaderStops
<1>23. QED
  BY <1>1, <1>2, <1>3, <1>4, <1>5, <1>6, <1>7, <1>8, <1>9, <1>10, <1>11, <1>12, <1>13, <1>14,
     <1>15, <1>16, <1>17, <1>18, <1>19, <1>20, <1>21, <1>22
     DEF ReaderNext, ReaderInput, ReaderStep

\* NativeReceive speaks of the same errors and results.
LEMMA SameResults ==
    /\ Native!DriverErrors = DriverErrors /\ Native!NoError = NoError
    /\ Native!Pending = Pending /\ Native!Ok = Ok /\ Native!Cancelled = Cancelled
    /\ Native!Concurrency = Concurrency
<1>1. Native!DriverErrors = DriverErrors
  BY Zenon
     DEF DriverErrors, CloseFrames, Causes, Limits, Native!DriverErrors, Native!CloseFrames,
         Native!Causes, Native!Limits
<1>2. QED
  BY <1>1 DEF NoError, Pending, Ok, Cancelled, Concurrency, Native!NoError, Native!Pending,
              Native!Ok, Native!Cancelled, Native!Concurrency

\* Queueing a message is its arrival, and the end of the reader the end of all
\* arrivals (driver.rs:438-573).
LEMMA ReaderImplements ==
    ASSUME TypeOK, OutcomeInv, FlowInv, Forward, ReaderNext
    PROVE  [Native!NativeNext]_(Native!nativeVars)
<1>1. ExclusionStill /\ UNCHANGED <<delivered, abandonPc>>
  BY ReaderFrame
<1>2. UNCHANGED <<receiveActive, recvPc, recvResult, delivered>> /\ DriverGone' = DriverGone
  BY <1>1 DEF ExclusionStill, DriverGone
<1>3. CASE Enqueue
  <2>1. /\ readerPc = "enqueue" /\ readerPc' = "check" /\ ~DriverGone
        /\ inbound' = Append(inbound, readerMsg)
    BY <1>3 DEF Enqueue
  <2>2. /\ inbound \in Seq(Messages) /\ delivered \in Seq(Nat) /\ readerMsg \in Messages
    BY DEF TypeOK, InboundTypes, RecvTypes, ReaderTypes
  <2>3. Len(inbound') = Len(inbound) + 1 /\ Len(inbound) \in Nat /\ Len(delivered) \in Nat
    BY <2>1, <2>2
  <2>4. /\ readerMsg.id = Len(delivered) + Len(inbound) + 1 /\ readerMsg.id = dataRead
        /\ dataRead <= MaxData
    BY <2>1 DEF FlowInv, InboundInv, InboundInOrder
  <2>5. Len(delivered) + Len(inbound) < MaxData
    <3>1. dataRead = Len(delivered) + Len(inbound) + 1 /\ dataRead <= MaxData
      BY <2>4
    <3>2. MaxData \in Nat
      BY EnvironmentAssumption
    <3>3. QED
      BY <2>3, <3>1, <3>2
  <2>6. ~ReaderGone /\ ~ReaderGone' /\ ReaderGone' = ReaderGone
    BY <2>1 DEF ReaderGone
  <2>7. (IF ReaderGone THEN state.error ELSE NoError)'
           = IF ReaderGone THEN state.error ELSE NoError
    BY <2>6
  <2>8. Native!Arrive
    BY <1>2, <2>3, <2>5, <2>6, <2>7 DEF Native!Arrive, Native!receiveVars
  <2>9. QED
    BY <2>8 DEF Native!NativeNext
<1>4. CASE ReaderDropsContext
  <2>1. /\ ~ReaderGone /\ ReaderGone' /\ is_terminal(state) /\ UNCHANGED <<state, inbound>>
    BY <1>4 DEF ReaderDropsContext, ReaderGone, OutcomeInv, ReaderInv, inboundVars
  <2>2. state.error \in DriverErrors
    BY <2>1 DEF TypeOK, StateTypes, DriverStates, is_terminal
  <2>3. Native!End(state.error)
    BY <1>2, <2>1 DEF Native!End, Native!receiveVars
  <2>4. QED
    BY <2>2, <2>3, SameResults DEF Native!NativeNext
<1>5. CASE ~Enqueue /\ ~ReaderDropsContext
  <2>1. UNCHANGED inbound /\ (ReaderGone' <=> ReaderGone)
    BY <1>5, ReaderStaysNative
  <2>2. nativeStill
    BY <1>2, <2>1 DEF nativeStill
  <2>3. QED
    BY <2>1, <2>2, StutterNative
<1>6. QED
  BY <1>3, <1>4, <1>5

\* A native receive() is a call of NativeReceive (driver.rs:314-321, 415-436).
LEMMA ReceiverImplements ==
    ASSUME NEW r \in Receivers, TypeOK, OutcomeInv, FlowInv, Forward, ReceiverNext(r)
    PROVE  [Native!NativeNext]_(Native!nativeVars)
<1>1. /\ UNCHANGED <<state, readerPc, abandonPc>>
      /\ DriverGone' = DriverGone /\ ReaderGone' = ReaderGone
  <2>1. UNCHANGED <<state, readerPc, abandonPc>>
    BY
       DEF ReceiverNext, ReceiveStep, ReceiveClaim, ReceiveMessage, ReceiveEnd,
           ReceiveCancelled,
           ReceiveUnclaims, recvOthers, closeVars, readerVars
  <2>2. QED
    BY <2>1 DEF DriverGone, ReaderGone
<1>2. (IF ReaderGone THEN state.error ELSE NoError)' = IF ReaderGone THEN state.error ELSE NoError
  BY <1>1
<1>3. CASE ReceiveClaim(r)
  <2>1. Native!Claim(r)
    BY <1>1, <1>2, <1>3, SameResults
       DEF ReceiveClaim, inboundVars, Native!Claim, Native!sourceVars
  <2>2. QED
    BY <2>1 DEF Native!NativeNext
<1>4. CASE ReceiveMessage(r)
  <2>1. /\ inbound # << >> /\ inbound' = Tail(inbound) /\ recvPc[r] = "waiting"
        /\ recvPc' = [recvPc EXCEPT ![r] = "unclaim"]
        /\ recvResult' = [recvResult EXCEPT ![r] = Ok]
        /\ delivered' = Append(delivered, Head(inbound).id) /\ UNCHANGED receiveActive
    BY <1>4 DEF ReceiveMessage, At
  <2>2. inbound \in Seq(Messages)
    BY DEF TypeOK, InboundTypes
  <2>3. Len(inbound) > 0 /\ Len(inbound') = Len(inbound) - 1 /\ Head(inbound) = inbound[1]
        /\ 1 \in 1..Len(inbound)
    BY <2>1, <2>2
  <2>4. ~DriverGone
    BY <2>1 DEF FlowInv, ExclusionInv, Receiving
  <2>5. Head(inbound).id = Len(delivered) + 1
    BY <2>3, <2>4 DEF FlowInv, InboundInv, InboundInOrder
  <2>6. Native!Hand(r)
    BY <1>1, <1>2, <2>1, <2>3, <2>5, SameResults DEF Native!Hand, Native!Return
  <2>7. QED
    BY <2>6 DEF Native!NativeNext
<1>5. CASE ReceiveEnd(r)
  <2>1. /\ inbound = << >> /\ ReaderGone /\ recvPc[r] = "waiting"
        /\ recvPc' = [recvPc EXCEPT ![r] = "unclaim"]
        /\ recvResult' = [recvResult EXCEPT ![r] = terminal_error(state)]
        /\ UNCHANGED <<receiveActive, delivered, inbound>>
    BY <1>5 DEF ReceiveEnd, At, inboundVars
  <2>2. terminal_error(state) = state.error
    BY <2>1 DEF OutcomeInv, ReaderInv, ReaderGone, is_terminal, terminal_error
  <2>3. Native!ReportEnd(r)
    BY <1>1, <1>2, <2>1, <2>2 DEF Native!ReportEnd, Native!Return
  <2>4. QED
    BY <2>3 DEF Native!NativeNext
<1>6. CASE ReceiveCancelled(r)
  <2>1. Native!Cancel(r)
    BY <1>1, <1>2, <1>6, SameResults
       DEF ReceiveCancelled, At, inboundVars, Native!Cancel, Native!Return
  <2>2. QED
    BY <2>1 DEF Native!NativeNext
<1>7. CASE ReceiveUnclaims(r)
  <2>1. Native!Unclaim(r)
    BY <1>1, <1>2, <1>7 DEF ReceiveUnclaims, At, inboundVars, Native!Unclaim, Native!sourceVars
  <2>2. QED
    BY <2>1 DEF Native!NativeNext
<1>8. QED
  BY <1>3, <1>4, <1>5, <1>6, <1>7 DEF ReceiverNext, ReceiveStep

\* The drop of the driver is the drop of NativeReceive, and then of what was
\* queued (driver.rs:344-351, 409-413).
LEMMA AbandonImplements ==
    ASSUME TypeOK, OutcomeInv, FlowInv, Forward, AbandonNext
    PROVE  [Native!NativeNext]_(Native!nativeVars)
<1>1. UNCHANGED <<readerPc, receiveActive, recvPc, recvResult, delivered>>
  BY DEF AbandonNext, AbandonRest, AbandonStores, AbandonPublishes, AbandonSignals,
         AbandonAbortsReader, AbandonAbortsWriter, DropDriver, DropInbound, AbandonStep,
         abandonOthers, closeOthers, recvOthers, readerVars, recvVars
<1>2. ReaderGone' = ReaderGone
  BY <1>1 DEF ReaderGone
<1>3. CASE DropDriver
  <2>1. /\ abandonPc = "done" /\ abandonPc' = "dropped" /\ UNCHANGED <<state, inbound>>
        /\ \A r \in Receivers : recvPc[r] \in {"idle", "done"}
    BY <1>3 DEF DropDriver, AbandonStep, abandonOthers, closeOthers, inboundVars
  <2>2. ~DriverGone /\ DriverGone'
    BY <2>1 DEF DriverGone
  <2>3. (IF ReaderGone THEN state.error ELSE NoError)'
           = IF ReaderGone THEN state.error ELSE NoError
    BY <1>2, <2>1
  <2>4. Native!Drop
    BY <1>1, <1>2, <2>1, <2>2, <2>3 DEF Native!Drop, Native!receiveVars
  <2>5. QED
    BY <2>4 DEF Native!NativeNext
<1>4. CASE DropInbound
  <2>1. /\ DriverGone /\ inbound # << >> /\ inbound' = Tail(inbound)
        /\ UNCHANGED <<state, abandonPc>>
    BY <1>4 DEF DropInbound, recvOthers, closeVars
  <2>2. inbound \in Seq(Messages)
    BY DEF TypeOK, InboundTypes
  <2>3. Len(inbound) > 0 /\ Len(inbound') = Len(inbound) - 1
    BY <2>1, <2>2
  <2>4. DriverGone' = DriverGone
    BY <2>1 DEF DriverGone
  <2>5. (IF ReaderGone THEN state.error ELSE NoError)'
           = IF ReaderGone THEN state.error ELSE NoError
    BY <1>2, <2>1
  <2>6. Native!DiscardQueued
    BY <1>1, <1>2, <2>1, <2>3, <2>4, <2>5 DEF Native!DiscardQueued, Native!receiveVars
  <2>7. QED
    BY <2>6 DEF Native!NativeNext
<1>5. CASE AbandonStores \/ AbandonRest
  <2>1. abandonPc # "dropped" /\ abandonPc' # "dropped" /\ UNCHANGED inbound
    BY <1>5
       DEF AbandonRest, AbandonStores, AbandonPublishes, AbandonSignals, AbandonAbortsReader,
                AbandonAbortsWriter, AbandonStep, abandonOthers, closeOthers, inboundVars
  <2>2. nativeStill
    BY <1>1, <2>1 DEF nativeStill, DriverGone
  <2>3. QED
    BY <1>2, <2>2, StutterNative
<1>6. QED
  BY <1>3, <1>4, <1>5 DEF AbandonNext

\* The other actors do not show (driver.rs:246-312, 323-388, 575-716).
LEMMA OthersStutter ==
    ASSUME TypeOK, OutcomeInv, Forward, InboundStill, ExclusionStill, UNCHANGED abandonPc
    PROVE  UNCHANGED Native!nativeVars
<1>1. ReaderGone' <=> ReaderGone
  BY DEF InboundStill, readerVars, ReaderGone
<1>2. nativeStill
  BY DEF InboundStill, inboundVars, ExclusionStill, nativeStill, DriverGone
<1>3. QED
  BY <1>1, <1>2, StutterNative

\* Each step of the driver is one of NativeReceive, or does not show
\* (driver.rs:246-776).
LEMMA NextImplements ==
    ASSUME TypeOK, OutcomeInv, FlowInv, [Next]_vars
    PROVE  [Native!NativeNext]_(Native!nativeVars)
<1>1. Forward
  BY NextKeepsOutcome
<1>2. CASE WriterNext
  <2>1. UNCHANGED abandonPc
    BY <1>2
       DEF WriterNext, WriterIO, WriterStep, WriterSeesSignal, WriterPollsEvents,
           WriterFindsNothing, TakeFlush, TakeControlClosed, TakeCommand, TakeOutboundClosed,
           WriteCommand, WriteClose,
           WriteRefused, Flush, WriteFails, Respond, ReleasePermit, AwaitPeer,
           PublishOutcome, PublishFailure, WriterSignalsAbort, RespondFailure,
           WriterCancelled, WriterClosesQueue, DrainCommand, WriterDropsQueue, WriterStops,
           writerOthers, closeVars
  <2>2. QED
    BY <1>1, <1>2, <2>1, WriterFrame, OthersStutter
<1>3. CASE WatchdogStep
  <2>1. UNCHANGED abandonPc
    BY <1>3
       DEF WatchdogStep, WatchdogSeesTerminal, WatchdogExpires, WatchdogPublishes,
           WatchdogAbortsReader, WatchdogAbortsWriter, WatchdogStops, watchdogOthers
  <2>2. QED
    BY <1>1, <1>3, <2>1, WatchdogFrame, OthersStutter
<1>4. ASSUME NEW c \in Closers, CloserNext(c) PROVE UNCHANGED Native!nativeVars
  <2>1. UNCHANGED abandonPc
    BY <1>4
       DEF CloserNext, CloseStep, CloseStart, CloseTakesGuard, CloseSwap, ClosePublish,
           CloseSignal, CloseArm, CloseDropsGuard, CloseSeesTerminal, CloseReturns,
           CloseCancelled
  <2>2. QED
    BY <1>1, <1>4, <2>1, CloserFrame, OthersStutter
<1>5. ASSUME NEW s \in Senders, SenderNext(s) PROVE UNCHANGED Native!nativeVars
  <2>1. UNCHANGED abandonPc
    BY <1>5
       DEF SenderNext, SendStep, SendValidate, SendAcquire, SendReserve, SendPush,
           SendReturns, SendCancelled, sendOthers, closeVars
  <2>2. QED
    BY <1>1, <1>5, <2>1, SenderFrame, OthersStutter
<1>6. CASE UNCHANGED vars
  <2>1. nativeStill /\ (ReaderGone' <=> ReaderGone)
    BY <1>6 DEF nativeStill, DriverGone, ReaderGone, vars, inboundVars, readerVars, closeVars,
                recvVars
  <2>2. QED
    BY <1>1, <2>1, StutterNative
<1>7. QED
  BY <1>1, <1>2, <1>3, <1>4, <1>5, <1>6, ReaderImplements, AbandonImplements,
     ReceiverImplements DEF Next

\* Whatever the tasks, the queue and its permits do, receive() keeps the
\* promises of NativeReceive (driver.rs:314-321, 415-436).
THEOREM ImplementsNativeReceiveHolds == Spec => ImplementsNativeReceive
<1>1. Init => Native!NativeInit
  <2> SUFFICES ASSUME Init PROVE Native!NativeInit
    OBVIOUS
  <2>1. Len(inbound) = 0 /\ ~ReaderGone /\ ~DriverGone
    BY DEF Init, ReaderGone, DriverGone
  <2>2. QED
    BY <2>1, SameResults DEF Init, Native!NativeInit
<1>2. TypeOK /\ OutcomeInv /\ FlowInv /\ [Next]_vars
         => [Native!NativeNext]_(Native!nativeVars)
  BY NextImplements
<1>3. QED
  BY <1>1, <1>2, TypeCorrect, OutcomeFirst, FlowInvHolds, PTL
  DEF Spec, ImplementsNativeReceive, Native!NativeSpec

=============================================================================
