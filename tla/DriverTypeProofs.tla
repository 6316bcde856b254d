-------------------------- MODULE DriverTypeProofs --------------------------
(***************************************************************************)
(* Every variable of Driver keeps its type, for every set of callers,      *)
(* every message size and every configuration.  TypeOK is inductive: it    *)
(* also says what the locals of the tasks hold where they are published,   *)
(* answered or returned.  Each action keeps the parts of TypeOK it touches *)
(* by its own proof and the others by FrameTypes.                          *)
(***************************************************************************)
EXTENDS Driver, TLAPS

-----------------------------------------------------------------------------
(* The errors the code builds, and the functions on the state channel      *)

\* Every error the driver constructs is an error, and its results are results
\* (the DriverError constructors of driver.rs).
LEMMA ErrorsTyped ==
    /\ \A why \in Causes : Transport(why) \in DriverErrors
    /\ \A why \in Limits : ResourceLimit(why) \in DriverErrors
    /\ Concurrency \in DriverErrors /\ local_normal \in DriverErrors
    /\ \A frame \in CloseFrames, b \in BOOLEAN : classify_close(frame, b) \in DriverErrors
    /\ \A e \in DriverErrors : close_result(e) \in Results
    /\ DriverErrors \subseteq Results
    /\ {Pending, Ok, Cancelled, Dropped} \subseteq Results
    /\ NoError \notin DriverErrors
BY DEF DriverErrors, Causes, Limits, CloseFrames, Transport, ResourceLimit, Concurrency,
       local_normal, ClosedOk, ClosedError, classify_close, close_result, Results,
       Pending, Ok, Cancelled, Dropped, NoError

\* What each publishing function leaves on the state channel (driver.rs:359-366,
\* 702-776), and what a caller that finds the driver not open reports
\* (driver.rs:390-406).
LEMMA StatesTyped ==
    ASSUME NEW s \in DriverStates
    PROVE  /\ \A e \in DriverErrors : publish_terminal(s, e) \in DriverStates
           /\ \A e \in DriverErrors : publish_peer_closed(s, e) \in DriverStates
           /\ \A e \in DriverErrors :
                 /\ publish_writer_failure(s, e) \in DriverStates
                 /\ publish_writer_failure(s, e).error \in DriverErrors
           /\ publish_close_timeout(s) \in DriverStates
           /\ begin_closing(s) \in DriverStates
           /\ terminal_error(s) \in DriverErrors
           /\ s # Open => ensure_open(s) \in DriverErrors
           /\ s.tag \in {"PeerClosed", "Closed"} => s.error \in DriverErrors
           /\ is_terminal(s) => s.error \in DriverErrors
<1>1. /\ s.tag \in {"Open", "Closing"} => s \in {Open, Closing} /\ s.error = NoError
      /\ s.tag \in {"PeerClosed", "Closed"} => s.error \in DriverErrors
      /\ s.tag \in {"Open", "Closing", "PeerClosed", "Closed"}
  BY DEF DriverStates, Open, Closing
<1>2. \A e \in DriverErrors : /\ Closed(e) \in DriverStates /\ Closed(e).error = e
                              /\ PeerClosed(e) \in DriverStates
  BY DEF DriverStates, Closed, PeerClosed
<1>3. Open \in DriverStates /\ Closing \in DriverStates
  BY DEF DriverStates, Open, Closing
<1>4. /\ Transport("close timed out") \in DriverErrors
      /\ Transport("stopped unexpectedly") \in DriverErrors /\ local_normal \in DriverErrors
  BY ErrorsTyped DEF Causes
<1>5. \A e \in DriverErrors : /\ publish_terminal(s, e) \in DriverStates
                              /\ publish_peer_closed(s, e) \in DriverStates
  BY <1>2 DEF publish_terminal, publish_peer_closed
<1>6. \A e \in DriverErrors : /\ publish_writer_failure(s, e) \in DriverStates
                              /\ publish_writer_failure(s, e).error \in DriverErrors
  BY <1>1, <1>2 DEF publish_writer_failure, is_terminal
<1>7. publish_close_timeout(s) \in DriverStates
  BY <1>4, <1>6 DEF publish_close_timeout
<1>8. begin_closing(s) \in DriverStates
  BY <1>3 DEF begin_closing
<1>9. terminal_error(s) \in DriverErrors
  BY <1>1, <1>4 DEF terminal_error
<1>10. QED
  BY <1>1, <1>5, <1>6, <1>7, <1>8, <1>9 DEF ensure_open, is_terminal

-----------------------------------------------------------------------------
(* The frame of a step                                                     *)

\* A part of TypeOK holds on as long as its variables do not change
\* (ConnectionDriver, driver.rs:112-127).
LEMMA FrameTypes ==
    /\ StateTypes /\ UNCHANGED state => StateTypes'
    /\ SignalTypes /\ UNCHANGED signalVars => SignalTypes'
    /\ FlagTypes /\ UNCHANGED flagVars => FlagTypes'
    /\ TaskTypes /\ UNCHANGED taskVars => TaskTypes'
    /\ SocketTypes /\ UNCHANGED socketVars => SocketTypes'
    /\ ControlTypes /\ UNCHANGED control => ControlTypes'
    /\ InboundTypes /\ UNCHANGED inboundVars => InboundTypes'
    /\ OutboundTypes /\ UNCHANGED outboundVars => OutboundTypes'
    /\ ReaderTypes /\ UNCHANGED readerVars => ReaderTypes'
    /\ WriterTypes /\ UNCHANGED writerVars => WriterTypes'
    /\ CloseTypes /\ UNCHANGED closeVars => CloseTypes'
    /\ SendTypes /\ UNCHANGED sendVars => SendTypes'
    /\ RecvTypes /\ UNCHANGED recvVars => RecvTypes'
<1>1. StateTypes /\ UNCHANGED state => StateTypes'
  BY DEF StateTypes
<1>2. SignalTypes /\ UNCHANGED signalVars => SignalTypes'
  BY DEF SignalTypes, signalVars
<1>3. FlagTypes /\ UNCHANGED flagVars => FlagTypes'
  BY DEF FlagTypes, flagVars
<1>4. TaskTypes /\ UNCHANGED taskVars => TaskTypes'
  BY DEF TaskTypes, taskVars
<1>5. SocketTypes /\ UNCHANGED socketVars => SocketTypes'
  BY DEF SocketTypes, socketVars
<1>6. ControlTypes /\ UNCHANGED control => ControlTypes'
  BY DEF ControlTypes
<1>7. InboundTypes /\ UNCHANGED inboundVars => InboundTypes'
  BY DEF InboundTypes, inboundVars
<1>8. OutboundTypes /\ UNCHANGED outboundVars => OutboundTypes'
  BY DEF OutboundTypes, outboundVars
<1>9. ReaderTypes /\ UNCHANGED readerVars => ReaderTypes'
  BY DEF ReaderTypes, readerVars
<1>10. WriterTypes /\ UNCHANGED writerVars => WriterTypes'
  BY DEF WriterTypes, writerVars
<1>11. CloseTypes /\ UNCHANGED closeVars => CloseTypes'
  BY DEF CloseTypes, closeVars
<1>12. SendTypes /\ UNCHANGED sendVars => SendTypes'
  BY DEF SendTypes, sendVars
<1>13. RecvTypes /\ UNCHANGED recvVars => RecvTypes'
  BY DEF RecvTypes, recvVars
<1>14. QED
  BY <1>1, <1>2, <1>3, <1>4, <1>5, <1>6, <1>7, <1>8, <1>9, <1>10, <1>11, <1>12, <1>13


\* The reader's permit is a number of bytes (driver.rs:536-573).
LEMMA PermitTyped == ReaderTypes => ReaderPermit \in Nat
BY DEF ReaderTypes, ReaderPermit, Messages

\* The head of the inbound queue is a message (driver.rs:314-321, 409-413).
LEMMA HeadTyped ==
    ASSUME inbound \in Seq(Messages), inbound # << >>
    PROVE  /\ Tail(inbound) \in Seq(Messages)
           /\ Head(inbound).id \in Nat /\ Head(inbound).size \in Nat
<1>1. Head(inbound) \in Messages /\ Tail(inbound) \in Seq(Messages)
  OBVIOUS
<1>2. QED
  BY <1>1 DEF Messages

\* Answering a sender and releasing its permit leaves typed values
\* (driver.rs:588-645).
LEMMA AnswerTyped ==
    ASSUME NEW s \in Senders, NEW result \in Results, response \in [Senders -> Results],
           outboundBytes \in Nat
    PROVE  /\ Answer(s, result) => response' \in [Senders -> Results]
           /\ Release(s) => outboundBytes' \in Nat
BY SizeAssumption DEF Answer, Release

-----------------------------------------------------------------------------
(* The steps of each actor                                                 *)

\* Every step of the reader task keeps the types (driver.rs:438-573).
LEMMA ReaderKeepsTypes ==
    ASSUME TypeOK, ReaderNext
    PROVE  TypeOK'
<1>1. CASE ReaderCheck
  <2>1. ReaderTypes'
    BY <1>1 DEF TypeOK, ReaderTypes, ReaderPcs, ReaderCheck
  <2>2. QED
    BY <1>1, <2>1, FrameTypes DEF TypeOK, ReaderCheck, readerOthers
<1>2. CASE ReaderSeesSignal
  <2>1. ReaderTypes'
    BY <1>2 DEF TypeOK, ReaderTypes, ReaderPcs, ReaderSeesSignal
  <2>2. SignalTypes'
    BY <1>2 DEF TypeOK, SignalTypes, ReaderSeesSignal
  <2>3. QED
    BY <1>2, <2>1, <2>2, FrameTypes DEF TypeOK, ReaderSeesSignal, readerOthers
<1>3. CASE ReadData
  <2>1. ReaderTypes'
    BY <1>3, ConfigAssumption DEF TypeOK, ReaderTypes, ReaderPcs, ReadData, Messages
  <2>2. QED
    BY <1>3, <2>1, FrameTypes DEF TypeOK, ReadData, readerOthers
<1>4. CASE ReadPing
  <2>1. ReaderTypes'
    BY <1>4 DEF TypeOK, ReaderTypes, ReaderPcs, ReadPing
  <2>2. ControlTypes'
    BY <1>4 DEF TypeOK, ControlTypes, ReadPing
  <2>3. QED
    BY <1>4, <2>1, <2>2, FrameTypes DEF TypeOK, ReadPing, readerOthers
<1>5. CASE ReadEnd
  <2>1. ReaderTypes'
    BY <1>5 DEF TypeOK, ReaderTypes, ReaderPcs, ReadEnd
  <2>2. SocketTypes'
    BY <1>5 DEF TypeOK, SocketTypes, ReadEnd
  <2>3. QED
    BY <1>5, <2>1, <2>2, FrameTypes DEF TypeOK, ReadEnd, readerOthers
<1>6. CASE ReadError
  <2>1. ReaderTypes'
    BY <1>6, ErrorsTyped DEF TypeOK, ReaderTypes, ReaderPcs, ReadError, Causes, Outcomes
  <2>2. QED
    BY <1>6, <2>1, FrameTypes DEF TypeOK, ReadError, readerOthers
<1>7. CASE ReadClose
  <2>1. ReaderTypes'
    BY <1>7 DEF TypeOK, ReaderTypes, ReaderPcs, ReadClose, CloseFrames
  <2>2. SocketTypes'
    BY <1>7 DEF TypeOK, SocketTypes, ReadClose
  <2>3. QED
    BY <1>7, <2>1, <2>2, FrameTypes DEF TypeOK, ReadClose, readerOthers
<1>8. CASE QueueCheck
  <2>1. ReaderTypes'
    <3>1. readerMsg' \in Messages /\ readerPc' \in {"check", "acquire"}
      BY <1>8 DEF TypeOK, ReaderTypes, QueueCheck, Messages, NoMessage
    <3>2. UNCHANGED <<readerFrame, readerOutcome, dataRead, pingsRead>>
      BY <1>8 DEF QueueCheck
    <3>3. QED
      BY <1>8, <3>1, <3>2 DEF TypeOK, ReaderTypes, ReaderPcs
  <2>2. QED
    BY <1>8, <2>1, FrameTypes DEF TypeOK, QueueCheck, readerOthers
<1>9. CASE AcquireInbound
  <2>1. ReaderTypes'
    BY <1>9 DEF TypeOK, ReaderTypes, ReaderPcs, AcquireInbound
  <2>2. InboundTypes'
    BY <1>9 DEF TypeOK, InboundTypes, AcquireInbound, ReaderTypes, Messages
  <2>3. QED
    BY <1>9, <2>1, <2>2, FrameTypes DEF TypeOK, AcquireInbound, readerOthers
<1>10. CASE Enqueue
  <2>1. ReaderTypes'
    BY <1>10 DEF TypeOK, ReaderTypes, ReaderPcs, Enqueue, Messages, NoMessage
  <2>2. InboundTypes'
    BY <1>10 DEF TypeOK, InboundTypes, Enqueue, ReaderTypes
  <2>3. QED
    BY <1>10, <2>1, <2>2, FrameTypes DEF TypeOK, Enqueue, readerOthers
<1>11. CASE AbandonMessage
  <2>1. ReaderTypes'
    BY <1>11 DEF TypeOK, ReaderTypes, ReaderPcs, AbandonMessage, Messages, NoMessage
  <2>2. SignalTypes'
    BY <1>11 DEF TypeOK, SignalTypes, AbandonMessage
  <2>3. InboundTypes'
    <3>1. inbound' = inbound /\ inboundBytes' = inboundBytes + ReaderPermit
      BY <1>11 DEF AbandonMessage
    <3>2. QED
      BY <1>11, <3>1, PermitTyped DEF TypeOK, InboundTypes
  <2>4. QED
    BY <1>11, <2>1, <2>2, <2>3, FrameTypes DEF TypeOK, AbandonMessage, readerOthers
<1>12. CASE EnqueueFails
  <2>1. ReaderTypes'
    BY <1>12 DEF TypeOK, ReaderTypes, ReaderPcs, EnqueueFails, Messages, NoMessage
  <2>2. InboundTypes'
    <3>1. inbound' = inbound /\ inboundBytes' = inboundBytes + ReaderPermit
      BY <1>12 DEF EnqueueFails
    <3>2. QED
      BY <1>12, <3>1, PermitTyped DEF TypeOK, InboundTypes
  <2>3. QED
    BY <1>12, <2>1, <2>2, FrameTypes DEF TypeOK, EnqueueFails, readerOthers
<1>13. CASE LoadClosing
  <2>1. ReaderTypes'
    BY <1>13, ErrorsTyped
       DEF TypeOK, ReaderTypes, ReaderPcs, LoadClosing, FlagTypes, Causes, Outcomes
  <2>2. QED
    BY <1>13, <2>1, FrameTypes DEF TypeOK, LoadClosing, readerOthers
<1>14. CASE StoreClosing
  <2>1. ReaderTypes'
    BY <1>14 DEF TypeOK, ReaderTypes, ReaderPcs, StoreClosing
  <2>2. FlagTypes'
    BY <1>14 DEF TypeOK, FlagTypes, StoreClosing
  <2>3. QED
    BY <1>14, <2>1, <2>2, FrameTypes DEF TypeOK, StoreClosing, readerOthers
<1>15. CASE PublishPeerClosed
  <2>1. ReaderTypes'
    BY <1>15 DEF TypeOK, ReaderTypes, ReaderPcs, PublishPeerClosed
  <2>2. StateTypes'
    BY <1>15, StatesTyped DEF TypeOK, StateTypes, PublishPeerClosed, ReaderTypes
  <2>3. QED
    BY <1>15, <2>1, <2>2, FrameTypes DEF TypeOK, PublishPeerClosed, readerOthers
<1>16. CASE SignalPeerClose
  <2>1. ReaderTypes'
    BY <1>16 DEF TypeOK, ReaderTypes, ReaderPcs, SignalPeerClose
  <2>2. SignalTypes'
    BY <1>16
       DEF TypeOK, SignalTypes, SignalPeerClose, Signal, signal_peer_close, ShutdownSignals
  <2>3. QED
    BY <1>16, <2>1, <2>2, FrameTypes DEF TypeOK, SignalPeerClose, readerOthers
<1>17. CASE ReaderSeesTerminal
  <2>1. ReaderTypes'
    BY <1>17 DEF TypeOK, ReaderTypes, ReaderPcs, ReaderSeesTerminal
  <2>2. QED
    BY <1>17, <2>1, FrameTypes DEF TypeOK, ReaderSeesTerminal, readerOthers
<1>18. CASE ReaderTimesOut
  <2>1. ReaderTypes'
    BY <1>18 DEF TypeOK, ReaderTypes, ReaderPcs, ReaderTimesOut
  <2>2. QED
    BY <1>18, <2>1, FrameTypes DEF TypeOK, ReaderTimesOut, readerOthers
<1>19. CASE ReaderPublishes
  <2>1. ReaderTypes'
    BY <1>19 DEF TypeOK, ReaderTypes, ReaderPcs, ReaderPublishes
  <2>2. StateTypes'
    BY <1>19, StatesTyped DEF TypeOK, StateTypes, ReaderPublishes, ReaderTypes
  <2>3. QED
    BY <1>19, <2>1, <2>2, FrameTypes DEF TypeOK, ReaderPublishes, readerOthers
<1>20. CASE ReaderSignalsAbort
  <2>1. ReaderTypes'
    BY <1>20 DEF TypeOK, ReaderTypes, ReaderPcs, ReaderSignalsAbort
  <2>2. SignalTypes'
    BY <1>20 DEF TypeOK, SignalTypes, ReaderSignalsAbort, Signal, signal_abort, ShutdownSignals
  <2>3. QED
    BY <1>20, <2>1, <2>2, FrameTypes DEF TypeOK, ReaderSignalsAbort, readerOthers
<1>21. CASE ReaderAbortsWriter
  <2>1. ReaderTypes'
    BY <1>21 DEF TypeOK, ReaderTypes, ReaderPcs, ReaderAbortsWriter
  <2>2. TaskTypes'
    BY <1>21 DEF TypeOK, TaskTypes, ReaderAbortsWriter
  <2>3. QED
    BY <1>21, <2>1, <2>2, FrameTypes DEF TypeOK, ReaderAbortsWriter, readerOthers
<1>22. CASE ReaderCancelled
  <2>1. ReaderTypes'
    BY <1>22 DEF TypeOK, ReaderTypes, ReaderPcs, ReaderCancelled, Messages, NoMessage
  <2>2. InboundTypes'
    <3>1. inbound' = inbound /\ inboundBytes' = inboundBytes + ReaderPermit
      BY <1>22 DEF ReaderCancelled
    <3>2. QED
      BY <1>22, <3>1, PermitTyped DEF TypeOK, InboundTypes
  <2>3. QED
    BY <1>22, <2>1, <2>2, FrameTypes DEF TypeOK, ReaderCancelled, readerOthers
<1>23. CASE ReaderDropsContext
  <2>1. ReaderTypes'
    BY <1>23 DEF TypeOK, ReaderTypes, ReaderPcs, ReaderDropsContext
  <2>2. QED
    BY <1>23, <2>1, FrameTypes DEF TypeOK, ReaderDropsContext, readerOthers
<1>24. CASE ReaderStops
  <2>1. ReaderTypes'
    BY <1>24 DEF TypeOK, ReaderTypes, ReaderPcs, ReaderStops
  <2>2. TaskTypes'
    BY <1>24 DEF TypeOK, TaskTypes, ReaderStops, TaskEnded
  <2>3. QED
    BY <1>24, <2>1, <2>2, FrameTypes DEF TypeOK, ReaderStops, readerOthers
<1>25. QED
  BY <1>1, <1>2, <1>3, <1>4, <1>5, <1>6, <1>7, <1>8, <1>9, <1>10, <1>11, <1>12, <1>13, <1>14,
     <1>15, <1>16, <1>17, <1>18, <1>19, <1>20, <1>21, <1>22, <1>23, <1>24
     DEF ReaderNext, ReaderInput, ReaderStep

\* Every step of the writer task keeps the types (driver.rs:575-716).
LEMMA WriterKeepsTypes ==
    ASSUME TypeOK, WriterNext
    PROVE  TypeOK'
<1>1. CASE WriterSeesSignal
  <2>1. WriterTypes'
    BY <1>1 DEF TypeOK, WriterTypes, WriterPcs, WriterSeesSignal, SignalTypes, ShutdownSignals
  <2>2. SignalTypes'
    BY <1>1 DEF TypeOK, SignalTypes, WriterSeesSignal
  <2>3. QED
    BY <1>1, <2>1, <2>2, FrameTypes DEF TypeOK, WriterSeesSignal, writerOthers
<1>2. CASE WriterPollsEvents \/ WriterFindsNothing
  <2>1. WriterTypes'
    BY <1>2 DEF TypeOK, WriterTypes, WriterPcs, WriterPollsEvents, WriterFindsNothing
  <2>2. QED
    BY <1>2, <2>1, FrameTypes DEF TypeOK, WriterPollsEvents, WriterFindsNothing, writerOthers
<1>3. CASE TakeFlush
  <2>1. WriterTypes'
    BY <1>3 DEF TypeOK, WriterTypes, WriterPcs, TakeFlush
  <2>2. ControlTypes'
    BY <1>3 DEF TypeOK, ControlTypes, TakeFlush
  <2>3. QED
    BY <1>3, <2>1, <2>2, FrameTypes DEF TypeOK, TakeFlush, writerOthers
<1>4. CASE TakeControlClosed
  <2>1. WriterTypes'
    BY <1>4, ErrorsTyped DEF TypeOK, WriterTypes, WriterPcs, TakeControlClosed, Causes, Outcomes
  <2>2. QED
    BY <1>4, <2>1, FrameTypes DEF TypeOK, TakeControlClosed, writerOthers
<1>5. CASE TakeCommand
  <2>1. WriterTypes'
    BY <1>5 DEF TypeOK, WriterTypes, WriterPcs, TakeCommand, OutboundTypes
  <2>2. OutboundTypes'
    BY <1>5 DEF TypeOK, OutboundTypes, TakeCommand
  <2>3. QED
    BY <1>5, <2>1, <2>2, FrameTypes DEF TypeOK, TakeCommand, writerOthers
<1>6. CASE TakeOutboundClosed
  <2>1. WriterTypes'
    BY <1>6 DEF TypeOK, WriterTypes, WriterPcs, TakeOutboundClosed
  <2>2. QED
    BY <1>6, <2>1, FrameTypes DEF TypeOK, TakeOutboundClosed, writerOthers
<1>7. CASE WriteCommand
  <2>1. WriterTypes'
    BY <1>7 DEF TypeOK, WriterTypes, WriterPcs, WriteCommand
  <2>2. SocketTypes'
    <3>1. ws' = ws /\ flushed' = flushed /\ wire' = Append(wire, writerCmd) /\ writerCmd \in Senders
      BY <1>7 DEF TypeOK, WriterTypes, WriteCommand
    <3>2. QED
      BY <1>7, <3>1 DEF TypeOK, SocketTypes
  <2>3. QED
    BY <1>7, <2>1, <2>2, FrameTypes DEF TypeOK, WriteCommand, writerOthers
<1>8. CASE WriteClose
  <2>1. WriterTypes'
    BY <1>8 DEF TypeOK, WriterTypes, WriterPcs, WriteClose
  <2>2. SocketTypes'
    <3>1. ws' = "ClosedByUs" /\ flushed' = flushed /\ wire' = Append(wire, CloseSent)
      BY <1>8 DEF WriteClose
    <3>2. QED
      BY <1>8, <3>1 DEF TypeOK, SocketTypes
  <2>3. QED
    BY <1>8, <2>1, <2>2, FrameTypes DEF TypeOK, WriteClose, writerOthers
<1>9. CASE WriteRefused
  <2>1. WriterTypes'
    BY <1>9, ErrorsTyped DEF TypeOK, WriterTypes, WriterPcs, WriteRefused, Causes, Outcomes
  <2>2. QED
    BY <1>9, <2>1, FrameTypes DEF TypeOK, WriteRefused, writerOthers
<1>10. CASE Flush
  <2>1. WriterTypes'
    BY <1>10 DEF TypeOK, WriterTypes, WriterPcs, Flush
  <2>2. SocketTypes'
    <3>1. ws' = ws /\ wire' = wire /\ flushed' = Len(wire)
      BY <1>10 DEF Flush
    <3>2. QED
      BY <1>10, <3>1 DEF TypeOK, SocketTypes
  <2>3. QED
    BY <1>10, <2>1, <2>2, FrameTypes DEF TypeOK, Flush, writerOthers
<1>11. CASE WriteFails
  <2>1. WriterTypes'
    BY <1>11, ErrorsTyped DEF TypeOK, WriterTypes, WriterPcs, WriteFails, Causes, Outcomes
  <2>2. QED
    BY <1>11, <2>1, FrameTypes DEF TypeOK, WriteFails, writerOthers
<1>12. CASE Respond
  <2>1. WriterTypes'
    BY <1>12 DEF TypeOK, WriterTypes, WriterPcs, Respond
  <2>2. OutboundTypes'
    BY <1>12, ErrorsTyped DEF TypeOK, OutboundTypes, Respond, Answer, WriterTypes
  <2>3. QED
    BY <1>12, <2>1, <2>2, FrameTypes DEF TypeOK, Respond, writerOthers
<1>13. CASE ReleasePermit
  <2>1. WriterTypes'
    BY <1>13 DEF TypeOK, WriterTypes, WriterPcs, ReleasePermit
  <2>2. OutboundTypes'
    BY <1>13, SizeAssumption DEF TypeOK, OutboundTypes, ReleasePermit, Release, WriterTypes
  <2>3. QED
    BY <1>13, <2>1, <2>2, FrameTypes DEF TypeOK, ReleasePermit, writerOthers
<1>14. CASE AwaitPeer
  <2>1. WriterTypes'
    BY <1>14 DEF TypeOK, WriterTypes, WriterPcs, AwaitPeer
  <2>2. SignalTypes'
    BY <1>14 DEF TypeOK, SignalTypes, AwaitPeer
  <2>3. QED
    BY <1>14, <2>1, <2>2, FrameTypes DEF TypeOK, AwaitPeer, writerOthers
<1>15. CASE PublishOutcome
  <2>1. WriterTypes'
    BY <1>15 DEF TypeOK, WriterTypes, WriterPcs, PublishOutcome
  <2>2. StateTypes'
    BY <1>15, StatesTyped DEF TypeOK, StateTypes, PublishOutcome
  <2>3. QED
    BY <1>15, <2>1, <2>2, FrameTypes DEF TypeOK, PublishOutcome, writerOthers
<1>16. CASE PublishFailure
  <2>1. WriterTypes'
    BY <1>16, StatesTyped
       DEF TypeOK, WriterTypes, WriterPcs, PublishFailure, StateTypes, Outcomes
  <2>2. StateTypes'
    BY <1>16, StatesTyped DEF TypeOK, StateTypes, PublishFailure, WriterTypes
  <2>3. QED
    BY <1>16, <2>1, <2>2, FrameTypes DEF TypeOK, PublishFailure, writerOthers
<1>17. CASE WriterSignalsAbort
  <2>1. WriterTypes'
    BY <1>17 DEF TypeOK, WriterTypes, WriterPcs, WriterSignalsAbort
  <2>2. SignalTypes'
    BY <1>17 DEF TypeOK, SignalTypes, WriterSignalsAbort, Signal, signal_abort, ShutdownSignals
  <2>3. QED
    BY <1>17, <2>1, <2>2, FrameTypes DEF TypeOK, WriterSignalsAbort, writerOthers
<1>18. CASE RespondFailure
  <2>1. WriterTypes'
    BY <1>18 DEF TypeOK, WriterTypes, WriterPcs, RespondFailure
  <2>2. OutboundTypes'
    <3>1. writerCmd \in Senders /\ writerError \in Results
      BY <1>18, ErrorsTyped DEF TypeOK, WriterTypes, RespondFailure
    <3>2. outbound' = outbound /\ Answer(writerCmd, writerError) /\ Release(writerCmd)
      BY <1>18 DEF RespondFailure
    <3>3. QED
      BY <1>18, <3>1, <3>2, AnswerTyped DEF TypeOK, OutboundTypes
  <2>3. QED
    BY <1>18, <2>1, <2>2, FrameTypes DEF TypeOK, RespondFailure, writerOthers
<1>19. CASE WriterCancelled
  <2>1. WriterTypes'
    BY <1>19 DEF TypeOK, WriterTypes, WriterPcs, WriterCancelled
  <2>2. OutboundTypes'
    <3>1. outbound' = outbound
      BY <1>19 DEF WriterCancelled
    <3>2. CASE writerCmd = NoCommand
      BY <1>19, <3>2 DEF TypeOK, OutboundTypes, WriterCancelled
    <3>3. CASE writerCmd # NoCommand
      BY <1>19, <3>3, <3>1, AnswerTyped, ErrorsTyped
         DEF TypeOK, OutboundTypes, WriterTypes, WriterCancelled
    <3>4. QED
      BY <1>19, <3>2, <3>3
  <2>3. QED
    BY <1>19, <2>1, <2>2, FrameTypes DEF TypeOK, WriterCancelled, writerOthers
<1>20. CASE WriterClosesQueue
  <2>1. WriterTypes'
    BY <1>20 DEF TypeOK, WriterTypes, WriterPcs, WriterClosesQueue
  <2>2. QED
    BY <1>20, <2>1, FrameTypes DEF TypeOK, WriterClosesQueue, writerOthers
<1>21. CASE DrainCommand
  <2>1. WriterTypes'
    BY <1>21 DEF TypeOK, WriterTypes, WriterPcs, DrainCommand
  <2>2. OutboundTypes'
    <3>1. Head(outbound) \in Senders /\ outbound' \in Seq(Senders)
      BY <1>21 DEF TypeOK, OutboundTypes, DrainCommand
    <3>2. Answer(Head(outbound), Dropped) /\ Release(Head(outbound))
      BY <1>21 DEF DrainCommand
    <3>3. QED
      BY <1>21, <3>1, <3>2, AnswerTyped, ErrorsTyped DEF TypeOK, OutboundTypes
  <2>3. QED
    BY <1>21, <2>1, <2>2, FrameTypes DEF TypeOK, DrainCommand, writerOthers
<1>22. CASE WriterDropsQueue
  <2>1. WriterTypes'
    BY <1>22 DEF TypeOK, WriterTypes, WriterPcs, WriterDropsQueue
  <2>2. QED
    BY <1>22, <2>1, FrameTypes DEF TypeOK, WriterDropsQueue, writerOthers
<1>23. CASE WriterStops
  <2>1. WriterTypes'
    BY <1>23 DEF TypeOK, WriterTypes, WriterPcs, WriterStops
  <2>2. TaskTypes'
    BY <1>23 DEF TypeOK, TaskTypes, WriterStops, TaskEnded
  <2>3. QED
    BY <1>23, <2>1, <2>2, FrameTypes DEF TypeOK, WriterStops, writerOthers
<1>24. QED
  BY <1>1, <1>2, <1>3, <1>4, <1>5, <1>6, <1>7, <1>8, <1>9, <1>10, <1>11, <1>12, <1>13, <1>14,
     <1>15, <1>16, <1>17, <1>18, <1>19, <1>20, <1>21, <1>22, <1>23
     DEF WriterNext, WriterIO, WriterStep

\* Every step of a close() keeps the types (driver.rs:323-388).
LEMMA CloserKeepsTypes ==
    ASSUME NEW c \in Closers, TypeOK, CloserNext(c)
    PROVE  TypeOK'
<1>1. CASE CloseStart(c)
  <2>1. CloseTypes'
    BY <1>1, StatesTyped
       DEF TypeOK, CloseTypes, ClosePcs, HoldsGuard, CloseStart, StateTypes, Outcomes
  <2>2. QED
    BY <1>1, <2>1, FrameTypes DEF TypeOK, CloseStart, closeOthers
<1>2. CASE CloseTakesGuard(c)
  <2>1. CloseTypes'
    BY <1>2 DEF TypeOK, CloseTypes, ClosePcs, HoldsGuard, CloseTakesGuard, At
  <2>2. TaskTypes'
    BY <1>2 DEF TypeOK, TaskTypes, CloseTakesGuard, TaskStarted
  <2>3. QED
    BY <1>2, <2>1, <2>2, FrameTypes DEF TypeOK, CloseTakesGuard, closeOthers
<1>3. CASE CloseSwap(c)
  <2>1. CloseTypes'
    BY <1>3 DEF TypeOK, CloseTypes, ClosePcs, HoldsGuard, CloseSwap, At
  <2>2. FlagTypes'
    BY <1>3 DEF TypeOK, FlagTypes, CloseSwap
  <2>3. QED
    BY <1>3, <2>1, <2>2, FrameTypes DEF TypeOK, CloseSwap, closeOthers
<1>4. CASE ClosePublish(c)
  <2>1. CloseTypes'
    BY <1>4 DEF TypeOK, CloseTypes, ClosePcs, HoldsGuard, ClosePublish, At
  <2>2. StateTypes'
    BY <1>4, StatesTyped DEF TypeOK, StateTypes, ClosePublish
  <2>3. QED
    BY <1>4, <2>1, <2>2, FrameTypes DEF TypeOK, ClosePublish, closeOthers
<1>5. CASE CloseSignal(c)
  <2>1. CloseTypes'
    BY <1>5 DEF TypeOK, CloseTypes, ClosePcs, HoldsGuard, CloseSignal, At
  <2>2. SignalTypes'
    BY <1>5 DEF TypeOK, SignalTypes, CloseSignal, Signal, signal_local_close, ShutdownSignals
  <2>3. QED
    BY <1>5, <2>1, <2>2, FrameTypes DEF TypeOK, CloseSignal, closeOthers
<1>6. CASE CloseArm(c)
  <2>1. CloseTypes'
    BY <1>6 DEF TypeOK, CloseTypes, ClosePcs, HoldsGuard, CloseArm, At, WatchdogPcs
  <2>2. FlagTypes'
    BY <1>6 DEF TypeOK, FlagTypes, CloseArm
  <2>3. QED
    BY <1>6, <2>1, <2>2, FrameTypes DEF TypeOK, CloseArm, closeOthers
<1>7. CASE CloseDropsGuard(c)
  <2>1. CloseTypes'
    BY <1>7 DEF TypeOK, CloseTypes, ClosePcs, HoldsGuard, CloseDropsGuard, At
  <2>2. TaskTypes'
    <3>1. TaskEnded /\ UNCHANGED <<readerAborted, writerAborted>>
      BY <1>7 DEF CloseDropsGuard
    <3>2. QED
      BY <1>7, <3>1 DEF TypeOK, TaskTypes, TaskEnded
  <2>3. QED
    BY <1>7, <2>1, <2>2, FrameTypes DEF TypeOK, CloseDropsGuard, closeOthers
<1>8. CASE CloseSeesTerminal(c)
  <2>1. CloseTypes'
    BY <1>8, StatesTyped
       DEF TypeOK, CloseTypes, ClosePcs, HoldsGuard, CloseSeesTerminal, At, StateTypes,
           Outcomes
  <2>2. QED
    BY <1>8, <2>1, FrameTypes DEF TypeOK, CloseSeesTerminal, closeOthers
<1>9. CASE CloseReturns(c)
  <2>1. CloseTypes'
    BY <1>9, ErrorsTyped DEF TypeOK, CloseTypes, ClosePcs, HoldsGuard, CloseReturns, At
  <2>2. QED
    BY <1>9, <2>1, FrameTypes DEF TypeOK, CloseReturns, closeOthers
<1>10. CASE CloseCancelled(c)
  <2>1. CloseTypes'
    BY <1>10, ErrorsTyped DEF TypeOK, CloseTypes, ClosePcs, HoldsGuard, CloseCancelled
  <2>2. QED
    BY <1>10, <2>1, FrameTypes DEF TypeOK, CloseCancelled, closeOthers
<1>11. QED
  BY <1>1, <1>2, <1>3, <1>4, <1>5, <1>6, <1>7, <1>8, <1>9, <1>10 DEF CloserNext, CloseStep

\* Every step of the watchdog keeps the types (driver.rs:380-387).
LEMMA WatchdogKeepsTypes ==
    ASSUME TypeOK, WatchdogStep
    PROVE  TypeOK'
<1>1. CASE WatchdogSeesTerminal
  <2>1. CloseTypes'
    BY <1>1
       DEF TypeOK, CloseTypes, ClosePcs, HoldsGuard, WatchdogSeesTerminal, WatchdogPcs,
           watchdogOthers, closeOthers
  <2>2. QED
    BY <1>1, <2>1, FrameTypes DEF TypeOK, WatchdogSeesTerminal, watchdogOthers, closeOthers
<1>2. CASE WatchdogExpires
  <2>1. CloseTypes'
    BY <1>2
       DEF TypeOK, CloseTypes, ClosePcs, HoldsGuard, WatchdogExpires, WatchdogPcs,
           watchdogOthers, closeOthers
  <2>2. QED
    BY <1>2, <2>1, FrameTypes DEF TypeOK, WatchdogExpires, watchdogOthers, closeOthers
<1>3. CASE WatchdogPublishes
  <2>1. CloseTypes'
    BY <1>3
       DEF TypeOK, CloseTypes, ClosePcs, HoldsGuard, WatchdogPublishes, WatchdogPcs,
           watchdogOthers, closeOthers
  <2>2. StateTypes'
    BY <1>3, StatesTyped DEF TypeOK, StateTypes, WatchdogPublishes
  <2>3. QED
    BY <1>3, <2>1, <2>2, FrameTypes DEF TypeOK, WatchdogPublishes, watchdogOthers, closeOthers
<1>4. CASE WatchdogAbortsReader
  <2>1. CloseTypes'
    BY <1>4
       DEF TypeOK, CloseTypes, ClosePcs, HoldsGuard, WatchdogAbortsReader, WatchdogPcs,
           watchdogOthers, closeOthers
  <2>2. TaskTypes'
    BY <1>4 DEF TypeOK, TaskTypes, WatchdogAbortsReader
  <2>3. QED
    BY <1>4, <2>1, <2>2, FrameTypes
       DEF TypeOK, WatchdogAbortsReader, watchdogOthers, closeOthers
<1>5. CASE WatchdogAbortsWriter
  <2>1. CloseTypes'
    BY <1>5
       DEF TypeOK, CloseTypes, ClosePcs, HoldsGuard, WatchdogAbortsWriter, WatchdogPcs,
           watchdogOthers, closeOthers
  <2>2. TaskTypes'
    BY <1>5 DEF TypeOK, TaskTypes, WatchdogAbortsWriter
  <2>3. QED
    BY <1>5, <2>1, <2>2, FrameTypes
       DEF TypeOK, WatchdogAbortsWriter, watchdogOthers, closeOthers
<1>6. CASE WatchdogStops
  <2>1. CloseTypes'
    BY <1>6
       DEF TypeOK, CloseTypes, ClosePcs, HoldsGuard, WatchdogStops, WatchdogPcs,
           watchdogOthers, closeOthers
  <2>2. TaskTypes'
    BY <1>6 DEF TypeOK, TaskTypes, WatchdogStops, TaskEnded
  <2>3. QED
    BY <1>6, <2>1, <2>2, FrameTypes DEF TypeOK, WatchdogStops, watchdogOthers, closeOthers
<1>7. QED
  BY <1>1, <1>2, <1>3, <1>4, <1>5, <1>6 DEF WatchdogStep

\* Every step of abort() and of the drop keeps the types (driver.rs:344-351,
\* 409-413).
LEMMA AbandonKeepsTypes ==
    ASSUME TypeOK, AbandonNext
    PROVE  TypeOK'
<1>1. CASE AbandonStores
  <2>1. CloseTypes'
    BY <1>1
       DEF TypeOK, CloseTypes, ClosePcs, HoldsGuard, AbandonStores, AbandonStep, AbandonPcs,
           abandonOthers, closeOthers
  <2>2. FlagTypes'
    BY <1>1 DEF TypeOK, FlagTypes, AbandonStores
  <2>3. QED
    BY <1>1, <2>1, <2>2, FrameTypes DEF TypeOK, AbandonStores, abandonOthers, closeOthers
<1>2. CASE AbandonPublishes
  <2>1. CloseTypes'
    BY <1>2
       DEF TypeOK, CloseTypes, ClosePcs, HoldsGuard, AbandonPublishes, AbandonStep,
           AbandonPcs, abandonOthers, closeOthers
  <2>2. StateTypes'
    BY <1>2, StatesTyped, ErrorsTyped DEF TypeOK, StateTypes, AbandonPublishes, Causes
  <2>3. QED
    BY <1>2, <2>1, <2>2, FrameTypes DEF TypeOK, AbandonPublishes, abandonOthers, closeOthers
<1>3. CASE AbandonSignals
  <2>1. CloseTypes'
    BY <1>3
       DEF TypeOK, CloseTypes, ClosePcs, HoldsGuard, AbandonSignals, AbandonStep, AbandonPcs,
           abandonOthers, closeOthers
  <2>2. SignalTypes'
    BY <1>3 DEF TypeOK, SignalTypes, AbandonSignals, Signal, signal_abort, ShutdownSignals
  <2>3. QED
    BY <1>3, <2>1, <2>2, FrameTypes DEF TypeOK, AbandonSignals, abandonOthers, closeOthers
<1>4. CASE AbandonAbortsReader
  <2>1. CloseTypes'
    BY <1>4
       DEF TypeOK, CloseTypes, ClosePcs, HoldsGuard, AbandonAbortsReader, AbandonStep,
           AbandonPcs, abandonOthers, closeOthers
  <2>2. TaskTypes'
    BY <1>4 DEF TypeOK, TaskTypes, AbandonAbortsReader
  <2>3. QED
    BY <1>4, <2>1, <2>2, FrameTypes DEF TypeOK, AbandonAbortsReader, abandonOthers, closeOthers
<1>5. CASE AbandonAbortsWriter
  <2>1. CloseTypes'
    BY <1>5
       DEF TypeOK, CloseTypes, ClosePcs, HoldsGuard, AbandonAbortsWriter, AbandonStep,
           AbandonPcs, abandonOthers, closeOthers
  <2>2. TaskTypes'
    BY <1>5 DEF TypeOK, TaskTypes, AbandonAbortsWriter
  <2>3. QED
    BY <1>5, <2>1, <2>2, FrameTypes DEF TypeOK, AbandonAbortsWriter, abandonOthers, closeOthers
<1>6. CASE DropDriver
  <2>1. CloseTypes'
    BY <1>6
       DEF TypeOK, CloseTypes, ClosePcs, HoldsGuard, DropDriver, AbandonStep, AbandonPcs,
           abandonOthers, closeOthers
  <2>2. QED
    BY <1>6, <2>1, FrameTypes DEF TypeOK, DropDriver, abandonOthers, closeOthers
<1>7. CASE DropInbound
  <2>1. InboundTypes'
    <3>1. QED
      BY <1>7, HeadTyped DEF TypeOK, InboundTypes, DropInbound
  <2>2. QED
    BY <1>7, <2>1, FrameTypes DEF TypeOK, DropInbound, recvOthers
<1>8. QED
  BY <1>1, <1>2, <1>3, <1>4, <1>5, <1>6, <1>7 DEF AbandonNext, AbandonRest

\* Every step of a send keeps the types (driver.rs:246-312).
LEMMA SenderKeepsTypes ==
    ASSUME NEW s \in Senders, TypeOK, SenderNext(s)
    PROVE  TypeOK'
<1>1. CASE SendValidate(s)
  <2>1. SendTypes'
    BY <1>1, StatesTyped, ErrorsTyped
       DEF TypeOK, SendTypes, SendPcs, SendValidate, Finish, StateTypes, Limits
  <2>2. QED
    BY <1>1, <2>1, FrameTypes DEF TypeOK, SendValidate, sendOthers
<1>2. CASE SendAcquire(s)
  <2>1. SendTypes'
    BY <1>2, ErrorsTyped DEF TypeOK, SendTypes, SendPcs, SendAcquire, Finish, Limits
  <2>2. OutboundTypes'
    <3>1. outboundBytes \in Nat /\ Size[s] \in Nat
      BY <1>2, SizeAssumption DEF TypeOK, OutboundTypes
    <3>2. \/ outboundBytes' = outboundBytes
          \/ outboundBytes >= Size[s] /\ outboundBytes' = outboundBytes - Size[s]
      BY <1>2 DEF SendAcquire
    <3>3. outboundBytes' \in Nat
      BY <1>2, <3>1, <3>2
    <3>4. UNCHANGED <<outbound, response>>
      BY <1>2 DEF SendAcquire
    <3>5. QED
      BY <1>2, <3>3, <3>4 DEF TypeOK, OutboundTypes
  <2>3. QED
    BY <1>2, <2>1, <2>2, FrameTypes DEF TypeOK, SendAcquire, sendOthers
<1>3. CASE SendReserve(s)
  <2>1. SendTypes'
    BY <1>3, StatesTyped, ErrorsTyped
       DEF TypeOK, SendTypes, SendPcs, SendReserve, Finish, StateTypes, Limits
  <2>2. OutboundTypes'
    <3>1. outboundBytes \in Nat /\ Size[s] \in Nat
      BY <1>3, SizeAssumption DEF TypeOK, OutboundTypes
    <3>2. \/ outboundBytes' = outboundBytes
          \/ outboundBytes' = outboundBytes + Size[s]
      BY <1>3 DEF SendReserve
    <3>3. outboundBytes' \in Nat
      BY <1>3, <3>1, <3>2
    <3>4. UNCHANGED <<outbound, response>>
      BY <1>3 DEF SendReserve
    <3>5. QED
      BY <1>3, <3>3, <3>4 DEF TypeOK, OutboundTypes
  <2>3. QED
    BY <1>3, <2>1, <2>2, FrameTypes DEF TypeOK, SendReserve, sendOthers
<1>4. CASE SendPush(s)
  <2>1. SendTypes'
    BY <1>4 DEF TypeOK, SendTypes, SendPcs, SendPush, At
  <2>2. OutboundTypes'
    BY <1>4 DEF TypeOK, OutboundTypes, SendPush
  <2>3. QED
    BY <1>4, <2>1, <2>2, FrameTypes DEF TypeOK, SendPush, sendOthers
<1>5. CASE SendReturns(s)
  <2>1. SendTypes'
    BY <1>5, StatesTyped, ErrorsTyped
       DEF TypeOK, SendTypes, SendPcs, SendReturns, Finish, StateTypes, OutboundTypes
  <2>2. QED
    BY <1>5, <2>1, FrameTypes DEF TypeOK, SendReturns, sendOthers
<1>6. CASE SendCancelled(s)
  <2>1. SendTypes'
    BY <1>6, ErrorsTyped DEF TypeOK, SendTypes, SendPcs, SendCancelled, At
  <2>2. QED
    BY <1>6, <2>1, FrameTypes DEF TypeOK, SendCancelled, sendOthers
<1>7. QED
  BY <1>1, <1>2, <1>3, <1>4, <1>5, <1>6 DEF SenderNext, SendStep

\* Every step of a receive() keeps the types (driver.rs:314-321, 415-436).
LEMMA ReceiverKeepsTypes ==
    ASSUME NEW r \in Receivers, TypeOK, ReceiverNext(r)
    PROVE  TypeOK'
<1>1. CASE ReceiveClaim(r)
  <2>1. RecvTypes'
    BY <1>1, ErrorsTyped DEF TypeOK, RecvTypes, RecvPcs, ReceiveClaim
  <2>2. QED
    BY <1>1, <2>1, FrameTypes DEF TypeOK, ReceiveClaim, recvOthers
<1>2. CASE ReceiveMessage(r)
  <2>1. RecvTypes'
    <3>1. delivered' \in Seq(Nat)
      BY <1>2, HeadTyped DEF TypeOK, InboundTypes, RecvTypes, ReceiveMessage
    <3>2. recvPc' \in [Receivers -> RecvPcs] /\ recvResult' \in [Receivers -> Results]
      BY <1>2, ErrorsTyped DEF TypeOK, RecvTypes, RecvPcs, ReceiveMessage, At
    <3>3. receiveActive' \in BOOLEAN
      BY <1>2 DEF TypeOK, RecvTypes, ReceiveMessage
    <3>4. QED
      BY <1>2, <3>1, <3>2, <3>3 DEF RecvTypes
  <2>2. InboundTypes'
    <3>1. QED
      BY <1>2, HeadTyped DEF TypeOK, InboundTypes, ReceiveMessage
  <2>3. QED
    BY <1>2, <2>1, <2>2, FrameTypes DEF TypeOK, ReceiveMessage, recvOthers
<1>3. CASE ReceiveEnd(r)
  <2>1. RecvTypes'
    BY <1>3, StatesTyped, ErrorsTyped DEF TypeOK, RecvTypes, RecvPcs, ReceiveEnd, At, StateTypes
  <2>2. QED
    BY <1>3, <2>1, FrameTypes DEF TypeOK, ReceiveEnd, recvOthers
<1>4. CASE ReceiveCancelled(r)
  <2>1. RecvTypes'
    BY <1>4, ErrorsTyped DEF TypeOK, RecvTypes, RecvPcs, ReceiveCancelled, At
  <2>2. QED
    BY <1>4, <2>1, FrameTypes DEF TypeOK, ReceiveCancelled, recvOthers
<1>5. CASE ReceiveUnclaims(r)
  <2>1. RecvTypes'
    BY <1>5, ErrorsTyped DEF TypeOK, RecvTypes, RecvPcs, ReceiveUnclaims, At
  <2>2. QED
    BY <1>5, <2>1, FrameTypes DEF TypeOK, ReceiveUnclaims, recvOthers
<1>6. QED
  BY <1>1, <1>2, <1>3, <1>4, <1>5 DEF ReceiverNext, ReceiveStep

-----------------------------------------------------------------------------
\* A driver that was just started is well typed (driver.rs:130-195).
LEMMA InitTypes == Init => TypeOK
<1>1. Init => StateTypes /\ SignalTypes /\ FlagTypes /\ TaskTypes
  <2>1. Init => StateTypes
    BY DEF Init, StateTypes, DriverStates, Open
  <2>2. Init => SignalTypes /\ FlagTypes
    BY Zenon DEF Init, SignalTypes, FlagTypes, ShutdownSignals
  <2>3. Init => readerAborted \in BOOLEAN /\ writerAborted \in BOOLEAN
    BY Zenon DEF Init
  <2>4. Init => tasksRemaining \in Nat
    BY DEF Init
  <2>5. QED
    BY <2>1, <2>2, <2>3, <2>4 DEF TaskTypes
<1>2. Init => SocketTypes /\ ControlTypes
  BY DEF Init, SocketTypes, ControlTypes
<1>3. Init => InboundTypes
  BY ConfigAssumption DEF Init, InboundTypes
<1>4. Init => OutboundTypes /\ SendTypes /\ RecvTypes
  <2>1. Init => OutboundTypes
    BY ConfigAssumption, ErrorsTyped DEF Init, OutboundTypes
  <2>2. Init => SendTypes
    BY ErrorsTyped DEF Init, SendTypes, SendPcs
  <2>3. Init => receiveActive \in BOOLEAN /\ delivered = << >>
    BY Zenon DEF Init
  <2>4. Init => recvPc \in [Receivers -> RecvPcs] /\ recvResult \in [Receivers -> Results]
    BY ErrorsTyped DEF Init, RecvPcs
  <2>5. QED
    BY <2>1, <2>2, <2>3, <2>4 DEF RecvTypes
<1>5. Init => ReaderTypes
  BY DEF Init, ReaderTypes, ReaderPcs, Messages, NoMessage, Outcomes
<1>6. Init => WriterTypes
  BY DEF Init, WriterTypes, WriterPcs, Outcomes
<1>7. Init => CloseTypes
  BY ErrorsTyped DEF Init, CloseTypes, WatchdogPcs, AbandonPcs, ClosePcs, Outcomes
<1>8. QED
  BY <1>1, <1>2, <1>3, <1>4, <1>5, <1>6, <1>7 DEF TypeOK

\* The types hold in every reachable state, for every instance of the driver
\* (driver.rs:100-127, 438-716).
THEOREM TypeCorrect == Spec => []TypeOK
<1>1. TypeOK /\ [Next]_vars => TypeOK'
  <2> SUFFICES ASSUME TypeOK, [Next]_vars PROVE TypeOK'
    OBVIOUS
  <2>1. CASE Next
    BY <2>1, ReaderKeepsTypes, WriterKeepsTypes, CloserKeepsTypes, WatchdogKeepsTypes,
       AbandonKeepsTypes, SenderKeepsTypes, ReceiverKeepsTypes DEF Next
  <2>2. CASE UNCHANGED vars
    BY <2>2, FrameTypes DEF TypeOK, vars
  <2>3. QED
    BY <2>1, <2>2
<1>2. QED
  BY <1>1, InitTypes, PTL DEF Spec

=============================================================================
