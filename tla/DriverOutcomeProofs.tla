------------------------ MODULE DriverOutcomeProofs -------------------------
(***************************************************************************)
(* The connection has one outcome, published before anything tells of it:  *)
(* OutcomeInv of DriverInvariant is inductive, for every set of callers    *)
(* and every configuration, and from it follow the order and the constancy *)
(* of the outcome that Driver states.  What a step does to the state       *)
(* channel and the signal is Forward; the parts of OutcomeInv whose actor  *)
(* does not move are kept by FrameOutcome.                                 *)
(***************************************************************************)
EXTENDS DriverInvariant, DriverTypeProofs

-----------------------------------------------------------------------------
(* Errors and states                                                       *)

\* The fallbacks differ from everything else a caller can be told
\* (the DriverError constructors of driver.rs).
LEMMA NotFallback ==
    /\ \A why \in Causes \ {"reader stopped", "stopped unexpectedly"} : Transport(why) \notin Fallback
    /\ \A why : ResourceLimit(why) \notin Fallback
    /\ \A frame, b : classify_close(frame, b) \notin Fallback
    /\ Concurrency \notin Fallback /\ local_normal \notin Fallback
    /\ NoError \notin Fallback /\ Pending \notin Fallback /\ Ok \notin Fallback
    /\ Cancelled \notin Fallback /\ Dropped \notin Fallback
BY DEF Causes, Fallback, Transport, ResourceLimit, classify_close, ClosedOk, ClosedError,
       Concurrency, local_normal, NoError, Pending, Ok, Cancelled, Dropped

\* A state that is not open or closing carries its outcome, and the others are
\* Open and Closing themselves (driver.rs:25-37).
LEMMA StateCases ==
    ASSUME NEW s \in DriverStates
    PROVE  /\ s.tag \in {"Open", "Closing", "PeerClosed", "Closed"}
           /\ s.tag = "Open" <=> s = Open
           /\ s.tag = "Closing" <=> s = Closing
           /\ s.tag = "PeerClosed" => s = PeerClosed(s.error)
           /\ s.tag = "Closed" => s = Closed(s.error)
BY DEF DriverStates, Open, Closing, PeerClosed, Closed

-----------------------------------------------------------------------------
(* What a step may do to what was published                                *)

Forward ==
    /\ is_terminal(state) => state' = state
    /\ state.tag = "PeerClosed" /\ state' # state =>
          state' \in {Closed(state.error), Closed(Transport("abandoned"))}
    /\ shutdown # "Running" => shutdown' # "Running"

\* A step that leaves an actor where it was keeps the actor's part of the
\* invariant, whatever it publishes (driver.rs:359-366, 739-776).
LEMMA FrameOutcome ==
    ASSUME OutcomeInv, Forward
    PROVE  /\ UNCHANGED <<state, readerVars>> => StateInv'
           /\ UNCHANGED shutdown => ShutdownInv'
           /\ UNCHANGED taskVars \/ UNCHANGED <<readerAborted, writerAborted>> => AbortInv'
           /\ UNCHANGED readerVars => ReaderInv'
           /\ UNCHANGED writerVars => WriterInv'
           /\ UNCHANGED closeVars \/ UNCHANGED watchdogPc => WatchdogInv'
           /\ UNCHANGED closeVars \/ UNCHANGED abandonPc => AbandonInv'
           /\ UNCHANGED closeVars \/ UNCHANGED <<closePc, closeTerminal, closeResult>>
                 => CloserInv'
           /\ UNCHANGED outboundVars \/ UNCHANGED response => ResponseInv'
           /\ UNCHANGED sendVars \/ UNCHANGED sendResult => SendInv'
           /\ UNCHANGED recvVars \/ UNCHANGED recvResult => RecvInv'
<1>1. is_terminal(state) => is_terminal(state)' /\ state' = state
  BY DEF Forward
<1>2. Ending => Ending'
  BY <1>1 DEF Forward, Ending, is_terminal, Closed
<1>3. \A e : Learned(e) => Learned(e)'
  BY <1>1 DEF Learned
<1>4. UNCHANGED <<state, readerVars>> => StateInv'
  BY DEF OutcomeInv, StateInv, readerVars
<1>5. UNCHANGED shutdown => ShutdownInv'
  BY <1>1, <1>2 DEF OutcomeInv, ShutdownInv
<1>6. UNCHANGED taskVars \/ UNCHANGED <<readerAborted, writerAborted>> => AbortInv'
  BY <1>1 DEF OutcomeInv, AbortInv, taskVars
<1>7. UNCHANGED readerVars => ReaderInv'
  BY <1>1, <1>2 DEF OutcomeInv, ReaderInv, readerVars
<1>8. UNCHANGED writerVars => WriterInv'
  BY <1>1, <1>2, <1>3 DEF OutcomeInv, WriterInv, Forward, writerVars
<1>9. UNCHANGED closeVars \/ UNCHANGED watchdogPc => WatchdogInv'
  BY <1>1 DEF OutcomeInv, WatchdogInv, closeVars
<1>10. UNCHANGED closeVars \/ UNCHANGED abandonPc => AbandonInv'
  BY <1>1 DEF OutcomeInv, AbandonInv, closeVars
<1>11. UNCHANGED closeVars \/ UNCHANGED <<closePc, closeTerminal, closeResult>> => CloserInv'
  BY <1>3 DEF OutcomeInv, CloserInv, closeVars
<1>12. UNCHANGED outboundVars \/ UNCHANGED response => ResponseInv'
  BY <1>1, <1>3 DEF OutcomeInv, ResponseInv, outboundVars
<1>13. UNCHANGED sendVars \/ UNCHANGED sendResult => SendInv'
  BY DEF OutcomeInv, SendInv, sendVars
<1>14. UNCHANGED recvVars \/ UNCHANGED recvResult => RecvInv'
  BY <1>3 DEF OutcomeInv, RecvInv, recvVars
<1>15. QED
  BY <1>4, <1>5, <1>6, <1>7, <1>8, <1>9, <1>10, <1>11, <1>12, <1>13, <1>14

-----------------------------------------------------------------------------
(* The steps of each actor                                                 *)

\* The reader publishes before it signals, aborts or leaves (driver.rs:438-534).
LEMMA ReaderKeepsOutcome ==
    ASSUME TypeOK, OutcomeInv, ReaderNext
    PROVE  OutcomeInv' /\ Forward
<1>1. CASE ReaderCheck
  <2>1. UNCHANGED <<state, shutdown>>
    BY <1>1 DEF ReaderCheck, readerOthers, signalVars
  <2>2. Forward
    BY <2>1 DEF Forward
  <2>3. StateInv'
    BY <1>1, <2>1 DEF OutcomeInv, StateInv, ReaderCheck
  <2>4. ReaderInv'
    BY <1>1, <2>1 DEF OutcomeInv, ReaderInv, ReaderCheck, ShutdownInv
  <2>5. QED
    BY <1>1, <2>1, <2>2, <2>3, <2>4, FrameOutcome DEF OutcomeInv, ReaderCheck, readerOthers
<1>2. CASE ReaderSeesSignal
  <2>1. UNCHANGED <<state, shutdown>>
    BY <1>2 DEF ReaderSeesSignal, readerOthers, signalVars
  <2>2. Forward
    BY <2>1 DEF Forward
  <2>3. StateInv'
    BY <1>2, <2>1 DEF OutcomeInv, StateInv, ReaderSeesSignal
  <2>4. ReaderInv'
    BY <1>2, <2>1 DEF OutcomeInv, ReaderInv, ReaderSeesSignal, ShutdownInv
  <2>5. QED
    BY <1>2, <2>1, <2>2, <2>3, <2>4, FrameOutcome DEF OutcomeInv, ReaderSeesSignal, readerOthers
<1>3. CASE ReadData
  <2>1. UNCHANGED <<state, shutdown>>
    BY <1>3 DEF ReadData, readerOthers, signalVars
  <2>2. Forward
    BY <2>1 DEF Forward
  <2>3. StateInv'
    BY <1>3, <2>1 DEF OutcomeInv, StateInv, ReadData
  <2>4. ReaderInv'
    BY <1>3, <2>1 DEF OutcomeInv, ReaderInv, ReadData
  <2>5. QED
    BY <1>3, <2>1, <2>2, <2>3, <2>4, FrameOutcome DEF OutcomeInv, ReadData, readerOthers
<1>4. CASE ReadPing
  <2>1. UNCHANGED <<state, shutdown>>
    BY <1>4 DEF ReadPing, readerOthers, signalVars
  <2>2. Forward
    BY <2>1 DEF Forward
  <2>3. StateInv'
    BY <1>4, <2>1 DEF OutcomeInv, StateInv, ReadPing
  <2>4. ReaderInv'
    BY <1>4, <2>1 DEF OutcomeInv, ReaderInv, ReadPing
  <2>5. QED
    BY <1>4, <2>1, <2>2, <2>3, <2>4, FrameOutcome DEF OutcomeInv, ReadPing, readerOthers
<1>5. CASE ReadEnd
  <2>1. UNCHANGED <<state, shutdown>>
    BY <1>5 DEF ReadEnd, readerOthers, signalVars
  <2>2. Forward
    BY <2>1 DEF Forward
  <2>3. StateInv'
    BY <1>5, <2>1 DEF OutcomeInv, StateInv, ReadEnd
  <2>4. ReaderInv'
    BY <1>5, <2>1 DEF OutcomeInv, ReaderInv, ReadEnd
  <2>5. QED
    BY <1>5, <2>1, <2>2, <2>3, <2>4, FrameOutcome DEF OutcomeInv, ReadEnd, readerOthers
<1>6. CASE ReadError
  <2>1. UNCHANGED <<state, shutdown>>
    BY <1>6 DEF ReadError, readerOthers, signalVars
  <2>2. Forward
    BY <2>1 DEF Forward
  <2>3. StateInv'
    BY <1>6, <2>1 DEF OutcomeInv, StateInv, ReadError
  <2>4. ReaderInv'
    BY <1>6, <2>1, NotFallback DEF OutcomeInv, ReaderInv, ReadError, Causes
  <2>5. QED
    BY <1>6, <2>1, <2>2, <2>3, <2>4, FrameOutcome DEF OutcomeInv, ReadError, readerOthers
<1>7. CASE ReadClose
  <2>1. UNCHANGED <<state, shutdown>>
    BY <1>7 DEF ReadClose, readerOthers, signalVars
  <2>2. Forward
    BY <2>1 DEF Forward
  <2>3. StateInv'
    BY <1>7, <2>1 DEF OutcomeInv, StateInv, ReadClose
  <2>4. ReaderInv'
    BY <1>7, <2>1 DEF OutcomeInv, ReaderInv, ReadClose
  <2>5. QED
    BY <1>7, <2>1, <2>2, <2>3, <2>4, FrameOutcome DEF OutcomeInv, ReadClose, readerOthers
<1>8. CASE QueueCheck
  <2>1. UNCHANGED <<state, shutdown>>
    BY <1>8 DEF QueueCheck, readerOthers, signalVars
  <2>2. Forward
    BY <2>1 DEF Forward
  <2>3. StateInv'
    BY <1>8, <2>1 DEF OutcomeInv, StateInv, QueueCheck
  <2>4. ReaderInv'
    BY <1>8, <2>1 DEF OutcomeInv, ReaderInv, QueueCheck
  <2>5. QED
    BY <1>8, <2>1, <2>2, <2>3, <2>4, FrameOutcome DEF OutcomeInv, QueueCheck, readerOthers
<1>9. CASE AcquireInbound
  <2>1. UNCHANGED <<state, shutdown>>
    BY <1>9 DEF AcquireInbound, readerOthers, signalVars
  <2>2. Forward
    BY <2>1 DEF Forward
  <2>3. StateInv'
    BY <1>9, <2>1 DEF OutcomeInv, StateInv, AcquireInbound
  <2>4. ReaderInv'
    BY <1>9, <2>1 DEF OutcomeInv, ReaderInv, AcquireInbound
  <2>5. QED
    BY <1>9, <2>1, <2>2, <2>3, <2>4, FrameOutcome DEF OutcomeInv, AcquireInbound, readerOthers
<1>10. CASE Enqueue
  <2>1. UNCHANGED <<state, shutdown>>
    BY <1>10 DEF Enqueue, readerOthers, signalVars
  <2>2. Forward
    BY <2>1 DEF Forward
  <2>3. StateInv'
    BY <1>10, <2>1 DEF OutcomeInv, StateInv, Enqueue
  <2>4. ReaderInv'
    BY <1>10, <2>1 DEF OutcomeInv, ReaderInv, Enqueue
  <2>5. QED
    BY <1>10, <2>1, <2>2, <2>3, <2>4, FrameOutcome DEF OutcomeInv, Enqueue, readerOthers
<1>11. CASE AbandonMessage
  <2>1. UNCHANGED <<state, shutdown>>
    BY <1>11 DEF AbandonMessage, readerOthers, signalVars
  <2>2. Forward
    BY <2>1 DEF Forward
  <2>3. StateInv'
    BY <1>11, <2>1 DEF OutcomeInv, StateInv, AbandonMessage
  <2>4. ReaderInv'
    BY <1>11, <2>1 DEF OutcomeInv, ReaderInv, AbandonMessage
  <2>5. QED
    BY <1>11, <2>1, <2>2, <2>3, <2>4, FrameOutcome DEF OutcomeInv, AbandonMessage, readerOthers
<1>12. CASE EnqueueFails
  <2>1. UNCHANGED <<state, shutdown>>
    BY <1>12 DEF EnqueueFails, readerOthers, signalVars
  <2>2. Forward
    BY <2>1 DEF Forward
  <2>3. StateInv'
    BY <1>12, <2>1 DEF OutcomeInv, StateInv, EnqueueFails
  <2>4. ReaderInv'
    BY <1>12, <2>1 DEF OutcomeInv, ReaderInv, EnqueueFails
  <2>5. QED
    BY <1>12, <2>1, <2>2, <2>3, <2>4, FrameOutcome DEF OutcomeInv, EnqueueFails, readerOthers
<1>13. CASE LoadClosing
  <2>1. UNCHANGED <<state, shutdown>>
    BY <1>13 DEF LoadClosing, readerOthers, signalVars
  <2>2. Forward
    BY <2>1 DEF Forward
  <2>3. StateInv'
    BY <1>13, <2>1 DEF OutcomeInv, StateInv, LoadClosing
  <2>4. ReaderInv'
    BY <1>13, <2>1, NotFallback DEF OutcomeInv, ReaderInv, LoadClosing, Causes
  <2>5. QED
    BY <1>13, <2>1, <2>2, <2>3, <2>4, FrameOutcome DEF OutcomeInv, LoadClosing, readerOthers
<1>14. CASE StoreClosing
  <2>1. UNCHANGED <<state, shutdown>>
    BY <1>14 DEF StoreClosing, readerOthers, signalVars
  <2>2. Forward
    BY <2>1 DEF Forward
  <2>3. StateInv'
    BY <1>14, <2>1 DEF OutcomeInv, StateInv, StoreClosing
  <2>4. ReaderInv'
    BY <1>14, <2>1 DEF OutcomeInv, ReaderInv, StoreClosing
  <2>5. QED
    BY <1>14, <2>1, <2>2, <2>3, <2>4, FrameOutcome DEF OutcomeInv, StoreClosing, readerOthers
<1>15. CASE PublishPeerClosed
  <2>1. UNCHANGED shutdown
    BY <1>15 DEF PublishPeerClosed, readerOthers, signalVars
  <2>2. Forward
    BY <1>15, <2>1
       DEF Forward, OutcomeInv, PublishPeerClosed, StateInv, publish_peer_closed,
           is_terminal, PeerClosed
  <2>3. StateInv'
    BY <1>15, <2>1, StateCases
       DEF OutcomeInv, StateInv, PublishPeerClosed, ReaderInv, publish_peer_closed, PeerClosed
  <2>4. ReaderInv'
    BY <1>15, <2>1
       DEF OutcomeInv, ReaderInv, PublishPeerClosed, publish_peer_closed, PeerClosed, Ending
  <2>5. QED
    BY <1>15, <2>1, <2>2, <2>3, <2>4, FrameOutcome
       DEF OutcomeInv, PublishPeerClosed, readerOthers
<1>16. CASE SignalPeerClose
  <2>1. UNCHANGED state
    BY <1>16 DEF SignalPeerClose
  <2>2. Forward
    BY <1>16, <2>1 DEF Forward, SignalPeerClose, Signal, signal_peer_close
  <2>3. StateInv'
    BY <1>16, <2>1 DEF OutcomeInv, StateInv, Ending, SignalPeerClose
  <2>4. ReaderInv'
    BY <1>16, <2>1 DEF OutcomeInv, ReaderInv, Ending, SignalPeerClose
  <2>5. ShutdownInv'
    BY <1>16, <2>1
       DEF OutcomeInv, ShutdownInv, Ending, SignalPeerClose, ReaderInv, Signal,
           signal_peer_close
  <2>6. QED
    BY <1>16, <2>1, <2>2, <2>3, <2>4, <2>5, FrameOutcome
       DEF OutcomeInv, SignalPeerClose, readerOthers
<1>17. CASE ReaderSeesTerminal
  <2>1. UNCHANGED <<state, shutdown>>
    BY <1>17 DEF ReaderSeesTerminal, readerOthers, signalVars
  <2>2. Forward
    BY <2>1 DEF Forward
  <2>3. StateInv'
    BY <1>17, <2>1 DEF OutcomeInv, StateInv, ReaderSeesTerminal, is_terminal
  <2>4. ReaderInv'
    BY <1>17, <2>1 DEF OutcomeInv, ReaderInv, ReaderSeesTerminal
  <2>5. QED
    BY <1>17, <2>1, <2>2, <2>3, <2>4, FrameOutcome
       DEF OutcomeInv, ReaderSeesTerminal, readerOthers
<1>18. CASE ReaderTimesOut
  <2>1. UNCHANGED <<state, shutdown>>
    BY <1>18 DEF ReaderTimesOut, readerOthers, signalVars
  <2>2. Forward
    BY <2>1 DEF Forward
  <2>3. StateInv'
    BY <1>18, <2>1 DEF OutcomeInv, StateInv, Ending, ReaderTimesOut
  <2>4. ReaderInv'
    BY <1>18, <2>1 DEF OutcomeInv, ReaderInv, Ending, ReaderTimesOut
  <2>5. QED
    BY <1>18, <2>1, <2>2, <2>3, <2>4, FrameOutcome DEF OutcomeInv, ReaderTimesOut, readerOthers
<1>19. CASE ReaderPublishes
  <2>1. UNCHANGED shutdown
    BY <1>19 DEF ReaderPublishes, readerOthers, signalVars
  <2>2. Forward
    BY <1>19, <2>1
       DEF Forward, OutcomeInv, ReaderPublishes, StateInv, publish_terminal, is_terminal,
           Closed
  <2>3. StateInv'
    BY <1>19, <2>1
       DEF OutcomeInv, StateInv, ReaderPublishes, ReaderInv, publish_terminal, is_terminal,
           Closed
  <2>4. ReaderInv'
    BY <1>19, <2>1
       DEF OutcomeInv, ReaderInv, ReaderPublishes, publish_terminal, is_terminal, Closed,
           Ending
  <2>5. QED
    BY <1>19, <2>1, <2>2, <2>3, <2>4, FrameOutcome DEF OutcomeInv, ReaderPublishes, readerOthers
<1>20. CASE ReaderSignalsAbort
  <2>1. UNCHANGED state
    BY <1>20 DEF ReaderSignalsAbort
  <2>2. Forward
    BY <1>20, <2>1 DEF Forward, ReaderSignalsAbort, Signal, signal_abort
  <2>3. StateInv'
    BY <1>20, <2>1 DEF OutcomeInv, StateInv, ReaderSignalsAbort, ReaderInv, is_terminal
  <2>4. ReaderInv'
    BY <1>20, <2>1 DEF OutcomeInv, ReaderInv, ReaderSignalsAbort
  <2>5. ShutdownInv'
    BY <1>20, <2>1
       DEF OutcomeInv, ShutdownInv, ReaderSignalsAbort, ReaderInv, Signal, signal_abort
  <2>6. QED
    BY <1>20, <2>1, <2>2, <2>3, <2>4, <2>5, FrameOutcome
       DEF OutcomeInv, ReaderSignalsAbort, readerOthers
<1>21. CASE ReaderAbortsWriter
  <2>1. UNCHANGED <<state, shutdown>>
    BY <1>21 DEF ReaderAbortsWriter, readerOthers, signalVars
  <2>2. Forward
    BY <2>1 DEF Forward
  <2>3. StateInv'
    BY <1>21, <2>1 DEF OutcomeInv, StateInv, ReaderAbortsWriter, ReaderInv, is_terminal
  <2>4. ReaderInv'
    BY <1>21, <2>1 DEF OutcomeInv, ReaderInv, ReaderAbortsWriter
  <2>5. AbortInv'
    BY <1>21, <2>1 DEF OutcomeInv, AbortInv, ReaderAbortsWriter, ReaderInv
  <2>6. QED
    BY <1>21, <2>1, <2>2, <2>3, <2>4, <2>5, FrameOutcome
       DEF OutcomeInv, ReaderAbortsWriter, readerOthers
<1>22. CASE ReaderCancelled
  <2>1. UNCHANGED <<state, shutdown>>
    BY <1>22 DEF ReaderCancelled, readerOthers, signalVars
  <2>2. Forward
    BY <2>1 DEF Forward
  <2>3. StateInv'
    BY <1>22, <2>1 DEF OutcomeInv, StateInv, ReaderCancelled, AbortInv, is_terminal
  <2>4. ReaderInv'
    BY <1>22, <2>1 DEF OutcomeInv, ReaderInv, ReaderCancelled, AbortInv
  <2>5. QED
    BY <1>22, <2>1, <2>2, <2>3, <2>4, FrameOutcome DEF OutcomeInv, ReaderCancelled, readerOthers
<1>23. CASE ReaderDropsContext
  <2>1. UNCHANGED <<state, shutdown>>
    BY <1>23 DEF ReaderDropsContext, readerOthers, signalVars
  <2>2. Forward
    BY <2>1 DEF Forward
  <2>3. StateInv'
    BY <1>23, <2>1 DEF OutcomeInv, StateInv, ReaderDropsContext
  <2>4. ReaderInv'
    BY <1>23, <2>1 DEF OutcomeInv, ReaderInv, ReaderDropsContext
  <2>5. QED
    BY <1>23, <2>1, <2>2, <2>3, <2>4, FrameOutcome
       DEF OutcomeInv, ReaderDropsContext, readerOthers
<1>24. CASE ReaderStops
  <2>1. UNCHANGED <<state, shutdown>>
    BY <1>24 DEF ReaderStops, readerOthers, signalVars
  <2>2. Forward
    BY <2>1 DEF Forward
  <2>3. StateInv'
    BY <1>24, <2>1 DEF OutcomeInv, StateInv, ReaderStops
  <2>4. ReaderInv'
    BY <1>24, <2>1 DEF OutcomeInv, ReaderInv, ReaderStops
  <2>5. QED
    BY <1>24, <2>1, <2>2, <2>3, <2>4, FrameOutcome DEF OutcomeInv, ReaderStops, readerOthers
<1>25. QED
  BY <1>1, <1>2, <1>3, <1>4, <1>5, <1>6, <1>7, <1>8, <1>9, <1>10, <1>11, <1>12, <1>13, <1>14,
     <1>15, <1>16, <1>17, <1>18, <1>19, <1>20, <1>21, <1>22, <1>23, <1>24
     DEF ReaderNext, ReaderInput, ReaderStep

\* The writer publishes before it signals, answers or leaves (driver.rs:575-716).
LEMMA WriterKeepsOutcome ==
    ASSUME TypeOK, OutcomeInv, WriterNext
    PROVE  OutcomeInv' /\ Forward
<1>1. CASE WriterSeesSignal
  <2>1. UNCHANGED <<state, shutdown>>
    BY <1>1 DEF WriterSeesSignal, writerOthers, signalVars
  <2>2. Forward
    BY <2>1 DEF Forward
  <2>3. WriterInv'
    BY <1>1, <2>1
       DEF TypeOK, OutcomeInv, WriterInv, Learned, Ending, WriterSeesSignal, ShutdownInv,
           SignalTypes, ShutdownSignals
  <2>4. QED
    BY <1>1, <2>1, <2>2, <2>3, FrameOutcome DEF OutcomeInv, WriterSeesSignal, writerOthers
<1>2. CASE WriterPollsEvents \/ WriterFindsNothing
  <2>1. UNCHANGED <<state, shutdown>>
    BY <1>2 DEF WriterPollsEvents, WriterFindsNothing, writerOthers, signalVars
  <2>2. Forward
    BY <2>1 DEF Forward
  <2>3. WriterInv'
    BY <1>2, <2>1 DEF OutcomeInv, WriterInv, Learned, WriterPollsEvents, WriterFindsNothing
  <2>4. QED
    BY <1>2, <2>1, <2>2, <2>3, FrameOutcome DEF OutcomeInv, WriterPollsEvents,
                                                WriterFindsNothing, writerOthers
<1>3. CASE TakeFlush
  <2>1. UNCHANGED <<state, shutdown>>
    BY <1>3 DEF TakeFlush, writerOthers, signalVars
  <2>2. Forward
    BY <2>1 DEF Forward
  <2>3. WriterInv'
    BY <1>3, <2>1 DEF OutcomeInv, WriterInv, Learned, TakeFlush
  <2>4. QED
    BY <1>3, <2>1, <2>2, <2>3, FrameOutcome DEF OutcomeInv, TakeFlush, writerOthers
<1>4. CASE TakeControlClosed
  <2>1. UNCHANGED <<state, shutdown>>
    BY <1>4 DEF TakeControlClosed, writerOthers, signalVars
  <2>2. Forward
    BY <2>1 DEF Forward
  <2>3. WriterInv'
    BY <1>4, <2>1 DEF OutcomeInv, WriterInv, Learned, TakeControlClosed, ReaderInv, ReaderGone
  <2>4. QED
    BY <1>4, <2>1, <2>2, <2>3, FrameOutcome DEF OutcomeInv, TakeControlClosed, writerOthers
<1>5. CASE TakeCommand
  <2>1. UNCHANGED <<state, shutdown>>
    BY <1>5 DEF TakeCommand, writerOthers, signalVars
  <2>2. Forward
    BY <2>1 DEF Forward
  <2>3. WriterInv'
    BY <1>5, <2>1 DEF OutcomeInv, WriterInv, Learned, TakeCommand
  <2>4. QED
    BY <1>5, <2>1, <2>2, <2>3, FrameOutcome DEF OutcomeInv, TakeCommand, writerOthers
<1>6. CASE TakeOutboundClosed
  <2>1. UNCHANGED <<state, shutdown>>
    BY <1>6 DEF TakeOutboundClosed, writerOthers, signalVars
  <2>2. Forward
    BY <2>1 DEF Forward
  <2>3. WriterInv'
    BY <1>6, <2>1 DEF OutcomeInv, WriterInv, Learned, TakeOutboundClosed, AbandonInv, DriverGone
  <2>4. QED
    BY <1>6, <2>1, <2>2, <2>3, FrameOutcome DEF OutcomeInv, TakeOutboundClosed, writerOthers
<1>7. CASE WriteCommand
  <2>1. UNCHANGED <<state, shutdown>>
    BY <1>7 DEF WriteCommand, writerOthers, signalVars
  <2>2. Forward
    BY <2>1 DEF Forward
  <2>3. WriterInv'
    BY <1>7, <2>1 DEF OutcomeInv, WriterInv, Learned, WriteCommand
  <2>4. QED
    BY <1>7, <2>1, <2>2, <2>3, FrameOutcome DEF OutcomeInv, WriteCommand, writerOthers
<1>8. CASE WriteClose
  <2>1. UNCHANGED <<state, shutdown>>
    BY <1>8 DEF WriteClose, writerOthers, signalVars
  <2>2. Forward
    BY <2>1 DEF Forward
  <2>3. WriterInv'
    BY <1>8, <2>1 DEF OutcomeInv, WriterInv, Learned, WriteClose
  <2>4. QED
    BY <1>8, <2>1, <2>2, <2>3, FrameOutcome DEF OutcomeInv, WriteClose, writerOthers
<1>9. CASE WriteRefused
  <2>1. UNCHANGED <<state, shutdown>>
    BY <1>9 DEF WriteRefused, writerOthers, signalVars
  <2>2. Forward
    BY <2>1 DEF Forward
  <2>3. WriterInv'
    BY <1>9, <2>1, NotFallback DEF OutcomeInv, WriterInv, Learned, WriteRefused, Causes
  <2>4. QED
    BY <1>9, <2>1, <2>2, <2>3, FrameOutcome DEF OutcomeInv, WriteRefused, writerOthers
<1>10. CASE Flush
  <2>1. UNCHANGED <<state, shutdown>>
    BY <1>10 DEF Flush, writerOthers, signalVars
  <2>2. Forward
    BY <2>1 DEF Forward
  <2>3. WriterInv'
    BY <1>10, <2>1 DEF OutcomeInv, WriterInv, Learned, Ending, Flush
  <2>4. QED
    BY <1>10, <2>1, <2>2, <2>3, FrameOutcome DEF OutcomeInv, Flush, writerOthers
<1>11. CASE WriteFails
  <2>1. UNCHANGED <<state, shutdown>>
    BY <1>11 DEF WriteFails, writerOthers, signalVars
  <2>2. Forward
    BY <2>1 DEF Forward
  <2>3. WriterInv'
    BY <1>11, <2>1, NotFallback DEF OutcomeInv, WriterInv, Learned, WriteFails, Causes
  <2>4. QED
    BY <1>11, <2>1, <2>2, <2>3, FrameOutcome DEF OutcomeInv, WriteFails, writerOthers
<1>12. CASE Respond
  <2>1. UNCHANGED <<state, shutdown>>
    BY <1>12 DEF Respond, writerOthers, signalVars
  <2>2. Forward
    BY <2>1 DEF Forward
  <2>3. WriterInv'
    BY <1>12, <2>1 DEF OutcomeInv, WriterInv, Learned, Respond
  <2>4. ResponseInv'
    BY <1>12, <2>1
       DEF TypeOK, OutcomeInv, ResponseInv, Learned, Respond, Answer, OutboundTypes,
           WriterTypes, Ok, Dropped
  <2>5. QED
    BY <1>12, <2>1, <2>2, <2>3, <2>4, FrameOutcome DEF OutcomeInv, Respond, writerOthers
<1>13. CASE ReleasePermit
  <2>1. UNCHANGED <<state, shutdown>>
    BY <1>13 DEF ReleasePermit, writerOthers, signalVars
  <2>2. Forward
    BY <2>1 DEF Forward
  <2>3. WriterInv'
    BY <1>13, <2>1 DEF OutcomeInv, WriterInv, Learned, ReleasePermit
  <2>4. QED
    BY <1>13, <2>1, <2>2, <2>3, FrameOutcome DEF OutcomeInv, ReleasePermit, writerOthers
<1>14. CASE AwaitPeer
  <2>1. UNCHANGED <<state, shutdown>>
    BY <1>14 DEF AwaitPeer, writerOthers, signalVars
  <2>2. Forward
    BY <2>1 DEF Forward
  <2>3. WriterInv'
    BY <1>14, <2>1
       DEF TypeOK, OutcomeInv, WriterInv, Learned, Ending, AwaitPeer, is_terminal,
           ShutdownInv, SignalTypes, ShutdownSignals
  <2>4. QED
    BY <1>14, <2>1, <2>2, <2>3, FrameOutcome DEF OutcomeInv, AwaitPeer, writerOthers
<1>15. CASE PublishOutcome
  <2>1. UNCHANGED shutdown
    BY <1>15 DEF PublishOutcome, writerOthers, signalVars
  <2>2. Forward
    BY <1>15, <2>1 DEF Forward, PublishOutcome, publish_terminal, is_terminal, Closed
  <2>3. StateInv'
    BY <1>15, <2>1
       DEF OutcomeInv, StateInv, PublishOutcome, publish_terminal, is_terminal, Closed
  <2>4. WriterInv'
    BY <1>15, <2>1
       DEF OutcomeInv, WriterInv, Learned, PublishOutcome, publish_terminal, is_terminal,
           Closed, Ending
  <2>5. QED
    BY <1>15, <2>1, <2>2, <2>3, <2>4, FrameOutcome DEF OutcomeInv, PublishOutcome, writerOthers
<1>16. CASE PublishFailure
  <2>1. UNCHANGED shutdown
    BY <1>16 DEF PublishFailure, writerOthers, signalVars
  <2>2. Forward
    BY <1>16, <2>1 DEF Forward, PublishFailure, publish_writer_failure, is_terminal, Closed
  <2>3. StateInv'
    BY <1>16, <2>1
       DEF OutcomeInv, StateInv, PublishFailure, WriterInv, publish_writer_failure,
           is_terminal, Closed
  <2>4. WriterInv'
    BY <1>16, <2>1
       DEF OutcomeInv, WriterInv, Learned, PublishFailure, StateInv, publish_writer_failure,
           is_terminal, Closed
  <2>5. QED
    BY <1>16, <2>1, <2>2, <2>3, <2>4, FrameOutcome DEF OutcomeInv, PublishFailure, writerOthers
<1>17. CASE WriterSignalsAbort
  <2>1. UNCHANGED state
    BY <1>17 DEF WriterSignalsAbort
  <2>2. Forward
    BY <1>17, <2>1 DEF Forward, WriterSignalsAbort, Signal, signal_abort
  <2>3. WriterInv'
    BY <1>17, <2>1 DEF OutcomeInv, WriterInv, Learned, WriterSignalsAbort
  <2>4. ShutdownInv'
    BY <1>17, <2>1
       DEF OutcomeInv, ShutdownInv, WriterSignalsAbort, WriterInv, Learned, Signal,
           signal_abort
  <2>5. QED
    BY <1>17, <2>1, <2>2, <2>3, <2>4, FrameOutcome
       DEF OutcomeInv, WriterSignalsAbort, writerOthers
<1>18. CASE RespondFailure
  <2>1. UNCHANGED <<state, shutdown>>
    BY <1>18 DEF RespondFailure, writerOthers, signalVars
  <2>2. Forward
    BY <2>1 DEF Forward
  <2>3. WriterInv'
    BY <1>18, <2>1 DEF OutcomeInv, WriterInv, Learned, RespondFailure
  <2>4. ResponseInv'
    BY <1>18, <2>1
       DEF TypeOK, OutcomeInv, ResponseInv, Learned, RespondFailure, WriterInv, Answer,
           OutboundTypes, WriterTypes
  <2>5. QED
    BY <1>18, <2>1, <2>2, <2>3, <2>4, FrameOutcome DEF OutcomeInv, RespondFailure, writerOthers
<1>19. CASE WriterCancelled
  <2>1. UNCHANGED <<state, shutdown>>
    BY <1>19 DEF WriterCancelled, writerOthers, signalVars
  <2>2. Forward
    BY <2>1 DEF Forward
  <2>3. WriterInv'
    BY <1>19, <2>1 DEF OutcomeInv, WriterInv, Learned, WriterCancelled, AbortInv
  <2>4. ResponseInv'
    BY <1>19, <2>1
       DEF TypeOK, OutcomeInv, ResponseInv, Learned, WriterCancelled, AbortInv, Answer,
           OutboundTypes, WriterTypes
  <2>5. QED
    BY <1>19, <2>1, <2>2, <2>3, <2>4, FrameOutcome DEF OutcomeInv, WriterCancelled, writerOthers
<1>20. CASE WriterClosesQueue
  <2>1. UNCHANGED <<state, shutdown>>
    BY <1>20 DEF WriterClosesQueue, writerOthers, signalVars
  <2>2. Forward
    BY <2>1 DEF Forward
  <2>3. WriterInv'
    BY <1>20, <2>1 DEF OutcomeInv, WriterInv, Learned, WriterClosesQueue
  <2>4. QED
    BY <1>20, <2>1, <2>2, <2>3, FrameOutcome DEF OutcomeInv, WriterClosesQueue, writerOthers
<1>21. CASE DrainCommand
  <2>1. UNCHANGED <<state, shutdown>>
    BY <1>21 DEF DrainCommand, writerOthers, signalVars
  <2>2. Forward
    BY <2>1 DEF Forward
  <2>3. WriterInv'
    BY <1>21, <2>1 DEF OutcomeInv, WriterInv, Learned, DrainCommand
  <2>4. ResponseInv'
    BY <1>21, <2>1
       DEF TypeOK, OutcomeInv, ResponseInv, Learned, DrainCommand, WriterInv, Answer,
           OutboundTypes
  <2>5. QED
    BY <1>21, <2>1, <2>2, <2>3, <2>4, FrameOutcome DEF OutcomeInv, DrainCommand, writerOthers
<1>22. CASE WriterDropsQueue
  <2>1. UNCHANGED <<state, shutdown>>
    BY <1>22 DEF WriterDropsQueue, writerOthers, signalVars
  <2>2. Forward
    BY <2>1 DEF Forward
  <2>3. WriterInv'
    BY <1>22, <2>1 DEF OutcomeInv, WriterInv, Learned, WriterDropsQueue
  <2>4. QED
    BY <1>22, <2>1, <2>2, <2>3, FrameOutcome DEF OutcomeInv, WriterDropsQueue, writerOthers
<1>23. CASE WriterStops
  <2>1. UNCHANGED <<state, shutdown>>
    BY <1>23 DEF WriterStops, writerOthers, signalVars
  <2>2. Forward
    BY <2>1 DEF Forward
  <2>3. WriterInv'
    BY <1>23, <2>1 DEF OutcomeInv, WriterInv, Learned, WriterStops
  <2>4. QED
    BY <1>23, <2>1, <2>2, <2>3, FrameOutcome DEF OutcomeInv, WriterStops, writerOthers
<1>24. QED
  BY <1>1, <1>2, <1>3, <1>4, <1>5, <1>6, <1>7, <1>8, <1>9, <1>10, <1>11, <1>12, <1>13, <1>14,
     <1>15, <1>16, <1>17, <1>18, <1>19, <1>20, <1>21, <1>22, <1>23
     DEF WriterNext, WriterIO, WriterStep

\* A close() takes back nothing, and returns what was published
\* (driver.rs:323-388).
LEMMA CloserKeepsOutcome ==
    ASSUME NEW c \in Closers, TypeOK, OutcomeInv, CloserNext(c)
    PROVE  OutcomeInv' /\ Forward
<1>1. CASE CloseStart(c)
  <2>1. UNCHANGED <<state, shutdown>>
    BY <1>1 DEF CloseStart, closeOthers, signalVars
  <2>2. Forward
    BY <2>1 DEF Forward
  <2>3. CloserInv'
    BY <1>1, <2>1 DEF TypeOK, OutcomeInv, CloserInv, Learned, CloseStart, CloseTypes
  <2>4. QED
    BY <1>1, <2>1, <2>2, <2>3, FrameOutcome DEF OutcomeInv, CloseStart, closeOthers
<1>2. CASE CloseTakesGuard(c)
  <2>1. UNCHANGED <<state, shutdown>>
    BY <1>2 DEF CloseTakesGuard, closeOthers, signalVars
  <2>2. Forward
    BY <2>1 DEF Forward
  <2>3. CloserInv'
    BY <1>2, <2>1 DEF TypeOK, OutcomeInv, CloserInv, Learned, CloseTakesGuard, CloseTypes, At
  <2>4. QED
    BY <1>2, <2>1, <2>2, <2>3, FrameOutcome DEF OutcomeInv, CloseTakesGuard, closeOthers
<1>3. CASE CloseSwap(c)
  <2>1. UNCHANGED <<state, shutdown>>
    BY <1>3 DEF CloseSwap, closeOthers, signalVars
  <2>2. Forward
    BY <2>1 DEF Forward
  <2>3. CloserInv'
    BY <1>3, <2>1 DEF TypeOK, OutcomeInv, CloserInv, Learned, CloseSwap, CloseTypes, At
  <2>4. QED
    BY <1>3, <2>1, <2>2, <2>3, FrameOutcome DEF OutcomeInv, CloseSwap, closeOthers
<1>4. CASE ClosePublish(c)
  <2>1. UNCHANGED shutdown
    BY <1>4 DEF ClosePublish, closeOthers, signalVars
  <2>2. Forward
    BY <1>4, <2>1, StateCases
       DEF Forward, TypeOK, StateTypes, ClosePublish, begin_closing, is_terminal, Open,
           Closing
  <2>3. CloserInv'
    BY <1>4, <2>1, <2>2
       DEF TypeOK, OutcomeInv, CloserInv, Learned, ClosePublish, CloseTypes, At, Forward
  <2>4. StateInv'
    BY <1>4, <2>1, NotFallback
       DEF OutcomeInv, StateInv, ClosePublish, begin_closing, Open, Closing, closeOthers,
           readerVars
  <2>5. QED
    BY <1>4, <2>1, <2>2, <2>3, <2>4, FrameOutcome DEF OutcomeInv, ClosePublish, closeOthers
<1>5. CASE CloseSignal(c)
  <2>1. UNCHANGED state
    BY <1>5 DEF CloseSignal
  <2>2. Forward
    BY <1>5, <2>1 DEF Forward, CloseSignal, Signal, signal_local_close
  <2>3. CloserInv'
    BY <1>5, <2>1 DEF TypeOK, OutcomeInv, CloserInv, Learned, CloseSignal, CloseTypes, At
  <2>4. ShutdownInv'
    BY <1>5, <2>1 DEF OutcomeInv, ShutdownInv, CloseSignal, Signal, signal_local_close, Ending
  <2>5. QED
    BY <1>5, <2>1, <2>2, <2>3, <2>4, FrameOutcome DEF OutcomeInv, CloseSignal, closeOthers
<1>6. CASE CloseArm(c)
  <2>1. UNCHANGED <<state, shutdown>>
    BY <1>6 DEF CloseArm, closeOthers, signalVars
  <2>2. Forward
    BY <2>1 DEF Forward
  <2>3. CloserInv'
    BY <1>6, <2>1 DEF TypeOK, OutcomeInv, CloserInv, Learned, CloseArm, CloseTypes, At
  <2>4. WatchdogInv'
    BY <1>6, <2>1 DEF OutcomeInv, WatchdogInv, CloseArm
  <2>5. QED
    BY <1>6, <2>1, <2>2, <2>3, <2>4, FrameOutcome DEF OutcomeInv, CloseArm, closeOthers
<1>7. CASE CloseDropsGuard(c)
  <2>1. UNCHANGED <<state, shutdown>>
    BY <1>7 DEF CloseDropsGuard, closeOthers, signalVars
  <2>2. Forward
    BY <2>1 DEF Forward
  <2>3. CloserInv'
    BY <1>7, <2>1 DEF TypeOK, OutcomeInv, CloserInv, Learned, CloseDropsGuard, CloseTypes, At
  <2>4. QED
    BY <1>7, <2>1, <2>2, <2>3, FrameOutcome DEF OutcomeInv, CloseDropsGuard, closeOthers
<1>8. CASE CloseSeesTerminal(c)
  <2>1. UNCHANGED <<state, shutdown>>
    BY <1>8 DEF CloseSeesTerminal, closeOthers, signalVars
  <2>2. Forward
    BY <2>1 DEF Forward
  <2>3. CloserInv'
    BY <1>8, <2>1 DEF TypeOK, OutcomeInv, CloserInv, Learned, CloseSeesTerminal, CloseTypes, At
  <2>4. QED
    BY <1>8, <2>1, <2>2, <2>3, FrameOutcome DEF OutcomeInv, CloseSeesTerminal, closeOthers
<1>9. CASE CloseReturns(c)
  <2>1. UNCHANGED <<state, shutdown>>
    BY <1>9 DEF CloseReturns, closeOthers, signalVars
  <2>2. Forward
    BY <2>1 DEF Forward
  <2>3. CloserInv'
    BY <1>9, <2>1 DEF TypeOK, OutcomeInv, CloserInv, Learned, CloseReturns, CloseTypes, At
  <2>4. QED
    BY <1>9, <2>1, <2>2, <2>3, FrameOutcome DEF OutcomeInv, CloseReturns, closeOthers
<1>10. CASE CloseCancelled(c)
  <2>1. UNCHANGED <<state, shutdown>>
    BY <1>10 DEF CloseCancelled, closeOthers, signalVars
  <2>2. Forward
    BY <2>1 DEF Forward
  <2>3. CloserInv'
    BY <1>10, <2>1 DEF TypeOK, OutcomeInv, CloserInv, Learned, CloseCancelled, CloseTypes
  <2>4. QED
    BY <1>10, <2>1, <2>2, <2>3, FrameOutcome DEF OutcomeInv, CloseCancelled, closeOthers
<1>11. QED
  BY <1>1, <1>2, <1>3, <1>4, <1>5, <1>6, <1>7, <1>8, <1>9, <1>10 DEF CloserNext, CloseStep

\* The watchdog publishes before it aborts (driver.rs:380-387).
LEMMA WatchdogKeepsOutcome ==
    ASSUME TypeOK, OutcomeInv, WatchdogStep
    PROVE  OutcomeInv' /\ Forward
<1>1. CASE WatchdogSeesTerminal
  <2>1. UNCHANGED <<state, shutdown>>
    BY <1>1 DEF WatchdogSeesTerminal, watchdogOthers, closeOthers, signalVars
  <2>2. Forward
    BY <2>1 DEF Forward
  <2>3. WatchdogInv'
    BY <1>1, <2>1 DEF OutcomeInv, WatchdogInv, WatchdogSeesTerminal
  <2>4. QED
    BY <1>1, <2>1, <2>2, <2>3, FrameOutcome
       DEF OutcomeInv, WatchdogSeesTerminal, watchdogOthers, closeOthers
<1>2. CASE WatchdogExpires
  <2>1. UNCHANGED <<state, shutdown>>
    BY <1>2 DEF WatchdogExpires, watchdogOthers, closeOthers, signalVars
  <2>2. Forward
    BY <2>1 DEF Forward
  <2>3. WatchdogInv'
    BY <1>2, <2>1 DEF OutcomeInv, WatchdogInv, WatchdogExpires
  <2>4. QED
    BY <1>2, <2>1, <2>2, <2>3, FrameOutcome
       DEF OutcomeInv, WatchdogExpires, watchdogOthers, closeOthers
<1>3. CASE WatchdogPublishes
  <2>1. UNCHANGED shutdown
    BY <1>3 DEF WatchdogPublishes, watchdogOthers, closeOthers, signalVars
  <2>2. Forward
    BY <1>3, <2>1
       DEF Forward, WatchdogPublishes, publish_close_timeout, publish_writer_failure,
           is_terminal, Closed
  <2>3. StateInv'
    BY <1>3, <2>1, NotFallback
       DEF OutcomeInv, StateInv, WatchdogPublishes, Causes, publish_close_timeout,
           publish_writer_failure, is_terminal, Closed
  <2>4. WatchdogInv'
    BY <1>3, <2>1
       DEF OutcomeInv, WatchdogInv, WatchdogPublishes, publish_close_timeout,
           publish_writer_failure, is_terminal, Closed
  <2>5. QED
    BY <1>3, <2>1, <2>2, <2>3, <2>4, FrameOutcome
       DEF OutcomeInv, WatchdogPublishes, watchdogOthers, closeOthers
<1>4. CASE WatchdogAbortsReader
  <2>1. UNCHANGED <<state, shutdown>>
    BY <1>4 DEF WatchdogAbortsReader, watchdogOthers, closeOthers, signalVars
  <2>2. Forward
    BY <2>1 DEF Forward
  <2>3. WatchdogInv'
    BY <1>4, <2>1 DEF OutcomeInv, WatchdogInv, WatchdogAbortsReader
  <2>4. AbortInv'
    BY <1>4, <2>1 DEF OutcomeInv, AbortInv, WatchdogAbortsReader, WatchdogInv
  <2>5. QED
    BY <1>4, <2>1, <2>2, <2>3, <2>4, FrameOutcome
       DEF OutcomeInv, WatchdogAbortsReader, watchdogOthers, closeOthers
<1>5. CASE WatchdogAbortsWriter
  <2>1. UNCHANGED <<state, shutdown>>
    BY <1>5 DEF WatchdogAbortsWriter, watchdogOthers, closeOthers, signalVars
  <2>2. Forward
    BY <2>1 DEF Forward
  <2>3. WatchdogInv'
    BY <1>5, <2>1 DEF OutcomeInv, WatchdogInv, WatchdogAbortsWriter
  <2>4. AbortInv'
    BY <1>5, <2>1 DEF OutcomeInv, AbortInv, WatchdogAbortsWriter, WatchdogInv
  <2>5. QED
    BY <1>5, <2>1, <2>2, <2>3, <2>4, FrameOutcome
       DEF OutcomeInv, WatchdogAbortsWriter, watchdogOthers, closeOthers
<1>6. CASE WatchdogStops
  <2>1. UNCHANGED <<state, shutdown>>
    BY <1>6 DEF WatchdogStops, watchdogOthers, closeOthers, signalVars
  <2>2. Forward
    BY <2>1 DEF Forward
  <2>3. WatchdogInv'
    BY <1>6, <2>1 DEF OutcomeInv, WatchdogInv, WatchdogStops
  <2>4. QED
    BY <1>6, <2>1, <2>2, <2>3, FrameOutcome
       DEF OutcomeInv, WatchdogStops, watchdogOthers, closeOthers
<1>7. QED
  BY <1>1, <1>2, <1>3, <1>4, <1>5, <1>6 DEF WatchdogStep

\* abort() publishes before it signals and aborts (driver.rs:344-351).
LEMMA AbandonKeepsOutcome ==
    ASSUME TypeOK, OutcomeInv, AbandonNext
    PROVE  OutcomeInv' /\ Forward
<1>1. CASE AbandonStores
  <2>1. UNCHANGED <<state, shutdown>>
    BY <1>1 DEF AbandonStores, abandonOthers, AbandonStep, signalVars
  <2>2. Forward
    BY <2>1 DEF Forward
  <2>3. AbandonInv'
    BY <1>1, <2>1 DEF OutcomeInv, AbandonInv, AbandonStores, AbandonStep
  <2>4. QED
    BY <1>1, <2>1, <2>2, <2>3, FrameOutcome
       DEF OutcomeInv, AbandonStores, AbandonStep, abandonOthers, closeOthers
<1>2. CASE AbandonPublishes
  <2>1. UNCHANGED shutdown
    BY <1>2 DEF AbandonPublishes, abandonOthers, AbandonStep, signalVars
  <2>2. Forward
    BY <1>2, <2>1 DEF Forward, AbandonPublishes, publish_terminal, is_terminal, Closed
  <2>3. StateInv'
    BY <1>2, <2>1, NotFallback
       DEF OutcomeInv, StateInv, AbandonPublishes, Causes, publish_terminal, is_terminal,
           Closed
  <2>4. AbandonInv'
    BY <1>2, <2>1
       DEF OutcomeInv, AbandonInv, AbandonPublishes, AbandonStep, publish_terminal,
           is_terminal, Closed
  <2>5. QED
    BY <1>2, <2>1, <2>2, <2>3, <2>4, FrameOutcome
       DEF OutcomeInv, AbandonPublishes, AbandonStep, abandonOthers, closeOthers
<1>3. CASE AbandonSignals
  <2>1. UNCHANGED state
    BY <1>3 DEF AbandonSignals
  <2>2. Forward
    BY <1>3, <2>1 DEF Forward, AbandonSignals, Signal, signal_abort
  <2>3. AbandonInv'
    BY <1>3, <2>1 DEF OutcomeInv, AbandonInv, AbandonSignals, AbandonStep
  <2>4. ShutdownInv'
    BY <1>3, <2>1
       DEF OutcomeInv, ShutdownInv, AbandonSignals, AbandonInv, Signal, signal_abort,
           AbandonStep
  <2>5. QED
    BY <1>3, <2>1, <2>2, <2>3, <2>4, FrameOutcome
       DEF OutcomeInv, AbandonSignals, AbandonStep, abandonOthers, closeOthers
<1>4. CASE AbandonAbortsReader
  <2>1. UNCHANGED <<state, shutdown>>
    BY <1>4 DEF AbandonAbortsReader, abandonOthers, AbandonStep, signalVars
  <2>2. Forward
    BY <2>1 DEF Forward
  <2>3. AbandonInv'
    BY <1>4, <2>1 DEF OutcomeInv, AbandonInv, AbandonAbortsReader, AbandonStep
  <2>4. AbortInv'
    BY <1>4, <2>1 DEF OutcomeInv, AbortInv, AbandonAbortsReader, AbandonInv, AbandonStep
  <2>5. QED
    BY <1>4, <2>1, <2>2, <2>3, <2>4, FrameOutcome
       DEF OutcomeInv, AbandonAbortsReader, AbandonStep, abandonOthers, closeOthers
<1>5. CASE AbandonAbortsWriter
  <2>1. UNCHANGED <<state, shutdown>>
    BY <1>5 DEF AbandonAbortsWriter, abandonOthers, AbandonStep, signalVars
  <2>2. Forward
    BY <2>1 DEF Forward
  <2>3. AbandonInv'
    BY <1>5, <2>1 DEF OutcomeInv, AbandonInv, AbandonAbortsWriter, AbandonStep
  <2>4. AbortInv'
    BY <1>5, <2>1 DEF OutcomeInv, AbortInv, AbandonAbortsWriter, AbandonInv, AbandonStep
  <2>5. QED
    BY <1>5, <2>1, <2>2, <2>3, <2>4, FrameOutcome
       DEF OutcomeInv, AbandonAbortsWriter, AbandonStep, abandonOthers, closeOthers
<1>6. CASE DropDriver
  <2>1. UNCHANGED <<state, shutdown>>
    BY <1>6 DEF DropDriver, abandonOthers, AbandonStep, signalVars
  <2>2. Forward
    BY <2>1 DEF Forward
  <2>3. AbandonInv'
    BY <1>6, <2>1 DEF OutcomeInv, AbandonInv, DropDriver, AbandonStep
  <2>4. QED
    BY <1>6, <2>1, <2>2, <2>3, FrameOutcome
       DEF OutcomeInv, DropDriver, AbandonStep, abandonOthers, closeOthers
<1>7. CASE DropInbound
  <2>1. UNCHANGED <<state, shutdown>>
    BY <1>7 DEF DropInbound, recvOthers, signalVars
  <2>2. Forward
    BY <2>1 DEF Forward
  <2>3. QED
    BY <1>7, <2>1, <2>2, FrameOutcome DEF OutcomeInv, DropInbound, recvOthers
<1>8. QED
  BY <1>1, <1>2, <1>3, <1>4, <1>5, <1>6, <1>7 DEF AbandonNext, AbandonRest

\* A send publishes nothing, and reports what was published (driver.rs:246-312).
LEMMA SenderKeepsOutcome ==
    ASSUME NEW s \in Senders, TypeOK, OutcomeInv, SenderNext(s)
    PROVE  OutcomeInv' /\ Forward
<1>1. CASE SendValidate(s)
  <2>1. UNCHANGED <<state, shutdown>>
    BY <1>1 DEF SendValidate, sendOthers, signalVars
  <2>2. Forward
    BY <2>1 DEF Forward
  <2>3. SendInv'
    <3>1. state # Open => ensure_open(state) \notin Fallback
      BY NotFallback, StateCases
         DEF TypeOK, OutcomeInv, StateTypes, StateInv, ensure_open, terminal_error
    <3>2. CASE sendResult' = sendResult
      BY <3>2 DEF OutcomeInv, SendInv
    <3>3. ASSUME NEW e, e \notin Fallback, sendResult' = [sendResult EXCEPT ![s] = e]
          PROVE  SendInv'
      BY <3>3 DEF TypeOK, OutcomeInv, SendInv, SendTypes
    <3>4. QED
      BY <1>1, <3>1, <3>2, <3>3, NotFallback DEF SendValidate, Finish
  <2>4. QED
    BY <1>1, <2>1, <2>2, <2>3, FrameOutcome DEF OutcomeInv, SendValidate, sendOthers
<1>2. CASE SendAcquire(s)
  <2>1. UNCHANGED <<state, shutdown>>
    BY <1>2 DEF SendAcquire, sendOthers, signalVars
  <2>2. Forward
    BY <2>1 DEF Forward
  <2>3. SendInv'
    BY <1>2, <2>1, NotFallback DEF TypeOK, OutcomeInv, SendInv, SendAcquire, Finish, SendTypes
  <2>4. QED
    BY <1>2, <2>1, <2>2, <2>3, FrameOutcome DEF OutcomeInv, SendAcquire, sendOthers
<1>3. CASE SendReserve(s)
  <2>1. UNCHANGED <<state, shutdown>>
    BY <1>3 DEF SendReserve, sendOthers, signalVars
  <2>2. Forward
    BY <2>1 DEF Forward
  <2>3. SendInv'
    BY <1>3, <2>1, NotFallback
       DEF TypeOK, OutcomeInv, SendInv, SendReserve, StateInv, WriterInv, WriterGone,
           terminal_error, is_terminal, Finish, SendTypes
  <2>4. QED
    BY <1>3, <2>1, <2>2, <2>3, FrameOutcome DEF OutcomeInv, SendReserve, sendOthers
<1>4. CASE SendPush(s)
  <2>1. UNCHANGED <<state, shutdown>>
    BY <1>4 DEF SendPush, sendOthers, signalVars
  <2>2. Forward
    BY <2>1 DEF Forward
  <2>3. QED
    BY <1>4, <2>1, <2>2, FrameOutcome DEF OutcomeInv, SendPush, sendOthers
<1>5. CASE SendReturns(s)
  <2>1. UNCHANGED <<state, shutdown>>
    BY <1>5 DEF SendReturns, sendOthers, signalVars
  <2>2. Forward
    BY <2>1 DEF Forward
  <2>3. SendInv'
    BY <1>5, <2>1, NotFallback
       DEF TypeOK, OutcomeInv, SendInv, SendReturns, StateInv, ResponseInv, Learned,
           terminal_error, is_terminal, Finish, SendTypes
  <2>4. QED
    BY <1>5, <2>1, <2>2, <2>3, FrameOutcome DEF OutcomeInv, SendReturns, sendOthers
<1>6. CASE SendCancelled(s)
  <2>1. UNCHANGED <<state, shutdown>>
    BY <1>6 DEF SendCancelled, sendOthers, signalVars
  <2>2. Forward
    BY <2>1 DEF Forward
  <2>3. SendInv'
    BY <1>6, <2>1, NotFallback DEF TypeOK, OutcomeInv, SendInv, SendCancelled, SendTypes
  <2>4. QED
    BY <1>6, <2>1, <2>2, <2>3, FrameOutcome DEF OutcomeInv, SendCancelled, sendOthers
<1>7. QED
  BY <1>1, <1>2, <1>3, <1>4, <1>5, <1>6 DEF SenderNext, SendStep

\* A receive() publishes nothing, and reports what was published
\* (driver.rs:314-321, 390-436).
LEMMA ReceiverKeepsOutcome ==
    ASSUME NEW r \in Receivers, TypeOK, OutcomeInv, ReceiverNext(r)
    PROVE  OutcomeInv' /\ Forward
<1>1. CASE ReceiveClaim(r)
  <2>1. UNCHANGED <<state, shutdown>>
    BY <1>1 DEF ReceiveClaim, recvOthers, signalVars
  <2>2. Forward
    BY <2>1 DEF Forward
  <2>3. RecvInv'
    BY <1>1, <2>1 DEF TypeOK, OutcomeInv, RecvInv, Learned, ReceiveClaim, RecvTypes
  <2>4. QED
    BY <1>1, <2>1, <2>2, <2>3, FrameOutcome DEF OutcomeInv, ReceiveClaim, recvOthers
<1>2. CASE ReceiveMessage(r)
  <2>1. UNCHANGED <<state, shutdown>>
    BY <1>2 DEF ReceiveMessage, recvOthers, signalVars
  <2>2. Forward
    BY <2>1 DEF Forward
  <2>3. RecvInv'
    BY <1>2, <2>1 DEF TypeOK, OutcomeInv, RecvInv, Learned, ReceiveMessage, RecvTypes
  <2>4. QED
    BY <1>2, <2>1, <2>2, <2>3, FrameOutcome DEF OutcomeInv, ReceiveMessage, recvOthers
<1>3. CASE ReceiveEnd(r)
  <2>1. UNCHANGED <<state, shutdown>>
    BY <1>3 DEF ReceiveEnd, recvOthers, signalVars
  <2>2. Forward
    BY <2>1 DEF Forward
  <2>3. RecvInv'
    BY <1>3, <2>1
       DEF TypeOK, OutcomeInv, RecvInv, Learned, ReceiveEnd, ReaderInv, ReaderGone,
           terminal_error, is_terminal, RecvTypes
  <2>4. QED
    BY <1>3, <2>1, <2>2, <2>3, FrameOutcome DEF OutcomeInv, ReceiveEnd, recvOthers
<1>4. CASE ReceiveCancelled(r)
  <2>1. UNCHANGED <<state, shutdown>>
    BY <1>4 DEF ReceiveCancelled, recvOthers, signalVars
  <2>2. Forward
    BY <2>1 DEF Forward
  <2>3. RecvInv'
    BY <1>4, <2>1 DEF TypeOK, OutcomeInv, RecvInv, Learned, ReceiveCancelled, RecvTypes
  <2>4. QED
    BY <1>4, <2>1, <2>2, <2>3, FrameOutcome DEF OutcomeInv, ReceiveCancelled, recvOthers
<1>5. CASE ReceiveUnclaims(r)
  <2>1. UNCHANGED <<state, shutdown>>
    BY <1>5 DEF ReceiveUnclaims, recvOthers, signalVars
  <2>2. Forward
    BY <2>1 DEF Forward
  <2>3. QED
    BY <1>5, <2>1, <2>2, FrameOutcome DEF OutcomeInv, ReceiveUnclaims, recvOthers
<1>6. QED
  BY <1>1, <1>2, <1>3, <1>4, <1>5 DEF ReceiverNext, ReceiveStep

-----------------------------------------------------------------------------
(* The theorems                                                            *)

\* A driver that was just started has published nothing (driver.rs:130-195).
LEMMA InitOutcome == Init => OutcomeInv
<1> SUFFICES ASSUME Init PROVE OutcomeInv
  OBVIOUS
<1>1. StateInv /\ ReaderInv
  BY NotFallback DEF Init, StateInv, ReaderInv, Open
<1>2. ShutdownInv /\ AbortInv /\ WriterInv /\ WatchdogInv /\ AbandonInv
  BY NotFallback DEF Init, ShutdownInv, AbortInv, WriterInv, WatchdogInv, AbandonInv
<1>3. CloserInv /\ ResponseInv /\ SendInv /\ RecvInv
  BY NotFallback DEF Init, CloserInv, ResponseInv, SendInv, RecvInv, Pending, Dropped
<1>4. QED
  BY <1>1, <1>2, <1>3 DEF OutcomeInv

\* Every step keeps the invariant, and takes nothing back (driver.rs:323-776).
LEMMA NextKeepsOutcome ==
    ASSUME TypeOK, OutcomeInv, [Next]_vars
    PROVE  OutcomeInv' /\ Forward
<1>1. CASE Next
  BY <1>1, ReaderKeepsOutcome, WriterKeepsOutcome, CloserKeepsOutcome, WatchdogKeepsOutcome,
     AbandonKeepsOutcome, SenderKeepsOutcome, ReceiverKeepsOutcome DEF Next
<1>2. CASE UNCHANGED vars
  <2>1. UNCHANGED <<state, shutdown>>
    BY <1>2 DEF vars, signalVars
  <2>2. Forward
    BY <2>1 DEF Forward
  <2>3. QED
    BY <1>2, <2>1, <2>2, FrameOutcome DEF OutcomeInv, vars
<1>3. QED
  BY <1>1, <1>2

\* What every actor tells was published first, in every reachable state
\* (driver.rs:323-406, 438-776).
THEOREM OutcomeFirst == Spec => []OutcomeInv
<1>1. TypeOK /\ OutcomeInv /\ [Next]_vars => OutcomeInv'
  BY NextKeepsOutcome
<1>2. QED
  BY <1>1, InitOutcome, TypeCorrect, PTL DEF Spec

\* A task is aborted, told to abort, or gone only after the connection has an
\* outcome (driver.rs:344-351, 530-534, 588-645).
THEOREM EndsAfterOutcomeHolds == Spec => []EndsAfterOutcome
<1>1. OutcomeInv => EndsAfterOutcome
  BY DEF OutcomeInv, ShutdownInv, AbortInv, ReaderInv, WriterInv, EndsAfterOutcome
<1>2. QED
  BY <1>1, OutcomeFirst, PTL

\* No caller is ever told a fallback outcome (driver.rs:616-625, 403).
THEOREM NoFallbackOutcomeHolds == Spec => []NoFallbackOutcome
<1>1. OutcomeInv => NoFallbackOutcome
  <2> SUFFICES ASSUME OutcomeInv PROVE NoFallbackOutcome
    OBVIOUS
  <2>1. state.error \notin Fallback /\ \A s \in Senders : sendResult[s] \notin Fallback
    BY DEF OutcomeInv, StateInv, SendInv
  <2>2. \A r \in Receivers : recvResult[r] \notin Fallback
    BY <2>1, NotFallback DEF OutcomeInv, RecvInv, Learned
  <2>3. QED
    BY <2>1, <2>2 DEF NoFallbackOutcome
<1>2. QED
  BY <1>1, OutcomeFirst, PTL

\* The outcome is final once Closed, and only abort() replaces the outcome of
\* the peer's close (driver.rs:702-716, 739-776).
THEOREM OutcomeKeptHolds == Spec => OutcomeKept
<1>1. TypeOK /\ OutcomeInv /\ [Next]_vars =>
        [ /\ is_terminal(state) => UNCHANGED state
          /\ state.tag = "PeerClosed" /\ state' # state =>
                state' \in {Closed(state.error), Closed(Transport("abandoned"))} ]_vars
  BY NextKeepsOutcome DEF Forward
<1>2. QED
  BY <1>1, OutcomeFirst, TypeCorrect, PTL DEF Spec, OutcomeKept

=============================================================================
