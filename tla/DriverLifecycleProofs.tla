----------------------- MODULE DriverLifecycleProofs ------------------------
(***************************************************************************)
(* How a connection ends.  CleanupInv of DriverInvariant is inductive, for *)
(* every finite set of close() calls: the count a close() waits for is the *)
(* number of live guards (GuardsCounted), and what it found quiet stays    *)
(* quiet (CloseReturnsAfterCleanup); six actions change the guards, the    *)
(* others are shown to be moves that do not.  OriginInv of DriverFlow is   *)
(* inductive: a close reported as the remote endpoint's was the remote     *)
(* endpoint's, and the driver implements ConnectionLifecycle.              *)
(***************************************************************************)
EXTENDS DriverFlow, DriverOutcomeProofs, FiniteSetTheorems

-----------------------------------------------------------------------------
(* Counting guards                                                         *)

WatchdogIdle == watchdogPc \in {"none", "done"}

\* Sets of close() calls are finite, and adding or removing one call changes
\* their size by one (driver.rs:67-80).
LEMMA CountHolders ==
    ASSUME NEW S \in SUBSET Closers, NEW c \in Closers
    PROVE  /\ Cardinality(S) \in Nat
           /\ c \notin S => Cardinality(S \cup {c}) = Cardinality(S) + 1
           /\ c \in S => Cardinality(S \ {c}) = Cardinality(S) - 1 /\ Cardinality(S) > 0
           /\ Cardinality(S) = 0 => S = {}
<1>1. IsFiniteSet(S)
  BY CallersAssumption, FS_Subset
<1>2. /\ Cardinality(S) \in Nat /\ (Cardinality(S) = 0 <=> S = {})
      /\ Cardinality(S \cup {c}) = IF c \in S THEN Cardinality(S) ELSE Cardinality(S) + 1
      /\ Cardinality(S \ {c}) = IF c \in S THEN Cardinality(S) - 1 ELSE Cardinality(S)
  BY <1>1, FS_CardinalityType, FS_EmptySet, FS_AddElement, FS_RemoveElement
<1>3. QED
  BY <1>2

\* The number of guards held by calls is a number, also without any call.
LEMMA HoldersNumber == \A S \in SUBSET Closers : Cardinality(S) \in Nat
BY CallersAssumption, FS_Subset, FS_CardinalityType

\* The guards of the two tasks, which the watchdog's is added to.
TaskGuards == B2N(readerPc # "stopped") + B2N(writerPc # "stopped")

-----------------------------------------------------------------------------
(* Moves that change no guard                                              *)

guardVars == <<tasksRemaining, closeTimeoutStarted>>

ReaderMoves ==
    /\ readerPc # "stopped" /\ readerPc' # "stopped"
    /\ UNCHANGED <<guardVars, writerPc, watchdogPc, closePc>>
WriterMoves ==
    /\ writerPc # "stopped" /\ writerPc' # "stopped"
    /\ UNCHANGED <<guardVars, readerPc, watchdogPc, closePc>>
WatchdogMoves ==
    /\ ~WatchdogIdle /\ ~WatchdogIdle'
    /\ UNCHANGED <<guardVars, readerPc, writerPc, closePc>>
CloserMovesTo(c, to) ==
    /\ closePc' = [closePc EXCEPT ![c] = to] /\ to \in ClosePcs \ {"done"}
    /\ closePc[c] \in HoldsGuard <=> to \in HoldsGuard
    /\ to \in {"signal", "arm"} => state = Open \/ closePc[c] \in {"signal", "arm"}
    /\ UNCHANGED <<guardVars, readerPc, writerPc, watchdogPc>>
NoGuardMoves == UNCHANGED <<guardVars, readerPc, writerPc, watchdogPc, closePc>>

-----------------------------------------------------------------------------
(* Which steps are such moves                                              *)

\* Only its last step ends the reader's guard (driver.rs:174-177).
LEMMA ReaderOnlyMoves ==
    ASSUME ReaderNext, ~ReaderStops
    PROVE  ReaderMoves
<1>1. CASE ReaderCheck
  BY <1>1
     DEF ReaderMoves, guardVars, ReaderCheck, readerOthers, flagVars, taskVars, writerVars,
         closeVars
<1>2. CASE ReaderSeesSignal
  BY <1>2
     DEF ReaderMoves, guardVars, ReaderSeesSignal, readerOthers, flagVars, taskVars,
         writerVars, closeVars
<1>3. CASE ReadData
  BY <1>3
     DEF ReaderMoves, guardVars, ReadData, readerOthers, flagVars, taskVars, writerVars,
         closeVars
<1>4. CASE ReadPing
  BY <1>4
     DEF ReaderMoves, guardVars, ReadPing, readerOthers, flagVars, taskVars, writerVars,
         closeVars
<1>5. CASE ReadEnd
  BY <1>5
     DEF ReaderMoves, guardVars, ReadEnd, readerOthers, flagVars, taskVars, writerVars,
         closeVars
<1>6. CASE ReadError
  BY <1>6
     DEF ReaderMoves, guardVars, ReadError, readerOthers, flagVars, taskVars, writerVars,
         closeVars
<1>7. CASE ReadClose
  BY <1>7
     DEF ReaderMoves, guardVars, ReadClose, readerOthers, flagVars, taskVars, writerVars,
         closeVars
<1>8. CASE QueueCheck
  BY <1>8
     DEF ReaderMoves, guardVars, QueueCheck, readerOthers, flagVars, taskVars, writerVars,
         closeVars
<1>9. CASE AcquireInbound
  BY <1>9
     DEF ReaderMoves, guardVars, AcquireInbound, readerOthers, flagVars, taskVars,
         writerVars, closeVars
<1>10. CASE Enqueue
  BY <1>10
     DEF ReaderMoves, guardVars, Enqueue, readerOthers, flagVars, taskVars, writerVars,
         closeVars
<1>11. CASE AbandonMessage
  BY <1>11
     DEF ReaderMoves, guardVars, AbandonMessage, readerOthers, flagVars, taskVars,
         writerVars, closeVars
<1>12. CASE EnqueueFails
  BY <1>12
     DEF ReaderMoves, guardVars, EnqueueFails, readerOthers, flagVars, taskVars, writerVars,
         closeVars
<1>13. CASE LoadClosing
  BY <1>13
     DEF ReaderMoves, guardVars, LoadClosing, readerOthers, flagVars, taskVars, writerVars,
         closeVars
<1>14. CASE StoreClosing
  BY <1>14
     DEF ReaderMoves, guardVars, StoreClosing, readerOthers, flagVars, taskVars, writerVars,
         closeVars
<1>15. CASE PublishPeerClosed
  BY <1>15
     DEF ReaderMoves, guardVars, PublishPeerClosed, readerOthers, flagVars, taskVars,
         writerVars, closeVars
<1>16. CASE SignalPeerClose
  BY <1>16
     DEF ReaderMoves, guardVars, SignalPeerClose, readerOthers, flagVars, taskVars,
         writerVars, closeVars
<1>17. CASE ReaderSeesTerminal
  BY <1>17
     DEF ReaderMoves, guardVars, ReaderSeesTerminal, readerOthers, flagVars, taskVars,
         writerVars, closeVars
<1>18. CASE ReaderTimesOut
  BY <1>18
     DEF ReaderMoves, guardVars, ReaderTimesOut, readerOthers, flagVars, taskVars,
         writerVars, closeVars
<1>19. CASE ReaderPublishes
  BY <1>19
     DEF ReaderMoves, guardVars, ReaderPublishes, readerOthers, flagVars, taskVars,
         writerVars, closeVars
<1>20. CASE ReaderSignalsAbort
  BY <1>20
     DEF ReaderMoves, guardVars, ReaderSignalsAbort, readerOthers, flagVars, taskVars,
         writerVars, closeVars
<1>21. CASE ReaderAbortsWriter
  BY <1>21
     DEF ReaderMoves, guardVars, ReaderAbortsWriter, readerOthers, flagVars, taskVars,
         writerVars, closeVars
<1>22. CASE ReaderCancelled
  BY <1>22
     DEF ReaderMoves, guardVars, ReaderCancelled, readerOthers, flagVars, taskVars,
         writerVars, closeVars
<1>23. CASE ReaderDropsContext
  BY <1>23
     DEF ReaderMoves, guardVars, ReaderDropsContext, readerOthers, flagVars, taskVars,
         writerVars, closeVars
<1>24. QED
  BY <1>1, <1>2, <1>3, <1>4, <1>5, <1>6, <1>7, <1>8, <1>9, <1>10, <1>11, <1>12, <1>13, <1>14,
     <1>15, <1>16, <1>17, <1>18, <1>19, <1>20, <1>21, <1>22, <1>23
     DEF ReaderNext, ReaderInput, ReaderStep

\* Only its last step ends the writer's guard (driver.rs:149-160).
LEMMA WriterOnlyMoves ==
    ASSUME TypeOK, WriterNext, ~WriterStops
    PROVE  WriterMoves
<1>1. CASE WriterSeesSignal
  BY <1>1
     DEF TypeOK, SignalTypes, ShutdownSignals, WriterMoves, guardVars, WriterSeesSignal,
         writerOthers, flagVars, taskVars, readerVars, closeVars
<1>2. CASE WriterPollsEvents \/ WriterFindsNothing
  BY <1>2
     DEF WriterMoves, guardVars, WriterPollsEvents, WriterFindsNothing, writerOthers, flagVars,
         taskVars,
         readerVars, closeVars
<1>3. CASE TakeFlush
  BY <1>3
     DEF WriterMoves, guardVars, TakeFlush, writerOthers, flagVars, taskVars, readerVars,
         closeVars
<1>4. CASE TakeControlClosed
  BY <1>4
     DEF WriterMoves, guardVars, TakeControlClosed, writerOthers, flagVars, taskVars,
         readerVars, closeVars
<1>5. CASE TakeCommand
  BY <1>5
     DEF WriterMoves, guardVars, TakeCommand, writerOthers, flagVars, taskVars, readerVars,
         closeVars
<1>6. CASE TakeOutboundClosed
  BY <1>6
     DEF WriterMoves, guardVars, TakeOutboundClosed, writerOthers, flagVars, taskVars,
         readerVars, closeVars
<1>7. CASE WriteCommand
  BY <1>7
     DEF WriterMoves, guardVars, WriteCommand, writerOthers, flagVars, taskVars, readerVars,
         closeVars
<1>8. CASE WriteClose
  BY <1>8
     DEF WriterMoves, guardVars, WriteClose, writerOthers, flagVars, taskVars, readerVars,
         closeVars
<1>9. CASE WriteRefused
  BY <1>9
     DEF WriterMoves, guardVars, WriteRefused, writerOthers, flagVars, taskVars, readerVars,
         closeVars
<1>10. CASE Flush
  BY <1>10
     DEF WriterMoves, guardVars, Flush, writerOthers, flagVars, taskVars, readerVars,
         closeVars
<1>11. CASE WriteFails
  BY <1>11
     DEF WriterMoves, guardVars, WriteFails, writerOthers, flagVars, taskVars, readerVars,
         closeVars
<1>12. CASE Respond
  BY <1>12
     DEF WriterMoves, guardVars, Respond, writerOthers, flagVars, taskVars, readerVars,
         closeVars
<1>13. CASE ReleasePermit
  BY <1>13
     DEF WriterMoves, guardVars, ReleasePermit, writerOthers, flagVars, taskVars, readerVars,
         closeVars
<1>14. CASE AwaitPeer
  BY <1>14
     DEF WriterMoves, guardVars, AwaitPeer, writerOthers, flagVars, taskVars, readerVars,
         closeVars
<1>15. CASE PublishOutcome
  BY <1>15
     DEF WriterMoves, guardVars, PublishOutcome, writerOthers, flagVars, taskVars,
         readerVars, closeVars
<1>16. CASE PublishFailure
  BY <1>16
     DEF WriterMoves, guardVars, PublishFailure, writerOthers, flagVars, taskVars,
         readerVars, closeVars
<1>17. CASE WriterSignalsAbort
  BY <1>17
     DEF WriterMoves, guardVars, WriterSignalsAbort, writerOthers, flagVars, taskVars,
         readerVars, closeVars
<1>18. CASE RespondFailure
  BY <1>18
     DEF WriterMoves, guardVars, RespondFailure, writerOthers, flagVars, taskVars,
         readerVars, closeVars
<1>19. CASE WriterCancelled
  BY <1>19
     DEF WriterMoves, guardVars, WriterCancelled, writerOthers, flagVars, taskVars,
         readerVars, closeVars
<1>20. CASE WriterClosesQueue
  BY <1>20
     DEF WriterMoves, guardVars, WriterClosesQueue, writerOthers, flagVars, taskVars,
         readerVars, closeVars
<1>21. CASE DrainCommand
  BY <1>21
     DEF WriterMoves, guardVars, DrainCommand, writerOthers, flagVars, taskVars, readerVars,
         closeVars
<1>22. CASE WriterDropsQueue
  BY <1>22
     DEF WriterMoves, guardVars, WriterDropsQueue, writerOthers, flagVars, taskVars,
         readerVars, closeVars
<1>23. QED
  BY <1>1, <1>2, <1>3, <1>4, <1>5, <1>6, <1>7, <1>8, <1>9, <1>10, <1>11, <1>12, <1>13, <1>14,
     <1>15, <1>16, <1>17, <1>18, <1>19, <1>20, <1>21, <1>22
     DEF WriterNext, WriterIO, WriterStep

\* Only its last step ends the watchdog's guard (driver.rs:380-387).
LEMMA WatchdogOnlyMoves ==
    ASSUME WatchdogStep, ~WatchdogStops
    PROVE  WatchdogMoves
<1>1. CASE WatchdogSeesTerminal
  BY <1>1
     DEF WatchdogMoves, guardVars, WatchdogSeesTerminal, WatchdogIdle, watchdogOthers,
         closeOthers, flagVars, taskVars, readerVars, writerVars
<1>2. CASE WatchdogExpires
  BY <1>2
     DEF WatchdogMoves, guardVars, WatchdogExpires, WatchdogIdle, watchdogOthers,
         closeOthers, flagVars, taskVars, readerVars, writerVars
<1>3. CASE WatchdogPublishes
  BY <1>3
     DEF WatchdogMoves, guardVars, WatchdogPublishes, WatchdogIdle, watchdogOthers,
         closeOthers, flagVars, taskVars, readerVars, writerVars
<1>4. CASE WatchdogAbortsReader
  BY <1>4
     DEF WatchdogMoves, guardVars, WatchdogAbortsReader, WatchdogIdle, watchdogOthers,
         closeOthers, flagVars, taskVars, readerVars, writerVars
<1>5. CASE WatchdogAbortsWriter
  BY <1>5
     DEF WatchdogMoves, guardVars, WatchdogAbortsWriter, WatchdogIdle, watchdogOthers,
         closeOthers, flagVars, taskVars, readerVars, writerVars
<1>6. QED
  BY <1>1, <1>2, <1>3, <1>4, <1>5 DEF WatchdogStep

\* abort() and the drop touch no guard (driver.rs:344-351, 409-413).
LEMMA AbandonOnlyMoves ==
    ASSUME AbandonNext
    PROVE  NoGuardMoves
<1>1. CASE AbandonStores
  BY <1>1
     DEF NoGuardMoves, guardVars, AbandonStores, AbandonStep, abandonOthers, closeOthers,
         flagVars, taskVars, readerVars, writerVars
<1>2. CASE AbandonPublishes
  BY <1>2
     DEF NoGuardMoves, guardVars, AbandonPublishes, AbandonStep, abandonOthers, closeOthers,
         flagVars, taskVars, readerVars, writerVars
<1>3. CASE AbandonSignals
  BY <1>3
     DEF NoGuardMoves, guardVars, AbandonSignals, AbandonStep, abandonOthers, closeOthers,
         flagVars, taskVars, readerVars, writerVars
<1>4. CASE AbandonAbortsReader
  BY <1>4
     DEF NoGuardMoves, guardVars, AbandonAbortsReader, AbandonStep, abandonOthers,
         closeOthers, flagVars, taskVars, readerVars, writerVars
<1>5. CASE AbandonAbortsWriter
  BY <1>5
     DEF NoGuardMoves, guardVars, AbandonAbortsWriter, AbandonStep, abandonOthers,
         closeOthers, flagVars, taskVars, readerVars, writerVars
<1>6. CASE DropDriver
  BY <1>6
     DEF NoGuardMoves, guardVars, DropDriver, AbandonStep, abandonOthers, closeOthers,
         flagVars, taskVars, readerVars, writerVars
<1>7. CASE DropInbound
  BY <1>7
     DEF NoGuardMoves, guardVars, DropInbound, recvOthers, flagVars, taskVars, readerVars,
         writerVars, closeVars
<1>8. QED
  BY <1>1, <1>2, <1>3, <1>4, <1>5, <1>6, <1>7 DEF AbandonNext, AbandonRest

\* A send touches no guard (driver.rs:246-312).
LEMMA SenderOnlyMoves ==
    ASSUME NEW s \in Senders, SenderNext(s)
    PROVE  NoGuardMoves
<1>1. CASE SendValidate(s)
  BY <1>1
     DEF NoGuardMoves, guardVars, SendValidate, sendOthers, flagVars, taskVars, readerVars,
         writerVars, closeVars
<1>2. CASE SendAcquire(s)
  BY <1>2
     DEF NoGuardMoves, guardVars, SendAcquire, sendOthers, flagVars, taskVars, readerVars,
         writerVars, closeVars
<1>3. CASE SendReserve(s)
  BY <1>3
     DEF NoGuardMoves, guardVars, SendReserve, sendOthers, flagVars, taskVars, readerVars,
         writerVars, closeVars
<1>4. CASE SendPush(s)
  BY <1>4
     DEF NoGuardMoves, guardVars, SendPush, sendOthers, flagVars, taskVars, readerVars,
         writerVars, closeVars
<1>5. CASE SendReturns(s)
  BY <1>5
     DEF NoGuardMoves, guardVars, SendReturns, sendOthers, flagVars, taskVars, readerVars,
         writerVars, closeVars
<1>6. CASE SendCancelled(s)
  BY <1>6
     DEF NoGuardMoves, guardVars, SendCancelled, sendOthers, flagVars, taskVars, readerVars,
         writerVars, closeVars
<1>7. QED
  BY <1>1, <1>2, <1>3, <1>4, <1>5, <1>6 DEF SenderNext, SendStep

\* A receive() touches no guard (driver.rs:314-321).
LEMMA ReceiverOnlyMoves ==
    ASSUME NEW r \in Receivers, ReceiverNext(r)
    PROVE  NoGuardMoves
<1>1. CASE ReceiveClaim(r)
  BY <1>1
     DEF NoGuardMoves, guardVars, ReceiveClaim, recvOthers, flagVars, taskVars, readerVars,
         writerVars, closeVars
<1>2. CASE ReceiveMessage(r)
  BY <1>2
     DEF NoGuardMoves, guardVars, ReceiveMessage, recvOthers, flagVars, taskVars, readerVars,
         writerVars, closeVars
<1>3. CASE ReceiveEnd(r)
  BY <1>3
     DEF NoGuardMoves, guardVars, ReceiveEnd, recvOthers, flagVars, taskVars, readerVars,
         writerVars, closeVars
<1>4. CASE ReceiveCancelled(r)
  BY <1>4
     DEF NoGuardMoves, guardVars, ReceiveCancelled, recvOthers, flagVars, taskVars,
         readerVars, writerVars, closeVars
<1>5. CASE ReceiveUnclaims(r)
  BY <1>5
     DEF NoGuardMoves, guardVars, ReceiveUnclaims, recvOthers, flagVars, taskVars,
         readerVars, writerVars, closeVars
<1>6. QED
  BY <1>1, <1>2, <1>3, <1>4, <1>5 DEF ReceiverNext, ReceiveStep

\* Three steps of a close() take, hand over or drop its guard, one returns
\* (driver.rs:323-388).
LEMMA CloserOnlyMoves ==
    ASSUME NEW c \in Closers, CloserNext(c),
           ~CloseTakesGuard(c), ~CloseArm(c), ~CloseDropsGuard(c), ~CloseReturns(c)
    PROVE  \E to : CloserMovesTo(c, to)
<1>1. CASE CloseStart(c)
  <2>1. CloserMovesTo(c, "guard") \/ CloserMovesTo(c, "wait tasks")
    BY <1>1
       DEF CloserMovesTo, guardVars, CloseStart, At, ClosePcs, HoldsGuard, closeOthers,
           flagVars, taskVars, readerVars, writerVars
  <2>2. QED
    BY <2>1
<1>2. CASE CloseSwap(c)
  <2>1. CloserMovesTo(c, IF closing THEN "drop guard" ELSE "publish")
    BY <1>2
       DEF CloserMovesTo, guardVars, CloseSwap, At, ClosePcs, HoldsGuard, closeOthers,
           flagVars, taskVars, readerVars, writerVars
  <2>2. QED
    BY <2>1
<1>3. CASE ClosePublish(c)
  <2>1. CloserMovesTo(c, IF state = Open THEN "signal" ELSE "drop guard")
    BY <1>3
       DEF CloserMovesTo, guardVars, ClosePublish, At, ClosePcs, HoldsGuard, closeOthers,
           flagVars, taskVars, readerVars, writerVars
  <2>2. QED
    BY <2>1
<1>4. CASE CloseSignal(c)
  <2>1. CloserMovesTo(c, "arm")
    BY <1>4
       DEF CloserMovesTo, guardVars, CloseSignal, At, ClosePcs, HoldsGuard, closeOthers,
           flagVars, taskVars, readerVars, writerVars
  <2>2. QED
    BY <2>1
<1>5. CASE CloseSeesTerminal(c)
  <2>1. CloserMovesTo(c, "wait tasks")
    BY <1>5
       DEF CloserMovesTo, guardVars, CloseSeesTerminal, At, ClosePcs, HoldsGuard,
           closeOthers, flagVars, taskVars, readerVars, writerVars
  <2>2. QED
    BY <2>1
<1>6. CASE CloseCancelled(c)
  <2>1. CloserMovesTo(c, "cancelled")
    BY <1>6
       DEF CloserMovesTo, guardVars, CloseCancelled, At, ClosePcs, HoldsGuard, closeOthers,
           flagVars, taskVars, readerVars, writerVars
  <2>2. QED
    BY <2>1
<1>7. QED
  BY <1>1, <1>2, <1>3, <1>4, <1>5, <1>6 DEF CloserNext, CloseStep

-----------------------------------------------------------------------------
(* CleanupInv is inductive                                                 *)

\* A step that ends or keeps no guard keeps the invariant (driver.rs:67-80).
LEMMA MovesKeepCleanup ==
    ASSUME CleanupInv, ReaderMoves \/ WriterMoves \/ WatchdogMoves \/ NoGuardMoves
    PROVE  CleanupInv'
<1>1. Holders' = Holders
  BY DEF Holders, ReaderMoves, WriterMoves, WatchdogMoves, NoGuardMoves
<1>2. GuardsCounted'
  BY <1>1 DEF CleanupInv, GuardsCounted, LiveGuards, B2N, WatchdogIdle, guardVars,
              ReaderMoves, WriterMoves, WatchdogMoves, NoGuardMoves
<1>3. (~closeTimeoutStarted => watchdogPc = "none")'
  BY DEF CleanupInv, guardVars, WatchdogIdle, ReaderMoves, WriterMoves, WatchdogMoves,
         NoGuardMoves
<1>4. ((\E c \in Closers : closePc[c] = "done") => Quiet)'
  BY DEF CleanupInv, Quiet, WatchdogIdle, ReaderMoves, WriterMoves, WatchdogMoves,
         NoGuardMoves
<1>5. QED
  BY <1>2, <1>3, <1>4 DEF CleanupInv

\* So does the last step of each task, which drops its guard
\* (driver.rs:149-177, 380-387).
LEMMA StopsKeepCleanup ==
    ASSUME TypeOK, CleanupInv, ReaderStops \/ WriterStops \/ WatchdogStops
    PROVE  CleanupInv'
<1>1. UNCHANGED <<closePc, closeTimeoutStarted>> /\ Holders' = Holders
  BY DEF ReaderStops, WriterStops, WatchdogStops, watchdogOthers, closeOthers, closeVars,
         flagVars, writerOthers, readerOthers, Holders
<1>2. Cardinality(Holders) \in Nat
  BY HoldersNumber DEF Holders
<1>3. tasksRemaining \in Nat /\ TaskEnded
  BY DEF TypeOK, TaskTypes, ReaderStops, WriterStops, WatchdogStops
<1>4. CASE ReaderStops
  <2>1. readerPc = "gone" /\ readerPc' = "stopped" /\ UNCHANGED <<writerPc, watchdogPc>>
    BY <1>4 DEF ReaderStops, writerVars, closeVars
  <2>2. GuardsCounted'
    BY <1>1, <1>2, <1>3, <2>1
    DEF CleanupInv, GuardsCounted, LiveGuards, B2N, TaskEnded
  <2>3. QED
    BY <1>1, <2>1, <2>2 DEF CleanupInv, Quiet
<1>5. CASE WriterStops
  <2>1. writerPc = "gone" /\ writerPc' = "stopped" /\ UNCHANGED <<readerPc, watchdogPc>>
    BY <1>5 DEF WriterStops, readerVars, closeVars
  <2>2. GuardsCounted'
    BY <1>1, <1>2, <1>3, <2>1
    DEF CleanupInv, GuardsCounted, LiveGuards, B2N, TaskEnded
  <2>3. QED
    BY <1>1, <2>1, <2>2 DEF CleanupInv, Quiet
<1>6. CASE WatchdogStops
  <2>1. watchdogPc = "drop" /\ watchdogPc' = "done" /\ UNCHANGED <<readerPc, writerPc>>
    BY <1>6 DEF WatchdogStops, watchdogOthers, closeOthers, readerVars, writerVars
  <2>2. GuardsCounted'
    BY <1>1, <1>2, <1>3, <2>1
    DEF CleanupInv, GuardsCounted, LiveGuards, B2N, TaskEnded
  <2>3. QED
    BY <1>1, <2>1, <2>2 DEF CleanupInv, Quiet
<1>7. QED
  BY <1>4, <1>5, <1>6

\* A close() that moves between steps of one kind changes no guard, and after
\* the connection ended none begins the handshake (driver.rs:323-388).
LEMMA CloserMovesKeepCleanup ==
    ASSUME TypeOK, OutcomeInv, CleanupInv, NEW c \in Closers, NEW to, CloserMovesTo(c, to)
    PROVE  CleanupInv'
<1>1. /\ closePc' = [closePc EXCEPT ![c] = to] /\ to # "done"
      /\ closePc[c] \in HoldsGuard <=> to \in HoldsGuard
      /\ to \in {"signal", "arm"} => state = Open \/ closePc[c] \in {"signal", "arm"}
  BY DEF CloserMovesTo
<1>2. UNCHANGED <<tasksRemaining, closeTimeoutStarted, readerPc, writerPc, watchdogPc>>
  BY DEF CloserMovesTo, guardVars
<1>3. closePc \in [Closers -> ClosePcs]
  BY DEF TypeOK, CloseTypes
<1>4. Holders' = Holders
  BY <1>1, <1>3 DEF Holders
<1>5. GuardsCounted'
  BY <1>2, <1>4 DEF CleanupInv, GuardsCounted, LiveGuards
<1>6. ASSUME NEW d \in Closers, closePc'[d] = "done"
      PROVE  Quiet'
  <2>1. closePc[d] = "done" /\ Quiet
    BY <1>1, <1>3, <1>6 DEF CleanupInv
  <2>2. is_terminal(state)
    BY <1>6, <2>1 DEF OutcomeInv, CloserInv, Learned
  <2>3. state # Open
    BY <2>2 DEF is_terminal, Open
  <2>4. QED
    BY <1>1, <1>2, <1>3, <2>1, <2>3 DEF Quiet
<1>7. QED
  BY <1>2, <1>5, <1>6 DEF CleanupInv

\* Taking, handing over and dropping a guard keeps the count, and the close()
\* that returns found every guard gone (driver.rs:340-388).
LEMMA GuardStepsKeepCleanup ==
    ASSUME TypeOK, OutcomeInv, CleanupInv, NEW c \in Closers,
           CloseTakesGuard(c) \/ CloseArm(c) \/ CloseDropsGuard(c) \/ CloseReturns(c)
    PROVE  CleanupInv'
<1>1. closePc \in [Closers -> ClosePcs] /\ tasksRemaining \in Nat
  BY DEF TypeOK, CloseTypes, TaskTypes
<1>2. /\ Cardinality(Holders) \in Nat
      /\ c \notin Holders => Cardinality(Holders \cup {c}) = Cardinality(Holders) + 1
      /\ c \in Holders => Cardinality(Holders \ {c}) = Cardinality(Holders) - 1
      /\ c \in Holders => Cardinality(Holders) > 0
      /\ Cardinality(Holders) = 0 => Holders = {}
  BY CountHolders DEF Holders
<1>3. UNCHANGED <<readerPc, writerPc>>
  BY DEF CloseTakesGuard, CloseArm, CloseDropsGuard, CloseReturns, closeOthers, readerVars,
         writerVars
<1>4. CASE CloseTakesGuard(c)
  <2>1. /\ closePc[c] = "guard" /\ closePc' = [closePc EXCEPT ![c] = "swap"]
        /\ tasksRemaining' = tasksRemaining + 1 /\ UNCHANGED <<watchdogPc, closeTimeoutStarted>>
    BY <1>4 DEF CloseTakesGuard, At, TaskStarted, flagVars
  <2>2. c \notin Holders /\ Holders' = Holders \cup {c}
    BY <1>1, <2>1 DEF Holders, HoldsGuard
  <2>3. GuardsCounted'
    BY <1>2, <1>3, <2>1, <2>2
    DEF CleanupInv, GuardsCounted, LiveGuards, B2N
  <2>4. QED
    BY <1>1, <1>3, <2>1, <2>3 DEF CleanupInv, Quiet
<1>5. CASE CloseArm(c)
  <2>1. /\ closePc[c] = "arm" /\ c \in Holders /\ closeTimeoutStarted'
        /\ UNCHANGED tasksRemaining
    BY <1>5 DEF CloseArm, At, taskVars, Holders, HoldsGuard
  <2>2. \A d \in Closers : closePc'[d] # "done"
    BY <1>1, <1>5, <2>1 DEF CleanupInv, Quiet, CloseArm, At
  <2>3. GuardsCounted'
    <3>1. CASE closeTimeoutStarted
      <4>1. closePc' = [closePc EXCEPT ![c] = "drop guard"] /\ UNCHANGED watchdogPc
        BY <1>5, <3>1 DEF CloseArm, At
      <4>2. Holders' = Holders
        BY <1>1, <2>1, <4>1 DEF Holders, HoldsGuard
      <4>3. QED
        BY <1>3, <2>1, <4>1, <4>2 DEF CleanupInv, GuardsCounted, LiveGuards
    <3>2. CASE ~closeTimeoutStarted
      <4>1. /\ closePc' = [closePc EXCEPT ![c] = "wait terminal"]
            /\ watchdogPc = "none" /\ watchdogPc' = "sleeping"
        BY <1>5, <3>2 DEF CloseArm, At, CleanupInv
      <4>2. Holders' = Holders \ {c}
        BY <1>1, <4>1 DEF Holders, HoldsGuard
      <4>3. Cardinality(Holders') = Cardinality(Holders) - 1
        BY <1>2, <2>1, <4>2
      <4>4. TaskGuards \in Nat /\ TaskGuards' = TaskGuards
        BY <1>3 DEF TaskGuards, B2N
      <4>5. LiveGuards = TaskGuards + Cardinality(Holders)
        <5>1. B2N(watchdogPc \notin {"none", "done"}) = 0
          BY <4>1 DEF B2N
        <5>2. QED
          BY <1>2, <4>4, <5>1 DEF LiveGuards, TaskGuards
      <4>6. LiveGuards' = TaskGuards + 1 + Cardinality(Holders')
        <5>1. B2N(watchdogPc' \notin {"none", "done"}) = 1
          BY <4>1 DEF B2N
        <5>2. LiveGuards' = TaskGuards' + 1 + Cardinality(Holders')
          BY <5>1 DEF LiveGuards, TaskGuards
        <5>3. QED
          BY <4>4, <5>2
      <4>7. QED
        BY <1>1, <1>2, <2>1, <4>3, <4>4, <4>5, <4>6 DEF CleanupInv, GuardsCounted
    <3>3. QED
      BY <3>1, <3>2
  <2>4. QED
    BY <2>1, <2>2, <2>3 DEF CleanupInv
<1>6. CASE CloseDropsGuard(c)
  <2>1. /\ closePc[c] = "drop guard" /\ closePc' = [closePc EXCEPT ![c] = "wait terminal"]
        /\ TaskEnded /\ UNCHANGED <<watchdogPc, closeTimeoutStarted>>
    BY <1>6 DEF CloseDropsGuard, At, flagVars
  <2>2. c \in Holders /\ Holders' = Holders \ {c}
    BY <1>1, <2>1 DEF Holders, HoldsGuard
  <2>3. Cardinality(Holders') = Cardinality(Holders) - 1 /\ Cardinality(Holders) > 0
    BY <1>2, <2>2
  <2>4. LiveGuards' = LiveGuards - 1 /\ LiveGuards > 0
    <3> DEFINE W == B2N(watchdogPc \notin {"none", "done"})
    <3>1. TaskGuards \in Nat /\ TaskGuards' = TaskGuards
      BY <1>3 DEF TaskGuards, B2N
    <3>2. W \in Nat /\ W' = W
      BY <2>1 DEF B2N
    <3>3. LiveGuards = TaskGuards + W + Cardinality(Holders)
      BY DEF LiveGuards, TaskGuards
    <3>4. LiveGuards' = TaskGuards' + W' + Cardinality(Holders')
      BY DEF LiveGuards, TaskGuards
    <3> HIDE DEF W
    <3>5. QED
      BY <1>2, <2>3, <3>1, <3>2, <3>3, <3>4
  <2>5. GuardsCounted'
    <3>1. tasksRemaining = LiveGuards /\ tasksRemaining \in Nat /\ LiveGuards > 0
      BY <1>1, <2>4 DEF CleanupInv, GuardsCounted
    <3>2. tasksRemaining # 0
      BY <3>1
    <3>3. tasksRemaining' = tasksRemaining - 1
      BY <2>1, <3>2 DEF TaskEnded
    <3>4. QED
      BY <2>4, <3>1, <3>3 DEF GuardsCounted
  <2>6. QED
    BY <1>1, <1>3, <2>1, <2>5 DEF CleanupInv, Quiet
<1>7. CASE CloseReturns(c)
  <2>1. /\ closePc[c] = "wait tasks" /\ closePc' = [closePc EXCEPT ![c] = "done"]
        /\ tasksRemaining = 0
        /\ UNCHANGED <<tasksRemaining, watchdogPc, closeTimeoutStarted>>
    BY <1>7 DEF CloseReturns, At, flagVars, taskVars
  <2>2. /\ readerPc = "stopped" /\ writerPc = "stopped" /\ watchdogPc \in {"none", "done"}
        /\ Cardinality(Holders) = 0
    <3>1. LiveGuards = 0
      BY <2>1 DEF CleanupInv, GuardsCounted
    <3>2. QED
      BY <1>2, <3>1 DEF LiveGuards, B2N
  <2>3. Holders = {} /\ Holders' = {}
    BY <1>1, <1>2, <2>1, <2>2 DEF Holders, HoldsGuard
  <2>4. GuardsCounted'
    BY <1>3, <2>1, <2>3 DEF CleanupInv, GuardsCounted, LiveGuards
  <2>5. Quiet'
    BY <1>3, <2>1, <2>2, <2>3 DEF Quiet, Holders, HoldsGuard
  <2>6. QED
    BY <2>1, <2>4, <2>5 DEF CleanupInv
<1>8. QED
  BY <1>4, <1>5, <1>6, <1>7

\* Two tasks hold the two guards of a driver that was just started
\* (driver.rs:130-195).
LEMMA InitCleanup == Init => CleanupInv
<1> SUFFICES ASSUME Init PROVE CleanupInv
  OBVIOUS
<1>1. Holders = {} /\ Cardinality(Holders) = 0
  BY FS_EmptySet DEF Init, Holders, HoldsGuard
<1>2. GuardsCounted
  BY <1>1 DEF Init, GuardsCounted, LiveGuards, B2N
<1>3. QED
  BY <1>2 DEF Init, CleanupInv

\* Every step keeps the invariant of the cleanup (driver.rs:67-80, 323-388).
LEMMA NextKeepsCleanup ==
    ASSUME TypeOK, OutcomeInv, CleanupInv, [Next]_vars
    PROVE  CleanupInv'
<1>1. CASE ReaderNext \/ WriterNext \/ WatchdogStep
  BY <1>1, ReaderOnlyMoves, WriterOnlyMoves, WatchdogOnlyMoves, MovesKeepCleanup,
     StopsKeepCleanup
<1>2. CASE AbandonNext
  BY <1>2, AbandonOnlyMoves, MovesKeepCleanup
<1>3. ASSUME NEW c \in Closers, CloserNext(c)
      PROVE  CleanupInv'
  BY <1>3, CloserOnlyMoves, CloserMovesKeepCleanup, GuardStepsKeepCleanup
<1>4. ASSUME NEW s \in Senders, SenderNext(s)
      PROVE  CleanupInv'
  BY <1>4, SenderOnlyMoves, MovesKeepCleanup
<1>5. ASSUME NEW r \in Receivers, ReceiverNext(r)
      PROVE  CleanupInv'
  BY <1>5, ReceiverOnlyMoves, MovesKeepCleanup
<1>6. CASE UNCHANGED vars
  <2>1. NoGuardMoves
    BY <1>6 DEF NoGuardMoves, guardVars, vars, flagVars, taskVars, readerVars, writerVars,
                closeVars
  <2>2. QED
    BY <2>1, MovesKeepCleanup
<1>7. QED
  BY <1>1, <1>2, <1>3, <1>4, <1>5, <1>6 DEF Next

-----------------------------------------------------------------------------
(* The theorems                                                            *)

\* The guards are counted, and a returned close() found the connection quiet
\* for good (driver.rs:67-80, 323-388).
THEOREM CleanupHolds == Spec => []CleanupInv
<1>1. TypeOK /\ OutcomeInv /\ CleanupInv /\ [Next]_vars => CleanupInv'
  BY NextKeepsCleanup
<1>2. QED
  BY <1>1, InitCleanup, TypeCorrect, OutcomeFirst, PTL DEF Spec

\* The count close() waits on is exactly the number of live task guards
\* (driver.rs:67-80, 353-388).
THEOREM GuardsCountedHolds == Spec => []GuardsCounted
<1>1. CleanupInv => GuardsCounted
  BY DEF CleanupInv
<1>2. QED
  BY <1>1, CleanupHolds, PTL

\* A close() that returned did so after both tasks had released the socket and
\* no watchdog was left (driver.rs:323-342).
THEOREM CloseReturnsAfterCleanupHolds == Spec => []CloseReturnsAfterCleanup
<1>1. CleanupInv => CloseReturnsAfterCleanup
  BY DEF CleanupInv, Quiet, CloseReturnsAfterCleanup
<1>2. QED
  BY <1>1, CleanupHolds, PTL
-----------------------------------------------------------------------------
(* No wake-up is lost: WakeInv is inductive                                *)

EndTold == is_terminal(state) => WriterTold /\ ReaderTold

\* What the timer of a handshake depends on (driver.rs:353-388).
timerVars == <<closeTimeoutStarted, closePc, watchdogPc>>

\* An outcome is published over an open, a closing or a closed connection, and the
\* connection is not opened again (driver.rs:739-776).
OutcomeOnly == state' = state \/ state'.tag \in {"PeerClosed", "Closed"}

\* An outcome ends the handshake, and nothing but the handshake needs its timer.
LEMMA TimerFrame ==
    ASSUME HandshakeTimed, OutcomeOnly, UNCHANGED timerVars
    PROVE  HandshakeTimed'
BY DEF HandshakeTimed, OutcomeOnly, timerVars, Arming

\* A signal is new to a task that goes on, or was not seen before (driver.rs:778-812).
LEMMA SignalStaysUnseen ==
    ASSUME SignalTypes, SignalsSeen, NEW next, Signal(next),
           writerPc' = writerPc \/ writerPc' \in {"fail respond", "stop"},
           readerPc' = readerPc \/ readerPc' \in {"await terminal", "abort writer"}
    PROVE  SignalsSeen'
<1>1. \/ next = shutdown /\ shutdown' = shutdown
         /\ readerUnseen' = readerUnseen /\ writerUnseen' = writerUnseen
      \/ next # shutdown /\ readerUnseen' = TRUE /\ writerUnseen' = TRUE
  <2>1. CASE next = shutdown
    BY <2>1 DEF Signal, SignalTypes
  <2>2. CASE next # shutdown
    BY <2>2 DEF Signal, SignalTypes
  <2>3. QED
    BY <2>1, <2>2
<1>2. QED
  BY <1>1 DEF SignalsSeen

\* The state functions publish outcomes (driver.rs:739-776).
LEMMA PublishesOutcomes ==
    ASSUME NEW s, NEW e
    PROVE  /\ is_terminal(publish_terminal(s, e))
           /\ is_terminal(publish_writer_failure(s, e))
           /\ is_terminal(publish_close_timeout(s))
           /\ publish_peer_closed(s, e).tag \in {"PeerClosed", "Closed"}
           /\ is_terminal(publish_peer_closed(s, e)) => publish_peer_closed(s, e) = s
BY DEF publish_terminal, publish_writer_failure, publish_close_timeout, publish_peer_closed,
       is_terminal, Closed, PeerClosed

\* The reader sees every signal before it goes on, and whoever it publishes for, it
\* goes on to abort the writer (driver.rs:438-573).
LEMMA ReaderKeepsWake ==
    ASSUME TypeOK, WakeInv, ReaderNext
    PROVE  WakeInv'
<1>1. /\ UNCHANGED <<timerVars, abandonPc, writerPc, readerAborted>>
      /\ writerAborted' \in {writerAborted, TRUE}
  BY DEF ReaderNext, ReaderInput, ReaderStep, ReaderCheck, ReaderSeesSignal, ReadData,
         ReadPing, ReadEnd, ReadError, ReadClose, QueueCheck, AcquireInbound, Enqueue,
         AbandonMessage, EnqueueFails, LoadClosing, StoreClosing, PublishPeerClosed,
         SignalPeerClose, ReaderSeesTerminal, ReaderTimesOut, ReaderPublishes,
         ReaderSignalsAbort, ReaderAbortsWriter, ReaderCancelled, ReaderDropsContext,
         ReaderStops, readerOthers, flagVars, taskVars, closeVars, writerVars, timerVars
<1>2. HandshakeTimed /\ SignalsSeen /\ EndTold /\ shutdown \in ShutdownSignals
  BY DEF WakeInv, EndTold, TypeOK, SignalTypes
<1>3. CASE \/ ReaderCheck \/ ReadData \/ ReadPing \/ ReadEnd \/ ReadError \/ ReadClose
           \/ QueueCheck \/ AcquireInbound \/ Enqueue \/ EnqueueFails \/ LoadClosing
           \/ StoreClosing
  <2>1. /\ UNCHANGED <<state, signalVars>>
        /\ readerPc \in {"check", "select", "queue", "acquire", "enqueue", "load closing",
                         "store closing"}
        /\ readerPc = "check" /\ readerPc' # "stop" => shutdown # "Abort"
        /\ readerPc = "queue" /\ readerPc' # "check" => shutdown = "Running"
        /\ readerPc \in {"load closing", "store closing"}
              => readerPc' \in {"fail publish", "store closing", "publish peer"}
    BY <1>3
       DEF ReaderCheck, ReadData, ReadPing, ReadEnd, ReadError, ReadClose, QueueCheck,
           AcquireInbound, Enqueue, EnqueueFails, LoadClosing, StoreClosing, signalVars
  <2>2. SignalsSeen' /\ EndTold'
    BY <1>1, <1>2, <2>1
       DEF SignalsSeen, EndTold, WriterTold, ReaderTold, signalVars, timerVars
  <2>3. QED
    BY <1>1, <1>2, <2>1, <2>2, TimerFrame DEF WakeInv, EndTold, OutcomeOnly
<1>4. CASE ReaderSeesSignal \/ AbandonMessage
  <2>1. /\ UNCHANGED <<state, shutdown, writerUnseen>>
        /\ readerPc \in {"select", "acquire", "enqueue"} /\ readerPc' \in {"check", "stop"}
    BY <1>4 DEF ReaderSeesSignal, AbandonMessage
  <2>2. SignalsSeen' /\ EndTold'
    BY <1>1, <1>2, <2>1 DEF SignalsSeen, EndTold, WriterTold, ReaderTold, timerVars
  <2>3. QED
    BY <1>1, <1>2, <2>1, <2>2, TimerFrame DEF WakeInv, EndTold, OutcomeOnly
<1>5. CASE \/ SignalPeerClose \/ ReaderSeesTerminal \/ ReaderTimesOut \/ ReaderSignalsAbort
           \/ ReaderAbortsWriter \/ ReaderCancelled \/ ReaderDropsContext \/ ReaderStops
  <2>1. /\ UNCHANGED state
        /\ readerPc' \in {"await terminal", "timeout publish", "abort writer", "stop", "gone",
                          "stopped"}
        /\ readerPc = "fail signal" => readerPc' = "abort writer"
        /\ readerPc = "abort writer" => writerAborted' = TRUE
        /\ \/ UNCHANGED signalVars
           \/ /\ \E next : Signal(next)
              /\ readerPc' \in {"await terminal", "abort writer"}
    BY <1>5
       DEF SignalPeerClose, ReaderSeesTerminal, ReaderTimesOut, ReaderSignalsAbort,
           ReaderAbortsWriter, ReaderCancelled, ReaderDropsContext, ReaderStops
  <2>2. SignalsSeen'
    <3>1. CASE UNCHANGED signalVars
      BY <1>1, <1>2, <2>1, <3>1 DEF SignalsSeen, signalVars
    <3>2. CASE ~UNCHANGED signalVars
      BY <1>1, <1>2, <2>1, <3>2, SignalStaysUnseen DEF TypeOK
    <3>3. QED
      BY <3>1, <3>2
  <2>3. EndTold'
    BY <1>1, <1>2, <2>1 DEF EndTold, WriterTold, ReaderTold, timerVars
  <2>4. QED
    BY <1>1, <1>2, <2>1, <2>2, <2>3, TimerFrame DEF WakeInv, EndTold, OutcomeOnly
<1>6. CASE PublishPeerClosed
  <2>1. /\ state' = publish_peer_closed(state, readerOutcome) /\ UNCHANGED signalVars
        /\ readerPc = "publish peer" /\ readerPc' = "signal peer"
    BY <1>6 DEF PublishPeerClosed
  <2>2. OutcomeOnly /\ (is_terminal(state)' => is_terminal(state))
    BY <2>1, PublishesOutcomes DEF OutcomeOnly
  <2>3. SignalsSeen' /\ EndTold'
    BY <1>1, <1>2, <2>1, <2>2
       DEF SignalsSeen, EndTold, WriterTold, ReaderTold, signalVars, timerVars
  <2>4. QED
    BY <1>1, <1>2, <2>2, <2>3, TimerFrame DEF WakeInv, EndTold
<1>7. CASE ReaderPublishes
  <2>1. /\ state' = publish_terminal(state, readerOutcome) /\ UNCHANGED signalVars
        /\ readerPc' \in {"fail signal", "abort writer"}
    BY <1>7 DEF ReaderPublishes
  <2>2. OutcomeOnly
    BY <2>1, PublishesOutcomes DEF OutcomeOnly, is_terminal
  <2>3. SignalsSeen' /\ EndTold'
    BY <1>1, <1>2, <2>1 DEF SignalsSeen, EndTold, WriterTold, ReaderTold, signalVars, timerVars
  <2>4. QED
    BY <1>1, <1>2, <2>2, <2>3, TimerFrame DEF WakeInv, EndTold
<1>8. QED
  BY <1>3, <1>4, <1>5, <1>6, <1>7 DEF ReaderNext, ReaderInput, ReaderStep

\* The writer leaves its loop for the first signal it sees; when it ends the
\* connection itself, it signals the reader, unless the reader waits for that end
\* (driver.rs:575-716).
LEMMA WriterKeepsWake ==
    ASSUME TypeOK, OutcomeInv, WakeInv, WriterNext
    PROVE  WakeInv'
<1>1. UNCHANGED <<timerVars, abandonPc, readerPc, readerAborted, writerAborted>>
  BY DEF WriterNext, WriterIO, WriterStep, WriterSeesSignal, WriterPollsEvents,
         WriterFindsNothing, TakeFlush,
         TakeControlClosed, TakeCommand, TakeOutboundClosed, WriteCommand, WriteClose,
         WriteRefused, Flush, WriteFails, Respond, ReleasePermit, AwaitPeer, PublishOutcome,
         PublishFailure, WriterSignalsAbort, RespondFailure, WriterCancelled,
         WriterClosesQueue, DrainCommand, WriterDropsQueue, WriterStops, writerOthers,
         flagVars, taskVars, closeVars, readerVars, timerVars
<1>2. HandshakeTimed /\ SignalsSeen /\ EndTold /\ shutdown \in ShutdownSignals
  BY DEF WakeInv, EndTold, TypeOK, SignalTypes
<1>3. CASE \/ WriterPollsEvents \/ WriterFindsNothing \/ TakeFlush \/ TakeControlClosed
           \/ TakeCommand
           \/ TakeOutboundClosed \/ WriteCommand \/ WriteClose \/ WriteRefused \/ Flush
           \/ WriteFails \/ Respond \/ ReleasePermit
  <2>1. /\ UNCHANGED <<state, signalVars>>
        /\ writerPc \in {"select", "events", "flush", "write", "command flush", "respond",
                         "release", "send close", "send close flush", "close flush"}
        /\ writerPc \in {"send close", "send close flush", "close flush"}
              => writerPc' \in {"send close flush", "await peer", "close done", "fail publish"}
    BY <1>3
       DEF WriterPollsEvents, WriterFindsNothing, TakeFlush, TakeControlClosed, TakeCommand,
           TakeOutboundClosed,
           WriteCommand, WriteClose, WriteRefused, Flush, WriteFails, Respond, ReleasePermit
  <2>2. SignalsSeen' /\ EndTold'
    BY <1>1, <1>2, <2>1
       DEF SignalsSeen, EndTold, WriterTold, ReaderTold, signalVars, timerVars
  <2>3. QED
    BY <1>1, <1>2, <2>1, <2>2, TimerFrame DEF WakeInv, EndTold, OutcomeOnly
<1>4. CASE WriterSeesSignal \/ AwaitPeer
  <2>1. /\ UNCHANGED <<state, shutdown, readerUnseen>>
        /\ writerPc \in {"select", "await peer"}
        /\ shutdown = "Running" \/ writerPc' \in {"stop", "send close", "close flush",
                                                  "close done"}
    BY <1>2, <1>4 DEF WriterSeesSignal, AwaitPeer, ShutdownSignals
  <2>2. SignalsSeen' /\ EndTold'
    BY <1>1, <1>2, <2>1 DEF SignalsSeen, EndTold, WriterTold, ReaderTold, timerVars
  <2>3. QED
    BY <1>1, <1>2, <2>1, <2>2, TimerFrame DEF WakeInv, EndTold, OutcomeOnly
<1>5. CASE \/ WriterSignalsAbort \/ RespondFailure \/ WriterCancelled
           \/ WriterClosesQueue \/ DrainCommand \/ WriterDropsQueue \/ WriterStops
  <2>1. /\ UNCHANGED state
        /\ writerPc' \in {"fail respond", "stop", "draining", "gone", "stopped"}
        /\ writerPc = "fail signal" => shutdown' = "Abort"
        /\ UNCHANGED signalVars \/ (Signal("Abort") /\ writerPc' \in {"fail respond", "stop"})
    BY <1>5
       DEF WriterSignalsAbort, RespondFailure, WriterCancelled, WriterClosesQueue,
           DrainCommand, WriterDropsQueue, WriterStops, Signal, signal_abort
  <2>2. SignalsSeen' /\ (shutdown = "Abort" => shutdown' = "Abort")
    <3>1. CASE UNCHANGED signalVars
      BY <1>1, <1>2, <2>1, <3>1 DEF SignalsSeen, signalVars
    <3>2. CASE Signal("Abort") /\ writerPc' \in {"fail respond", "stop"}
      BY <1>1, <1>2, <3>2, SignalStaysUnseen DEF TypeOK, Signal
    <3>3. QED
      BY <2>1, <3>1, <3>2
  <2>3. EndTold'
    BY <1>1, <1>2, <2>1, <2>2 DEF EndTold, WriterTold, ReaderTold, timerVars
  <2>4. QED
    BY <1>1, <1>2, <2>1, <2>2, <2>3, TimerFrame DEF WakeInv, EndTold, OutcomeOnly
<1>6. CASE PublishOutcome
  <2>1. /\ state' = IF state.tag = "PeerClosed" THEN publish_terminal(state, state.error)
                    ELSE state
        /\ UNCHANGED signalVars /\ writerPc = "close done" /\ writerPc' = "stop"
    BY <1>6 DEF PublishOutcome
  <2>2. OutcomeOnly /\ (is_terminal(state)' => is_terminal(state) \/ state.tag = "PeerClosed")
    BY <2>1, PublishesOutcomes DEF OutcomeOnly, is_terminal
  <2>3. state.tag = "PeerClosed" => readerPc \in {"signal peer", "await terminal",
                                                  "timeout publish"}
    BY DEF OutcomeInv, StateInv
  <2>4. SignalsSeen' /\ EndTold'
    BY <1>1, <1>2, <2>1, <2>2, <2>3
       DEF SignalsSeen, EndTold, WriterTold, ReaderTold, signalVars, timerVars
  <2>5. QED
    BY <1>1, <1>2, <2>2, <2>4, TimerFrame DEF WakeInv, EndTold
<1>7. CASE PublishFailure
  <2>1. /\ state' = publish_writer_failure(state, writerError) /\ UNCHANGED signalVars
        /\ writerPc' = "fail signal"
    BY <1>7 DEF PublishFailure
  <2>2. OutcomeOnly
    BY <2>1, PublishesOutcomes DEF OutcomeOnly, is_terminal
  <2>3. SignalsSeen' /\ EndTold'
    BY <1>1, <1>2, <2>1 DEF SignalsSeen, EndTold, WriterTold, ReaderTold, signalVars
  <2>4. QED
    BY <1>1, <1>2, <2>2, <2>3, TimerFrame DEF WakeInv, EndTold
<1>8. QED
  BY <1>3, <1>4, <1>5, <1>6, <1>7 DEF WriterNext, WriterIO, WriterStep

\* The call that begins the handshake signals it and starts the timer, and no later
\* call does (driver.rs:323-388).
LEMMA CloserKeepsWake ==
    ASSUME TypeOK, CleanupInv, WakeInv, NEW c \in Closers, CloserNext(c)
    PROVE  WakeInv'
<1>1. UNCHANGED <<readerPc, writerPc, abandonPc, readerAborted, writerAborted>>
  BY DEF CloserNext, CloseStep, CloseStart, CloseTakesGuard, CloseSwap, ClosePublish,
         CloseSignal, CloseArm, CloseDropsGuard, CloseSeesTerminal, CloseReturns,
         CloseCancelled, taskVars, closeOthers, readerVars, writerVars
<1>2. /\ HandshakeTimed /\ SignalsSeen /\ EndTold
      /\ shutdown \in ShutdownSignals /\ closePc \in [Closers -> ClosePcs]
      /\ state.tag \in {"Open", "Closing", "PeerClosed", "Closed"}
      /\ state.tag = "Open" <=> state = Open
  BY StateCases DEF WakeInv, EndTold, TypeOK, SignalTypes, StateTypes, CloseTypes
<1>3. CASE ClosePublish(c)
  <2>1. /\ UNCHANGED <<signalVars, closeTimeoutStarted, watchdogPc>>
        /\ closePc[c] = "publish" /\ state' = begin_closing(state)
        /\ closePc' = [closePc EXCEPT ![c] = IF state = Open THEN "signal" ELSE "drop guard"]
    BY <1>3 DEF ClosePublish, At, flagVars
  <2>2. /\ state.tag = "Open" => state'.tag = "Closing" /\ c \in Arming'
        /\ state.tag # "Open" => state' = state /\ Arming' = Arming
    BY <1>2, <2>1 DEF begin_closing, Closing, Arming
  <2>3. HandshakeTimed'
    BY <1>2, <2>1, <2>2 DEF HandshakeTimed
  <2>4. SignalsSeen' /\ EndTold'
    BY <1>1, <1>2, <2>1, <2>2
       DEF SignalsSeen, EndTold, WriterTold, ReaderTold, signalVars, is_terminal
  <2>5. QED
    BY <2>3, <2>4 DEF WakeInv, EndTold
<1>4. CASE CloseSignal(c)
  <2>1. /\ UNCHANGED <<state, closeTimeoutStarted, watchdogPc>>
        /\ closePc[c] = "signal" /\ closePc' = [closePc EXCEPT ![c] = "arm"]
        /\ Signal(signal_local_close(shutdown))
    BY <1>4 DEF CloseSignal, At, flagVars
  <2>2. Arming' = Arming
    BY <1>2, <2>1 DEF Arming
  <2>3. HandshakeTimed'
    BY <1>2, <2>1, <2>2 DEF HandshakeTimed
  <2>4. SignalsSeen' /\ EndTold'
    BY <1>1, <1>2, <2>1
       DEF SignalsSeen, EndTold, WriterTold, ReaderTold, Signal, signal_local_close
  <2>5. QED
    BY <2>3, <2>4 DEF WakeInv, EndTold
<1>5. CASE CloseArm(c)
  <2>1. /\ UNCHANGED <<state, signalVars>> /\ closePc[c] = "arm" /\ closeTimeoutStarted'
        /\ watchdogPc' = IF closeTimeoutStarted THEN watchdogPc ELSE "sleeping"
    BY <1>5 DEF CloseArm, At
  <2>2. c \in Arming
    BY <2>1 DEF Arming
  <2>3. HandshakeTimed'
    BY <1>2, <2>1, <2>2 DEF HandshakeTimed
  <2>4. watchdogPc \in {"abort reader", "abort writer"} => watchdogPc' = watchdogPc
    BY <2>1 DEF CleanupInv
  <2>5. SignalsSeen' /\ EndTold'
    BY <1>1, <1>2, <2>1, <2>4 DEF SignalsSeen, EndTold, WriterTold, ReaderTold, signalVars
  <2>6. QED
    BY <2>3, <2>5 DEF WakeInv, EndTold
<1>6. CASE ~ClosePublish(c) /\ ~CloseSignal(c) /\ ~CloseArm(c)
  <2>1. /\ UNCHANGED <<state, signalVars, closeTimeoutStarted, watchdogPc>>
        /\ closePc[c] \notin {"signal", "arm"}
        /\ \E to \in ClosePcs \ {"signal", "arm"} : closePc' = [closePc EXCEPT ![c] = to]
    BY <1>6
       DEF CloserNext, CloseStep, CloseStart, CloseTakesGuard, CloseSwap, CloseDropsGuard,
           CloseSeesTerminal, CloseReturns, CloseCancelled, At, flagVars, ClosePcs, HoldsGuard
  <2>2. Arming' = Arming
    BY <1>2, <2>1 DEF Arming
  <2>3. HandshakeTimed'
    BY <1>2, <2>1, <2>2 DEF HandshakeTimed
  <2>4. SignalsSeen' /\ EndTold'
    BY <1>1, <1>2, <2>1 DEF SignalsSeen, EndTold, WriterTold, ReaderTold, signalVars
  <2>5. QED
    BY <2>3, <2>4 DEF WakeInv, EndTold
<1>7. QED
  BY <1>3, <1>4, <1>5, <1>6

\* The watchdog gives up waiting only for a terminal state, and ends what it started
\* (driver.rs:367-388).
LEMMA WatchdogKeepsWake ==
    ASSUME TypeOK, WakeInv, WatchdogStep
    PROVE  WakeInv'
<1>1. /\ UNCHANGED <<signalVars, closeTimeoutStarted, closePc, abandonPc, readerPc, writerPc>>
      /\ readerAborted' \in {readerAborted, TRUE}
      /\ writerAborted' \in {writerAborted, TRUE}
  BY DEF WatchdogStep, WatchdogSeesTerminal, WatchdogExpires, WatchdogPublishes,
         WatchdogAbortsReader, WatchdogAbortsWriter, WatchdogStops, watchdogOthers, taskVars,
         closeOthers, flagVars, readerVars, writerVars
<1>2. HandshakeTimed /\ SignalsSeen /\ EndTold
  BY DEF WakeInv, EndTold
<1>3. SignalsSeen'
  BY <1>1, <1>2 DEF SignalsSeen, signalVars
<1>4. CASE WatchdogSeesTerminal \/ WatchdogExpires
  <2>1. /\ UNCHANGED state /\ watchdogPc = "sleeping"
        /\ watchdogPc' = "publish" \/ is_terminal(state)
    BY <1>4 DEF WatchdogSeesTerminal, WatchdogExpires
  <2>2. HandshakeTimed'
    BY <1>1, <1>2, <2>1 DEF HandshakeTimed, Arming, is_terminal
  <2>3. EndTold'
    BY <1>1, <1>2, <2>1 DEF EndTold, WriterTold, ReaderTold, signalVars
  <2>4. QED
    BY <1>3, <2>2, <2>3 DEF WakeInv, EndTold
<1>5. CASE WatchdogPublishes
  <2>1. is_terminal(state)' /\ watchdogPc' = "abort reader"
    BY <1>5, PublishesOutcomes DEF WatchdogPublishes
  <2>2. HandshakeTimed'
    BY <2>1 DEF HandshakeTimed, is_terminal
  <2>3. EndTold'
    BY <2>1 DEF EndTold, WriterTold, ReaderTold
  <2>4. QED
    BY <1>3, <2>2, <2>3 DEF WakeInv, EndTold
<1>6. CASE WatchdogAbortsReader \/ WatchdogAbortsWriter \/ WatchdogStops
  <2>1. /\ UNCHANGED state /\ watchdogPc \notin {"sleeping", "publish"}
        /\ watchdogPc = "abort reader"
              => readerAborted' = TRUE /\ watchdogPc' = "abort writer"
        /\ watchdogPc = "abort writer" => writerAborted' = TRUE
    BY <1>6 DEF WatchdogAbortsReader, WatchdogAbortsWriter, WatchdogStops
  <2>2. HandshakeTimed'
    BY <1>1, <1>2, <2>1 DEF HandshakeTimed, Arming
  <2>3. EndTold'
    BY <1>1, <1>2, <2>1 DEF EndTold, WriterTold, ReaderTold, signalVars
  <2>4. QED
    BY <1>3, <2>2, <2>3 DEF WakeInv, EndTold
<1>7. QED
  BY <1>4, <1>5, <1>6 DEF WatchdogStep

\* abort() goes on to signal and to abort both tasks once it published
\* (driver.rs:344-351).
LEMMA AbandonKeepsWake ==
    ASSUME TypeOK, WakeInv, AbandonNext
    PROVE  WakeInv'
<1>1. /\ UNCHANGED <<timerVars, readerPc, writerPc>>
      /\ readerAborted' \in {readerAborted, TRUE}
      /\ writerAborted' \in {writerAborted, TRUE}
  BY DEF AbandonNext, AbandonRest, AbandonStores, AbandonPublishes, AbandonSignals,
         AbandonAbortsReader, AbandonAbortsWriter, DropDriver, DropInbound, abandonOthers,
         closeOthers, recvOthers, taskVars, flagVars, closeVars, readerVars, writerVars,
         timerVars
<1>2. HandshakeTimed /\ SignalsSeen /\ EndTold
  BY DEF WakeInv, EndTold
<1>3. CASE AbandonPublishes
  <2>1. is_terminal(state)' /\ abandonPc' = "signal" /\ UNCHANGED signalVars
    BY <1>3, PublishesOutcomes DEF AbandonPublishes, AbandonStep
  <2>2. SignalsSeen' /\ EndTold'
    BY <1>1, <1>2, <2>1 DEF SignalsSeen, EndTold, WriterTold, ReaderTold, signalVars
  <2>3. QED
    BY <1>1, <1>2, <2>1, <2>2, TimerFrame DEF WakeInv, EndTold, OutcomeOnly, is_terminal
<1>4. CASE \/ AbandonStores \/ AbandonSignals \/ AbandonAbortsReader \/ AbandonAbortsWriter
           \/ DropDriver \/ DropInbound
  <2>1. /\ UNCHANGED state
        /\ abandonPc = "signal" => abandonPc' = "abort reader" /\ shutdown' = "Abort"
        /\ abandonPc = "abort reader" => readerAborted' = TRUE /\ abandonPc' = "abort writer"
        /\ abandonPc = "abort writer" => writerAborted' = TRUE
        /\ UNCHANGED signalVars \/ Signal("Abort")
    BY <1>4
       DEF AbandonStores, AbandonSignals, AbandonAbortsReader, AbandonAbortsWriter, DropDriver,
           DropInbound, AbandonStep, DriverGone, recvOthers, closeVars, signal_abort, Signal
  <2>2. SignalsSeen'
    <3>1. CASE UNCHANGED signalVars
      BY <1>1, <1>2, <3>1 DEF SignalsSeen, signalVars
    <3>2. CASE Signal("Abort")
      BY <1>1, <1>2, <3>2, SignalStaysUnseen DEF TypeOK
    <3>3. QED
      BY <2>1, <3>1, <3>2
  <2>3. shutdown = "Abort" => shutdown' = "Abort"
    BY <2>1 DEF Signal, signalVars
  <2>4. EndTold'
    BY <1>1, <1>2, <2>1, <2>3 DEF EndTold, WriterTold, ReaderTold, timerVars
  <2>5. QED
    BY <1>1, <1>2, <2>1, <2>2, <2>4, TimerFrame DEF WakeInv, EndTold, OutcomeOnly
<1>5. QED
  BY <1>3, <1>4 DEF AbandonNext, AbandonRest

\* Sends and receives neither signal nor end anything (driver.rs:246-321).
LEMMA WakeFrame ==
    ASSUME WakeInv,
           UNCHANGED <<state, signalVars, flagVars, taskVars, readerVars, writerVars, closeVars>>
    PROVE  WakeInv'
BY DEF WakeInv, HandshakeTimed, SignalsSeen, WriterTold, ReaderTold, Arming, signalVars,
       flagVars, taskVars, readerVars, writerVars, closeVars

\* A connection that just started waits for nothing (driver.rs:130-195).
LEMMA InitWake == Init => WakeInv
BY DEF Init, WakeInv, HandshakeTimed, SignalsSeen, Arming, Open, is_terminal

\* Every step keeps the invariant (driver.rs:246-776).
LEMMA NextKeepsWake ==
    ASSUME TypeOK, OutcomeInv, CleanupInv, WakeInv, [Next]_vars
    PROVE  WakeInv'
<1>1. ASSUME NEW s \in Senders, SenderNext(s) PROVE UNCHANGED sendOthers
  BY <1>1
     DEF SenderNext, SendStep, SendValidate, SendAcquire, SendReserve, SendPush, SendReturns,
         SendCancelled
<1>2. ASSUME NEW r \in Receivers, ReceiverNext(r) PROVE UNCHANGED recvOthers
  BY <1>2
     DEF ReceiverNext, ReceiveStep, ReceiveClaim, ReceiveMessage, ReceiveEnd,
         ReceiveCancelled, ReceiveUnclaims
<1>3. CASE UNCHANGED sendOthers \/ UNCHANGED recvOthers \/ UNCHANGED vars
  BY <1>3, WakeFrame DEF sendOthers, recvOthers, vars
<1>4. QED
  BY <1>1, <1>2, <1>3, ReaderKeepsWake, WriterKeepsWake, CloserKeepsWake, WatchdogKeepsWake,
     AbandonKeepsWake DEF Next

\* Whichever of the six paths ended the connection, no task is left waiting for a
\* signal that was sent, for an abort that nobody owes it, or for a timer that does
\* not run (driver.rs:344-388, 438-534, 575-649, 652-716).
THEOREM WakeInvHolds == Spec => []WakeInv
<1>1. TypeOK /\ OutcomeInv /\ CleanupInv /\ WakeInv /\ [Next]_vars => WakeInv'
  BY NextKeepsWake
<1>2. QED
  BY <1>1, InitWake, TypeCorrect, OutcomeFirst, CleanupHolds, PTL DEF Spec

-----------------------------------------------------------------------------
(* Outcomes of a kind                                                      *)

\* What each place of the code may compute, and that only the frame of the peer
\* read before any close of ours gives a remote outcome (driver.rs:476-496,
\* 616-676, 757-776).
LEMMA KindsOfOutcomes ==
    /\ \A frame \in CloseFrames, b \in BOOLEAN :
          /\ classify_close(frame, b) \in Lifecycle!Handshaken
          /\ Remote(classify_close(frame, b)) => ~b
    /\ local_normal \in Lifecycle!Handshaken /\ ~Remote(local_normal)
    /\ \A cause \in Causes : Transport(cause) \in Lifecycle!Failures
    /\ \A cause : ~Remote(Transport(cause))
    /\ \A e \in Lifecycle!Failures : ~Remote(e)
    /\ ~Remote(NoError)
<1>1. Lifecycle!CloseFrames = CloseFrames /\ Lifecycle!Causes = Causes
  BY DEF CloseFrames, Causes, Lifecycle!CloseFrames, Lifecycle!Causes
<1>2. \A frame \in CloseFrames, b \in BOOLEAN :
          /\ classify_close(frame, b) \in Lifecycle!Handshaken
          /\ Remote(classify_close(frame, b)) => ~b
  BY <1>1 DEF Lifecycle!Handshaken, Remote, classify_close, ClosedOk, ClosedError
<1>3. local_normal \in Lifecycle!Handshaken /\ ~Remote(local_normal)
  BY <1>1 DEF Lifecycle!Handshaken, Remote, local_normal, ClosedOk, CloseFrames
<1>4. /\ \A cause \in Causes : Transport(cause) \in Lifecycle!Failures
      /\ \A cause : ~Remote(Transport(cause))
      /\ \A e \in Lifecycle!Failures : ~Remote(e)
      /\ ~Remote(NoError)
  BY <1>1 DEF Lifecycle!Failures, Remote, Transport, NoError
<1>5. QED
  BY <1>2, <1>3, <1>4

\* Publishing makes the state hold the outcome it held or the one published
\* (driver.rs:739-776).
LEMMA PublishedError ==
    ASSUME NEW s, NEW e
    PROVE  /\ publish_terminal(s, e).error \in {s.error, e}
           /\ publish_peer_closed(s, e).error \in {s.error, e}
           /\ publish_writer_failure(s, e).error \in {s.error, e}
           /\ begin_closing(s).error \in {s.error, NoError}
BY DEF publish_terminal, publish_peer_closed, publish_writer_failure, begin_closing,
   is_terminal,
       Closed, PeerClosed, Closing

\* What is on the wire does not change under a step that leaves it alone
\* (driver.rs:669-676).
LEMMA OurCloseStays == UNCHANGED wire => (OurCloseSent' <=> OurCloseSent)
BY DEF OurCloseSent, Elements

\* A frame that is written joins those on the wire (driver.rs:626-676).
LEMMA AppendedFrame ==
    ASSUME NEW S, NEW q \in Seq(S), NEW e \in S
    PROVE  Elements(Append(q, e)) = Elements(q) \cup {e}
<1>1. /\ Len(q) \in Nat /\ Len(Append(q, e)) = Len(q) + 1 /\ Append(q, e)[Len(q) + 1] = e
      /\ \A i \in 1..Len(q) : Append(q, e)[i] = q[i]
  OBVIOUS
<1>2. \A i \in 1..Len(Append(q, e)) : i \in 1..Len(q) \/ i = Len(q) + 1
  BY <1>1
<1>3. /\ \A i \in 1..Len(q) : i \in 1..Len(Append(q, e))
      /\ Len(q) + 1 \in 1..Len(Append(q, e))
  BY <1>1
<1>4. QED
  BY <1>1, <1>2, <1>3 DEF Elements

-----------------------------------------------------------------------------
(* The steps of each actor                                                 *)

\* The reader decides on an outcome once, for the frame it read and the flag it
\* found, and publishes that (driver.rs:438-534).
LEMMA ReaderKeepsOrigin ==
    ASSUME TypeOK, OriginInv, ReaderNext
    PROVE  OriginInv'
<1>1. CASE ReaderCheck
  BY <1>1, OurCloseStays
     DEF OriginInv, FlagInv, RemoteInv, ResultInv, Undecided, ReaderCheck, readerOthers,
         writerVars, closeVars, outboundVars, signalVars, flagVars, socketVars
<1>2. CASE ReaderSeesSignal
  BY <1>2, OurCloseStays
     DEF OriginInv, FlagInv, RemoteInv, ResultInv, Undecided, ReaderSeesSignal,
         readerOthers, writerVars, closeVars, outboundVars, signalVars, flagVars, socketVars
<1>3. CASE ReadData
  BY <1>3, OurCloseStays
     DEF OriginInv, FlagInv, RemoteInv, ResultInv, Undecided, ReadData, readerOthers,
         writerVars, closeVars, outboundVars, signalVars, flagVars, socketVars
<1>4. CASE ReadPing
  BY <1>4, OurCloseStays
     DEF OriginInv, FlagInv, RemoteInv, ResultInv, Undecided, ReadPing, readerOthers,
         writerVars, closeVars, outboundVars, signalVars, flagVars, socketVars
<1>5. CASE ReadEnd
  BY <1>5, OurCloseStays
     DEF OriginInv, FlagInv, RemoteInv, ResultInv, Undecided, ReadEnd, readerOthers,
         writerVars, closeVars, outboundVars, signalVars, flagVars, socketVars
<1>6. CASE ReadError
  BY <1>6, OurCloseStays, KindsOfOutcomes
     DEF OriginInv, FlagInv, RemoteInv, ResultInv, Undecided, ReadError, readerOthers,
         writerVars, closeVars, outboundVars, signalVars, flagVars, socketVars, Causes
<1>7. CASE ReadClose
  BY <1>7, OurCloseStays
     DEF OriginInv, FlagInv, RemoteInv, ResultInv, Undecided, ReadClose, readerOthers,
         writerVars, closeVars, outboundVars, signalVars, flagVars, socketVars
<1>8. CASE QueueCheck
  BY <1>8, OurCloseStays
     DEF OriginInv, FlagInv, RemoteInv, ResultInv, Undecided, QueueCheck, readerOthers,
         writerVars, closeVars, outboundVars, signalVars, flagVars, socketVars
<1>9. CASE AcquireInbound
  BY <1>9, OurCloseStays
     DEF OriginInv, FlagInv, RemoteInv, ResultInv, Undecided, AcquireInbound, readerOthers,
         writerVars, closeVars, outboundVars, signalVars, flagVars, socketVars
<1>10. CASE Enqueue
  BY <1>10, OurCloseStays
     DEF OriginInv, FlagInv, RemoteInv, ResultInv, Undecided, Enqueue, readerOthers,
         writerVars, closeVars, outboundVars, signalVars, flagVars, socketVars
<1>11. CASE AbandonMessage
  BY <1>11, OurCloseStays
     DEF OriginInv, FlagInv, RemoteInv, ResultInv, Undecided, AbandonMessage, readerOthers,
         writerVars, closeVars, outboundVars, signalVars, flagVars, socketVars
<1>12. CASE EnqueueFails
  BY <1>12, OurCloseStays
     DEF OriginInv, FlagInv, RemoteInv, ResultInv, Undecided, EnqueueFails, readerOthers,
         writerVars, closeVars, outboundVars, signalVars, flagVars, socketVars, CloseFrames
<1>13. CASE LoadClosing
  <2>1. readerFrame \in CloseFrames \cup {"End"} /\ closing \in BOOLEAN
    BY <1>13 DEF LoadClosing, TypeOK, ReaderTypes, FlagTypes
  <2>2. CASE readerFrame = "End"
    <3>1. /\ closing => readerOutcome' = local_normal /\ readerPc' = "publish peer"
          /\ ~closing => readerOutcome' = Transport("ended") /\ readerPc' = "fail publish"
      BY <1>13, <2>2 DEF LoadClosing
    <3>2. ~Remote(readerOutcome') /\ ~Remote(state.error)
      BY <1>13, <3>1, KindsOfOutcomes
         DEF OriginInv, RemoteInv, Undecided, LoadClosing
    <3>3. "ended" \in Causes
      BY DEF Causes
    <3>4. QED
      BY <1>13, <3>1, <3>2, <3>3, OurCloseStays, KindsOfOutcomes
         DEF OriginInv, FlagInv, RemoteInv, ResultInv, LoadClosing, readerOthers, writerVars,
             closeVars, signalVars, flagVars, socketVars
  <2>3. CASE readerFrame # "End"
    <3>1. readerOutcome' = classify_close(readerFrame, closing) /\ readerPc' = "store closing"
      BY <1>13, <2>3 DEF LoadClosing
    <3>2. /\ readerOutcome' \in Lifecycle!Handshaken
          /\ Remote(readerOutcome') => ~closing
          /\ ~Remote(state.error)
      BY <1>13, <2>1, <2>3, <3>1, KindsOfOutcomes
         DEF OriginInv, RemoteInv, Undecided, LoadClosing
    <3>3. QED
      BY <1>13, <2>1, <2>3, <3>1, <3>2, OurCloseStays
         DEF OriginInv, FlagInv, RemoteInv, ResultInv, Undecided, LoadClosing, readerOthers,
             writerVars, closeVars, signalVars, flagVars, socketVars
  <2>4. QED
    BY <2>2, <2>3
<1>14. CASE StoreClosing
  BY <1>14, OurCloseStays
     DEF OriginInv, FlagInv, RemoteInv, ResultInv, Undecided, StoreClosing, readerOthers,
         writerVars, closeVars, outboundVars, signalVars, flagVars, socketVars
<1>15. CASE PublishPeerClosed
  BY <1>15, OurCloseStays, KindsOfOutcomes, PublishedError
     DEF OriginInv, FlagInv, RemoteInv, ResultInv, Undecided, PublishPeerClosed,
         readerOthers, writerVars, closeVars, outboundVars, signalVars, flagVars, socketVars
<1>16. CASE SignalPeerClose
  BY <1>16, OurCloseStays
     DEF OriginInv, FlagInv, RemoteInv, ResultInv, Undecided, SignalPeerClose, readerOthers,
         writerVars, closeVars, outboundVars, signalVars, flagVars, socketVars
<1>17. CASE ReaderSeesTerminal
  BY <1>17, OurCloseStays
     DEF OriginInv, FlagInv, RemoteInv, ResultInv, Undecided, ReaderSeesTerminal,
         readerOthers, writerVars, closeVars, outboundVars, signalVars, flagVars, socketVars
<1>18. CASE ReaderTimesOut
  BY <1>18, OurCloseStays
     DEF OriginInv, FlagInv, RemoteInv, ResultInv, Undecided, ReaderTimesOut, readerOthers,
         writerVars, closeVars, outboundVars, signalVars, flagVars, socketVars
<1>19. CASE ReaderPublishes
  BY <1>19, OurCloseStays, KindsOfOutcomes, PublishedError
     DEF OriginInv, FlagInv, RemoteInv, ResultInv, Undecided, ReaderPublishes, readerOthers,
         writerVars, closeVars, outboundVars, signalVars, flagVars, socketVars
<1>20. CASE ReaderSignalsAbort
  BY <1>20, OurCloseStays
     DEF OriginInv, FlagInv, RemoteInv, ResultInv, Undecided, ReaderSignalsAbort,
         readerOthers, writerVars, closeVars, outboundVars, signalVars, flagVars,
         socketVars, Signal, signal_abort
<1>21. CASE ReaderAbortsWriter
  BY <1>21, OurCloseStays
     DEF OriginInv, FlagInv, RemoteInv, ResultInv, Undecided, ReaderAbortsWriter,
         readerOthers, writerVars, closeVars, outboundVars, signalVars, flagVars, socketVars
<1>22. CASE ReaderCancelled
  BY <1>22, OurCloseStays
     DEF OriginInv, FlagInv, RemoteInv, ResultInv, Undecided, ReaderCancelled, readerOthers,
         writerVars, closeVars, outboundVars, signalVars, flagVars, socketVars
<1>23. CASE ReaderDropsContext
  BY <1>23, OurCloseStays
     DEF OriginInv, FlagInv, RemoteInv, ResultInv, Undecided, ReaderDropsContext,
         readerOthers, writerVars, closeVars, outboundVars, signalVars, flagVars, socketVars
<1>24. CASE ReaderStops
  BY <1>24, OurCloseStays
     DEF OriginInv, FlagInv, RemoteInv, ResultInv, Undecided, ReaderStops, readerOthers,
         writerVars, closeVars, outboundVars, signalVars, flagVars, socketVars
<1>25. QED
  BY <1>1, <1>2, <1>3, <1>4, <1>5, <1>6, <1>7, <1>8, <1>9, <1>10, <1>11, <1>12, <1>13,
     <1>14, <1>15, <1>16, <1>17, <1>18, <1>19, <1>20, <1>21, <1>22, <1>23, <1>24
     DEF ReaderNext, ReaderInput, ReaderStep

\* The writer sends its close frame only for a signal, and only while the socket
\* is active; what it publishes is its own failure or what was published
\* (driver.rs:575-716).
LEMMA WriterKeepsOrigin ==
    ASSUME TypeOK, OriginInv, WriterNext
    PROVE  OriginInv'
<1>1. CASE WriterSeesSignal
  <2>1. shutdown \in ShutdownSignals
    BY DEF TypeOK, SignalTypes
  <2>2. /\ writerPc' = "send close" => shutdown = "LocalClose"
        /\ writerPc' # "fail publish"
    BY <1>1, <2>1 DEF WriterSeesSignal, ShutdownSignals
  <2>3. QED
    BY <1>1, <2>2, OurCloseStays
       DEF OriginInv, FlagInv, RemoteInv, ResultInv, WriterSeesSignal, writerOthers,
           readerVars, closeVars, flagVars, socketVars
<1>2. CASE WriterPollsEvents \/ WriterFindsNothing
  BY <1>2, OurCloseStays
     DEF OriginInv, FlagInv, RemoteInv, ResultInv, Undecided, WriterPollsEvents,
         WriterFindsNothing,
         writerOthers, readerVars, closeVars, signalVars, flagVars, socketVars
<1>3. CASE TakeFlush
  BY <1>3, OurCloseStays
     DEF OriginInv, FlagInv, RemoteInv, ResultInv, Undecided, TakeFlush, writerOthers,
         readerVars, closeVars, signalVars, flagVars, socketVars
<1>4. CASE TakeControlClosed
  BY <1>4, OurCloseStays, KindsOfOutcomes
     DEF OriginInv, FlagInv, RemoteInv, ResultInv, Undecided, TakeControlClosed,
         writerOthers, readerVars, closeVars, signalVars, flagVars, socketVars, Causes
<1>5. CASE TakeCommand
  BY <1>5, OurCloseStays
     DEF OriginInv, FlagInv, RemoteInv, ResultInv, Undecided, TakeCommand, writerOthers,
         readerVars, closeVars, signalVars, flagVars, socketVars
<1>6. CASE TakeOutboundClosed
  BY <1>6, OurCloseStays
     DEF OriginInv, FlagInv, RemoteInv, ResultInv, Undecided, TakeOutboundClosed,
         writerOthers, readerVars, closeVars, signalVars, flagVars, socketVars
<1>7. CASE WriteCommand
  <2>1. wire \in Seq(Senders \cup {CloseSent}) /\ writerCmd \in Senders
    BY <1>7 DEF WriteCommand, TypeOK, SocketTypes, WriterTypes
  <2>2. OurCloseSent' <=> OurCloseSent
    <3>1. Elements(Append(wire, writerCmd)) = Elements(wire) \cup {writerCmd}
      BY <2>1, AppendedFrame
    <3>2. Elements(wire)' = Elements(Append(wire, writerCmd))
      BY <1>7 DEF WriteCommand, Elements
    <3>3. writerCmd # CloseSent
      BY <2>1, CallersAssumption
    <3>4. QED
      BY <3>1, <3>2, <3>3 DEF OurCloseSent
  <2>3. QED
    BY <1>7, <2>2
       DEF OriginInv, FlagInv, RemoteInv, ResultInv, WriteCommand, writerOthers, readerVars,
           closeVars, signalVars, flagVars
<1>8. CASE WriteClose
  BY <1>8, OurCloseStays
     DEF OriginInv, FlagInv, RemoteInv, ResultInv, Undecided, WriteClose, writerOthers,
         readerVars, closeVars, signalVars, flagVars, socketVars
<1>9. CASE WriteRefused
  BY <1>9, OurCloseStays, KindsOfOutcomes
     DEF OriginInv, FlagInv, RemoteInv, ResultInv, Undecided, WriteRefused, writerOthers,
         readerVars, closeVars, signalVars, flagVars, socketVars, Causes
<1>10. CASE Flush
  BY <1>10, OurCloseStays
     DEF OriginInv, FlagInv, RemoteInv, ResultInv, Undecided, Flush, writerOthers,
         readerVars, closeVars, signalVars, flagVars, socketVars
<1>11. CASE WriteFails
  <2>1. /\ writerPc' = "fail publish"
        /\ \E cause \in Causes : writerError' = Transport(cause)
    BY <1>11 DEF WriteFails, Causes
  <2>2. writerError' \in Lifecycle!Failures
    BY <2>1, KindsOfOutcomes
  <2>3. QED
    BY <1>11, <2>1, <2>2, OurCloseStays
       DEF OriginInv, FlagInv, RemoteInv, ResultInv, WriteFails, writerOthers, readerVars,
           closeVars, signalVars, flagVars, socketVars
<1>12. CASE Respond
  BY <1>12, OurCloseStays
     DEF OriginInv, FlagInv, RemoteInv, ResultInv, Undecided, Respond, writerOthers,
         readerVars, closeVars, signalVars, flagVars, socketVars
<1>13. CASE ReleasePermit
  BY <1>13, OurCloseStays
     DEF OriginInv, FlagInv, RemoteInv, ResultInv, Undecided, ReleasePermit, writerOthers,
         readerVars, closeVars, signalVars, flagVars, socketVars
<1>14. CASE AwaitPeer
  BY <1>14, OurCloseStays
     DEF OriginInv, FlagInv, RemoteInv, ResultInv, Undecided, AwaitPeer, writerOthers,
         readerVars, closeVars, signalVars, flagVars, socketVars
<1>15. CASE PublishOutcome
  BY <1>15, OurCloseStays, KindsOfOutcomes, PublishedError
     DEF OriginInv, FlagInv, RemoteInv, ResultInv, Undecided, PublishOutcome, writerOthers,
         readerVars, closeVars, signalVars, flagVars, socketVars
<1>16. CASE PublishFailure
  BY <1>16, OurCloseStays, KindsOfOutcomes, PublishedError
     DEF OriginInv, FlagInv, RemoteInv, ResultInv, Undecided, PublishFailure, writerOthers,
         readerVars, closeVars, signalVars, flagVars, socketVars
<1>17. CASE WriterSignalsAbort
  BY <1>17, OurCloseStays
     DEF OriginInv, FlagInv, RemoteInv, ResultInv, Undecided, WriterSignalsAbort,
         writerOthers, readerVars, closeVars, signalVars, flagVars, socketVars, Signal,
         signal_abort
<1>18. CASE RespondFailure
  BY <1>18, OurCloseStays
     DEF OriginInv, FlagInv, RemoteInv, ResultInv, Undecided, RespondFailure, writerOthers,
         readerVars, closeVars, signalVars, flagVars, socketVars
<1>19. CASE WriterCancelled
  BY <1>19, OurCloseStays
     DEF OriginInv, FlagInv, RemoteInv, ResultInv, Undecided, WriterCancelled, writerOthers,
         readerVars, closeVars, signalVars, flagVars, socketVars
<1>20. CASE WriterClosesQueue
  BY <1>20, OurCloseStays
     DEF OriginInv, FlagInv, RemoteInv, ResultInv, Undecided, WriterClosesQueue,
         writerOthers, readerVars, closeVars, signalVars, flagVars, socketVars
<1>21. CASE DrainCommand
  BY <1>21, OurCloseStays
     DEF OriginInv, FlagInv, RemoteInv, ResultInv, Undecided, DrainCommand, writerOthers,
         readerVars, closeVars, signalVars, flagVars, socketVars
<1>22. CASE WriterDropsQueue
  BY <1>22, OurCloseStays
     DEF OriginInv, FlagInv, RemoteInv, ResultInv, Undecided, WriterDropsQueue,
         writerOthers, readerVars, closeVars, signalVars, flagVars, socketVars
<1>23. CASE WriterStops
  BY <1>23, OurCloseStays
     DEF OriginInv, FlagInv, RemoteInv, ResultInv, Undecided, WriterStops, writerOthers,
         readerVars, closeVars, signalVars, flagVars, socketVars
<1>24. QED
  BY <1>1, <1>2, <1>3, <1>4, <1>5, <1>6, <1>7, <1>8, <1>9, <1>10, <1>11, <1>12, <1>13,
     <1>14, <1>15, <1>16, <1>17, <1>18, <1>19, <1>20, <1>21, <1>22, <1>23
     DEF WriterNext, WriterIO, WriterStep

\* A close() publishes and signals after it set the flag (driver.rs:323-388).
LEMMA CloserKeepsOrigin ==
    ASSUME TypeOK, OriginInv, NEW c \in Closers, CloserNext(c)
    PROVE  OriginInv'
<1>1. CASE CloseStart(c)
  BY <1>1, OurCloseStays
     DEF OriginInv, FlagInv, RemoteInv, ResultInv, Undecided, CloseStart, At, CloseTypes,
         TypeOK, closeOthers, readerVars, writerVars, signalVars, flagVars, socketVars
<1>2. CASE CloseTakesGuard(c)
  BY <1>2, OurCloseStays
     DEF OriginInv, FlagInv, RemoteInv, ResultInv, Undecided, CloseTakesGuard, At,
         CloseTypes, TypeOK, closeOthers, readerVars, writerVars, signalVars, flagVars,
         socketVars
<1>3. CASE CloseSwap(c)
  BY <1>3, OurCloseStays
     DEF OriginInv, FlagInv, RemoteInv, ResultInv, Undecided, CloseSwap, At, CloseTypes,
         TypeOK, closeOthers, readerVars, writerVars, signalVars, flagVars, socketVars
<1>4. CASE ClosePublish(c)
  BY <1>4, OurCloseStays, KindsOfOutcomes, PublishedError
     DEF OriginInv, FlagInv, RemoteInv, ResultInv, Undecided, ClosePublish, At, CloseTypes,
         TypeOK, closeOthers, readerVars, writerVars, signalVars, flagVars, socketVars
<1>5. CASE CloseSignal(c)
  BY <1>5, OurCloseStays
     DEF OriginInv, FlagInv, RemoteInv, ResultInv, Undecided, CloseSignal, At, CloseTypes,
         TypeOK, closeOthers, readerVars, writerVars, signalVars, flagVars, socketVars
<1>6. CASE CloseArm(c)
  BY <1>6, OurCloseStays
     DEF OriginInv, FlagInv, RemoteInv, ResultInv, Undecided, CloseArm, At, CloseTypes,
         TypeOK, closeOthers, readerVars, writerVars, signalVars, flagVars, socketVars
<1>7. CASE CloseDropsGuard(c)
  BY <1>7, OurCloseStays
     DEF OriginInv, FlagInv, RemoteInv, ResultInv, Undecided, CloseDropsGuard, At,
         CloseTypes, TypeOK, closeOthers, readerVars, writerVars, signalVars, flagVars,
         socketVars
<1>8. CASE CloseSeesTerminal(c)
  BY <1>8, OurCloseStays
     DEF OriginInv, FlagInv, RemoteInv, ResultInv, Undecided, CloseSeesTerminal, At,
         CloseTypes, TypeOK, closeOthers, readerVars, writerVars, signalVars, flagVars,
         socketVars
<1>9. CASE CloseReturns(c)
  BY <1>9, OurCloseStays
     DEF OriginInv, FlagInv, RemoteInv, ResultInv, Undecided, CloseReturns, At, CloseTypes,
         TypeOK, closeOthers, readerVars, writerVars, signalVars, flagVars, socketVars
<1>10. CASE CloseCancelled(c)
  BY <1>10, OurCloseStays
     DEF OriginInv, FlagInv, RemoteInv, ResultInv, Undecided, CloseCancelled, At,
         CloseTypes, TypeOK, closeOthers, readerVars, writerVars, signalVars, flagVars,
         socketVars
<1>11. QED
  BY <1>1, <1>2, <1>3, <1>4, <1>5, <1>6, <1>7, <1>8, <1>9, <1>10 DEF CloserNext, CloseStep

\* The watchdog publishes a failure or what was published (driver.rs:353-388).
LEMMA WatchdogKeepsOrigin ==
    ASSUME TypeOK, OriginInv, WatchdogStep
    PROVE  OriginInv'
<1>1. CASE WatchdogSeesTerminal
  BY <1>1, OurCloseStays
     DEF OriginInv, FlagInv, RemoteInv, ResultInv, Undecided, WatchdogSeesTerminal,
         watchdogOthers, closeOthers, readerVars, writerVars, signalVars, flagVars,
         socketVars
<1>2. CASE WatchdogExpires
  BY <1>2, OurCloseStays
     DEF OriginInv, FlagInv, RemoteInv, ResultInv, Undecided, WatchdogExpires,
         watchdogOthers, closeOthers, readerVars, writerVars, signalVars, flagVars,
         socketVars
<1>3. CASE WatchdogPublishes
  <2>1. state.error' \in {state.error, Transport("close timed out")}
    BY <1>3, PublishedError DEF WatchdogPublishes, publish_close_timeout
  <2>2. Remote(state.error') => state.error' = state.error
    BY <2>1, KindsOfOutcomes
  <2>3. QED
    BY <1>3, <2>2, OurCloseStays
       DEF OriginInv, FlagInv, RemoteInv, ResultInv, WatchdogPublishes, watchdogOthers,
           closeOthers, readerVars, writerVars, signalVars, flagVars, socketVars
<1>4. CASE WatchdogAbortsReader
  BY <1>4, OurCloseStays
     DEF OriginInv, FlagInv, RemoteInv, ResultInv, Undecided, WatchdogAbortsReader,
         watchdogOthers, closeOthers, readerVars, writerVars, signalVars, flagVars,
         socketVars
<1>5. CASE WatchdogAbortsWriter
  BY <1>5, OurCloseStays
     DEF OriginInv, FlagInv, RemoteInv, ResultInv, Undecided, WatchdogAbortsWriter,
         watchdogOthers, closeOthers, readerVars, writerVars, signalVars, flagVars,
         socketVars
<1>6. CASE WatchdogStops
  BY <1>6, OurCloseStays
     DEF OriginInv, FlagInv, RemoteInv, ResultInv, Undecided, WatchdogStops, watchdogOthers,
         closeOthers, readerVars, writerVars, signalVars, flagVars, socketVars
<1>7. QED
  BY <1>1, <1>2, <1>3, <1>4, <1>5, <1>6 DEF WatchdogStep

\* abort() sets the flag and publishes a failure (driver.rs:344-351).
LEMMA AbandonKeepsOrigin ==
    ASSUME TypeOK, OriginInv, AbandonNext
    PROVE  OriginInv'
<1>1. CASE AbandonStores
  BY <1>1, OurCloseStays
     DEF OriginInv, FlagInv, RemoteInv, ResultInv, Undecided, AbandonStores, AbandonStep,
         abandonOthers, closeOthers, readerVars, writerVars, signalVars, flagVars,
         socketVars
<1>2. CASE AbandonPublishes
  <2>1. state.error' \in {state.error, Transport("abandoned")}
    BY <1>2, PublishedError DEF AbandonPublishes
  <2>2. Remote(state.error') => state.error' = state.error
    BY <2>1, KindsOfOutcomes
  <2>3. QED
    BY <1>2, <2>2, OurCloseStays
       DEF OriginInv, FlagInv, RemoteInv, ResultInv, AbandonPublishes, AbandonStep,
           abandonOthers, closeOthers, readerVars, writerVars, signalVars, flagVars,
           socketVars
<1>3. CASE AbandonSignals
  BY <1>3, OurCloseStays
     DEF OriginInv, FlagInv, RemoteInv, ResultInv, Undecided, AbandonSignals, AbandonStep,
         abandonOthers, closeOthers, readerVars, writerVars, signalVars, flagVars,
         socketVars, Signal, signal_abort
<1>4. CASE AbandonAbortsReader
  BY <1>4, OurCloseStays
     DEF OriginInv, FlagInv, RemoteInv, ResultInv, Undecided, AbandonAbortsReader,
         AbandonStep, abandonOthers, closeOthers, readerVars, writerVars, signalVars,
         flagVars, socketVars
<1>5. CASE AbandonAbortsWriter
  BY <1>5, OurCloseStays
     DEF OriginInv, FlagInv, RemoteInv, ResultInv, Undecided, AbandonAbortsWriter,
         AbandonStep, abandonOthers, closeOthers, readerVars, writerVars, signalVars,
         flagVars, socketVars
<1>6. CASE DropDriver
  BY <1>6, OurCloseStays
     DEF OriginInv, FlagInv, RemoteInv, ResultInv, Undecided, DropDriver, AbandonStep,
         abandonOthers, closeOthers, readerVars, writerVars, signalVars, flagVars,
         socketVars
<1>7. CASE DropInbound
  BY <1>7, OurCloseStays
     DEF OriginInv, FlagInv, RemoteInv, ResultInv, Undecided, DropInbound, AbandonStep,
         abandonOthers, closeOthers, readerVars, writerVars, signalVars, flagVars,
         socketVars, recvOthers, closeVars
<1>8. QED
  BY <1>1, <1>2, <1>3, <1>4, <1>5, <1>6, <1>7 DEF AbandonNext, AbandonRest

\* A step that touches neither the outcome nor the socket keeps the invariant, as
\* the steps of a send and of a receive do (driver.rs:246-321) ...
LEMMA OriginFrame ==
    ASSUME OriginInv,
           UNCHANGED <<state, signalVars, flagVars, socketVars, readerVars, writerVars, closeVars>>
    PROVE  OriginInv'
BY OurCloseStays
   DEF OriginInv, FlagInv, RemoteInv, ResultInv, signalVars, flagVars, socketVars, readerVars,
       writerVars, closeVars

\* ... whichever call takes it.
LEMMA CallsKeepOrigin ==
    ASSUME OriginInv
    PROVE  /\ \A s \in Senders : SenderNext(s) => OriginInv'
           /\ \A r \in Receivers : ReceiverNext(r) => OriginInv'
<1>1. ASSUME NEW s \in Senders, SenderNext(s) PROVE UNCHANGED sendOthers
  BY <1>1
     DEF SenderNext, SendStep, SendValidate, SendAcquire, SendReserve, SendPush, SendReturns,
         SendCancelled
<1>2. ASSUME NEW r \in Receivers, ReceiverNext(r) PROVE UNCHANGED recvOthers
  BY <1>2
     DEF ReceiverNext, ReceiveStep, ReceiveClaim, ReceiveMessage, ReceiveEnd,
         ReceiveCancelled, ReceiveUnclaims
<1>3. QED
  BY <1>1, <1>2, OriginFrame DEF sendOthers, recvOthers

-----------------------------------------------------------------------------
(* The invariant, and what it says of the reported outcome                 *)

\* A driver that was just started has closed nothing (driver.rs:130-195).
LEMMA InitOrigin == Init => OriginInv
<1> SUFFICES ASSUME Init PROVE OriginInv
  OBVIOUS
<1>1. ~OurCloseSent
  BY DEF Init, OurCloseSent, Elements
<1>2. QED
  BY <1>1, KindsOfOutcomes
     DEF Init, OriginInv, FlagInv, RemoteInv, ResultInv, CloseFrames, Open

\* Every step keeps the invariant (driver.rs:246-776).
LEMMA NextKeepsOrigin ==
    ASSUME TypeOK, OriginInv, [Next]_vars
    PROVE  OriginInv'
<1>1. CASE Next
  BY <1>1, ReaderKeepsOrigin, WriterKeepsOrigin, CloserKeepsOrigin, WatchdogKeepsOrigin,
     AbandonKeepsOrigin, CallsKeepOrigin DEF Next
<1>2. CASE UNCHANGED vars
  BY <1>2, OriginFrame DEF vars
<1>3. QED
  BY <1>1, <1>2

\* At every point of the reader, the writer and the close() calls, what is
\* published is an outcome of its kind, and the flag precedes whatever only a
\* close brings about (driver.rs:353-388, 438-534, 652-776).
THEOREM OriginInvHolds == Spec => []OriginInv
<1>1. TypeOK /\ OriginInv /\ [Next]_vars => OriginInv'
  BY NextKeepsOrigin
<1>2. QED
  BY <1>1, InitOrigin, TypeCorrect, PTL DEF Spec

\* A connection that is reported as closed by the remote endpoint was: its close
\* frame was read, and none of ours went out (driver.rs:476-481, 669-676,
\* 718-737).
THEOREM RemoteCloseIsRemoteHolds == Spec => []RemoteCloseIsRemote
<1>1. TypeOK /\ OriginInv => RemoteCloseIsRemote
  <2> SUFFICES ASSUME TypeOK, OriginInv, Reported = "False"
               PROVE  readerFrame \in CloseFrames /\ CloseSent \notin Elements(wire)
    BY DEF RemoteCloseIsRemote
  <2>1. Remote(state.error)
    BY DEF Reported, driver_error_to_python, Remote
  <2>2. QED
    BY <2>1 DEF OriginInv, RemoteInv, OurCloseSent
<1>2. QED
  BY <1>1, OriginInvHolds, TypeCorrect, PTL

-----------------------------------------------------------------------------
(* The driver implements ConnectionLifecycle                               *)

Held == readerPc # "stopped" \/ writerPc # "stopped"
\* What the steps that publish leave alone of what ConnectionLifecycle shows.
NobodyTold == UNCHANGED closeResult /\ (Held' <=> Held)

\* A Boolean that is equivalent to itself is equal (driver.rs:174-195).
LEMMA HeldStays == NobodyTold => UNCHANGED <<closeResult, Held>>
BY DEF NobodyTold, Held

\* ConnectionLifecycle speaks of the same errors and results.
LEMMA SameOutcomes ==
    /\ Lifecycle!NoError = NoError /\ Lifecycle!Pending = Pending
    /\ Lifecycle!Cancelled = Cancelled
    /\ \A cause : Lifecycle!Transport(cause) = Transport(cause)
    /\ \A e : Lifecycle!close_result(e) = close_result(e)
BY DEF NoError, Pending, Cancelled, Transport, close_result, Ok, Lifecycle!NoError,
       Lifecycle!Pending, Lifecycle!Cancelled, Lifecycle!Transport, Lifecycle!close_result,
       Lifecycle!Ok

\* A step that publishes nothing, tells nobody and ends no task does not show
\* (driver.rs:438-716).
LEMMA StutterLifecycle ==
    ASSUME NobodyTold, UNCHANGED state
    PROVE  UNCHANGED Lifecycle!lifecycleVars
BY HeldStays DEF Lifecycle!lifecycleVars, Held

\* The ways to publish.
Publishes ==
    \/ UNCHANGED state
    \/ state = Open /\ state' = Closing
    \/ /\ state.tag \in {"Open", "Closing"}
       /\ \E e \in Lifecycle!Handshaken : state' = PeerClosed(e)
    \/ state.tag = "PeerClosed" /\ state' = Closed(state.error)
    \/ /\ state.tag \in {"Open", "Closing"}
       /\ \E e \in Lifecycle!Failures : state' = Closed(e)
    \/ state.tag = "PeerClosed" /\ state' = Closed(Transport("abandoned"))

\* Publishing an outcome is a step of the lifecycle, or repeats what it says
\* (driver.rs:739-776).
LEMMA PublishImplements ==
    ASSUME TypeOK, NobodyTold, Publishes
    PROVE  [Lifecycle!LifecycleNext]_(Lifecycle!lifecycleVars)
<1>1. UNCHANGED <<closeResult, Held>>
  BY HeldStays
<1>2. state \in DriverStates
  BY DEF TypeOK, StateTypes
<1>3. CASE UNCHANGED state
  BY <1>3, StutterLifecycle
<1>4. CASE state = Open /\ state' = Closing
  <2>1. Lifecycle!BeginClose
    BY <1>1, <1>4 DEF Open, Closing, Held, Lifecycle!BeginClose
  <2>2. QED
    BY <2>1 DEF Lifecycle!LifecycleNext
<1>5. ASSUME state.tag \in {"Open", "Closing"},
             NEW e \in Lifecycle!Handshaken, state' = PeerClosed(e)
      PROVE  Lifecycle!PeerCloses
  BY <1>1, <1>5 DEF PeerClosed, Held, Lifecycle!PeerCloses
<1>6. CASE state.tag = "PeerClosed" /\ state' = Closed(state.error)
  <2>1. Lifecycle!FinishHandshake
    BY <1>1, <1>6 DEF Closed, Held, Lifecycle!FinishHandshake
  <2>2. QED
    BY <2>1 DEF Lifecycle!LifecycleNext
<1>7. ASSUME state.tag \in {"Open", "Closing"},
             NEW e \in Lifecycle!Failures, state' = Closed(e)
      PROVE  Lifecycle!Fail
  BY <1>1, <1>7 DEF Closed, Held, Lifecycle!Fail
<1>8. CASE state.tag = "PeerClosed" /\ state' = Closed(Transport("abandoned"))
  <2>1. Lifecycle!Fail
    BY <1>1, <1>8, SameOutcomes DEF Closed, Held, Lifecycle!Fail
  <2>2. QED
    BY <2>1 DEF Lifecycle!LifecycleNext
<1>9. QED
  BY <1>3, <1>4, <1>5, <1>6, <1>7, <1>8 DEF Publishes, Lifecycle!LifecycleNext

\* The last task to stop lets go of the transport (driver.rs:174-195).
LEMMA StopImplements ==
    ASSUME is_terminal(state), UNCHANGED <<state, closeResult>>, Held, ~Held'
    PROVE  Lifecycle!LetGo
BY DEF is_terminal, Held, Lifecycle!LetGo

\* The reader publishes the peer's outcome while nobody published before, and
\* a failure of its own likewise (driver.rs:438-534).
LEMMA ReaderImplementsLifecycle ==
    ASSUME TypeOK, OutcomeInv, OriginInv, ReaderNext
    PROVE  [Lifecycle!LifecycleNext]_(Lifecycle!lifecycleVars)
<1>1. state \in DriverStates
  BY DEF TypeOK, StateTypes
<1>2. UNCHANGED closeResult
  BY DEF ReaderNext, ReaderInput, ReaderStep, ReaderCheck, ReaderSeesSignal, ReadData,
     ReadPing,
         ReadEnd, ReadError, ReadClose, QueueCheck, AcquireInbound, Enqueue, AbandonMessage,
         EnqueueFails, LoadClosing, StoreClosing, PublishPeerClosed, SignalPeerClose,
         ReaderSeesTerminal, ReaderTimesOut, ReaderPublishes, ReaderSignalsAbort,
         ReaderAbortsWriter, ReaderCancelled, ReaderDropsContext, ReaderStops, readerOthers,
         closeVars
<1>3. CASE ReaderStops
  <2>1. readerPc = "gone" /\ readerPc' = "stopped" /\ UNCHANGED <<state, writerPc>>
    BY <1>3 DEF ReaderStops, writerVars
  <2>2. is_terminal(state)
    BY <2>1 DEF OutcomeInv, ReaderInv
  <2>3. Held /\ (Held' <=> writerPc # "stopped")
    BY <2>1 DEF Held
  <2>4. CASE writerPc = "stopped"
    BY <1>2, <2>1, <2>2, <2>3, <2>4, StopImplements DEF Lifecycle!LifecycleNext
  <2>5. CASE writerPc # "stopped"
    BY <1>2, <2>1, <2>3, <2>5, StutterLifecycle DEF NobodyTold
  <2>6. QED
    BY <2>4, <2>5
<1>4. CASE ~ReaderStops
  <2>1. NobodyTold
    BY <1>2, <1>4, ReaderOnlyMoves DEF ReaderMoves, NobodyTold, Held
  <2>2. CASE PublishPeerClosed
    <3>1. readerPc = "publish peer" /\ state' = publish_peer_closed(state, readerOutcome)
      BY <2>2 DEF PublishPeerClosed
    <3>2. readerOutcome \in Lifecycle!Handshaken
      BY <3>1 DEF OriginInv, ResultInv
    <3>3. Publishes
      BY <1>1, <3>1, <3>2, StateCases DEF publish_peer_closed, Publishes
    <3>4. QED
      BY <2>1, <3>3, PublishImplements
  <2>3. CASE ReaderPublishes
    <3>1. /\ readerPc \in {"fail publish", "timeout publish"}
          /\ state' = publish_terminal(state, readerOutcome)
      BY <2>3 DEF ReaderPublishes
    <3>2. CASE readerPc = "fail publish"
      <4>1. readerOutcome \in Lifecycle!Failures /\ state.tag # "PeerClosed"
        BY <3>2 DEF OriginInv, ResultInv, OutcomeInv, StateInv
      <4>2. Publishes
        BY <1>1, <3>1, <4>1, StateCases DEF publish_terminal, is_terminal, Publishes
      <4>3. QED
        BY <2>1, <4>2, PublishImplements
    <3>3. CASE readerPc = "timeout publish"
      <4>1. state.tag = "PeerClosed" => state.error = readerOutcome
        BY DEF OutcomeInv, StateInv
      <4>2. state.tag \in {"PeerClosed", "Closed"}
        BY <3>3 DEF OutcomeInv, ReaderInv, Ending
      <4>3. Publishes
        BY <3>1, <4>1, <4>2 DEF publish_terminal, is_terminal, Publishes
      <4>4. QED
        BY <2>1, <4>3, PublishImplements
    <3>4. QED
      BY <3>1, <3>2, <3>3
  <2>4. CASE ~PublishPeerClosed /\ ~ReaderPublishes
    <3>1. UNCHANGED state
      BY <1>4, <2>4
         DEF ReaderNext, ReaderInput, ReaderStep, ReaderCheck, ReaderSeesSignal, ReadData,
             ReadPing, ReadEnd, ReadError, ReadClose, QueueCheck, AcquireInbound, Enqueue,
             AbandonMessage, EnqueueFails, LoadClosing, StoreClosing, SignalPeerClose,
             ReaderSeesTerminal, ReaderTimesOut, ReaderSignalsAbort, ReaderAbortsWriter,
             ReaderCancelled, ReaderDropsContext
    <3>2. QED
      BY <2>1, <3>1, StutterLifecycle
  <2>5. QED
    BY <2>2, <2>3, <2>4
<1>5. QED
  BY <1>3, <1>4

\* The writer finishes the handshake the peer began, or fails (driver.rs:575-716).
LEMMA WriterImplementsLifecycle ==
    ASSUME TypeOK, OutcomeInv, OriginInv, WriterNext
    PROVE  [Lifecycle!LifecycleNext]_(Lifecycle!lifecycleVars)
<1>1. state \in DriverStates
  BY DEF TypeOK, StateTypes
<1>2. UNCHANGED closeResult
  BY DEF WriterNext, WriterIO, WriterStep, WriterSeesSignal, WriterPollsEvents,
         WriterFindsNothing, TakeFlush,
         TakeControlClosed, TakeCommand, TakeOutboundClosed, WriteCommand, WriteClose,
         WriteRefused, Flush, WriteFails, Respond, ReleasePermit, AwaitPeer, PublishOutcome,
         PublishFailure, WriterSignalsAbort, RespondFailure, WriterCancelled,
         WriterClosesQueue, DrainCommand, WriterDropsQueue, WriterStops, writerOthers,
         closeVars
<1>3. CASE WriterStops
  <2>1. writerPc = "gone" /\ writerPc' = "stopped" /\ UNCHANGED <<state, readerPc>>
    BY <1>3 DEF WriterStops, readerVars
  <2>2. is_terminal(state)
    BY <2>1 DEF OutcomeInv, WriterInv
  <2>3. Held /\ (Held' <=> readerPc # "stopped")
    BY <2>1 DEF Held
  <2>4. CASE readerPc = "stopped"
    BY <1>2, <2>1, <2>2, <2>3, <2>4, StopImplements DEF Lifecycle!LifecycleNext
  <2>5. CASE readerPc # "stopped"
    BY <1>2, <2>1, <2>3, <2>5, StutterLifecycle DEF NobodyTold
  <2>6. QED
    BY <2>4, <2>5
<1>4. CASE ~WriterStops
  <2>1. NobodyTold
    BY <1>2, <1>4, WriterOnlyMoves DEF WriterMoves, NobodyTold, Held
  <2>2. CASE PublishOutcome
    <3>1. Publishes
      BY <2>2 DEF PublishOutcome, publish_terminal, is_terminal, Publishes
    <3>2. QED
      BY <2>1, <3>1, PublishImplements
  <2>3. CASE PublishFailure
    <3>1. writerPc = "fail publish" /\ state' = publish_writer_failure(state, writerError)
      BY <2>3 DEF PublishFailure
    <3>2. writerError \in Lifecycle!Failures
      BY <3>1 DEF OriginInv, ResultInv
    <3>3. Publishes
      BY <1>1, <3>1, <3>2, StateCases DEF publish_writer_failure, is_terminal, Publishes
    <3>4. QED
      BY <2>1, <3>3, PublishImplements
  <2>4. CASE ~PublishOutcome /\ ~PublishFailure
    <3>1. UNCHANGED state
      BY <1>4, <2>4
         DEF WriterNext, WriterIO, WriterStep, WriterSeesSignal, WriterPollsEvents,
             WriterFindsNothing, TakeFlush,
             TakeControlClosed, TakeCommand, TakeOutboundClosed, WriteCommand, WriteClose,
             WriteRefused, Flush, WriteFails, Respond, ReleasePermit, AwaitPeer,
             WriterSignalsAbort, RespondFailure, WriterCancelled, WriterClosesQueue,
             DrainCommand, WriterDropsQueue
    <3>2. QED
      BY <2>1, <3>1, StutterLifecycle
  <2>5. QED
    BY <2>2, <2>3, <2>4
<1>5. QED
  BY <1>3, <1>4

\* A close() begins the handshake, and returns the outcome when the tasks are
\* gone (driver.rs:323-388).
LEMMA CloserImplementsLifecycle ==
    ASSUME TypeOK, OutcomeInv, OriginInv, CleanupInv, CleanupInv', NEW c \in Closers, CloserNext(c)
    PROVE  [Lifecycle!LifecycleNext]_(Lifecycle!lifecycleVars)
<1>1. /\ state \in DriverStates /\ closeResult \in [Closers -> Results]
      /\ closePc \in [Closers -> ClosePcs]
  BY DEF TypeOK, StateTypes, CloseTypes
<1>2. UNCHANGED <<readerPc, writerPc>>
  BY DEF CloserNext, CloseStep, CloseStart, CloseTakesGuard, CloseSwap, ClosePublish,
     CloseSignal,
         CloseArm, CloseDropsGuard, CloseSeesTerminal, CloseReturns, CloseCancelled, closeOthers,
         readerVars, writerVars
<1>3. UNCHANGED Held
  BY <1>2 DEF Held
<1>4. CASE ClosePublish(c)
  <2>1. NobodyTold
    BY <1>3, <1>4 DEF ClosePublish, NobodyTold
  <2>2. Publishes
    BY <1>4 DEF ClosePublish, begin_closing, Publishes
  <2>3. QED
    BY <2>1, <2>2, PublishImplements
<1>5. CASE CloseReturns(c)
  <2>1. /\ closePc[c] = "wait tasks" /\ closePc' = [closePc EXCEPT ![c] = "done"]
        /\ closeResult' = [closeResult EXCEPT ![c] = close_result(closeTerminal[c])]
        /\ UNCHANGED state
    BY <1>5 DEF CloseReturns, At
  <2>2. closeTerminal[c] = state.error /\ is_terminal(state)
    BY <2>1 DEF OutcomeInv, CloserInv, Learned
  <2>3. closeResult[c] = Pending
    BY <2>1 DEF OriginInv, ResultInv
  <2>4. ~Held
    <3>1. closePc'[c] = "done"
      BY <1>1, <2>1
    <3>2. readerPc' = "stopped" /\ writerPc' = "stopped"
      BY <3>1 DEF CleanupInv, Quiet
    <3>3. QED
      BY <1>2, <3>2 DEF Held
  <2>5. Lifecycle!Tell(c)
    BY <1>3, <2>1, <2>2, <2>3, <2>4, SameOutcomes DEF is_terminal, Held, Lifecycle!Tell
  <2>6. QED
    BY <2>5 DEF Lifecycle!LifecycleNext
<1>6. CASE CloseCancelled(c)
  <2>1. /\ closePc[c] \in {"wait terminal", "wait tasks"}
        /\ closeResult' = [closeResult EXCEPT ![c] = Cancelled]
        /\ UNCHANGED state
    BY <1>6 DEF CloseCancelled
  <2>2. closeResult[c] = Pending
    BY <2>1 DEF OriginInv, ResultInv
  <2>3. Lifecycle!CancelWaiter(c)
    BY <1>3, <2>1, <2>2, SameOutcomes DEF Held, Lifecycle!CancelWaiter
  <2>4. QED
    BY <2>3 DEF Lifecycle!LifecycleNext
<1>7. CASE ~ClosePublish(c) /\ ~CloseReturns(c) /\ ~CloseCancelled(c)
  <2>1. UNCHANGED <<state, closeResult>>
    BY <1>7
       DEF CloserNext, CloseStep, CloseStart, CloseTakesGuard, CloseSwap, CloseSignal, CloseArm,
           CloseDropsGuard, CloseSeesTerminal
  <2>2. QED
    BY <1>3, <2>1, StutterLifecycle DEF NobodyTold
<1>8. QED
  BY <1>4, <1>5, <1>6, <1>7

\* The watchdog ends what the peer left open, and abort() everything
\* (driver.rs:344-388).
LEMMA EndersImplementLifecycle ==
    ASSUME TypeOK, WatchdogStep \/ AbandonNext
    PROVE  [Lifecycle!LifecycleNext]_(Lifecycle!lifecycleVars)
<1>1. state \in DriverStates
  BY DEF TypeOK, StateTypes
<1>2. UNCHANGED <<readerPc, writerPc, closeResult>>
  BY DEF WatchdogStep, WatchdogSeesTerminal, WatchdogExpires, WatchdogPublishes,
         WatchdogAbortsReader, WatchdogAbortsWriter, WatchdogStops, watchdogOthers, AbandonNext,
         AbandonRest, AbandonStores, AbandonPublishes, AbandonSignals, AbandonAbortsReader,
         AbandonAbortsWriter, DropDriver, DropInbound, abandonOthers, closeOthers, recvOthers,
         readerVars, writerVars, closeVars
<1>3. NobodyTold
  BY <1>2 DEF NobodyTold, Held
<1>4. /\ "close timed out" \in Causes /\ "abandoned" \in Causes
      /\ \A cause \in Causes : Transport(cause) \in Lifecycle!Failures
  BY KindsOfOutcomes DEF Causes
<1>5. CASE WatchdogPublishes
  <2>1. Publishes
    BY <1>1, <1>4, <1>5, StateCases
       DEF WatchdogPublishes, publish_close_timeout, publish_writer_failure, is_terminal,
           Publishes
  <2>2. QED
    BY <1>3, <2>1, PublishImplements
<1>6. CASE AbandonPublishes
  <2>1. Publishes
    BY <1>1, <1>4, <1>6, StateCases
       DEF AbandonPublishes, publish_terminal, is_terminal, Publishes
  <2>2. QED
    BY <1>3, <2>1, PublishImplements
<1>7. CASE ~WatchdogPublishes /\ ~AbandonPublishes
  <2>1. UNCHANGED state
    BY <1>7
       DEF WatchdogStep, WatchdogSeesTerminal, WatchdogExpires, WatchdogAbortsReader,
           WatchdogAbortsWriter, WatchdogStops, watchdogOthers, AbandonNext, AbandonRest,
           AbandonStores, AbandonSignals, AbandonAbortsReader, AbandonAbortsWriter, DropDriver,
           DropInbound, abandonOthers, recvOthers
  <2>2. QED
    BY <1>3, <2>1, StutterLifecycle
<1>8. QED
  BY <1>5, <1>6, <1>7

\* Each step of the driver is one of ConnectionLifecycle, or does not show
\* (driver.rs:246-776).
LEMMA NextImplementsLifecycle ==
    ASSUME TypeOK, OutcomeInv, OriginInv, CleanupInv, [Next]_vars
    PROVE  [Lifecycle!LifecycleNext]_(Lifecycle!lifecycleVars)
<1>1. ASSUME NEW c \in Closers, CloserNext(c)
      PROVE  [Lifecycle!LifecycleNext]_(Lifecycle!lifecycleVars)
  <2>1. CleanupInv'
    BY <1>1, NextKeepsCleanup DEF Next
  <2>2. QED
    BY <1>1, <2>1, CloserImplementsLifecycle
<1>2. ASSUME \/ \E s \in Senders : SenderNext(s)
             \/ \E r \in Receivers : ReceiverNext(r)
             \/ UNCHANGED vars
      PROVE  UNCHANGED Lifecycle!lifecycleVars
  <2>1. UNCHANGED <<state, readerPc, writerPc, closeResult>>
    BY <1>2
       DEF SenderNext, SendStep, SendValidate, SendAcquire, SendReserve, SendPush, SendReturns,
           SendCancelled, ReceiverNext, ReceiveStep, ReceiveClaim, ReceiveMessage, ReceiveEnd,
           ReceiveCancelled, ReceiveUnclaims, sendOthers, recvOthers, readerVars, writerVars,
           closeVars, vars
  <2>2. QED
    BY <2>1, StutterLifecycle DEF NobodyTold, Held
<1>3. QED
  BY <1>1, <1>2, ReaderImplementsLifecycle, WriterImplementsLifecycle,
     EndersImplementLifecycle DEF Next

\* Whatever the tasks, the signals and the timers do, a connection ends once,
\* with one outcome, lets go of the transport only then, and tells every close()
\* that outcome afterwards (driver.rs:25-37, 130-195, 323-342).
THEOREM ImplementsLifecycleHolds == Spec => ImplementsLifecycle
<1>1. Init => Lifecycle!LifecycleInit
  BY SameOutcomes DEF Init, Open, Lifecycle!LifecycleInit
<1>2. TypeOK /\ OutcomeInv /\ OriginInv /\ CleanupInv /\ [Next]_vars
         => [Lifecycle!LifecycleNext]_(Lifecycle!lifecycleVars)
  BY NextImplementsLifecycle
<1>3. QED
  BY <1>1, <1>2, TypeCorrect, OutcomeFirst, OriginInvHolds, CleanupHolds, PTL
  DEF Spec, ImplementsLifecycle, Lifecycle!LifecycleSpec

=============================================================================
