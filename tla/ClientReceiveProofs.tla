------------------------- MODULE ClientReceiveProofs -------------------------
(***************************************************************************)
(* The public receive() for every number of calls, native receives and     *)
(* messages: ReceiveInv is inductive, and what it implies.                 *)
(***************************************************************************)
EXTENDS ClientReceiveInvariant, TLAPS

\* What a call may return are results, and the outcomes are errors.
LEMMA ResultTypes ==
    /\ {Pending, Ok, Cancelled, Concurrency} \subseteq Results
    /\ Abandoned \in DriverErrors /\ Outcomes \subseteq DriverErrors
    /\ DriverErrors \cup {NoError} \subseteq Results \cup {NoError}
    /\ Pending # Ok /\ Pending # Concurrency /\ Ok # Concurrency /\ Cancelled # Ok
    /\ Pending # Abandoned /\ Ok # Abandoned /\ Cancelled # Abandoned
    /\ Concurrency # Abandoned /\ Cancelled # Concurrency /\ NoError # Abandoned
    /\ Ok \notin DriverErrors /\ Abandoned \notin Outcomes /\ Concurrency \notin Outcomes
<1>1. Abandoned \in DriverErrors
  BY DEF Abandoned, Transport, DriverErrors, Causes
<1>2. Concurrency \in DriverErrors
  BY DEF Concurrency, DriverErrors
<1>3. Abandoned # Concurrency /\ Ok \notin DriverErrors
  BY DEF Abandoned, Transport, Concurrency, Ok, DriverErrors
<1> QED
  BY <1>1, <1>2, <1>3, FacadeAssumption
     DEF Results, Pending, Ok, Cancelled, Concurrency, Abandoned, Transport, NoError

\* The types are kept by every action.
LEMMA TypesStep ==
    ASSUME Types, FlagHasOwner, ShieldInv, Next
    PROVE  Types'
<1>1. ASSUME NEW w \in Waiters, ReceiveRefused(w) PROVE Types'
  BY <1>1, FacadeAssumption, ResultTypes DEF ReceiveRefused, Callable, Finish, Types,
  nativeVars, receiveVars, sourceVars, waiterVars, bridgeVars, finalVars
<1>2. ASSUME NEW w \in Waiters, ReceiveResumes(w) PROVE Types'
  BY <1>2 DEF ReceiveResumes, Callable, Suspend, Types, nativeVars, receiveVars, sourceVars,
  waiterVars, bridgeVars, finalVars
<1>3. ASSUME NEW w \in Waiters, ReceiveTakes(w) PROVE Types'
  <2>1. pending \in Receivers
    BY <1>3 DEF ReceiveTakes, Types
  <2>2. recvResult[pending] \in Results /\ message[pending] \in Nat
    BY <2>1 DEF Types
  <2>5. returned' = returned \/ returned' = Append(returned, message[pending])
    <3>1. CASE future[pending] = "cancelled"
      BY <1>3, <3>1 DEF ReceiveTakes
    <3>2. CASE future[pending] # "cancelled"
      <4>1. Deliver(pending)
        BY <1>3, <3>2 DEF ReceiveTakes
      <4> QED
        BY <4>1 DEF Deliver
    <3> QED
      BY <3>1, <3>2
  <2>3. returned' \in Seq(Nat)
    <3>1. returned \in Seq(Nat)
      BY DEF Types
    <3>2. Append(returned, message[pending]) \in Seq(Nat)
      BY <2>2, <3>1
    <3> QED
      BY <2>5, <3>1, <3>2
  <2>4. /\ result' \in [Waiters -> Results]
        /\ waiterPc' \in [Waiters -> {"idle", "shielded", "done", "discarded"}]
    BY <1>3, <2>2, ResultTypes DEF ReceiveTakes, Finish, Types
  <2> QED
    BY <1>3, <2>1, <2>3, <2>4 DEF ReceiveTakes, Types,
       nativeVars, receiveVars, sourceVars, bridgeVars, finalVars
<1>4. ASSUME NEW w \in Waiters, InnerDone(w) PROVE Types'
  BY <1>4 DEF InnerDone, Types, nativeVars, receiveVars, sourceVars, waiterVars, bridgeVars,
  finalVars
<1>5. ASSUME NEW w \in Waiters, CancelWaiter(w) PROVE Types'
  BY <1>5 DEF CancelWaiter, Types, nativeVars, receiveVars, sourceVars, waiterVars, bridgeVars,
  finalVars
<1>6. ASSUME NEW w \in Waiters, WaiterCancelled(w) PROVE Types'
  BY <1>6, FacadeAssumption, ResultTypes DEF WaiterCancelled, Resume, Interrupted, Finish,
  Types, nativeVars, receiveVars, sourceVars, waiterVars, bridgeVars, finalVars
<1>7. ASSUME NEW w \in Waiters, WaiterReturns(w) PROVE Types'
  <2>1. held[w] \in Receivers
    BY <1>7 DEF WaiterReturns, Resume, Waiting, FlagHasOwner, ShieldInv, Types
  <2>2. recvResult[held[w]] \in Results /\ message[held[w]] \in Nat
    BY <2>1 DEF Types
  <2>3. returned' \in Seq(Nat)
    BY <1>7, <2>2 DEF WaiterReturns, Deliver, Types
  <2> QED
    BY <1>7, <2>2, <2>3 DEF WaiterReturns, Resume, Finish, Types,
       nativeVars, receiveVars, sourceVars, bridgeVars, finalVars
<1>8. ASSUME NEW w \in Waiters, DiscardWaiter(w) PROVE Types'
  BY <1>8 DEF DiscardWaiter, Types, nativeVars, receiveVars, sourceVars, waiterVars,
  bridgeVars, finalVars
<1>9. ASSUME NEW w \in Waiters, NEW r \in Receivers, ReceiveStarts(w, r) PROVE Types'
  BY <1>9 DEF ReceiveStarts, Callable, Suspend, Types, nativeVars, receiveVars, sourceVars,
  waiterVars, bridgeVars, finalVars, BridgeStates, FutureStates
<1>10. ASSUME NEW r \in Receivers, NativeClaims(r) PROVE Types'
  BY <1>10, FacadeAssumption, ResultTypes DEF NativeClaims, Claim, Types, nativeVars,
  receiveVars, sourceVars, waiterVars, bridgeVars, finalVars
<1>11. ASSUME NEW r \in Receivers, NativeMessage(r) PROVE Types'
  BY <1>11, FacadeAssumption, ResultTypes DEF NativeMessage, Hand, Return, Types, nativeVars,
  receiveVars, sourceVars, waiterVars, bridgeVars, finalVars
<1>12. ASSUME NEW r \in Receivers, NativeEnd(r) PROVE Types'
  <2>1. outcome \in Results
    BY <1>12, ResultTypes DEF NativeEnd, ReportEnd, Types, Results
  <2> QED
    BY <1>12, <2>1 DEF NativeEnd, ReportEnd, Return, Types,
       nativeVars, receiveVars, sourceVars, waiterVars, bridgeVars, finalVars
<1>13. ASSUME NEW r \in Receivers, NativeUnclaims(r) PROVE Types'
  BY <1>13 DEF NativeUnclaims, Unclaim, Types, nativeVars, receiveVars, sourceVars, waiterVars,
  bridgeVars, finalVars
<1>14. ASSUME NEW r \in Receivers, NativeCancelled(r) PROVE Types'
  BY <1>14, FacadeAssumption, ResultTypes DEF NativeCancelled, Cancel, Return, Types,
  nativeVars, receiveVars, sourceVars, waiterVars, bridgeVars, finalVars
<1>15. ASSUME NEW r \in Receivers, BridgeChecks(r) PROVE Types'
  BY <1>15 DEF BridgeChecks, SetBridge, Types, nativeVars, receiveVars, sourceVars, waiterVars,
  bridgeVars, finalVars, BridgeStates, FutureStates
<1>16. ASSUME NEW r \in Receivers, BridgePosts(r) PROVE Types'
  BY <1>16 DEF BridgePosts, SetBridge, Types, nativeVars, receiveVars, sourceVars, waiterVars,
  bridgeVars, finalVars, BridgeStates, FutureStates
<1>17. ASSUME NEW r \in Receivers, Complete(r) PROVE Types'
  BY <1>17 DEF Complete, SetBridge, Types, nativeVars, receiveVars, sourceVars, waiterVars,
  bridgeVars, finalVars, BridgeStates, FutureStates
<1>18. ASSUME NEW r \in Receivers, ProgramCancelsNative(r) PROVE Types'
  BY <1>18 DEF ProgramCancelsNative, CancelFuture, Types, nativeVars, receiveVars, sourceVars,
  waiterVars, bridgeVars, finalVars, BridgeStates, FutureStates
<1>19. ASSUME MessageArrives PROVE Types'
  BY <1>19 DEF MessageArrives, Arrive, Types, nativeVars, receiveVars, sourceVars, waiterVars,
  bridgeVars, finalVars
<1>20. ASSUME QueueDropped PROVE Types'
  BY <1>20 DEF QueueDropped, DiscardQueued, Types, nativeVars, receiveVars, sourceVars,
  waiterVars, bridgeVars, finalVars
<1>21. ASSUME ConnectionEnds PROVE Types'
  BY <1>21, FacadeAssumption, ResultTypes DEF ConnectionEnds, End, Types, nativeVars,
  receiveVars, sourceVars, waiterVars, bridgeVars, finalVars
<1>22. ASSUME DriverAborted PROVE Types'
  BY <1>22, FacadeAssumption, ResultTypes DEF DriverAborted, End, Types, nativeVars,
  receiveVars, sourceVars, waiterVars, bridgeVars, finalVars
<1>23. ASSUME CloseLoop PROVE Types'
  BY <1>23 DEF CloseLoop, Types, nativeVars, receiveVars, sourceVars, waiterVars, bridgeVars,
  finalVars
<1>24. ASSUME FinalizeCancels PROVE Types'
  BY <1>24 DEF FinalizeCancels, Finalizable, CancelFuture, Types, nativeVars, receiveVars,
  sourceVars, waiterVars, bridgeVars, finalVars, BridgeStates, FutureStates
<1>25. ASSUME FinalizeAborts PROVE Types'
  BY <1>25 DEF FinalizeAborts, Types, nativeVars, receiveVars, sourceVars, waiterVars,
  bridgeVars, finalVars
<1>26. ASSUME DropDriver PROVE Types'
  BY <1>26 DEF DropDriver, Drop, Types, nativeVars, receiveVars, sourceVars, waiterVars,
  bridgeVars, finalVars
<1> QED
  BY <1>1, <1>2, <1>3, <1>4, <1>5, <1>6, <1>7, <1>8, <1>9, <1>10, <1>11, <1>12, <1>13, <1>14,
  <1>15, <1>16, <1>17, <1>18, <1>19, <1>20, <1>21, <1>22, <1>23, <1>24, <1>25, <1>26 DEF Next,
  WaiterNext, NativeSteps, BridgeSteps

\* The flag and the retained receive change hands together.
LEMMA FlagStep ==
    ASSUME Types, FlagHasOwner, ShieldInv, Next
    PROVE  FlagHasOwner'
<1>1. ASSUME NEW w \in Waiters, ReceiveRefused(w) PROVE FlagHasOwner'
  BY <1>1, FacadeAssumption DEF ReceiveRefused, Callable, Finish, FlagHasOwner, ShieldInv,
  Waiting, Types, nativeVars, receiveVars, sourceVars, waiterVars, bridgeVars, finalVars
<1>2. ASSUME NEW w \in Waiters, NEW r \in Receivers, ReceiveStarts(w, r) PROVE FlagHasOwner'
  BY <1>2, FacadeAssumption DEF ReceiveStarts, Callable, Suspend, FlagHasOwner, ShieldInv,
  Waiting, Types, nativeVars, receiveVars, sourceVars, waiterVars, bridgeVars, finalVars
<1>3. ASSUME NEW w \in Waiters, ReceiveResumes(w) PROVE FlagHasOwner'
  BY <1>3, FacadeAssumption DEF ReceiveResumes, Callable, Suspend, FlagHasOwner, ShieldInv,
  Waiting, Types, nativeVars, receiveVars, sourceVars, waiterVars, bridgeVars, finalVars
<1>4. ASSUME NEW w \in Waiters, ReceiveTakes(w) PROVE FlagHasOwner'
  BY <1>4, FacadeAssumption DEF ReceiveTakes, Callable, Finish, Deliver, FlagHasOwner,
  ShieldInv, Waiting, Types, nativeVars, receiveVars, sourceVars, waiterVars, bridgeVars,
  finalVars
<1>5. ASSUME NEW w \in Waiters, WaiterCancelled(w) PROVE FlagHasOwner'
  BY <1>5, FacadeAssumption DEF WaiterCancelled, Resume, Interrupted, Finish, FlagHasOwner,
  ShieldInv, Waiting, Types, nativeVars, receiveVars, sourceVars, waiterVars, bridgeVars,
  finalVars
<1>6. ASSUME NEW w \in Waiters, WaiterReturns(w) PROVE FlagHasOwner'
  BY <1>6, FacadeAssumption DEF WaiterReturns, Resume, Interrupted, Finish, Deliver,
  FlagHasOwner, ShieldInv, Waiting, Types, nativeVars, receiveVars, sourceVars, waiterVars,
  bridgeVars, finalVars
<1>7. ASSUME NEW w \in Waiters, DiscardWaiter(w) PROVE FlagHasOwner'
  BY <1>7, FacadeAssumption DEF DiscardWaiter, FlagHasOwner, ShieldInv, Waiting, Types,
  nativeVars, receiveVars, sourceVars, waiterVars, bridgeVars, finalVars
<1>8. ASSUME UNCHANGED <<pending, waiterActive, waiterPc, held>> PROVE FlagHasOwner'
  BY <1>8 DEF FlagHasOwner, ShieldInv, Waiting, Types
<1> QED
  BY <1>1, <1>2, <1>3, <1>4, <1>5, <1>6, <1>7, <1>8 DEF Next, WaiterNext, NativeSteps,
  BridgeSteps, InnerDone, CancelWaiter, NativeClaims, Claim, NativeMessage, Hand, Return,
  NativeEnd, ReportEnd, Return, NativeUnclaims, Unclaim, NativeCancelled, Cancel, Return,
  BridgeChecks, SetBridge, BridgePosts, SetBridge, Complete, SetBridge, ProgramCancelsNative,
  CancelFuture, MessageArrives, Arrive, QueueDropped, DiscardQueued, ConnectionEnds, End,
  DriverAborted, End, CloseLoop, FinalizeCancels, Finalizable, CancelFuture, FinalizeAborts,
  DropDriver, Drop, nativeVars, receiveVars, sourceVars, waiterVars, bridgeVars, finalVars

\* A waiter waits for a native receive that exists.
LEMMA ShieldStep ==
    ASSUME Types, FlagHasOwner, ShieldInv, BridgeInv, Next
    PROVE  ShieldInv'
<1>1. ASSUME NEW w \in Waiters, ReceiveRefused(w) PROVE ShieldInv'
  BY <1>1, FacadeAssumption DEF ReceiveRefused, Callable, Finish, FlagHasOwner, ShieldInv,
  Waiting, Types, FutureStates, BridgeInv, nativeVars, receiveVars, sourceVars, waiterVars,
  bridgeVars, finalVars
<1>2. ASSUME NEW w \in Waiters, NEW r \in Receivers, ReceiveStarts(w, r) PROVE ShieldInv'
  BY <1>2, FacadeAssumption DEF ReceiveStarts, Callable, Suspend, FlagHasOwner, ShieldInv,
  Waiting, Types, FutureStates, BridgeInv, nativeVars, receiveVars, sourceVars, waiterVars,
  bridgeVars, finalVars
<1>3. ASSUME NEW w \in Waiters, ReceiveResumes(w) PROVE ShieldInv'
  BY <1>3, FacadeAssumption DEF ReceiveResumes, Callable, Suspend, FlagHasOwner, ShieldInv,
  Waiting, Types, FutureStates, BridgeInv, nativeVars, receiveVars, sourceVars, waiterVars,
  bridgeVars, finalVars
<1>4. ASSUME NEW w \in Waiters, ReceiveTakes(w) PROVE ShieldInv'
  BY <1>4, FacadeAssumption DEF ReceiveTakes, Callable, Finish, Deliver, FlagHasOwner,
  ShieldInv, Waiting, Types, FutureStates, BridgeInv, nativeVars, receiveVars, sourceVars,
  waiterVars, bridgeVars, finalVars
<1>5. ASSUME NEW w \in Waiters, InnerDone(w) PROVE ShieldInv'
  BY <1>5, FacadeAssumption DEF InnerDone, FlagHasOwner, ShieldInv, Waiting, Types,
  FutureStates, BridgeInv, nativeVars, receiveVars, sourceVars, waiterVars, bridgeVars,
  finalVars
<1>6. ASSUME NEW w \in Waiters, CancelWaiter(w) PROVE ShieldInv'
  BY <1>6, FacadeAssumption DEF CancelWaiter, FlagHasOwner, ShieldInv, Waiting, Types,
  FutureStates, BridgeInv, nativeVars, receiveVars, sourceVars, waiterVars, bridgeVars,
  finalVars
<1>7. ASSUME NEW w \in Waiters, WaiterCancelled(w) PROVE ShieldInv'
  BY <1>7, FacadeAssumption DEF WaiterCancelled, Resume, Interrupted, Finish, FlagHasOwner,
  ShieldInv, Waiting, Types, FutureStates, BridgeInv, nativeVars, receiveVars, sourceVars,
  waiterVars, bridgeVars, finalVars
<1>8. ASSUME NEW w \in Waiters, WaiterReturns(w) PROVE ShieldInv'
  BY <1>8, FacadeAssumption DEF WaiterReturns, Resume, Interrupted, Finish, Deliver,
  FlagHasOwner, ShieldInv, Waiting, Types, FutureStates, BridgeInv, nativeVars, receiveVars,
  sourceVars, waiterVars, bridgeVars, finalVars
<1>9. ASSUME NEW w \in Waiters, DiscardWaiter(w) PROVE ShieldInv'
  BY <1>9, FacadeAssumption DEF DiscardWaiter, FlagHasOwner, ShieldInv, Waiting, Types,
  FutureStates, BridgeInv, nativeVars, receiveVars, sourceVars, waiterVars, bridgeVars,
  finalVars
<1>10. ASSUME NEW r \in Receivers, BridgeChecks(r) PROVE ShieldInv'
  BY <1>10, FacadeAssumption DEF BridgeChecks, SetBridge, FlagHasOwner, ShieldInv, Waiting,
  Types, FutureStates, BridgeInv, nativeVars, receiveVars, sourceVars, waiterVars, bridgeVars,
  finalVars
<1>11. ASSUME NEW r \in Receivers, BridgePosts(r) PROVE ShieldInv'
  BY <1>11, FacadeAssumption DEF BridgePosts, SetBridge, FlagHasOwner, ShieldInv, Waiting,
  Types, FutureStates, BridgeInv, nativeVars, receiveVars, sourceVars, waiterVars, bridgeVars,
  finalVars
<1>12. ASSUME NEW r \in Receivers, Complete(r) PROVE ShieldInv'
  BY <1>12, FacadeAssumption DEF Complete, SetBridge, FlagHasOwner, ShieldInv, Waiting, Types,
  FutureStates, BridgeInv, nativeVars, receiveVars, sourceVars, waiterVars, bridgeVars,
  finalVars
<1>13. ASSUME NEW r \in Receivers, ProgramCancelsNative(r) PROVE ShieldInv'
  BY <1>13, FacadeAssumption DEF ProgramCancelsNative, CancelFuture, FlagHasOwner, ShieldInv,
  Waiting, Types, FutureStates, BridgeInv, nativeVars, receiveVars, sourceVars, waiterVars,
  bridgeVars, finalVars
<1>14. ASSUME FinalizeCancels PROVE ShieldInv'
  BY <1>14, FacadeAssumption DEF FinalizeCancels, Finalizable, CancelFuture, FlagHasOwner,
  ShieldInv, Waiting, Types, FutureStates, BridgeInv, nativeVars, receiveVars, sourceVars,
  waiterVars, bridgeVars, finalVars
<1>15. ASSUME UNCHANGED <<pending, waiterPc, held, shield, future, bridge>> PROVE ShieldInv'
  BY <1>15 DEF FlagHasOwner, ShieldInv, Waiting, Types, FutureStates, BridgeInv
<1> QED
  BY <1>1, <1>2, <1>3, <1>4, <1>5, <1>6, <1>7, <1>8, <1>9, <1>10, <1>11, <1>12, <1>13, <1>14,
  <1>15 DEF Next, WaiterNext, NativeSteps, BridgeSteps, NativeClaims, Claim, NativeMessage,
  Hand, Return, NativeEnd, ReportEnd, Return, NativeUnclaims, Unclaim, NativeCancelled, Cancel,
  Return, MessageArrives, Arrive, QueueDropped, DiscardQueued, ConnectionEnds, End,
  DriverAborted, End, CloseLoop, FinalizeAborts, DropDriver, Drop, nativeVars, receiveVars,
  sourceVars, waiterVars, bridgeVars, finalVars

\* Native call, tokio task and future move one after the other.
LEMMA BridgeStep ==
    ASSUME Types, ShieldInv, BridgeInv, Next
    PROVE  BridgeInv'
<1>1. ASSUME NEW w \in Waiters, NEW r \in Receivers, ReceiveStarts(w, r) PROVE BridgeInv'
  BY <1>1, ResultTypes DEF ReceiveStarts, Callable, Suspend, BridgeInv, Types, nativeVars,
  receiveVars, sourceVars, waiterVars, bridgeVars, finalVars
<1>2. ASSUME NEW r \in Receivers, NativeClaims(r) PROVE BridgeInv'
  BY <1>2, ResultTypes DEF NativeClaims, Claim, BridgeInv, Types, nativeVars, receiveVars,
  sourceVars, waiterVars, bridgeVars, finalVars
<1>3. ASSUME NEW r \in Receivers, NativeMessage(r) PROVE BridgeInv'
  BY <1>3, ResultTypes DEF NativeMessage, Hand, Return, BridgeInv, Types, nativeVars,
  receiveVars, sourceVars, waiterVars, bridgeVars, finalVars
<1>4. ASSUME NEW r \in Receivers, NativeEnd(r) PROVE BridgeInv'
  BY <1>4, ResultTypes DEF NativeEnd, ReportEnd, Return, BridgeInv, Types, nativeVars,
  receiveVars, sourceVars, waiterVars, bridgeVars, finalVars
<1>5. ASSUME NEW r \in Receivers, NativeUnclaims(r) PROVE BridgeInv'
  BY <1>5, ResultTypes DEF NativeUnclaims, Unclaim, BridgeInv, Types, nativeVars, receiveVars,
  sourceVars, waiterVars, bridgeVars, finalVars
<1>6. ASSUME NEW r \in Receivers, NativeCancelled(r) PROVE BridgeInv'
  BY <1>6, ResultTypes DEF NativeCancelled, Cancel, Return, BridgeInv, Types, nativeVars,
  receiveVars, sourceVars, waiterVars, bridgeVars, finalVars
<1>7. ASSUME NEW r \in Receivers, BridgeChecks(r) PROVE BridgeInv'
  BY <1>7, ResultTypes DEF BridgeChecks, SetBridge, BridgeInv, Types, nativeVars, receiveVars,
  sourceVars, waiterVars, bridgeVars, finalVars
<1>8. ASSUME NEW r \in Receivers, BridgePosts(r) PROVE BridgeInv'
  BY <1>8, ResultTypes DEF BridgePosts, SetBridge, BridgeInv, Types, nativeVars, receiveVars,
  sourceVars, waiterVars, bridgeVars, finalVars
<1>9. ASSUME NEW r \in Receivers, Complete(r) PROVE BridgeInv'
  BY <1>9, ResultTypes DEF Complete, SetBridge, BridgeInv, Types, nativeVars, receiveVars,
  sourceVars, waiterVars, bridgeVars, finalVars
<1>10. ASSUME NEW r \in Receivers, ProgramCancelsNative(r) PROVE BridgeInv'
  BY <1>10, ResultTypes DEF ProgramCancelsNative, CancelFuture, BridgeInv, Types, nativeVars,
  receiveVars, sourceVars, waiterVars, bridgeVars, finalVars
<1>11. ASSUME FinalizeCancels PROVE BridgeInv'
  BY <1>11, ResultTypes DEF FinalizeCancels, Finalizable, CancelFuture, BridgeInv, Types,
  nativeVars, receiveVars, sourceVars, waiterVars, bridgeVars, finalVars
<1>12. ASSUME UNCHANGED <<recvPc, recvResult, future, bridge, message>> PROVE BridgeInv'
  BY <1>12 DEF BridgeInv, Types
<1> QED
  BY <1>1, <1>2, <1>3, <1>4, <1>5, <1>6, <1>7, <1>8, <1>9, <1>10, <1>11, <1>12 DEF Next,
  WaiterNext, NativeSteps, BridgeSteps, ReceiveRefused, Callable, Finish, ReceiveResumes,
  Callable, Suspend, ReceiveTakes, Callable, Finish, Deliver, InnerDone, CancelWaiter,
  WaiterCancelled, Resume, Interrupted, Finish, WaiterReturns, Resume, Interrupted, Finish,
  Deliver, DiscardWaiter, MessageArrives, Arrive, QueueDropped, DiscardQueued, ConnectionEnds,
  End, DriverAborted, End, CloseLoop, FinalizeAborts, DropDriver, Drop, nativeVars,
  receiveVars, sourceVars, waiterVars, bridgeVars, finalVars

\* The native guard is claimed and released by its owner.
LEMMA GuardStep ==
    ASSUME Types, GuardInv, Next
    PROVE  GuardInv'
<1>1. ASSUME NEW r \in Receivers, NativeClaims(r) PROVE GuardInv'
  BY <1>1 DEF NativeClaims, Claim, GuardInv, Inside, Types, nativeVars, receiveVars,
  sourceVars, waiterVars, bridgeVars, finalVars
<1>2. ASSUME NEW r \in Receivers, NativeMessage(r) PROVE GuardInv'
  BY <1>2 DEF NativeMessage, Hand, Return, GuardInv, Inside, Types, nativeVars, receiveVars,
  sourceVars, waiterVars, bridgeVars, finalVars
<1>3. ASSUME NEW r \in Receivers, NativeEnd(r) PROVE GuardInv'
  BY <1>3 DEF NativeEnd, ReportEnd, Return, GuardInv, Inside, Types, nativeVars, receiveVars,
  sourceVars, waiterVars, bridgeVars, finalVars
<1>4. ASSUME NEW r \in Receivers, NativeUnclaims(r) PROVE GuardInv'
  BY <1>4 DEF NativeUnclaims, Unclaim, GuardInv, Inside, Types, nativeVars, receiveVars,
  sourceVars, waiterVars, bridgeVars, finalVars
<1>5. ASSUME NEW r \in Receivers, NativeCancelled(r) PROVE GuardInv'
  BY <1>5 DEF NativeCancelled, Cancel, Return, GuardInv, Inside, Types, nativeVars,
  receiveVars, sourceVars, waiterVars, bridgeVars, finalVars
<1>6. ASSUME UNCHANGED <<receiveActive, recvPc>> PROVE GuardInv'
  BY <1>6 DEF GuardInv, Inside, Types
<1> QED
  BY <1>1, <1>2, <1>3, <1>4, <1>5, <1>6 DEF Next, WaiterNext, NativeSteps, BridgeSteps,
  ReceiveRefused, Callable, Finish, ReceiveResumes, Callable, Suspend, ReceiveTakes, Callable,
  Finish, Deliver, InnerDone, CancelWaiter, WaiterCancelled, Resume, Interrupted, Finish,
  WaiterReturns, Resume, Interrupted, Finish, Deliver, DiscardWaiter, ReceiveStarts, Callable,
  Suspend, BridgeChecks, SetBridge, BridgePosts, SetBridge, Complete, SetBridge,
  ProgramCancelsNative, CancelFuture, MessageArrives, Arrive, QueueDropped, DiscardQueued,
  ConnectionEnds, End, DriverAborted, End, CloseLoop, FinalizeCancels, Finalizable,
  CancelFuture, FinalizeAborts, DropDriver, Drop, nativeVars, receiveVars, sourceVars,
  waiterVars, bridgeVars, finalVars

\* What was forgotten stays forgotten: a call that is over has left its receive.
LEMMA ForgottenKept ==
    ASSUME Types, Next
    PROVE  Forgotten \subseteq Forgotten'
<1>1. ASSUME NEW w \in Waiters, waiterPc[w] = "discarded"
      PROVE  waiterPc'[w] = "discarded" /\ held'[w] = held[w]
  <2>1. ASSUME NEW v \in Waiters, ReceiveRefused(v)
        PROVE  waiterPc'[w] = "discarded" /\ held'[w] = held[w]
    BY <1>1, <2>1 DEF ReceiveRefused, Callable, Finish, Types
  <2>2. ASSUME NEW v \in Waiters, NEW r \in Receivers, ReceiveStarts(v, r)
        PROVE  waiterPc'[w] = "discarded" /\ held'[w] = held[w]
    BY <1>1, <2>2 DEF ReceiveStarts, Callable, Suspend, Types
  <2>3. ASSUME NEW v \in Waiters, ReceiveResumes(v)
        PROVE  waiterPc'[w] = "discarded" /\ held'[w] = held[w]
    BY <1>1, <2>3 DEF ReceiveResumes, Callable, Suspend, Types
  <2>4. ASSUME NEW v \in Waiters, ReceiveTakes(v)
        PROVE  waiterPc'[w] = "discarded" /\ held'[w] = held[w]
    BY <1>1, <2>4 DEF ReceiveTakes, Callable, Finish, Deliver, Types
  <2>5. ASSUME NEW v \in Waiters, WaiterCancelled(v)
        PROVE  waiterPc'[w] = "discarded" /\ held'[w] = held[w]
    BY <1>1, <2>5 DEF WaiterCancelled, Resume, Interrupted, Finish, Types
  <2>6. ASSUME NEW v \in Waiters, WaiterReturns(v)
        PROVE  waiterPc'[w] = "discarded" /\ held'[w] = held[w]
    BY <1>1, <2>6 DEF WaiterReturns, Resume, Interrupted, Finish, Deliver, Types
  <2>7. ASSUME NEW v \in Waiters, DiscardWaiter(v)
        PROVE  waiterPc'[w] = "discarded" /\ held'[w] = held[w]
    BY <1>1, <2>7 DEF DiscardWaiter, Types
  <2>8. ASSUME UNCHANGED <<waiterPc, held>> PROVE waiterPc'[w] = "discarded" /\ held'[w] = held[w]
    BY <1>1, <2>8
  <2> QED
    BY <2>1, <2>2, <2>3, <2>4, <2>5, <2>6, <2>7, <2>8 DEF Next, WaiterNext, NativeSteps,
    BridgeSteps, InnerDone, CancelWaiter, NativeClaims, Claim, NativeMessage, Hand, Return,
    NativeEnd, ReportEnd, Return, NativeUnclaims, Unclaim, NativeCancelled, Cancel, Return,
    BridgeChecks, SetBridge, BridgePosts, SetBridge, Complete, SetBridge, ProgramCancelsNative,
    CancelFuture, MessageArrives, Arrive, QueueDropped, DiscardQueued, ConnectionEnds, End,
    DriverAborted, End, CloseLoop, FinalizeCancels, Finalizable, CancelFuture, FinalizeAborts,
    DropDriver, Drop, nativeVars, receiveVars, sourceVars, waiterVars, bridgeVars, finalVars
<1> QED
  BY <1>1 DEF Forgotten

\* What is under way can be accounted for, and the retained message is the newest.
LEMMA FlowStep ==
    ASSUME Types, FlagHasOwner, ShieldInv, BridgeInv, FlowInv, Next
    PROVE  FlowInv'
<1>1. ASSUME NEW w \in Waiters, ReceiveRefused(w) PROVE FlowInv'
  BY <1>1, ForgottenKept, FacadeAssumption DEF ReceiveRefused, Callable, Finish, FlowInv,
  BridgeInv, Types, FutureStates, nativeVars, receiveVars, sourceVars, waiterVars, bridgeVars,
  finalVars
<1>2. ASSUME NEW w \in Waiters, NEW r \in Receivers, ReceiveStarts(w, r) PROVE FlowInv'
  <2>1. message[r] = 0
    BY <1>2, ResultTypes DEF ReceiveStarts, BridgeInv
  <2> QED
    BY <1>2, <2>1, ForgottenKept, FacadeAssumption
       DEF ReceiveStarts, Suspend, FlowInv, Types, nativeVars, receiveVars
<1>3. ASSUME NEW w \in Waiters, ReceiveResumes(w) PROVE FlowInv'
  BY <1>3, ForgottenKept, FacadeAssumption DEF ReceiveResumes, Callable, Suspend, FlowInv,
  BridgeInv, Types, FutureStates, nativeVars, receiveVars, sourceVars, waiterVars, bridgeVars,
  finalVars
<1>4. ASSUME NEW w \in Waiters, ReceiveTakes(w) PROVE FlowInv'
  <2>1. pending \in Receivers /\ bridge[pending] # "none" /\ future[pending] # "pending"
    BY <1>4 DEF ReceiveTakes, ShieldInv, Types
  <2>2. future[pending] = "result" \/ future[pending] = "cancelled"
    BY <2>1 DEF BridgeInv, Types, FutureStates
  <2>3. \A i \in 1..Len(returned') : returned'[i] <= Len(delivered)
    <3>1. CASE future[pending] = "cancelled"
      BY <1>4, <3>1 DEF ReceiveTakes, FlowInv
    <3>2. CASE future[pending] # "cancelled"
      <4>1. Deliver(pending)
        BY <1>4, <3>2 DEF ReceiveTakes
      <4> QED
        BY <2>1, <4>1 DEF Deliver, FlowInv, Types
    <3> QED
      BY <3>1, <3>2
  <2> QED
    BY <1>4, <2>1, <2>2, <2>3, ForgottenKept, FacadeAssumption
       DEF ReceiveTakes, FlowInv, BridgeInv, Types, nativeVars, receiveVars, bridgeVars
<1>5. ASSUME NEW w \in Waiters, WaiterCancelled(w) PROVE FlowInv'
  <2>1. held[w] = pending /\ pending \in Receivers
    BY <1>5 DEF WaiterCancelled, Resume, Waiting, FlagHasOwner, ShieldInv, Types
  <2> QED
    BY <1>5, <2>1, ForgottenKept, FacadeAssumption
       DEF WaiterCancelled, Resume, FlowInv, Types, nativeVars, receiveVars, bridgeVars
<1>6. ASSUME NEW w \in Waiters, WaiterReturns(w) PROVE FlowInv'
  <2>1. held[w] = pending /\ pending \in Receivers /\ future[pending] = "result" /\ recvPc[pending] = "done"
    BY <1>6 DEF WaiterReturns, Resume, Interrupted, Waiting, FlagHasOwner, ShieldInv, BridgeInv, Types
  <2>2. \A i \in 1..Len(returned') : returned'[i] <= Len(delivered)
    BY <1>6, <2>1 DEF WaiterReturns, Deliver, FlowInv, Types
  <2> QED
    BY <1>6, <2>1, <2>2, ForgottenKept
       DEF WaiterReturns, Resume, FlowInv, BridgeInv, Types, nativeVars, receiveVars, bridgeVars
<1>7. ASSUME NEW w \in Waiters, DiscardWaiter(w) PROVE FlowInv'
  <2>1. held[w] = pending
    BY <1>7 DEF DiscardWaiter, Waiting, FlagHasOwner
  <2>2. pending \in Forgotten'
    BY <1>7, <2>1 DEF DiscardWaiter, Forgotten, Types
  <2> QED
    BY <1>7, <2>2, ForgottenKept, FacadeAssumption
       DEF DiscardWaiter, FlowInv, Types, nativeVars, receiveVars, bridgeVars
<1>8. ASSUME NEW r \in Receivers, NativeMessage(r) PROVE FlowInv'
  BY <1>8, ForgottenKept, FacadeAssumption, SMTT(30) DEF NativeMessage, Hand, Return, FlowInv,
  BridgeInv, Types, FutureStates, nativeVars, receiveVars, sourceVars, waiterVars, bridgeVars, finalVars
<1>9. ASSUME NEW r \in Receivers, BridgeChecks(r) PROVE FlowInv'
  BY <1>9, ForgottenKept, FacadeAssumption DEF BridgeChecks, SetBridge, FlowInv, BridgeInv,
  Types, FutureStates, nativeVars, receiveVars, sourceVars, waiterVars, bridgeVars, finalVars
<1>10. ASSUME NEW r \in Receivers, BridgePosts(r) PROVE FlowInv'
  BY <1>10, ForgottenKept, FacadeAssumption DEF BridgePosts, SetBridge, FlowInv, BridgeInv,
  Types, FutureStates, nativeVars, receiveVars, sourceVars, waiterVars, bridgeVars, finalVars
<1>11. ASSUME NEW r \in Receivers, Complete(r) PROVE FlowInv'
  BY <1>11, ForgottenKept, FacadeAssumption DEF Complete, SetBridge, FlowInv, BridgeInv, Types,
  FutureStates, nativeVars, receiveVars, sourceVars, waiterVars, bridgeVars, finalVars
<1>12. ASSUME NEW r \in Receivers, ProgramCancelsNative(r) PROVE FlowInv'
  BY <1>12, ForgottenKept, FacadeAssumption DEF ProgramCancelsNative, CancelFuture, FlowInv,
  BridgeInv, Types, FutureStates, nativeVars, receiveVars, sourceVars, waiterVars, bridgeVars,
  finalVars
<1>13. ASSUME FinalizeCancels PROVE FlowInv'
  BY <1>13, ForgottenKept, FacadeAssumption DEF FinalizeCancels, Finalizable, CancelFuture,
  FlowInv, BridgeInv, Types, FutureStates, nativeVars, receiveVars, sourceVars, waiterVars,
  bridgeVars, finalVars
<1>14. ASSUME UNCHANGED <<pending, waiterPc, held, future, bridge, message, delivered, returned>>
       PROVE  FlowInv'
  BY <1>14, ForgottenKept DEF FlowInv, BridgeInv, Types, FutureStates
<1> QED
  BY <1>1, <1>2, <1>3, <1>4, <1>5, <1>6, <1>7, <1>8, <1>9, <1>10, <1>11, <1>12, <1>13, <1>14
  DEF Next, WaiterNext, NativeSteps, BridgeSteps, InnerDone, CancelWaiter, NativeClaims, Claim,
  NativeEnd, ReportEnd, Return, NativeUnclaims, Unclaim, NativeCancelled, Cancel, Return,
  MessageArrives, Arrive, QueueDropped, DiscardQueued, ConnectionEnds, End, DriverAborted, End,
  CloseLoop, FinalizeAborts, DropDriver, Drop, nativeVars, receiveVars, sourceVars, waiterVars,
  bridgeVars, finalVars

\* Where a message may be.
Somewhere(n) ==
    \/ \E i \in 1..Len(returned) : returned[i] = n
    \/ \E r \in Receivers : /\ message[r] = n
                            /\ r = pending \/ r \in Forgotten \/ future[r] = "cancelled"

\* A delivery appends the newest message.
LEMMA DeliverKeepsOrder ==
    ASSUME Types, ShieldInv, BridgeInv, FlowInv, Lossless,
           pending \in Receivers, Deliver(pending)
    PROVE  /\ \A i, j \in 1..Len(returned') : i < j => returned'[i] < returned'[j]
           /\ \A i \in 1..Len(returned) : i \in 1..Len(returned') /\ returned'[i] = returned[i]
           /\ message[pending] # 0 => \E i \in 1..Len(returned') : returned'[i] = message[pending]
<1>1. CASE recvResult[pending] = Ok
  <2>1. returned' = Append(returned, message[pending])
    BY <1>1 DEF Deliver
  <2>2. message[pending] # 0 /\ message[pending] \in Nat /\ returned \in Seq(Nat)
    BY <1>1 DEF BridgeInv, Types
  <2>3. \A i \in 1..Len(returned) : returned[i] < message[pending]
    BY <2>2, FacadeAssumption DEF FlowInv
  <2>4. \A i, j \in 1..Len(returned) : i < j => returned[i] < returned[j]
    BY DEF Lossless
  <2>5. Len(returned') = Len(returned) + 1 /\ Len(returned) \in Nat
        /\ returned'[Len(returned) + 1] = message[pending]
        /\ \A i \in 1..Len(returned) : returned'[i] = returned[i]
    BY <2>1, <2>2
  <2>6. ASSUME NEW i \in 1..Len(returned'), NEW j \in 1..Len(returned'), i < j
        PROVE  returned'[i] < returned'[j]
    <3>1. i \in 1..Len(returned)
      BY <2>5, <2>6
    <3>2. CASE j = Len(returned) + 1
      BY <2>3, <2>5, <3>1, <3>2
    <3>3. CASE j \in 1..Len(returned)
      BY <2>4, <2>5, <2>6, <3>1, <3>3
    <3> QED
      BY <2>5, <3>2, <3>3
  <2> QED
    BY <2>5, <2>6
<1>2. CASE recvResult[pending] # Ok
  BY <1>2 DEF Deliver, BridgeInv, Lossless
<1> QED
  BY <1>1, <1>2

\* A delivery loses nothing.
LEMMA DeliverKeepsMessages ==
    ASSUME Types, ShieldInv, BridgeInv, FlowInv, Lossless,
           pending \in Receivers, Deliver(pending),
           UNCHANGED <<delivered, message, future>>, Forgotten \subseteq Forgotten'
    PROVE  Lossless'
<1>1. ASSUME NEW n \in 1..Len(delivered) PROVE Somewhere(n)'
  <2>1. CASE \E i \in 1..Len(returned) : returned[i] = n
    BY <2>1, DeliverKeepsOrder DEF Somewhere
  <2>2. ASSUME NEW r \in Receivers, message[r] = n,
               r = pending \/ r \in Forgotten \/ future[r] = "cancelled"
        PROVE  Somewhere(n)'
    <3>1. CASE r = pending
      BY <2>2, <3>1, DeliverKeepsOrder DEF Somewhere
    <3>2. CASE r \in Forgotten \/ future[r] = "cancelled"
      BY <2>2, <3>2 DEF Somewhere
    <3> QED
      BY <2>2, <3>1, <3>2
  <2> QED
    BY <1>1, <2>1, <2>2 DEF Lossless
<1> QED
  BY <1>1, DeliverKeepsOrder DEF Lossless, Somewhere

\* What was retained, forgotten or cancelled stays one of the three.
LEMMA CarriersKeepMessages ==
    ASSUME Lossless, UNCHANGED <<returned, delivered, message>>,
           \A r \in Receivers : r = pending \/ r \in Forgotten \/ future[r] = "cancelled"
               => (r = pending \/ r \in Forgotten \/ future[r] = "cancelled")'
    PROVE  Lossless'
<1>1. ASSUME NEW n \in 1..Len(delivered), Somewhere(n) PROVE Somewhere(n)'
  BY <1>1 DEF Somewhere
<1> QED
  BY <1>1 DEF Lossless, Somewhere

\* No message is lost or repeated by a step.
LEMMA LosslessStep ==
    ASSUME Types, FlagHasOwner, ShieldInv, BridgeInv, FlowInv, Lossless, Next
    PROVE  Lossless'
<1>1. ASSUME NEW w \in Waiters, ReceiveRefused(w) PROVE Lossless'
  BY <1>1, ForgottenKept, FacadeAssumption DEF ReceiveRefused, Callable, Finish, Lossless,
  Types, nativeVars, receiveVars, sourceVars, waiterVars, bridgeVars, finalVars
<1>2. ASSUME NEW w \in Waiters, NEW r \in Receivers, ReceiveStarts(w, r) PROVE Lossless'
  BY <1>2, ForgottenKept, FacadeAssumption DEF ReceiveStarts, Callable, Suspend, Lossless,
  Types, nativeVars, receiveVars, sourceVars, waiterVars, bridgeVars, finalVars
<1>3. ASSUME NEW w \in Waiters, ReceiveResumes(w) PROVE Lossless'
  BY <1>3, ForgottenKept, FacadeAssumption DEF ReceiveResumes, Callable, Suspend, Lossless,
  Types, nativeVars, receiveVars, sourceVars, waiterVars, bridgeVars, finalVars
<1>4. ASSUME NEW w \in Waiters, ReceiveTakes(w) PROVE Lossless'
  <2>1. pending \in Receivers /\ UNCHANGED <<delivered, message, future>>
    BY <1>4 DEF ReceiveTakes, Types, nativeVars, receiveVars, bridgeVars
  <2>2. CASE future[pending] = "cancelled"
    <3>1. UNCHANGED <<returned, delivered, message, future>>
      BY <1>4, <2>1, <2>2 DEF ReceiveTakes
    <3> QED
      BY <2>2, <3>1, ForgottenKept, CarriersKeepMessages
  <2>3. CASE future[pending] # "cancelled"
    <3>1. Deliver(pending)
      BY <1>4, <2>3 DEF ReceiveTakes
    <3> QED
      BY <2>1, <3>1, ForgottenKept, DeliverKeepsMessages
  <2> QED
    BY <2>2, <2>3
<1>5. ASSUME NEW w \in Waiters, WaiterCancelled(w) PROVE Lossless'
  <2>1. held[w] = pending /\ pending \in Receivers
    BY <1>5 DEF WaiterCancelled, Resume, Waiting, FlagHasOwner, ShieldInv, Types
  <2> QED
    BY <1>5, <2>1, ForgottenKept, FacadeAssumption
       DEF WaiterCancelled, Resume, Lossless, Types, nativeVars, receiveVars, bridgeVars
<1>6. ASSUME NEW w \in Waiters, WaiterReturns(w) PROVE Lossless'
  <2>1. pending \in Receivers /\ Deliver(pending)
    BY <1>6 DEF WaiterReturns, Resume, Waiting, FlagHasOwner, ShieldInv, Types
  <2>2. UNCHANGED <<delivered, message, future>>
    BY <1>6 DEF WaiterReturns, Resume, nativeVars, receiveVars, bridgeVars
  <2> QED
    BY <2>1, <2>2, ForgottenKept, DeliverKeepsMessages
<1>7. ASSUME NEW w \in Waiters, DiscardWaiter(w) PROVE Lossless'
  <2>1. held[w] = pending
    BY <1>7 DEF DiscardWaiter, Waiting, FlagHasOwner
  <2>2. pending \in Forgotten'
    BY <1>7, <2>1 DEF DiscardWaiter, Forgotten, Types
  <2>3. UNCHANGED <<returned, delivered, message, future>>
    BY <1>7 DEF DiscardWaiter, nativeVars, receiveVars, bridgeVars
  <2> QED
    BY <2>2, <2>3, ForgottenKept, CarriersKeepMessages
<1>8. ASSUME NEW r \in Receivers, NativeMessage(r) PROVE Lossless'
  <2>1. /\ recvPc[r] = "waiting" /\ message[r] = 0
        /\ bridge[r] = "running"
    BY <1>8, ResultTypes DEF NativeMessage, Hand, Return, BridgeInv
  <2>2. /\ delivered' = Append(delivered, Len(delivered) + 1) /\ delivered \in Seq(Nat)
        /\ message' = [message EXCEPT ![r] = Len(delivered) + 1]
    BY <1>8 DEF NativeMessage, Hand, Types
  <2>3. Len(delivered') = Len(delivered) + 1 /\ Len(delivered) \in Nat
        /\ \A s \in Receivers : message'[s] = IF s = r THEN Len(delivered) + 1 ELSE message[s]
    BY <2>2 DEF Types
  <2>4. UNCHANGED <<pending, future, returned, waiterPc, held>>
    BY <1>8 DEF NativeMessage, waiterVars
  <2>5. r = pending \/ r \in Forgotten \/ future[r] = "cancelled"
    BY <2>1 DEF FlowInv
  <2>6. ASSUME NEW n \in 1..Len(delivered) PROVE Somewhere(n)'
    BY <2>1, <2>3, <2>4, <2>6, ForgottenKept DEF Lossless, Somewhere
  <2>7. ASSUME NEW n, n = Len(delivered) + 1 PROVE Somewhere(n)'
    BY <2>3, <2>4, <2>5, <2>7, ForgottenKept DEF Somewhere
  <2>8. \A n \in 1..Len(delivered') : n \in 1..Len(delivered) \/ n = Len(delivered) + 1
    BY <2>3
  <2>9. \A i, j \in 1..Len(returned') : i < j => returned'[i] < returned'[j]
    BY <2>4 DEF Lossless
  <2> QED
    BY <2>2, <2>6, <2>7, <2>8, <2>9 DEF Lossless, Somewhere
<1>9. ASSUME NEW r \in Receivers, Complete(r) PROVE Lossless'
  BY <1>9, ForgottenKept, FacadeAssumption DEF Complete, SetBridge, Lossless, Types,
  nativeVars, receiveVars, sourceVars, waiterVars, bridgeVars, finalVars
<1>10. ASSUME NEW r \in Receivers, ProgramCancelsNative(r) PROVE Lossless'
  BY <1>10, ForgottenKept, FacadeAssumption DEF ProgramCancelsNative, CancelFuture, Lossless,
  Types, nativeVars, receiveVars, sourceVars, waiterVars, bridgeVars, finalVars
<1>11. ASSUME FinalizeCancels PROVE Lossless'
  <2>1. UNCHANGED <<pending, returned, delivered, message>>
    BY <1>11 DEF FinalizeCancels, nativeVars, receiveVars, waiterVars
  <2>2. \A r \in Receivers : future[r] = "cancelled" => future'[r] = "cancelled"
    BY <1>11 DEF FinalizeCancels, CancelFuture, Types
  <2> QED
    BY <2>1, <2>2, ForgottenKept, CarriersKeepMessages
<1>12. ASSUME UNCHANGED <<pending, waiterPc, held, future, message, delivered, returned>> PROVE Lossless'
  BY <1>12, ForgottenKept DEF Lossless, Types
<1> QED
  BY <1>1, <1>2, <1>3, <1>4, <1>5, <1>6, <1>7, <1>8, <1>9, <1>10, <1>11, <1>12 DEF Next,
  WaiterNext, NativeSteps, BridgeSteps, InnerDone, CancelWaiter, NativeClaims, Claim,
  NativeEnd, ReportEnd, Return, NativeUnclaims, Unclaim, NativeCancelled, Cancel, Return,
  BridgeChecks, SetBridge, BridgePosts, SetBridge, MessageArrives, Arrive, QueueDropped,
  DiscardQueued, ConnectionEnds, End, DriverAborted, End, CloseLoop, FinalizeAborts,
  DropDriver, Drop, nativeVars, receiveVars, sourceVars, waiterVars, bridgeVars, finalVars

\* While no waiter is discarded, what abort() completes was cancelled before.
LEMMA SilentStep ==
    ASSUME NoneDiscarded', Types, FlagHasOwner, ShieldInv, BridgeInv, FlowInv, SilentInv, Next
    PROVE  SilentInv'
<1>1. ASSUME NEW w \in Waiters, ReceiveRefused(w) PROVE SilentInv'
  BY <1>1, FacadeAssumption, ResultTypes DEF ReceiveRefused, Callable, Finish, SilentInv,
  NoneDiscarded, Waiting, BridgeInv, Types, nativeVars, receiveVars, sourceVars, waiterVars, bridgeVars,
  finalVars
<1>2. ASSUME NEW w \in Waiters, ReceiveResumes(w) PROVE SilentInv'
  BY <1>2, FacadeAssumption, ResultTypes DEF ReceiveResumes, Callable, Suspend, SilentInv,
  NoneDiscarded, Waiting, BridgeInv, Types, nativeVars, receiveVars, sourceVars, waiterVars, bridgeVars,
  finalVars
<1>3. ASSUME NEW w \in Waiters, ReceiveTakes(w) PROVE SilentInv'
  BY <1>3, FacadeAssumption, ResultTypes DEF ReceiveTakes, Callable, Finish, Deliver,
  SilentInv, NoneDiscarded, Waiting, BridgeInv, Types, nativeVars, receiveVars, sourceVars, waiterVars,
  bridgeVars, finalVars
<1>4. ASSUME NEW w \in Waiters, WaiterCancelled(w) PROVE SilentInv'
  BY <1>4, FacadeAssumption, ResultTypes DEF WaiterCancelled, Resume, Interrupted, Finish,
  SilentInv, NoneDiscarded, Waiting, BridgeInv, Types, nativeVars, receiveVars, sourceVars, waiterVars,
  bridgeVars, finalVars
<1>5. ASSUME NEW w \in Waiters, WaiterReturns(w) PROVE SilentInv'
  BY <1>5, FacadeAssumption, ResultTypes DEF WaiterReturns, Resume, Interrupted, Finish,
  Deliver, SilentInv, NoneDiscarded, Waiting, BridgeInv, Types, nativeVars, receiveVars, sourceVars,
  waiterVars, bridgeVars, finalVars
<1>6. ASSUME NEW w \in Waiters, DiscardWaiter(w) PROVE SilentInv'
  BY <1>6 DEF DiscardWaiter, NoneDiscarded, Types
<1>7. ASSUME NEW w \in Waiters, NEW r \in Receivers, ReceiveStarts(w, r) PROVE SilentInv'
  BY <1>7, FacadeAssumption, ResultTypes DEF ReceiveStarts, Callable, Suspend, SilentInv,
  NoneDiscarded, Waiting, BridgeInv, Types, nativeVars, receiveVars, sourceVars, waiterVars, bridgeVars,
  finalVars
<1>8. ASSUME NEW r \in Receivers, NativeClaims(r) PROVE SilentInv'
  BY <1>8, FacadeAssumption, ResultTypes DEF NativeClaims, Claim, SilentInv, NoneDiscarded, Waiting,
  BridgeInv, Types, nativeVars, receiveVars, sourceVars, waiterVars, bridgeVars, finalVars
<1>9. ASSUME NEW r \in Receivers, NativeMessage(r) PROVE SilentInv'
  BY <1>9, FacadeAssumption, ResultTypes DEF NativeMessage, Hand, Return, SilentInv, NoneDiscarded, Waiting,
  BridgeInv, Types, nativeVars, receiveVars, sourceVars, waiterVars, bridgeVars, finalVars
<1>10. ASSUME NEW r \in Receivers, NativeEnd(r) PROVE SilentInv'
  <2>1. /\ bridge[r] = "running" /\ recvResult' = [recvResult EXCEPT ![r] = outcome]
        /\ UNCHANGED <<waiterPc, pending, future, bridge, finalPc, outcome>>
    BY <1>10 DEF NativeEnd, ReportEnd, Return, BridgeInv, Types, BridgeStates,
       waiterVars, bridgeVars, finalVars
  <2>2. ASSUME outcome = Abandoned PROVE future[r] = "cancelled"
    <3>1. r \notin Forgotten
      BY DEF Forgotten, SilentInv, NoneDiscarded
    <3>2. r = pending \/ future[r] = "cancelled"
      BY <2>1, <3>1 DEF FlowInv
    <3>3. r = pending => future[r] \notin {"none", "pending", "result"}
      BY <2>1, <2>2, FacadeAssumption DEF SilentInv, BridgeInv
    <3> QED
      BY <3>2, <3>3 DEF Types, FutureStates
  <2> QED
    BY <2>1, <2>2 DEF SilentInv, NoneDiscarded, Waiting, Types
<1>11. ASSUME NEW r \in Receivers, NativeCancelled(r) PROVE SilentInv'
  BY <1>11, FacadeAssumption, ResultTypes DEF NativeCancelled, Cancel, Return, SilentInv,
  NoneDiscarded, Waiting, BridgeInv, Types, nativeVars, receiveVars, sourceVars, waiterVars, bridgeVars,
  finalVars
<1>12. ASSUME NEW r \in Receivers, BridgeChecks(r) PROVE SilentInv'
  BY <1>12, FacadeAssumption, ResultTypes DEF BridgeChecks, SetBridge, SilentInv, NoneDiscarded, Waiting,
  BridgeInv, Types, nativeVars, receiveVars, sourceVars, waiterVars, bridgeVars, finalVars
<1>13. ASSUME NEW r \in Receivers, BridgePosts(r) PROVE SilentInv'
  BY <1>13, FacadeAssumption, ResultTypes DEF BridgePosts, SetBridge, SilentInv, NoneDiscarded, Waiting,
  BridgeInv, Types, nativeVars, receiveVars, sourceVars, waiterVars, bridgeVars, finalVars
<1>14. ASSUME NEW r \in Receivers, Complete(r) PROVE SilentInv'
  BY <1>14, FacadeAssumption, ResultTypes DEF Complete, SetBridge, SilentInv, NoneDiscarded, Waiting,
  BridgeInv, Types, nativeVars, receiveVars, sourceVars, waiterVars, bridgeVars, finalVars
<1>15. ASSUME NEW r \in Receivers, ProgramCancelsNative(r) PROVE SilentInv'
  BY <1>15, FacadeAssumption, ResultTypes DEF ProgramCancelsNative, CancelFuture, SilentInv,
  NoneDiscarded, Waiting, BridgeInv, Types, nativeVars, receiveVars, sourceVars, waiterVars, bridgeVars,
  finalVars
<1>16. ASSUME ConnectionEnds PROVE SilentInv'
  BY <1>16, FacadeAssumption, ResultTypes DEF ConnectionEnds, End, SilentInv, NoneDiscarded, Waiting,
  BridgeInv, Types, nativeVars, receiveVars, sourceVars, waiterVars, bridgeVars, finalVars
<1>17. ASSUME DriverAborted PROVE SilentInv'
  BY <1>17, FacadeAssumption, ResultTypes DEF DriverAborted, End, SilentInv, NoneDiscarded, Waiting,
  BridgeInv, Types, nativeVars, receiveVars, sourceVars, waiterVars, bridgeVars, finalVars
<1>18. ASSUME FinalizeCancels PROVE SilentInv'
  BY <1>18, FacadeAssumption, ResultTypes DEF FinalizeCancels, Finalizable, CancelFuture,
  SilentInv, NoneDiscarded, Waiting, BridgeInv, Types, nativeVars, receiveVars, sourceVars, waiterVars,
  bridgeVars, finalVars
<1>19. ASSUME FinalizeAborts PROVE SilentInv'
  BY <1>19, FacadeAssumption, ResultTypes DEF FinalizeAborts, SilentInv, NoneDiscarded, Waiting, BridgeInv,
  Types, nativeVars, receiveVars, sourceVars, waiterVars, bridgeVars, finalVars
<1>20. ASSUME UNCHANGED <<waiterPc, pending, future, finalPc, outcome, recvResult, bridge>> PROVE SilentInv'
  BY <1>20 DEF SilentInv, NoneDiscarded, Waiting, BridgeInv, Types
<1> QED
  BY <1>1, <1>2, <1>3, <1>4, <1>5, <1>6, <1>7, <1>8, <1>9, <1>10, <1>11, <1>12, <1>13, <1>14,
  <1>15, <1>16, <1>17, <1>18, <1>19, <1>20 DEF Next, WaiterNext, NativeSteps, BridgeSteps,
  InnerDone, CancelWaiter, NativeUnclaims, Unclaim, MessageArrives, Arrive, QueueDropped,
  DiscardQueued, CloseLoop, DropDriver, Drop, nativeVars, receiveVars, sourceVars, waiterVars,
  bridgeVars, finalVars

\* Discarded waiters and cancelled futures stay what they are.
LEMMA HistoryKept ==
    ASSUME Types, BridgeInv, Next
    PROVE  (NoneDiscarded' => NoneDiscarded) /\ (NoneCancelled' => NoneCancelled)
<1> USE DEF Callable, Suspend, Finish, Deliver, Resume, SetBridge, CancelFuture
<1>1. ASSUME NEW w \in Waiters, waiterPc[w] = "discarded" PROVE waiterPc'[w] = "discarded"
  BY <1>1 DEF Next, Types, WaiterNext, NativeSteps, BridgeSteps, ReceiveRefused, ReceiveResumes,
     ReceiveTakes, ReceiveStarts, InnerDone, CancelWaiter, WaiterCancelled, WaiterReturns,
     DiscardWaiter, NativeClaims, NativeMessage, NativeEnd, NativeUnclaims, NativeCancelled,
     BridgeChecks, BridgePosts, Complete, ProgramCancelsNative, MessageArrives, QueueDropped,
     ConnectionEnds, DriverAborted, CloseLoop, FinalizeCancels, FinalizeAborts, DropDriver,
     waiterVars
<1>2. ASSUME NEW r \in Receivers, future[r] = "cancelled" PROVE future'[r] = "cancelled"
  BY <1>2 DEF Next, Types, BridgeInv, WaiterNext, NativeSteps, BridgeSteps, ReceiveRefused,
     ReceiveResumes, ReceiveTakes, ReceiveStarts, InnerDone, CancelWaiter, WaiterCancelled,
     WaiterReturns, DiscardWaiter, NativeClaims, NativeMessage, NativeEnd, NativeUnclaims,
     NativeCancelled, BridgeChecks, BridgePosts, Complete, ProgramCancelsNative, MessageArrives,
     QueueDropped, ConnectionEnds, DriverAborted, CloseLoop, FinalizeCancels, FinalizeAborts,
     DropDriver, bridgeVars
<1> QED
  BY <1>1, <1>2 DEF NoneDiscarded, NoneCancelled

\* While no native receive is cancelled, there is one at a time.
LEMMA ExclusiveStep ==
    ASSUME NoneCancelled', Types, FlagHasOwner, ShieldInv, BridgeInv, GuardInv,
           NoneDiscarded', ExclusiveInv, Next
    PROVE  ExclusiveInv'
<1>1. ASSUME NEW w \in Waiters, NEW r \in Receivers, ReceiveStarts(w, r) PROVE ExclusiveInv'
  BY <1>1, FacadeAssumption, ResultTypes DEF ReceiveStarts, Callable, Suspend, ExclusiveInv,
  NoneCancelled, BridgeInv, Types, nativeVars, receiveVars, sourceVars, waiterVars,
  bridgeVars, finalVars
<1>2. ASSUME NEW w \in Waiters, ReceiveTakes(w) PROVE ExclusiveInv'
  <2>1. bridge[pending] = "done"
    BY <1>2, FacadeAssumption DEF ReceiveTakes, Callable, ShieldInv, BridgeInv,
       ExclusiveInv, NoneCancelled, Types, FutureStates
  <2> QED
    BY <1>2, <2>1 DEF ReceiveTakes, ExclusiveInv, NoneCancelled, Types,
       nativeVars, receiveVars, bridgeVars, finalVars
<1>3. ASSUME NEW w \in Waiters, WaiterCancelled(w) PROVE ExclusiveInv'
  <2>1. w \in Waiting /\ held[w] \in Receivers
    BY <1>3 DEF WaiterCancelled, Resume, Waiting, FlagHasOwner, ShieldInv, Types
  <2>3. pending' = pending
    BY <1>3, <2>1 DEF WaiterCancelled, ExclusiveInv, NoneCancelled
  <2> QED
    BY <1>3, <2>3 DEF WaiterCancelled, Resume, ExclusiveInv, NoneCancelled,
       nativeVars, receiveVars, bridgeVars, finalVars
<1>4. ASSUME NEW w \in Waiters, WaiterReturns(w) PROVE ExclusiveInv'
  <2>1. bridge[pending] = "done"
    BY <1>4 DEF WaiterReturns, Resume, Interrupted, Waiting, FlagHasOwner, ShieldInv, BridgeInv, Types
  <2> QED
    BY <1>4, <2>1 DEF WaiterReturns, Resume, ExclusiveInv, NoneCancelled, Types,
       nativeVars, receiveVars, bridgeVars, finalVars
<1>5. ASSUME NEW w \in Waiters, DiscardWaiter(w) PROVE ExclusiveInv'
  BY <1>5 DEF DiscardWaiter, NoneDiscarded, Types
<1>6. ASSUME NEW r \in Receivers, NativeClaims(r) PROVE ExclusiveInv'
  <2>1. recvPc[r] = "idle" /\ bridge[r] = "running" /\ UNCHANGED <<future, finalPc, bridge, pending>>
    BY <1>6 DEF NativeClaims, Claim, waiterVars, bridgeVars, finalVars
  <2>2. ASSUME NEW s \in Receivers, Inside(s) PROVE FALSE
    <3>1. bridge[s] = "running"
      BY <2>2 DEF Inside, BridgeInv, Types, BridgeStates
    <3>2. s = r
      BY <2>1, <3>1 DEF ExclusiveInv
    <3> QED
      BY <2>1, <2>2, <3>2 DEF Inside
  <2>3. ~ receiveActive
    BY <2>2 DEF GuardInv
  <2> QED
    BY <1>6, <2>1, <2>3 DEF NativeClaims, Claim, ExclusiveInv, NoneCancelled
<1>7. ASSUME NEW r \in Receivers, NativeMessage(r) PROVE ExclusiveInv'
  BY <1>7, FacadeAssumption, ResultTypes DEF NativeMessage, Hand, Return, ExclusiveInv,
  NoneCancelled, BridgeInv, Types, nativeVars, receiveVars, sourceVars, waiterVars,
  bridgeVars, finalVars
<1>8. ASSUME NEW r \in Receivers, NativeEnd(r) PROVE ExclusiveInv'
  <2>1. outcome # Concurrency
    BY <1>8, ResultTypes DEF NativeEnd, ReportEnd, Types
  <2> QED
    BY <1>8, <2>1 DEF NativeEnd, ReportEnd, Return, ExclusiveInv, NoneCancelled, Types,
       waiterVars, bridgeVars, finalVars
<1>9. ASSUME NEW r \in Receivers, NativeCancelled(r) PROVE ExclusiveInv'
  BY <1>9, FacadeAssumption, ResultTypes DEF NativeCancelled, Cancel, Return, ExclusiveInv,
  NoneCancelled, BridgeInv, Types, nativeVars, receiveVars, sourceVars, waiterVars,
  bridgeVars, finalVars
<1>10. ASSUME NEW r \in Receivers, BridgeChecks(r) PROVE ExclusiveInv'
  BY <1>10, FacadeAssumption, ResultTypes DEF BridgeChecks, SetBridge, ExclusiveInv,
  NoneCancelled, BridgeInv, Types, nativeVars, receiveVars, sourceVars, waiterVars,
  bridgeVars, finalVars
<1>11. ASSUME NEW r \in Receivers, BridgePosts(r) PROVE ExclusiveInv'
  BY <1>11, FacadeAssumption, ResultTypes DEF BridgePosts, SetBridge, ExclusiveInv,
  NoneCancelled, BridgeInv, Types, nativeVars, receiveVars, sourceVars, waiterVars,
  bridgeVars, finalVars
<1>12. ASSUME NEW r \in Receivers, Complete(r) PROVE ExclusiveInv'
  BY <1>12, FacadeAssumption, ResultTypes DEF Complete, SetBridge, ExclusiveInv,
  NoneCancelled, BridgeInv, Types, nativeVars, receiveVars, sourceVars, waiterVars,
  bridgeVars, finalVars
<1>13. ASSUME NEW r \in Receivers, ProgramCancelsNative(r) PROVE ExclusiveInv'
  BY <1>13, FacadeAssumption, ResultTypes DEF ProgramCancelsNative, CancelFuture, ExclusiveInv,
  NoneCancelled, BridgeInv, Types, nativeVars, receiveVars, sourceVars, waiterVars,
  bridgeVars, finalVars
<1>14. ASSUME FinalizeCancels PROVE ExclusiveInv'
  BY <1>14, FacadeAssumption, ResultTypes DEF FinalizeCancels, Finalizable, CancelFuture,
  ExclusiveInv, NoneCancelled, BridgeInv, Types, nativeVars, receiveVars, sourceVars,
  waiterVars, bridgeVars, finalVars
<1>15. ASSUME FinalizeAborts PROVE ExclusiveInv'
  BY <1>15, FacadeAssumption, ResultTypes DEF FinalizeAborts, ExclusiveInv, NoneCancelled,
  BridgeInv, Types, nativeVars, receiveVars, sourceVars, waiterVars, bridgeVars, finalVars
<1>16. ASSUME UNCHANGED <<future, finalPc, bridge, pending, recvResult>> PROVE ExclusiveInv'
  BY <1>16 DEF ExclusiveInv, NoneCancelled, BridgeInv, Types
<1> QED
  BY <1>1, <1>2, <1>3, <1>4, <1>5, <1>6, <1>7, <1>8, <1>9, <1>10, <1>11, <1>12, <1>13, <1>14,
  <1>15, <1>16 DEF Next, WaiterNext, NativeSteps, BridgeSteps, ReceiveRefused, Callable,
  Finish, ReceiveResumes, Callable, Suspend, InnerDone, CancelWaiter, NativeUnclaims, Unclaim,
  MessageArrives, Arrive, QueueDropped, DiscardQueued, ConnectionEnds, End, DriverAborted, End,
  CloseLoop, DropDriver, Drop, nativeVars, receiveVars, sourceVars, waiterVars, bridgeVars,
  finalVars

-----------------------------------------------------------------------------
\* The initial state satisfies the invariant.
LEMMA InitHolds == Init => Types /\ ReceiveInv
<1> SUFFICES ASSUME Init PROVE Types /\ ReceiveInv
  OBVIOUS
<1>1. Types
  <2>1. recvResult \in [Receivers -> Results] /\ result \in [Waiters -> Results]
    BY ResultTypes DEF Init, NativeInit
  <2>2. delivered \in Seq(Nat) /\ returned \in Seq(Nat)
    BY DEF Init, NativeInit
  <2> QED
    BY <2>1, <2>2 DEF Init, NativeInit, Types, FutureStates, BridgeStates
<1>2. FlagHasOwner /\ ShieldInv /\ BridgeInv /\ GuardInv
  BY ResultTypes DEF Init, NativeInit, FlagHasOwner, ShieldInv, BridgeInv, GuardInv, Waiting, Inside
<1>3. FlowInv /\ Lossless
  BY DEF Init, NativeInit, FlowInv, Lossless
<1>4. SilentInv /\ ExclusiveInv
  BY ResultTypes DEF Init, NativeInit, SilentInv, ExclusiveInv, NoneDiscarded,
     NoneCancelled, Waiting
<1> QED
  BY <1>1, <1>2, <1>3, <1>4 DEF ReceiveInv

\* A step that changes nothing keeps it.
LEMMA StutterHolds ==
    ASSUME Types, ReceiveInv, UNCHANGED vars
    PROVE  Types' /\ ReceiveInv'
<1> USE DEF vars, nativeVars, receiveVars, sourceVars, waiterVars, bridgeVars, finalVars
<1>1. Types'
  BY DEF Types
<1>2. FlagHasOwner' /\ ShieldInv' /\ BridgeInv' /\ GuardInv'
  BY DEF ReceiveInv, FlagHasOwner, ShieldInv, BridgeInv, GuardInv, Waiting, Inside
<1>3. FlowInv' /\ Lossless'
  BY DEF ReceiveInv, FlowInv, Lossless, Forgotten
<1>4. /\ (NoneDiscarded => SilentInv) => (NoneDiscarded' => SilentInv')
      /\ (NoneDiscarded /\ NoneCancelled => ExclusiveInv)
            => (NoneDiscarded' /\ NoneCancelled' => ExclusiveInv')
  BY DEF SilentInv, ExclusiveInv, NoneDiscarded,
     NoneCancelled, Waiting
<1> QED
  BY <1>1, <1>2, <1>3, <1>4 DEF ReceiveInv

\* The inductive invariant of the public receive(): who owns the flag and the
\* retained receive, and where every message is (client.py:50-95, py.rs:41-112).
THEOREM ReceiveInvHolds == Spec => [](Types /\ ReceiveInv)
<1>1. ASSUME Types, ReceiveInv, Next PROVE Types' /\ ReceiveInv'
  <2>1. /\ FlagHasOwner /\ ShieldInv /\ BridgeInv /\ GuardInv /\ FlowInv /\ Lossless
        /\ NoneDiscarded => SilentInv
        /\ NoneDiscarded /\ NoneCancelled => ExclusiveInv
        /\ NoneDiscarded' => NoneDiscarded
        /\ NoneCancelled' => NoneCancelled
    BY <1>1, HistoryKept DEF ReceiveInv
  <2>2. Types' /\ FlagHasOwner' /\ ShieldInv' /\ BridgeInv' /\ GuardInv'
    BY <1>1, <2>1, TypesStep, FlagStep, ShieldStep, BridgeStep, GuardStep
  <2>3. FlowInv' /\ Lossless'
    BY <1>1, <2>1, FlowStep, LosslessStep
  <2>4. NoneDiscarded' => SilentInv'
    BY <1>1, <2>1, SilentStep
  <2>5. NoneDiscarded' /\ NoneCancelled' => ExclusiveInv'
    BY <1>1, <2>1, ExclusiveStep
  <2> QED
    BY <2>2, <2>3, <2>4, <2>5 DEF ReceiveInv
<1> QED
  BY <1>1, InitHolds, StutterHolds, PTL DEF Spec

\* The types, and a future has a result only from a native receive that
\* returned one.
THEOREM TypeCorrect == Spec => []TypeOK
<1>1. Types /\ ReceiveInv => TypeOK
  BY DEF TypeOK, ReceiveInv, BridgeInv
<1> QED
  BY <1>1, ReceiveInvHolds, PTL

\* The flag of the facade and its retained receive have one owner at a time,
\* whatever is cancelled or discarded (client.py:50-72, 89-95).
THEOREM FlagHasOwnerHolds == Spec => []FlagHasOwner
<1>1. Types /\ ReceiveInv => FlagHasOwner
  BY DEF ReceiveInv
<1> QED
  BY <1>1, ReceiveInvHolds, PTL

\* Cancelling any number of waiters at any point loses, repeats and reorders no
\* message (docs/client.md:18-20).
THEOREM LosslessHolds == Spec => []Lossless
<1>1. Types /\ ReceiveInv => Lossless
  BY DEF ReceiveInv
<1> QED
  BY <1>1, ReceiveInvHolds, PTL

\* The native guard refuses nobody, as long as the program neither closes the
\* coroutine of a waiter nor cancels the native receive behind the facade.
THEOREM NativeNeverRefusesHolds == Spec => []NativeNeverRefuses
<1>1. Types /\ ReceiveInv => NativeNeverRefuses
  BY DEF ReceiveInv, ExclusiveInv, NativeNeverRefuses
<1> QED
  BY <1>1, ReceiveInvHolds, PTL

\* What abort() completes is never posted to the loop, as long as no waiter is
\* discarded (py.rs:41-51).
THEOREM AbandonedIsSilentHolds == Spec => []AbandonedIsSilent
<1>1. Types /\ ReceiveInv => AbandonedIsSilent
  BY DEF ReceiveInv, SilentInv, AbandonedIsSilent
<1> QED
  BY <1>1, ReceiveInvHolds, PTL

=============================================================================
