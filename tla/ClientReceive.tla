--------------------------- MODULE ClientReceive ----------------------------
(***************************************************************************)
(* The public receive() of src/fogws/client.py on top of the native one:   *)
(* the facade keeps one native receive across the cancellation of its      *)
(* waiters, PyConnection::receive and _abort of src/src/py.rs bridge the   *)
(* two, and the finalizer ends what is left.                               *)
(*                                                                         *)
(* Three threads of control meet here: the tasks and callbacks of the      *)
(* event loop, the task of the tokio runtime that polls the native receive *)
(* and posts its result, and the finalizer, which may run on any thread.   *)
(* asyncio.shield, Task.cancel and future_into_py of pyo3-async-runtimes   *)
(* are modelled from how these two files use them.                         *)
(***************************************************************************)
EXTENDS NativeReceive

CONSTANTS
    Waiters,           \* one element per call of the public receive()
    NoReceive,         \* None
    Outcomes,          \* the outcomes the peer and the socket may cause
    MayDiscard,        \* may the coroutine of a waiter be closed while it waits
    MayCancelNative    \* may the program cancel the retained native receive

ASSUME FacadeAssumption ==
    /\ NoReceive \notin Receivers
    /\ Outcomes \subseteq DriverErrors \ {Concurrency, Transport("abandoned")}
    /\ {MayDiscard, MayCancelNative} \subseteq BOOLEAN

VARIABLES
    pending,       \* Connection._pending_receive
    waiterActive,  \* Connection._receive_waiter_active
    waiterPc, held,    \* held[w]: the local pending_receive of waiter w
    shield,        \* shield[w]: the outer future of asyncio.shield
    mustCancel,    \* mustCancel[w]: a cancellation the task has still to deliver
    result,        \* result[w]: what the receive() of w returned or raised
    returned,      \* the messages the program was given
    loopOpen,      \* the event loop is not closed
    future,        \* future[r]: the asyncio future of native receive r
    bridge,        \* bridge[r]: the tokio task that completes it
    message,       \* message[r]: the message native receive r was handed
    finalPc        \* the finalizer of the connection

waiterVars == <<pending, waiterActive, waiterPc, held, shield, mustCancel, result, returned>>
bridgeVars == <<future, bridge, message>>
finalVars  == <<loopOpen, finalPc>>
vars == <<nativeVars, waiterVars, bridgeVars, finalVars>>

Abandoned == Transport("abandoned")
Waiting == {w \in Waiters : waiterPc[w] = "shielded"}

Init ==
    /\ NativeInit
    /\ pending = NoReceive /\ waiterActive = FALSE
    /\ waiterPc = [w \in Waiters |-> "idle"]
    /\ held = [w \in Waiters |-> NoReceive]
    /\ shield = [w \in Waiters |-> "none"]
    /\ mustCancel = [w \in Waiters |-> FALSE]
    /\ result = [w \in Waiters |-> Pending]
    /\ returned = << >>
    /\ loopOpen = TRUE /\ finalPc = "none"
    /\ future = [r \in Receivers |-> "none"]
    /\ bridge = [r \in Receivers |-> "none"]
    /\ message = [r \in Receivers |-> 0]

-----------------------------------------------------------------------------
(* Connection.receive                                                      *)

\* A call needs a reference to the connection and the running loop.
Callable(w) == waiterPc[w] = "idle" /\ loopOpen /\ finalPc = "none"

Finish(w, outcomeOfCall) ==
    /\ waiterPc' = [waiterPc EXCEPT ![w] = "done"]
    /\ result' = [result EXCEPT ![w] = outcomeOfCall]

\* A completed native receive gives its message to the program, or its error.
Deliver(r) == returned' = IF recvResult[r] = Ok THEN Append(returned, message[r]) ELSE returned

\* Mutant: the claim is inside the try, so a refused call clears the flag.
ReceiveRefusedClears(w) ==
    /\ Callable(w) /\ waiterActive
    /\ Finish(w, Concurrency) /\ waiterActive' = FALSE
    /\ UNCHANGED <<pending, held, shield, mustCancel, returned,
                   nativeVars, bridgeVars, finalVars>>

ReceiveRefused(w) ==
    /\ Callable(w) /\ waiterActive
    /\ Finish(w, Concurrency)
    /\ UNCHANGED <<pending, waiterActive, held, shield, mustCancel, returned,
                   nativeVars, bridgeVars, finalVars>>

\* Suspended in `await asyncio.shield(pending_receive)`.
Suspend(w, r) ==
    /\ waiterActive' = TRUE
    /\ waiterPc' = [waiterPc EXCEPT ![w] = "shielded"]
    /\ held' = [held EXCEPT ![w] = r]
    /\ shield' = [shield EXCEPT ![w] = "waiting"]
    /\ UNCHANGED <<mustCancel, result, returned>>

\* A fresh native receive: its future exists, its tokio task is spawned.
ReceiveStarts(w, r) ==
    /\ Callable(w) /\ ~waiterActive /\ pending = NoReceive
    /\ bridge[r] = "none"
    /\ future' = [future EXCEPT ![r] = "pending"]
    /\ bridge' = [bridge EXCEPT ![r] = "running"]
    /\ pending' = r
    /\ Suspend(w, r)
    /\ UNCHANGED <<message, nativeVars, finalVars>>

\* The retained native receive is still under way.
ReceiveResumes(w) ==
    /\ Callable(w) /\ ~waiterActive /\ pending # NoReceive
    /\ future[pending] = "pending"
    /\ Suspend(w, pending)
    /\ UNCHANGED <<pending, nativeVars, bridgeVars, finalVars>>

\* The retained native receive is complete: shield() returns it and the await
\* does not suspend.  The flag is set and cleared within this step.
ReceiveTakes(w) ==
    /\ Callable(w) /\ ~waiterActive /\ pending # NoReceive
    /\ future[pending] # "pending"
    /\ IF future[pending] = "cancelled"
       THEN Finish(w, Cancelled) /\ UNCHANGED returned
       ELSE Finish(w, recvResult[pending]) /\ Deliver(pending)
    /\ pending' = NoReceive
    /\ held' = [held EXCEPT ![w] = pending]
    /\ UNCHANGED <<waiterActive, shield, mustCancel, nativeVars, bridgeVars, finalVars>>

\* _inner_done_callback of asyncio.shield, which the loop runs.
InnerDone(w) ==
    /\ loopOpen /\ shield[w] = "waiting" /\ future[held[w]] # "pending"
    /\ shield' = [shield EXCEPT ![w] =
                      IF future[held[w]] = "cancelled" THEN "cancelled" ELSE "set"]
    /\ UNCHANGED <<pending, waiterActive, waiterPc, held, mustCancel, result, returned,
                   nativeVars, bridgeVars, finalVars>>

\* Task.cancel: the outer future is cancelled if it is not done; otherwise the
\* task raises CancelledError when it is resumed.
CancelWaiter(w) ==
    /\ loopOpen /\ waiterPc[w] = "shielded" /\ shield[w] \in {"waiting", "set"}
    /\ IF shield[w] = "waiting"
       THEN shield' = [shield EXCEPT ![w] = "cancelled"] /\ UNCHANGED mustCancel
       ELSE mustCancel' = [mustCancel EXCEPT ![w] = TRUE] /\ UNCHANGED shield
    /\ UNCHANGED <<pending, waiterActive, waiterPc, held, result, returned,
                   nativeVars, bridgeVars, finalVars>>

\* The await returns or raises; `finally` clears the flag.
Resume(w) ==
    /\ loopOpen /\ waiterPc[w] = "shielded" /\ shield[w] \in {"set", "cancelled"}
    /\ waiterActive' = FALSE
    /\ UNCHANGED <<held, shield, mustCancel, nativeVars, bridgeVars, finalVars>>

Interrupted(w) == shield[w] = "cancelled" \/ mustCancel[w]

\* Mutant: every CancelledError forgets the retained receive.
WaiterCancelledForgets(w) ==
    /\ Resume(w) /\ Interrupted(w)
    /\ pending' = NoReceive
    /\ Finish(w, Cancelled)
    /\ UNCHANGED returned

\* except asyncio.CancelledError
WaiterCancelled(w) ==
    /\ Resume(w) /\ Interrupted(w)
    /\ pending' = IF future[held[w]] = "cancelled" THEN NoReceive ELSE pending
    /\ Finish(w, Cancelled)
    /\ UNCHANGED returned

\* except BaseException, for an error of the native receive, and else.
WaiterReturns(w) ==
    /\ Resume(w) /\ ~Interrupted(w)
    /\ pending' = NoReceive
    /\ Finish(w, recvResult[held[w]]) /\ Deliver(held[w])

\* The coroutine is closed while it waits: GeneratorExit is a BaseException,
\* and not a CancelledError.
DiscardWaiter(w) ==
    /\ MayDiscard /\ loopOpen /\ waiterPc[w] = "shielded"
    /\ waiterPc' = [waiterPc EXCEPT ![w] = "discarded"]
    /\ shield' = [shield EXCEPT ![w] = "cancelled"]
    /\ pending' = NoReceive /\ waiterActive' = FALSE
    /\ UNCHANGED <<held, mustCancel, result, returned, nativeVars, bridgeVars, finalVars>>

-----------------------------------------------------------------------------
(* PyConnection::receive through future_into_py                            *)

NativeClaims(r) ==
    /\ bridge[r] = "running" /\ Claim(r)
    /\ UNCHANGED <<waiterVars, bridgeVars, finalVars>>

NativeMessage(r) ==
    /\ Hand(r)
    /\ message' = [message EXCEPT ![r] = Len(delivered) + 1]
    /\ UNCHANGED <<future, bridge, waiterVars, finalVars>>

NativeEnd(r)      == ReportEnd(r) /\ UNCHANGED <<waiterVars, bridgeVars, finalVars>>
NativeUnclaims(r) == Unclaim(r) /\ UNCHANGED <<waiterVars, bridgeVars, finalVars>>

\* The done callback of a cancelled future runs in the loop and tells the task.
NativeCancelled(r) ==
    /\ future[r] = "cancelled" /\ loopOpen /\ Cancel(r)
    /\ UNCHANGED <<waiterVars, bridgeVars, finalVars>>

SetBridge(r, from, to) ==
    /\ bridge[r] = from
    /\ bridge' = [bridge EXCEPT ![r] = to]
    /\ UNCHANGED <<message, waiterVars, nativeVars, finalVars>>

\* Mutant: the guard of the native receive outlives its result.
BridgeChecksEarly(r) ==
    /\ recvPc[r] \in {"unclaim", "done"}
    /\ SetBridge(r, "running", IF future[r] = "cancelled" THEN "done" ELSE "checked")
    /\ UNCHANGED future

\* Mutant: only a message is posted.
BridgeDropsErrors(r) ==
    /\ recvPc[r] = "done"
    /\ SetBridge(r, "running",
                 IF future[r] = "cancelled" \/ recvResult[r] # Ok THEN "done" ELSE "checked")
    /\ UNCHANGED future

\* The native receive has returned: nothing is posted to a cancelled future.
BridgeChecks(r) ==
    /\ recvPc[r] = "done"
    /\ SetBridge(r, "running", IF future[r] = "cancelled" THEN "done" ELSE "checked")
    /\ UNCHANGED future

\* call_soon_threadsafe; a closed loop refuses, with a traceback on stderr.
BridgePosts(r) ==
    /\ SetBridge(r, "checked", IF loopOpen THEN "posted" ELSE "rejected")
    /\ UNCHANGED future

\* CheckedCompletor, in the loop.
Complete(r) ==
    /\ loopOpen /\ SetBridge(r, "posted", "done")
    /\ future' = IF future[r] = "cancelled" THEN future ELSE [future EXCEPT ![r] = "result"]

CancelFuture(r) == future' = [future EXCEPT ![r] = "cancelled"]

ProgramCancelsNative(r) ==
    /\ MayCancelNative /\ loopOpen
    /\ future[r] = "pending" /\ CancelFuture(r)
    /\ UNCHANGED <<bridge, message, waiterVars, nativeVars, finalVars>>

-----------------------------------------------------------------------------
(* The end: the loop is closed, the connection is finalized                *)

\* asyncio.run closes the loop once its tasks are done.
CloseLoop ==
    /\ loopOpen /\ Waiting = {}
    /\ loopOpen' = FALSE
    /\ UNCHANGED <<finalPc, nativeVars, waiterVars, bridgeVars>>

\* A waiter that is suspended holds the connection.
Finalizable == Waiting = {}

\* Mutant: the retained receive is not cancelled.
FinalizeOnlyAborts ==
    /\ finalPc = "none" /\ Finalizable
    /\ finalPc' = "abort"
    /\ UNCHANGED <<loopOpen, nativeVars, waiterVars, bridgeVars>>

\* __del__ calls _abort: first the retained receive is cancelled ...
FinalizeCancels ==
    /\ finalPc = "none" /\ Finalizable
    /\ finalPc' = "abort"
    /\ IF pending # NoReceive /\ future[pending] = "pending"
       THEN CancelFuture(pending) ELSE UNCHANGED future
    /\ UNCHANGED <<loopOpen, bridge, message, nativeVars, waiterVars>>

\* Mutant: the error of cancel() on a closed loop leaves _abort.
FinalizeAbortsOnOpenLoop ==
    /\ finalPc = "abort" /\ loopOpen
    /\ finalPc' = "aborted"
    /\ UNCHANGED <<loopOpen, nativeVars, waiterVars, bridgeVars>>

\* ... then the driver is aborted, and the reference of PyConnection is gone.
FinalizeAborts ==
    /\ finalPc = "abort"
    /\ finalPc' = "aborted"
    /\ UNCHANGED <<loopOpen, nativeVars, waiterVars, bridgeVars>>

\* The tokio task of an unfinished native receive holds the driver.
DropDriver ==
    /\ finalPc = "aborted"
    /\ \A r \in Receivers : bridge[r] # "none" => recvPc[r] = "done"
    /\ Drop
    /\ UNCHANGED <<waiterVars, bridgeVars, finalVars>>

MessageArrives == Arrive /\ UNCHANGED <<waiterVars, bridgeVars, finalVars>>
QueueDropped   == DiscardQueued /\ UNCHANGED <<waiterVars, bridgeVars, finalVars>>

ConnectionEnds ==
    /\ \E error \in Outcomes : End(error)
    /\ UNCHANGED <<waiterVars, bridgeVars, finalVars>>

\* What abort() brings about.
DriverAborted ==
    /\ finalPc = "aborted" /\ End(Abandoned)
    /\ UNCHANGED <<waiterVars, bridgeVars, finalVars>>

-----------------------------------------------------------------------------
WaiterNext(w) ==
    \/ ReceiveRefused(w) \/ ReceiveResumes(w) \/ ReceiveTakes(w)
    \/ \E r \in Receivers : ReceiveStarts(w, r)
    \/ InnerDone(w) \/ CancelWaiter(w) \/ WaiterCancelled(w) \/ WaiterReturns(w)
    \/ DiscardWaiter(w)

NativeSteps(r) == NativeClaims(r) \/ NativeMessage(r) \/ NativeEnd(r) \/ NativeUnclaims(r)
BridgeSteps(r) == BridgeChecks(r) \/ BridgePosts(r) \/ Complete(r)

Next ==
    \/ \E w \in Waiters : WaiterNext(w)
    \/ \E r \in Receivers : \/ NativeSteps(r) \/ NativeCancelled(r)
                            \/ BridgeSteps(r) \/ ProgramCancelsNative(r)
    \/ MessageArrives \/ QueueDropped \/ ConnectionEnds \/ DriverAborted
    \/ CloseLoop \/ FinalizeCancels \/ FinalizeAborts \/ DropDriver

Spec == Init /\ [][Next]_vars

\* The loop runs every callback that is ready and the runtime polls every task;
\* a finalizer that began goes on, and an aborted driver ends.
Fairness ==
    /\ \A w \in Waiters : WF_vars(InnerDone(w)) /\ WF_vars(WaiterCancelled(w) \/ WaiterReturns(w))
    /\ \A r \in Receivers : WF_vars(NativeSteps(r)) /\ WF_vars(BridgeSteps(r))
    /\ WF_vars(FinalizeAborts) /\ WF_vars(DriverAborted) /\ WF_vars(DropDriver)

FairSpec == Spec /\ Fairness

-----------------------------------------------------------------------------
FutureStates == {"none", "pending", "result", "cancelled"}
BridgeStates == {"none", "running", "checked", "posted", "rejected", "done"}

Types ==
    /\ queued \in Nat /\ ended \in BOOLEAN /\ dropped \in BOOLEAN
    /\ outcome \in IF ended THEN Outcomes \cup {Abandoned} ELSE {NoError}
    /\ receiveActive \in BOOLEAN /\ delivered \in Seq(Nat)
    /\ recvPc \in [Receivers -> {"idle", "waiting", "unclaim", "done"}]
    /\ recvResult \in [Receivers -> Results]
    /\ pending \in Receivers \cup {NoReceive} /\ waiterActive \in BOOLEAN
    /\ waiterPc \in [Waiters -> {"idle", "shielded", "done", "discarded"}]
    /\ held \in [Waiters -> Receivers \cup {NoReceive}]
    /\ shield \in [Waiters -> {"none", "waiting", "set", "cancelled"}]
    /\ mustCancel \in [Waiters -> BOOLEAN] /\ result \in [Waiters -> Results]
    /\ returned \in Seq(Nat)
    /\ loopOpen \in BOOLEAN /\ finalPc \in {"none", "abort", "aborted"}
    /\ future \in [Receivers -> FutureStates] /\ bridge \in [Receivers -> BridgeStates]
    /\ message \in [Receivers -> Nat]

\* The fields of Connection, the locals of its receive() and the state of the
\* futures (client.py:25-72); a future has a result only from a native receive
\* that returned one.
TypeOK == Types /\ \A r \in Receivers : future[r] = "result" => recvPc[r] = "done"

\* The flag is set exactly while one waiter waits, and that waiter waits for
\* the native receive the connection retains (client.py:50-72, 89-95).
FlagHasOwner ==
    /\ waiterActive <=> Waiting # {}
    /\ \A w \in Waiting : held[w] = pending
    /\ \A w, x \in Waiting : w = x

\* Every message the driver handed out is given to the program once, in order:
\* it was returned, or a native receive that is retained still carries it, or
\* the native receive was cancelled, or its waiter was discarded
\* (docs/client.md:18-20, client.py:54-72).
Forgotten == {held[w] : w \in {v \in Waiters : waiterPc[v] = "discarded"}}
Lossless ==
    /\ \A i, j \in 1..Len(returned) : i < j => returned[i] < returned[j]
    /\ \A n \in 1..Len(delivered) :
          \/ \E i \in 1..Len(returned) : returned[i] = n
          \/ \E r \in Receivers : /\ message[r] = n
                                  /\ r = pending \/ r \in Forgotten \/ future[r] = "cancelled"

NoneDiscarded == \A w \in Waiters : waiterPc[w] # "discarded"
NoneCancelled == \A r \in Receivers : future[r] # "cancelled"

\* The native ConcurrencyError is never seen, unless a waiter was discarded or a
\* native receive cancelled: when the facade starts a native receive the one
\* before has returned its guard, although its result went through two threads
\* (client.py:56-59, driver.rs:314-321).
NativeNeverRefuses ==
    NoneDiscarded /\ NoneCancelled => \A r \in Receivers : recvResult[r] # Concurrency

\* "cancellation state is already visible and suppresses ... completion
\* delivery" (py.rs:43-47; a test reads stderr): what abort() makes a native
\* receive return is never posted to the loop, open or closed, unless a waiter
\* was discarded and its native receive forgotten.
AbandonedIsSilent ==
    NoneDiscarded => \A r \in Receivers : recvResult[r] = Abandoned =>
                         bridge[r] \notin {"checked", "posted", "rejected"}

\* A public receive() returns once the connection has ended, whoever started
\* the native receive it waits for (client.py:60).
ReceiveReturns ==
    \A w \in Waiters : waiterPc[w] = "shielded" /\ ended ~> waiterPc[w] # "shielded"

\* "Dropping the connection cancels that retained receive so it can't keep the
\* driver or socket alive" (docs/client.md:20-21).
DropReleases == finalPc # "none" ~> dropped

=============================================================================
