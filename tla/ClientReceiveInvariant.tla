----------------------- MODULE ClientReceiveInvariant -----------------------
(***************************************************************************)
(* The inductive invariant behind the properties of ClientReceive: who     *)
(* owns the flag and the retained receive, how far the future, the tokio   *)
(* task and the native call of a receive may be apart, and where every     *)
(* message is.                                                             *)
(***************************************************************************)
EXTENDS ClientReceive

Inside(r) == recvPc[r] \in {"waiting", "unclaim"}

\* A waiter that waits shields a native receive that was started, and is woken
\* with a result only when that receive has one.
ShieldInv ==
    /\ pending # NoReceive => bridge[pending] # "none"
    /\ \A w \in Waiting : /\ pending # NoReceive
                          /\ shield[w] = "set" => future[held[w]] = "result"

\* The three parts of a native receive move one after the other.
BridgeInv ==
    \A r \in Receivers :
        /\ bridge[r] = "none" => recvPc[r] = "idle" /\ future[r] = "none"
        /\ bridge[r] # "none" => future[r] # "none"
        /\ bridge[r] \notin {"none", "running"} => recvPc[r] = "done"
        /\ future[r] = "result" => bridge[r] = "done"
        /\ recvPc[r] \in {"idle", "waiting"} => recvResult[r] = Pending
        /\ recvResult[r] = Ok <=> message[r] # 0

\* The native guard has one owner.
GuardInv ==
    /\ receiveActive <=> \E r \in Receivers : Inside(r)
    /\ \A r, s \in Receivers : Inside(r) /\ Inside(s) => r = s

\* What is under way is retained, forgotten or cancelled; the retained message
\* comes after all that were returned.
FlowInv ==
    /\ \A r \in Receivers : bridge[r] = "running" =>
          r = pending \/ r \in Forgotten \/ future[r] = "cancelled"
    /\ \A r \in Receivers : message[r] <= Len(delivered)
    /\ \A i \in 1..Len(returned) :
          /\ returned[i] <= Len(delivered)
          /\ pending # NoReceive /\ message[pending] # 0 => returned[i] < message[pending]

\* While nothing is forgotten the finalizer finds no waiter, and leaves no
\* pending future behind before abort() can complete it.
SilentInv ==
    /\ NoneDiscarded
    /\ finalPc # "none" => Waiting = {} /\ (pending # NoReceive => future[pending] # "pending")
    /\ outcome = Abandoned => finalPc = "aborted"
    /\ \A r \in Receivers : recvResult[r] = Abandoned =>
          future[r] = "cancelled" /\ bridge[r] \in {"running", "done"}

\* While nothing is cancelled either: one native receive at a time.
ExclusiveInv ==
    /\ NoneCancelled
    /\ \A r \in Receivers : bridge[r] = "running" => r = pending
    /\ \A r \in Receivers : recvResult[r] # Concurrency

\* All of it, and the two properties that are inductive with it
\* (client.py:50-72, py.rs:41-51, 100-112).
ReceiveInv ==
    /\ FlagHasOwner /\ ShieldInv /\ BridgeInv /\ GuardInv /\ FlowInv /\ Lossless
    /\ NoneDiscarded => SilentInv
    /\ NoneDiscarded /\ NoneCancelled => ExclusiveInv

=============================================================================
