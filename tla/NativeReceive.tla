--------------------------- MODULE NativeReceive ----------------------------
(***************************************************************************)
(* What the native driver promises to those who call its receive()         *)
(* (ConnectionDriver::receive and ReceiveGuard in src/src/driver.rs),      *)
(* without tasks, queues of bytes or handshakes: messages arrive until the *)
(* connection ends with one outcome; one call at a time is inside; it is   *)
(* given the next message, or the outcome once nothing is queued, or is    *)
(* cancelled; and a driver that is dropped drops what is queued.  Driver   *)
(* implements it, and ClientReceive puts the Python facade on top of it.   *)
(***************************************************************************)
EXTENDS DriverOutcomes, Naturals, Sequences

CONSTANTS
    Receivers,     \* one element per native call of receive
    MaxData        \* bound: messages that arrive

ASSUME MaxDataAssumption == MaxData \in Nat

VARIABLES
    queued,        \* how many messages wait in the inbound queue
    ended, outcome,    \* no message will arrive any more, and why
    dropped,       \* the last reference to the driver is gone
    receiveActive, recvPc, recvResult,
    delivered      \* the messages handed out, numbered as they arrived

receiveVars == <<receiveActive, recvPc, recvResult, delivered>>
sourceVars  == <<queued, ended, outcome, dropped>>
nativeVars  == <<receiveVars, sourceVars>>

NativeInit ==
    /\ queued = 0 /\ ended = FALSE /\ outcome = NoError /\ dropped = FALSE
    /\ receiveActive = FALSE
    /\ recvPc = [r \in Receivers |-> "idle"]
    /\ recvResult = [r \in Receivers |-> Pending]
    /\ delivered = << >>

Arrive ==
    /\ ~ended /\ Len(delivered) + queued < MaxData
    /\ queued' = queued + 1
    /\ UNCHANGED <<ended, outcome, dropped, receiveVars>>

End(error) ==
    /\ ~ended
    /\ ended' = TRUE /\ outcome' = error
    /\ UNCHANGED <<queued, dropped, receiveVars>>

Return(r, result) ==
    /\ recvPc[r] = "waiting"
    /\ recvPc' = [recvPc EXCEPT ![r] = "unclaim"]
    /\ recvResult' = [recvResult EXCEPT ![r] = result]
    /\ UNCHANGED <<receiveActive, ended, outcome, dropped>>

Claim(r) ==
    /\ recvPc[r] = "idle" /\ ~dropped
    /\ receiveActive' = TRUE
    /\ recvPc' = [recvPc EXCEPT ![r] = IF receiveActive THEN "done" ELSE "waiting"]
    /\ recvResult' = IF receiveActive THEN [recvResult EXCEPT ![r] = Concurrency]
                     ELSE recvResult
    /\ UNCHANGED <<delivered, sourceVars>>

Hand(r) ==
    /\ queued > 0 /\ Return(r, Ok)
    /\ queued' = queued - 1
    /\ delivered' = Append(delivered, Len(delivered) + 1)

\* The queue is drained before its end is seen.
ReportEnd(r) ==
    /\ queued = 0 /\ ended /\ Return(r, outcome)
    /\ UNCHANGED <<queued, delivered>>

Cancel(r) == Return(r, Cancelled) /\ UNCHANGED <<queued, delivered>>

Unclaim(r) ==
    /\ recvPc[r] = "unclaim"
    /\ recvPc' = [recvPc EXCEPT ![r] = "done"]
    /\ receiveActive' = FALSE
    /\ UNCHANGED <<recvResult, delivered, sourceVars>>

Drop ==
    /\ ~dropped /\ \A r \in Receivers : recvPc[r] \in {"idle", "done"}
    /\ dropped' = TRUE
    /\ UNCHANGED <<queued, ended, outcome, receiveVars>>

DiscardQueued ==
    /\ dropped /\ queued > 0
    /\ queued' = queued - 1
    /\ UNCHANGED <<ended, outcome, dropped, receiveVars>>

NativeNext ==
    \/ Arrive \/ Drop \/ DiscardQueued
    \/ \E error \in DriverErrors : End(error)
    \/ \E r \in Receivers : Claim(r) \/ Hand(r) \/ ReportEnd(r) \/ Cancel(r) \/ Unclaim(r)

NativeSpec == NativeInit /\ [][NativeNext]_nativeVars

=============================================================================
