------------------------ MODULE ConnectionLifecycle -------------------------
(***************************************************************************)
(* What a connection promises to those who close it, without its tasks,    *)
(* signals and timers: it ends once, with one outcome; a clean outcome is  *)
(* one the peer's close gave; the transport is let go only after the end;  *)
(* and a close() returns that outcome after the transport was let go.      *)
(* Driver implements it (docs/client.md, the operation matrix, and         *)
(* DriverState in src/src/driver.rs).                                      *)
(***************************************************************************)
EXTENDS DriverOutcomes

CONSTANT Closers

VARIABLES
    phase,    \* how far the connection is towards its end
    outcome,  \* how it ended, once phase is PeerClosed or Closed
    held,     \* a task still holds its half of the transport
    told      \* told[c]: what the close() of c returned

lifecycleVars == <<phase, outcome, held, told>>

Handshaken == [kind : {"ClosedOk", "ClosedError"}, why : CloseFrames, local : BOOLEAN]
Failures   == [kind : {"Transport"}, why : Causes, local : {FALSE}]

LifecycleInit ==
    /\ phase = "Open" /\ outcome = NoError
    /\ held = TRUE
    /\ told = [c \in Closers |-> Pending]

BeginClose ==
    /\ phase = "Open"
    /\ phase' = "Closing"
    /\ UNCHANGED <<outcome, held, told>>

PeerCloses ==
    /\ phase \in {"Open", "Closing"}
    /\ phase' = "PeerClosed"
    /\ outcome' \in Handshaken
    /\ UNCHANGED <<held, told>>

\* The handshake with the peer is complete, or given up.
FinishHandshake ==
    /\ phase = "PeerClosed"
    /\ phase' = "Closed"
    /\ UNCHANGED <<outcome, held, told>>

\* A failure ends the connection; after the peer's close only abort() can
\* still replace the outcome.
Fail ==
    /\ phase # "Closed"
    /\ phase' = "Closed"
    /\ outcome' \in IF phase = "PeerClosed" THEN {Transport("abandoned")} ELSE Failures
    /\ UNCHANGED <<held, told>>

LetGo ==
    /\ phase = "Closed" /\ held
    /\ held' = FALSE
    /\ UNCHANGED <<phase, outcome, told>>

Tell(c) ==
    /\ phase = "Closed" /\ ~held /\ told[c] = Pending
    /\ told' = [told EXCEPT ![c] = close_result(outcome)]
    /\ UNCHANGED <<phase, outcome, held>>

CancelWaiter(c) ==
    /\ told[c] = Pending
    /\ told' = [told EXCEPT ![c] = Cancelled]
    /\ UNCHANGED <<phase, outcome, held>>

LifecycleNext ==
    \/ BeginClose \/ PeerCloses \/ FinishHandshake \/ Fail \/ LetGo
    \/ \E c \in Closers : Tell(c) \/ CancelWaiter(c)

LifecycleSpec == LifecycleInit /\ [][LifecycleNext]_lifecycleVars

=============================================================================
