--------------------------- MODULE DriverOutcomes ---------------------------
(***************************************************************************)
(* The pure part of src/src/driver.rs: the values the connection driver    *)
(* publishes on its two watch channels and the functions that compute the  *)
(* next value from the current one.  DriverState says how far the close    *)
(* handshake went and with which outcome; ShutdownSignal tells the reader  *)
(* and the writer task to stop.  Error texts are abstracted to one cause   *)
(* per place in the code that builds one.                                  *)
(***************************************************************************)

CloseFrames == {"Normal", "Away", "Empty", "Other"}

Causes == {"abandoned", "close timed out", "receive failed", "ended",
           "reader stopped", "flush failed", "send failed", "close failed",
           "stopped unexpectedly"}

Limits == {"message size", "byte budget", "item queue"}

\* One record shape for every error: `local` is CloseInfo.initiated_by_local.
\* ConnectionFailed and InvalidUri come before there is a driver.
DriverErrors ==
    [kind : {"ClosedOk", "ClosedError"}, why : CloseFrames, local : BOOLEAN]
        \cup [kind : {"Transport"}, why : Causes, local : {FALSE}]
        \cup [kind : {"ResourceLimit"}, why : Limits, local : {FALSE}]
        \cup [kind : {"Concurrency"}, why : {"second receive"}, local : {FALSE}]

ClosedOk(frame, local)    == [kind |-> "ClosedOk", why |-> frame, local |-> local]
ClosedError(frame, local) == [kind |-> "ClosedError", why |-> frame, local |-> local]
Transport(cause)          == [kind |-> "Transport", why |-> cause, local |-> FALSE]
ResourceLimit(limit)      == [kind |-> "ResourceLimit", why |-> limit, local |-> FALSE]
Concurrency == [kind |-> "Concurrency", why |-> "second receive", local |-> FALSE]
local_normal == ClosedOk("Normal", TRUE)

\* The results of a call that are not errors: not finished, success, and the
\* waiter of a call that was cancelled; Dropped is a oneshot sender dropped
\* without a value.
Pending   == [kind |-> "Pending", why |-> "", local |-> FALSE]
Ok        == [kind |-> "Ok", why |-> "", local |-> FALSE]
Cancelled == [kind |-> "Cancelled", why |-> "", local |-> FALSE]
Dropped   == [kind |-> "Dropped", why |-> "", local |-> FALSE]
Results   == DriverErrors \cup {Pending, Ok, Cancelled, Dropped}

-----------------------------------------------------------------------------
(* DriverState: Open and Closing carry no outcome.                         *)

NoError == [kind |-> "NoError", why |-> "", local |-> FALSE]

DriverStates == [tag : {"Open", "Closing"}, error : {NoError}]
                    \cup [tag : {"PeerClosed", "Closed"}, error : DriverErrors]

Open              == [tag |-> "Open", error |-> NoError]
Closing           == [tag |-> "Closing", error |-> NoError]
PeerClosed(error) == [tag |-> "PeerClosed", error |-> error]
Closed(error)     == [tag |-> "Closed", error |-> error]

is_terminal(s) == s.tag = "Closed"

publish_terminal(s, terminal) == IF is_terminal(s) THEN s ELSE Closed(terminal)

publish_peer_closed(s, outcome) ==
    IF s.tag \in {"Closed", "PeerClosed"} THEN s ELSE PeerClosed(outcome)

\* Mutant: a writer failure replaces the outcome of the peer's close.
publish_writer_failure_over_peer(s, error) ==
    IF is_terminal(s) THEN s ELSE Closed(error)

\* A writer failure closes the connection but keeps the outcome of a peer
\* close that was already published.
publish_writer_failure(s, error) ==
    IF is_terminal(s) THEN s
    ELSE Closed(IF s.tag = "PeerClosed" THEN s.error ELSE error)

publish_close_timeout(s) == publish_writer_failure(s, Transport("close timed out"))

begin_closing(s) == IF s = Open THEN Closing ELSE s

\* What a call that finds the driver not open, or its task gone, reports.
terminal_error(s) ==
    IF s.tag \in {"Closed", "PeerClosed"} THEN s.error
    ELSE IF s = Closing THEN local_normal ELSE Transport("stopped unexpectedly")

ensure_open(s) == IF s = Open THEN Ok ELSE terminal_error(s)

classify_close(frame, initiated_by_local) ==
    IF frame \in {"Normal", "Away", "Empty"}
    THEN ClosedOk(frame, initiated_by_local)
    ELSE ClosedError(frame, initiated_by_local)

close_result(error) == IF error.kind = "ClosedOk" THEN Ok ELSE error

-----------------------------------------------------------------------------
(* ShutdownSignal                                                          *)

ShutdownSignals == {"Running", "LocalClose", "PeerClose", "Abort"}

signal_abort(current)       == "Abort"
signal_local_close(current) == IF current = "Running" THEN "LocalClose" ELSE current
signal_peer_close(current)  ==
    IF current \in {"Running", "LocalClose"} THEN "PeerClose" ELSE current

=============================================================================
