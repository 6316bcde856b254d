------------------------------- MODULE Config -------------------------------
(***************************************************************************)
(* How the four limits of connect() become a configuration, or are refused *)
(* before any network use: extract_limit (src/src/py.rs), then             *)
(* ConnectionConfig::new and websocket_config (src/src/config.rs), then    *)
(* what ConnectionDriver::start and an admission build from the result.    *)
(* The widths of the machine integers are parameters.                      *)
(***************************************************************************)
EXTENDS Integers

CONSTANTS
    U16Max, U32Max, UsizeMax,   \* the largest u16, u32 and usize
    DefaultQueue, DefaultMessageSize, DefaultBufferedBytes,
    Arguments,                  \* Python integers a program may pass
    Omitted                     \* in place of an argument that is not passed

MAX_CONTROL_PAYLOAD_BYTES == 125
MAX_FRAME_HEADER_BYTES == 14

\* usize is at least three bits wider than u32, as on every 64-bit target, and
\* the defaults are among the limits it holds.
ASSUME PlatformAssumption ==
    /\ U16Max \in Nat /\ U32Max \in Nat /\ UsizeMax \in Nat
    /\ U32Max <= UsizeMax \div 8
    /\ MAX_CONTROL_PAYLOAD_BYTES + MAX_FRAME_HEADER_BYTES <= U32Max
ASSUME DefaultsAssumption ==
    /\ {DefaultQueue, DefaultMessageSize, DefaultBufferedBytes} \subseteq 0..UsizeMax
    /\ Arguments \subseteq Int /\ Omitted \notin Int

Timeouts == {"not a duration", "zero", "positive"}

VARIABLES
    call,     \* the keyword arguments of connect()
    config,   \* the limits extracted from them, then the ConnectionConfig
    outcome   \* how far connect() came: "called", "extracted", "accepted" or an error

vars == <<call, config, outcome>>

-----------------------------------------------------------------------------
(* tokio: the bound of Semaphore::new and mpsc::channel, which panic above *)

MAX_PERMITS == UsizeMax \div 8
MAX_QUEUE_CAPACITY == MAX_PERMITS

Extractable(value) == value = Omitted \/ value \in 0..UsizeMax
extract_limit(value, default) == IF value = Omitted THEN default ELSE value

\* Mutant: the byte budget is not compared with the message size.
refusal_without_budget(c) ==
    IF c.queue = 0 THEN "max_queue is zero"
    ELSE IF c.queue > MAX_QUEUE_CAPACITY THEN "max_queue above capacity"
    ELSE IF c.message = 0 THEN "max_message_size is zero"
    ELSE IF c.buffered > U32Max THEN "max_buffered_bytes above u32"
    ELSE IF call.timeout # "positive" THEN "close_timeout"
    ELSE "none"

\* The early returns of ConnectionConfig::new, in their order.
refusal(c) ==
    IF c.queue = 0 THEN "max_queue is zero"
    ELSE IF c.queue > MAX_QUEUE_CAPACITY THEN "max_queue above capacity"
    ELSE IF c.message = 0 THEN "max_message_size is zero"
    ELSE IF c.buffered < c.message THEN "max_buffered_bytes below max_message_size"
    ELSE IF c.buffered > U32Max THEN "max_buffered_bytes above u32"
    ELSE IF call.timeout # "positive" THEN "close_timeout"
    ELSE "none"

Larger(m, n) == IF m >= n THEN m ELSE n

\* Mutant: no room for the frame header.
max_write_buffer_payload_only(c) ==
    Larger(c.buffered, MAX_CONTROL_PAYLOAD_BYTES) % (UsizeMax + 1)

\* websocket_config: usize arithmetic wraps in a release build.
max_write_buffer_size(c) ==
    (Larger(c.buffered, MAX_CONTROL_PAYLOAD_BYTES) + MAX_FRAME_HEADER_BYTES) % (UsizeMax + 1)

\* tungstenite: a masked client frame with n bytes of payload.
frame_size(n) == n + 4 + (IF n < 126 THEN 2 ELSE IF n <= U16Max THEN 4 ELSE 10)

-----------------------------------------------------------------------------
Init ==
    /\ call \in [queue : Arguments \cup {Omitted}, message : Arguments \cup {Omitted},
                 buffered : Arguments \cup {Omitted}, timeout : Timeouts]
    /\ config = "none" /\ outcome = "called"

\* Mutant: an integer is stored without the conversion to usize.
ExtractUnchecked ==
    /\ outcome = "called" /\ outcome' = "extracted"
    /\ config' = [queue    |-> extract_limit(call.queue, DefaultQueue),
                  message  |-> extract_limit(call.message, DefaultMessageSize),
                  buffered |-> extract_limit(call.buffered, DefaultBufferedBytes)]
    /\ UNCHANGED call

\* The three limits are converted before any of them is compared.
Extract ==
    /\ outcome = "called"
    /\ IF \A value \in {call.queue, call.message, call.buffered} : Extractable(value)
       THEN /\ outcome' = "extracted"
            /\ config' = [queue    |-> extract_limit(call.queue, DefaultQueue),
                          message  |-> extract_limit(call.message, DefaultMessageSize),
                          buffered |-> extract_limit(call.buffered, DefaultBufferedBytes)]
       ELSE outcome' = "not a usize" /\ UNCHANGED config
    /\ UNCHANGED call

Validate ==
    /\ outcome = "extracted"
    /\ outcome' = IF refusal(config) = "none" THEN "accepted" ELSE refusal(config)
    /\ UNCHANGED <<call, config>>

Next == Extract \/ Validate
Spec == Init /\ [][Next]_vars

-----------------------------------------------------------------------------
Limits == [queue : 0..UsizeMax, message : 0..UsizeMax, buffered : 0..UsizeMax]

\* What is extracted are three usize values, before they are compared
\* (py.rs:199-213).
TypeOK == outcome \notin {"called", "not a usize"} => config \in Limits

\* Every configuration that is accepted can be run: both channels and both
\* semaphores can be built without the panics of tokio, and a message of any
\* accepted size can be admitted by an idle driver: its length is a u32 and
\* within the byte budget (config.rs:33-68, driver.rs:135-147, 246-262).
RunsWithoutPanic ==
    outcome = "accepted" =>
        /\ config.queue \in 1..MAX_PERMITS /\ config.buffered <= MAX_PERMITS
        /\ \A n \in 0..config.message : n <= U32Max /\ n <= config.buffered

\* An empty write buffer has room for every frame the driver may write: a
\* message of any accepted size, a pong or a close frame; a frame that does not
\* fit is a fatal error of the writer (config.rs:78-87, driver.rs:626-640).
EveryFrameFits ==
    outcome = "accepted" =>
        /\ \A n \in 0..config.message : frame_size(n) <= max_write_buffer_size(config)
        /\ \A n \in 0..MAX_CONTROL_PAYLOAD_BYTES :
              frame_size(n) <= max_write_buffer_size(config)

=============================================================================
