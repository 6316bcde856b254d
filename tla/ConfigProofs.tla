---------------------------- MODULE ConfigProofs ----------------------------
(***************************************************************************)
(* Config for every width of the integers and every argument: what is      *)
(* accepted can be run.                                                    *)
(***************************************************************************)
EXTENDS Config, TLAPS

Outcomes == {"called", "not a usize", "extracted", "accepted",
             "max_queue is zero", "max_queue above capacity", "max_message_size is zero",
             "max_buffered_bytes below max_message_size", "max_buffered_bytes above u32",
             "close_timeout"}

\* The inductive invariant: an accepted configuration is one nothing refuses.
Inv ==
    /\ call \in [queue : Arguments \cup {Omitted}, message : Arguments \cup {Omitted},
                 buffered : Arguments \cup {Omitted}, timeout : Timeouts]
    /\ outcome \in Outcomes
    /\ TypeOK
    /\ outcome = "accepted" => refusal(config) = "none"

\* What an argument that can be extracted becomes is a usize.
LEMMA ExtractedLimit ==
    ASSUME NEW value \in Arguments \cup {Omitted}, NEW default \in 0..UsizeMax,
           Extractable(value)
    PROVE  extract_limit(value, default) \in 0..UsizeMax
  BY DEF Extractable, extract_limit

\* Extraction and validation keep the invariant.
LEMMA InvHolds == Spec => []Inv
<1>1. Init => Inv
  BY DEF Init, Inv, TypeOK, Outcomes
<1>2. ASSUME Inv, Extract PROVE Inv'
  <2>1. CASE \A value \in {call.queue, call.message, call.buffered} : Extractable(value)
    <3>1. /\ extract_limit(call.queue, DefaultQueue) \in 0..UsizeMax
          /\ extract_limit(call.message, DefaultMessageSize) \in 0..UsizeMax
          /\ extract_limit(call.buffered, DefaultBufferedBytes) \in 0..UsizeMax
      BY <1>2, <2>1, ExtractedLimit, DefaultsAssumption DEF Inv
    <3>2. config' \in Limits
      BY <1>2, <2>1, <3>1 DEF Extract, Limits
    <3>3. (call \in [queue : Arguments \cup {Omitted}, message : Arguments \cup {Omitted},
                     buffered : Arguments \cup {Omitted}, timeout : Timeouts])'
      BY <1>2 DEF Inv, Extract
    <3> QED
      BY <1>2, <2>1, <3>2, <3>3 DEF Inv, Extract, TypeOK, Limits, Outcomes
  <2>2. CASE ~ \A value \in {call.queue, call.message, call.buffered} : Extractable(value)
    BY <1>2, <2>2 DEF Inv, Extract, TypeOK, Outcomes
  <2> QED
    BY <2>1, <2>2
<1>3. ASSUME Inv, Validate PROVE Inv'
  <2>1. config \in Limits /\ config' = config /\ call' = call
    BY <1>3 DEF Inv, Validate, TypeOK
  <2>2. refusal(config)' = refusal(config)
    BY <2>1 DEF refusal
  <2>3. outcome' \in Outcomes /\ (outcome' = "accepted" => refusal(config) = "none")
    BY <1>3 DEF Validate, refusal, Outcomes
  <2> QED
    BY <1>3, <2>1, <2>2, <2>3 DEF Inv, TypeOK, Limits
<1>4. ASSUME Inv, UNCHANGED vars PROVE Inv'
  BY <1>4 DEF Inv, TypeOK, vars, Limits, refusal
<1> QED
  BY <1>1, <1>2, <1>3, <1>4, PTL DEF Spec, Next

\* What an accepted configuration satisfies, field by field.
LEMMA AcceptedConfig ==
    ASSUME Inv, outcome = "accepted"
    PROVE  /\ config.queue \in 1..MAX_PERMITS
           /\ config.message \in Nat /\ config.buffered \in Nat
           /\ config.message <= config.buffered
           /\ config.buffered <= U32Max
<1>1. config \in Limits /\ refusal(config) = "none"
  BY DEF Inv, TypeOK
<1>2. config.queue \in 0..UsizeMax /\ config.message \in 0..UsizeMax /\ config.buffered \in 0..UsizeMax
  BY <1>1 DEF Limits
<1>3. /\ config.queue # 0 /\ ~ (config.queue > MAX_QUEUE_CAPACITY)
      /\ ~ (config.buffered < config.message) /\ ~ (config.buffered > U32Max)
  BY <1>1 DEF refusal
<1>4. MAX_PERMITS \in Int
  BY PlatformAssumption DEF MAX_PERMITS
<1> QED
  BY <1>2, <1>3, <1>4, PlatformAssumption DEF MAX_QUEUE_CAPACITY

\* The extracted limits are usize values for every argument.
THEOREM LimitsAreUsize == Spec => []TypeOK
<1>1. Inv => TypeOK
  BY DEF Inv
<1> QED
  BY <1>1, InvHolds, PTL

\* Every accepted configuration can be run (config.rs:33-68): on a platform
\* whose usize is wider than u32, no channel and no semaphore panics and no
\* accepted message is refused by an idle driver.
THEOREM RunsWithoutPanicHolds == Spec => []RunsWithoutPanic
<1>1. ASSUME Inv PROVE RunsWithoutPanic
  <2>1. U32Max <= MAX_PERMITS /\ MAX_PERMITS \in Int
    BY PlatformAssumption DEF MAX_PERMITS
  <2> QED
    BY <1>1, <2>1, AcceptedConfig, PlatformAssumption DEF RunsWithoutPanic
<1> QED
  BY <1>1, InvHolds, PTL

\* The write buffer of an accepted configuration holds every frame of the
\* driver (config.rs:78-87), and its size does not wrap.
THEOREM EveryFrameFitsHolds == Spec => []EveryFrameFits
<1>1. ASSUME Inv PROVE EveryFrameFits
  <2> SUFFICES ASSUME outcome = "accepted" PROVE
        /\ \A n \in 0..config.message : frame_size(n) <= max_write_buffer_size(config)
        /\ \A n \in 0..MAX_CONTROL_PAYLOAD_BYTES :
              frame_size(n) <= max_write_buffer_size(config)
    BY DEF EveryFrameFits
  <2> DEFINE size == Larger(config.buffered, MAX_CONTROL_PAYLOAD_BYTES)
  <2>1. /\ size \in Nat /\ size <= U32Max
        /\ config.buffered <= size /\ MAX_CONTROL_PAYLOAD_BYTES <= size
    BY <1>1, AcceptedConfig, PlatformAssumption
       DEF Larger, MAX_CONTROL_PAYLOAD_BYTES, MAX_FRAME_HEADER_BYTES
  <2> HIDE DEF size
  <2>2. size + MAX_FRAME_HEADER_BYTES \in 0..UsizeMax
    BY <2>1, PlatformAssumption DEF MAX_CONTROL_PAYLOAD_BYTES, MAX_FRAME_HEADER_BYTES
  <2>3. max_write_buffer_size(config) = size + MAX_FRAME_HEADER_BYTES
    <3>1. \A m \in 0..UsizeMax : m % (UsizeMax + 1) = m
      BY PlatformAssumption
    <3> QED
      BY <2>2, <3>1 DEF max_write_buffer_size, size
  <2>4. ASSUME NEW n \in Nat, n <= size PROVE frame_size(n) <= size + MAX_FRAME_HEADER_BYTES
    BY <2>1, <2>4, PlatformAssumption DEF frame_size, MAX_FRAME_HEADER_BYTES
  <2> QED
    BY <1>1, <2>1, <2>3, <2>4, AcceptedConfig DEF MAX_CONTROL_PAYLOAD_BYTES
<1> QED
  BY <1>1, InvHolds, PTL

=============================================================================
