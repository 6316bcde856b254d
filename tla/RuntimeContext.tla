--------------------------- MODULE RuntimeContext ---------------------------
(***************************************************************************)
(* Which process may touch a connection: src/src/runtime.rs, the checks of *)
(* src/src/py.rs, and the life of a connection from `_connect` to the      *)
(* finalizer (src/src/client.rs, fogws/client.py).                         *)
(*                                                                         *)
(* fork() copies the memory of a process, so OWNER_PROCESS, the loaded     *)
(* module and every Python object, but not the threads: the runtime, the   *)
(* attempts to connect and the drivers stay in the process that began      *)
(* them.  What a process does to the Tokio state of a driver is recorded   *)
(* in `touched`.                                                           *)
(***************************************************************************)
EXTENDS Naturals, FiniteSets

CONSTANTS
    Processes, Main,   \* Main is the process of the first interpreter
    NoProcess,
    Pids, NoPid,       \* what std::process::id() may be
    Connections,       \* one element per call of connect()
    MayRecycle         \* may the system give the pid of an exited process again

ASSUME ContextAssumption ==
    /\ Main \in Processes /\ NoProcess \notin Processes
    /\ NoPid \notin Pids /\ Pids # {}
    /\ MayRecycle \in BOOLEAN

VARIABLES
    phase,          \* phase[p]: unborn, alive, exited
    pid,            \* pid[p]: std::process::id()
    loader,         \* loader[p]: the process that loaded the module found in p
    OWNER_PROCESS,  \* OWNER_PROCESS[p]: the OnceLock in the memory of p
    answer,         \* answer[p]: what the last call into the module returned in p
    loopOpen,       \* loopOpen[p]: the event loop in the memory of p is open
    home,           \* home[c]: the process whose runtime connects and drives c
    stage,          \* stage[p][c]: how far c got in the memory of p
    cancelled,      \* cancelled[p]: the connects cancelled in the memory of p
    driver,         \* driver[c]: the tasks of c, in its home
    touched         \* <<p, c>>: p touched the Tokio state of c

processVars == <<phase, pid, loader, OWNER_PROCESS>>
objectVars  == <<stage, cancelled, loopOpen>>
driverVars  == <<home, driver, touched>>
vars == <<processVars, answer, objectVars, driverVars>>

Alive(p) == phase[p] = "alive"
Born     == {p \in Processes : phase[p] # "unborn"}

Init ==
    /\ phase = [p \in Processes |-> IF p = Main THEN "alive" ELSE "unborn"]
    /\ \E n \in Pids : pid = [p \in Processes |-> IF p = Main THEN n ELSE NoPid]
    /\ loader = [p \in Processes |-> NoProcess]
    /\ OWNER_PROCESS = [p \in Processes |-> NoPid]
    /\ answer = [p \in Processes |-> "none"]
    /\ loopOpen = [p \in Processes |-> TRUE]
    /\ home = [c \in Connections |-> NoProcess]
    /\ stage = [p \in Processes |-> [c \in Connections |-> "none"]]
    /\ cancelled = [p \in Processes |-> {}]
    /\ driver = [c \in Connections |-> "none"]
    /\ touched = {}

-----------------------------------------------------------------------------
(* runtime.rs                                                              *)

is_owner_process(p) == OWNER_PROCESS[p] \in {NoPid, pid[p]}

\* claim_or_validate_process: get_or_init, then compare.
Claim(p) == OWNER_PROCESS' = IF OWNER_PROCESS[p] = NoPid
                             THEN [OWNER_PROCESS EXCEPT ![p] = pid[p]] ELSE OWNER_PROCESS

Answer(p, value) == answer' = [answer EXCEPT ![p] = value]

Objects == UNCHANGED <<phase, pid, objectVars, driverVars>>

\* Mutant: the process is claimed before the interpreter is looked at.
ImportClaimsFirst(p, interpreter) ==
    /\ Alive(p) /\ Claim(p)
    /\ IF interpreter # "main" \/ ~is_owner_process(p)
       THEN Answer(p, "RuntimeContextError") /\ UNCHANGED loader
       ELSE /\ Answer(p, "Ok")
            /\ loader' = IF loader[p] = NoProcess THEN [loader EXCEPT ![p] = p] ELSE loader
    /\ Objects

\* The initializer of the module: the interpreter is checked before the process.
Import(p, interpreter) ==
    /\ Alive(p)
    /\ IF interpreter # "main"
       THEN Answer(p, "ImportError") /\ UNCHANGED <<OWNER_PROCESS, loader>>
       ELSE /\ Claim(p)
            /\ IF is_owner_process(p)
               THEN /\ Answer(p, "Ok")
                    /\ loader' = IF loader[p] = NoProcess THEN [loader EXCEPT ![p] = p] ELSE loader
               ELSE Answer(p, "RuntimeContextError") /\ UNCHANGED loader
    /\ Objects

-----------------------------------------------------------------------------
(* The system                                                              *)

Free(n) == \A p \in Born : pid[p] = n => MayRecycle /\ phase[p] = "exited"

Fork(p, q, n) ==
    /\ Alive(p) /\ phase[q] = "unborn" /\ Free(n)
    /\ phase' = [phase EXCEPT ![q] = "alive"]
    /\ pid' = [pid EXCEPT ![q] = n]
    /\ loader' = [loader EXCEPT ![q] = loader[p]]
    /\ OWNER_PROCESS' = [OWNER_PROCESS EXCEPT ![q] = OWNER_PROCESS[p]]
    /\ loopOpen' = [loopOpen EXCEPT ![q] = loopOpen[p]]
    /\ stage' = [stage EXCEPT ![q] = stage[p]]
    /\ cancelled' = [cancelled EXCEPT ![q] = cancelled[p]]
    /\ UNCHANGED <<answer, driverVars>>

\* An exit takes the runtime and its tasks with it.
Exit(p) ==
    /\ Alive(p)
    /\ phase' = [phase EXCEPT ![p] = "exited"]
    /\ driver' = [c \in Connections |->
                      IF home[c] = p /\ driver[c] = "running" THEN "ended" ELSE driver[c]]
    /\ UNCHANGED <<pid, loader, OWNER_PROCESS, answer, objectVars, home, touched>>

CloseLoop(p) ==
    /\ Alive(p) /\ loopOpen[p]
    /\ loopOpen' = [loopOpen EXCEPT ![p] = FALSE]
    /\ UNCHANGED <<processVars, answer, stage, cancelled, driverVars>>

-----------------------------------------------------------------------------
(* connect()                                                               *)

Move(p, c, from, to) == stage[p][c] = from /\ stage' = [stage EXCEPT ![p][c] = to]

\* Mutant: a forked process claims itself on its first call.
ConnectReclaims(p, c, running, valid) ==
    /\ Alive(p) /\ loader[p] # NoProcess /\ home[c] = NoProcess
    /\ running => loopOpen[p]
    /\ OWNER_PROCESS' = [OWNER_PROCESS EXCEPT ![p] = pid[p]]
    /\ Answer(p, IF ~running THEN "LoopAffinityError"
                 ELSE IF ~valid THEN "ResourceLimitError" ELSE "Ok")
    /\ IF running /\ valid
       THEN Move(p, c, "none", "connecting") /\ home' = [home EXCEPT ![c] = p]
       ELSE UNCHANGED <<stage, home>>
    /\ UNCHANGED <<phase, pid, loader, loopOpen, cancelled, driver, touched>>

\* _connect: process, running loop, configuration; then the future is started.
Connect(p, c, running, valid) ==
    /\ Alive(p) /\ loader[p] # NoProcess /\ home[c] = NoProcess
    /\ running => loopOpen[p]
    /\ Answer(p, IF ~is_owner_process(p) THEN "RuntimeContextError"
                 ELSE IF ~running THEN "LoopAffinityError"
                 ELSE IF ~valid THEN "ResourceLimitError" ELSE "Ok")
    /\ IF is_owner_process(p) /\ running /\ valid
       THEN Move(p, c, "none", "connecting") /\ home' = [home EXCEPT ![c] = p]
       ELSE UNCHANGED <<stage, home>>
    /\ UNCHANGED <<processVars, loopOpen, cancelled, driver, touched>>

\* The task that awaits connect() is cancelled, in the process that started it.
CancelConnect(p, c) ==
    /\ Alive(p) /\ loopOpen[p] /\ home[c] = p /\ c \notin cancelled[p]
    /\ stage[p][c] \in {"connecting", "started", "posted", "delivered"}
    /\ cancelled' = [cancelled EXCEPT ![p] = @ \cup {c}]
    /\ UNCHANGED <<processVars, answer, stage, loopOpen, driverVars>>

\* A runtime step of home[c]: the URI is refused, the attempt fails, or the
\* cancellation reaches the future while it waits.
ConnectFails(p, c) ==
    /\ Alive(p) /\ home[c] = p
    /\ Move(p, c, "connecting", "gone")
    /\ UNCHANGED <<processVars, answer, cancelled, loopOpen, driverVars>>

\* client::connect returns: the driver is started and PyConnection built.
Established(p, c) ==
    /\ Alive(p) /\ home[c] = p
    /\ Move(p, c, "connecting", "started")
    /\ driver' = [driver EXCEPT ![c] = "running"]
    /\ touched' = touched \cup {<<p, c>>}
    /\ UNCHANGED <<processVars, answer, cancelled, loopOpen, home>>

\* Mutant: a process that is not the owner drops the driver, the owner keeps it.
DropInverted(p, c) ==
    IF ~is_owner_process(p)
    THEN /\ stage' = [stage EXCEPT ![p][c] = "gone"]
         /\ touched' = touched \cup {<<p, c>>}
         /\ driver' = IF home[c] = p THEN [driver EXCEPT ![c] = "ended"] ELSE driver
    ELSE stage' = [stage EXCEPT ![p][c] = "forgotten"] /\ UNCHANGED <<touched, driver>>

\* Mutant: PyConnection has no Drop of its own.
DropUnguarded(p, c) ==
    /\ stage' = [stage EXCEPT ![p][c] = "gone"]
    /\ touched' = touched \cup {<<p, c>>}
    /\ driver' = IF home[c] = p THEN [driver EXCEPT ![c] = "ended"] ELSE driver

\* The Drop of PyConnection, and _abort before it where the finalizer runs: the
\* owner aborts the driver, any other process forgets it.
Drop(p, c) ==
    IF is_owner_process(p)
    THEN /\ stage' = [stage EXCEPT ![p][c] = "gone"]
         /\ touched' = touched \cup {<<p, c>>}
         /\ driver' = IF home[c] = p THEN [driver EXCEPT ![c] = "ended"] ELSE driver
    ELSE stage' = [stage EXCEPT ![p][c] = "forgotten"] /\ UNCHANGED <<touched, driver>>

\* The result reaches the loop, unless the future was cancelled meanwhile or
\* the loop is closed: then it is dropped.
Post(p, c) ==
    /\ Alive(p) /\ home[c] = p /\ stage[p][c] = "started"
    /\ IF c \in cancelled[p] \/ ~loopOpen[p] THEN Drop(p, c)
       ELSE Move(p, c, "started", "posted") /\ UNCHANGED <<touched, driver>>
    /\ UNCHANGED <<processVars, answer, cancelled, loopOpen, home>>

\* Steps of the event loop in any process that has it: the future gets its
\* result, and the coroutine of connect() builds the Connection.
Delivered(p, c) ==
    /\ Alive(p) /\ loopOpen[p] /\ c \notin cancelled[p]
    /\ Move(p, c, "posted", "delivered")
    /\ UNCHANGED <<processVars, answer, cancelled, loopOpen, driverVars>>

Opened(p, c) ==
    /\ Alive(p) /\ loopOpen[p] /\ c \notin cancelled[p]
    /\ Move(p, c, "delivered", "open")
    /\ UNCHANGED <<processVars, answer, cancelled, loopOpen, driverVars>>

\* A result that nobody will take is dropped with its future or its loop.
Unclaimed(p, c) ==
    /\ Alive(p) /\ stage[p][c] \in {"posted", "delivered"}
    /\ c \in cancelled[p] \/ ~loopOpen[p]
    /\ Drop(p, c)
    /\ UNCHANGED <<processVars, answer, cancelled, loopOpen, home>>

-----------------------------------------------------------------------------
(* An open connection                                                      *)

\* Mutant: the loop is compared before the process.
OperateLoopFirst(p, c, loop) ==
    /\ Alive(p) /\ stage[p][c] = "open"
    /\ Answer(p, IF loop # "owner" THEN "LoopAffinityError"
                 ELSE IF ~is_owner_process(p) THEN "RuntimeContextError" ELSE "Ok")
    /\ touched' = IF loop = "owner" /\ is_owner_process(p) THEN touched \cup {<<p, c>>} ELSE touched
    /\ UNCHANGED <<processVars, objectVars, home, driver>>

\* send, receive and close: ensure_loop_affinity before the driver is reached.
Operate(p, c, loop) ==
    /\ Alive(p) /\ stage[p][c] = "open"
    /\ loop = "owner" => loopOpen[p]
    /\ Answer(p, IF ~is_owner_process(p) THEN "RuntimeContextError"
                 ELSE IF loop # "owner" THEN "LoopAffinityError" ELSE "Ok")
    /\ touched' = IF loop = "owner" /\ is_owner_process(p) THEN touched \cup {<<p, c>>} ELSE touched
    /\ UNCHANGED <<processVars, objectVars, home, driver>>

\* The last reference is gone: _abort, then Drop.
Finalize(p, c) ==
    /\ Alive(p) /\ stage[p][c] = "open" /\ Drop(p, c)
    /\ UNCHANGED <<processVars, answer, cancelled, loopOpen, home>>

\* The driver ends for one of its own reasons (module Driver).
DriverEnds(c) ==
    /\ driver[c] = "running"
    /\ driver' = [driver EXCEPT ![c] = "ended"]
    /\ UNCHANGED <<processVars, answer, objectVars, home, touched>>

-----------------------------------------------------------------------------
RuntimeStep(p, c) == ConnectFails(p, c) \/ Established(p, c) \/ Post(p, c)
LoopStep(p, c)    == Delivered(p, c) \/ Opened(p, c) \/ Unclaimed(p, c)

ConnectionStep(p, c) ==
    \/ \E running, valid \in BOOLEAN : Connect(p, c, running, valid)
    \/ CancelConnect(p, c) \/ RuntimeStep(p, c) \/ LoopStep(p, c)
    \/ \E loop \in {"owner", "other"} : Operate(p, c, loop)
    \/ Finalize(p, c)

ProcessStep(p) ==
    \/ \E interpreter \in {"main", "sub"} : Import(p, interpreter)
    \/ \E q \in Processes, n \in Pids : Fork(p, q, n)
    \/ Exit(p) \/ CloseLoop(p)
    \/ \E c \in Connections : ConnectionStep(p, c)

Next == (\E p \in Processes : ProcessStep(p)) \/ \E c \in Connections : DriverEnds(c)

Spec == Init /\ [][Next]_vars

\* The runtime polls an established connection and results without a taker are
\* dropped; an attempt to connect may take for ever.
Fairness == \A p \in Processes, c \in Connections :
                WF_vars(Post(p, c)) /\ WF_vars(Unclaimed(p, c))

FairSpec == Spec /\ Fairness

-----------------------------------------------------------------------------
Answers == {"none", "Ok", "ImportError", "RuntimeContextError",
            "LoopAffinityError", "ResourceLimitError"}
Stages  == {"none", "connecting", "started", "posted", "delivered", "open", "gone", "forgotten"}

\* Type correctness; the module is loaded exactly where the process is claimed.
TypeOK ==
    /\ phase \in [Processes -> {"unborn", "alive", "exited"}]
    /\ pid \in [Processes -> Pids \cup {NoPid}]
    /\ loader \in [Processes -> Processes \cup {NoProcess}]
    /\ OWNER_PROCESS \in [Processes -> Pids \cup {NoPid}]
    /\ answer \in [Processes -> Answers] /\ loopOpen \in [Processes -> BOOLEAN]
    /\ home \in [Connections -> Processes \cup {NoProcess}]
    /\ stage \in [Processes -> [Connections -> Stages]]
    /\ cancelled \in [Processes -> SUBSET Connections]
    /\ driver \in [Connections -> {"none", "running", "ended"}]
    /\ touched \subseteq Processes \X Connections
    /\ \A p \in Processes : OWNER_PROCESS[p] = NoPid <=> loader[p] = NoProcess

\* Only the process that connected ever touches the Tokio state of a connection:
\* a forked child that uses or finalizes the inherited object leaves it alone
\* (is_owner_process in _abort and Drop, ensure_current_process everywhere else).
Quarantine == \A c \in Connections, p \in Processes : <<p, c>> \in touched => p = home[c]

\* In a process that inherited the loaded module every call is refused with
\* RuntimeContextError, also on a wrong loop or with a wrong argument; an import
\* from a subinterpreter is refused before the process is looked at.
FailsClosed ==
    \A p \in Processes : loader[p] \notin {p, NoProcess}
                             => answer[p] \in {"none", "RuntimeContextError", "ImportError"}

\* A driver runs only as long as its home holds the connection, on the way to
\* the program or in its hands: no cancelled connect, closed loop or finalizer
\* leaves tasks and a socket without an owner.
NoOrphan ==
    \A c \in Connections : driver[c] = "running" =>
        /\ Alive(home[c])
        /\ stage[home[c]][c] \in {"started", "posted", "delivered", "open"}

\* What the comparison of process ids rests on: living and dead processes have
\* different ids, OWNER_PROCESS is the id of the process that loaded the module,
\* and everything a process holds comes from that process.
OwnerInv ==
    /\ \A p, q \in Born : pid[p] \in Pids /\ (pid[p] = pid[q] => p = q)
    /\ \A p \in Processes : loader[p] # NoProcess =>
           loader[p] \in Born /\ OWNER_PROCESS[p] = pid[loader[p]]
    /\ \A p \in Processes, c \in Connections : stage[p][c] # "none" =>
           home[c] = loader[p] /\ loader[p] # NoProcess
    /\ \A p \in Processes \ Born : answer[p] = "none"
    /\ \A c \in Connections : home[c] = NoProcess => driver[c] = "none"

\* A driver started for a connect() that was cancelled, or whose loop is closed,
\* ends although no Connection was built that could finalize it.
Unwanted(p, c) ==
    /\ home[c] = p /\ driver[c] = "running"
    /\ stage[p][c] \in {"started", "posted", "delivered"}
    /\ c \in cancelled[p] \/ ~loopOpen[p]

UnwantedConnectEnds ==
    \A p \in Processes, c \in Connections : Unwanted(p, c) ~> driver[c] = "ended"
=============================================================================
