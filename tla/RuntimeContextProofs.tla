------------------------ MODULE RuntimeContextProofs ------------------------
(***************************************************************************)
(* For any number of processes, pids and connections: as long as the       *)
(* system gives no pid twice, a connection is touched by the process that  *)
(* made it only.  The argument is OwnerInv: the comparison of pids stands  *)
(* for a comparison of processes, and an object never reaches a process    *)
(* that did not inherit OWNER_PROCESS with it.                             *)
(***************************************************************************)
EXTENDS RuntimeContext, TLAPS

\* What dropping an object does: the owner aborts the driver, which ends if the
\* process is also its home; any other process touches nothing.
LEMMA DropEffect ==
    ASSUME TypeOK, OwnerInv, NEW p \in Processes, NEW c \in Connections, Alive(p),
           stage[p][c] # "none", Drop(p, c)
    PROVE  /\ \E s \in {"gone", "forgotten"} : stage' = [stage EXCEPT ![p][c] = s]
           /\ driver' \in [Connections -> {"none", "running", "ended"}]
           /\ \A d \in Connections : driver'[d] = driver[d] \/ (driver'[d] = "ended" /\ d = c)
           /\ home[c] = p => driver'[c] = "ended"
           /\ touched' \subseteq Processes \X Connections
           /\ \/ touched' = touched
              \/ touched' = touched \cup {<<p, c>>} /\ home[c] = p
<1> USE DEF TypeOK
<1>1. CASE is_owner_process(p)
  <2>1. /\ stage' = [stage EXCEPT ![p][c] = "gone"]
        /\ touched' = touched \cup {<<p, c>>}
        /\ driver' = IF home[c] = p THEN [driver EXCEPT ![c] = "ended"] ELSE driver
    BY <1>1 DEF Drop
  <2>2. home[c] = p
    BY <1>1 DEF is_owner_process, OwnerInv, Born, Alive
  <2> QED BY <2>1, <2>2
<1>2. CASE ~is_owner_process(p)
  <2>1. /\ stage' = [stage EXCEPT ![p][c] = "forgotten"]
        /\ touched' = touched /\ driver' = driver
    BY <1>2 DEF Drop
  <2>2. home[c] # p
    BY <1>2 DEF is_owner_process, OwnerInv, Born, Alive
  <2> QED BY <2>1, <2>2
<1> QED BY <1>1, <1>2

\* connect() either starts an attempt or refuses and changes nothing but the answer.
LEMMA ConnectEffect ==
    ASSUME NEW p \in Processes, NEW c \in Connections,
           NEW running \in BOOLEAN, NEW valid \in BOOLEAN, Connect(p, c, running, valid)
    PROVE  /\ \E a \in Answers : answer' = [answer EXCEPT ![p] = a]
           /\ \/ stage' = stage /\ home' = home
              \/ /\ is_owner_process(p)
                 /\ stage' = [stage EXCEPT ![p][c] = "connecting"]
                 /\ home' = [home EXCEPT ![c] = p]
           /\ Alive(p) /\ home[c] = NoProcess /\ loader[p] # NoProcess
           /\ UNCHANGED <<processVars, loopOpen, cancelled, driver, touched>>
<1>1. \E a \in Answers : answer' = [answer EXCEPT ![p] = a]
  BY DEF Connect, Answer, Answers
<1>2. CASE is_owner_process(p) /\ running /\ valid
  BY <1>1, <1>2 DEF Connect, Move
<1>3. CASE ~(is_owner_process(p) /\ running /\ valid)
  BY <1>1, <1>3 DEF Connect
<1> QED BY <1>2, <1>3

\* An import claims a process that nobody claimed, or leaves the claim as it is.
LEMMA ImportEffect ==
    ASSUME TypeOK, OwnerInv, NEW p \in Processes, NEW interpreter \in {"main", "sub"},
           Import(p, interpreter)
    PROVE  /\ \E a \in Answers : answer' = [answer EXCEPT ![p] = a]
           /\ \/ OWNER_PROCESS' = OWNER_PROCESS /\ loader' = loader
              \/ /\ loader[p] = NoProcess
                 /\ OWNER_PROCESS' = [OWNER_PROCESS EXCEPT ![p] = pid[p]]
                 /\ loader' = [loader EXCEPT ![p] = p]
           /\ Alive(p) /\ UNCHANGED <<phase, pid, objectVars, driverVars>>
<1> USE DEF TypeOK, Answer, Answers, Objects
<1>1. CASE interpreter # "main"
  BY <1>1 DEF Import
<1>2. CASE interpreter = "main" /\ loader[p] = NoProcess
  <2>1. OWNER_PROCESS[p] = NoPid /\ is_owner_process(p)
    BY <1>2 DEF is_owner_process
  <2>2. OWNER_PROCESS' = [OWNER_PROCESS EXCEPT ![p] = pid[p]]
    BY <1>2, <2>1 DEF Import, Claim
  <2>3. loader' = [loader EXCEPT ![p] = p] /\ answer' = [answer EXCEPT ![p] = "Ok"]
    BY <1>2, <2>1 DEF Import
  <2> QED BY <1>2, <2>2, <2>3 DEF Import
<1>3. CASE interpreter = "main" /\ loader[p] # NoProcess
  <2>1. OWNER_PROCESS' = OWNER_PROCESS
    BY <1>3 DEF Import, Claim
  <2>2. loader' = loader /\ \E a \in Answers : answer' = [answer EXCEPT ![p] = a]
    BY <1>3 DEF Import
  <2> QED BY <1>3, <2>1, <2>2 DEF Import
<1> QED BY <1>1, <1>2, <1>3


\* Every step keeps the types.
LEMMA TypeStep ==
    ASSUME TypeOK, OwnerInv, [Next]_vars
    PROVE  TypeOK'
<1> USE ContextAssumption DEF TypeOK, OwnerInv, Answers, Stages
<1>1. ASSUME NEW p \in Processes, NEW interpreter \in {"main", "sub"}, Import(p, interpreter)
      PROVE  TypeOK'
  <2>1. Alive(p) /\ UNCHANGED <<phase, pid, stage, cancelled, loopOpen, home, driver, touched>>
    BY <1>1, ImportEffect DEF objectVars, driverVars
  <2>2. PICK a \in Answers : answer' = [answer EXCEPT ![p] = a]
    BY <1>1, ImportEffect
  <2>3. CASE OWNER_PROCESS' = OWNER_PROCESS /\ loader' = loader
    BY <2>1, <2>2, <2>3 DEF Alive, Born
  <2>4. CASE /\ loader[p] = NoProcess
             /\ OWNER_PROCESS' = [OWNER_PROCESS EXCEPT ![p] = pid[p]]
             /\ loader' = [loader EXCEPT ![p] = p]
    BY <2>1, <2>2, <2>4, SMTT(30) DEF Alive, Born
  <2> QED BY <1>1, <2>3, <2>4, ImportEffect
<1>2. ASSUME NEW p \in Processes, NEW q \in Processes, NEW n \in Pids, Fork(p, q, n)
      PROVE  TypeOK'
  BY <1>2 DEF Fork, Free, driverVars, Alive, Born
<1>3. ASSUME NEW p \in Processes, Exit(p)
      PROVE  TypeOK'
  BY <1>3 DEF Exit, objectVars, Alive, Born
<1>4. ASSUME NEW p \in Processes, CloseLoop(p)
      PROVE  TypeOK'
  BY <1>4 DEF CloseLoop, processVars, driverVars, Alive, Born
<1>5. ASSUME NEW p \in Processes, NEW c \in Connections,
                  NEW running \in BOOLEAN, NEW valid \in BOOLEAN, Connect(p, c, running, valid)
      PROVE  TypeOK'
  <2>1. Alive(p) /\ home[c] = NoProcess /\ loader[p] # NoProcess
        /\ UNCHANGED <<phase, pid, loader, OWNER_PROCESS, loopOpen, cancelled, driver, touched>>
    BY <1>5, ConnectEffect DEF processVars
  <2>2. PICK a \in Answers : answer' = [answer EXCEPT ![p] = a]
    BY <1>5, ConnectEffect
  <2>3. CASE stage' = stage /\ home' = home
    BY <2>1, <2>2, <2>3 DEF Alive, Born
  <2>4. CASE /\ is_owner_process(p)
             /\ stage' = [stage EXCEPT ![p][c] = "connecting"]
             /\ home' = [home EXCEPT ![c] = p]
    BY <2>1, <2>2, <2>4 DEF is_owner_process, Alive, Born
  <2> QED BY <1>5, <2>3, <2>4, ConnectEffect
<1>6. ASSUME NEW p \in Processes, NEW c \in Connections, CancelConnect(p, c)
      PROVE  TypeOK'
  BY <1>6 DEF CancelConnect, processVars, driverVars, Alive, Born
<1>7. ASSUME NEW p \in Processes, NEW c \in Connections, ConnectFails(p, c)
      PROVE  TypeOK'
  BY <1>7 DEF ConnectFails, Move, processVars, driverVars, Alive, Born
<1>8. ASSUME NEW p \in Processes, NEW c \in Connections, Established(p, c)
      PROVE  TypeOK'
  BY <1>8 DEF Established, Move, processVars, Alive, Born
<1>9. ASSUME NEW p \in Processes, NEW c \in Connections, Post(p, c)
      PROVE  TypeOK'
  <2>0. Alive(p) /\ home[c] = p /\ stage[p][c] = "started"
        /\ UNCHANGED <<phase, pid, loader, OWNER_PROCESS, answer, cancelled, loopOpen, home>>
    BY <1>9 DEF Post, processVars
  <2>1. CASE c \in cancelled[p] \/ ~loopOpen[p]
    <3>1. Drop(p, c)
      BY <1>9, <2>1 DEF Post
    <3>2. /\ \E s \in {"gone", "forgotten"} : stage' = [stage EXCEPT ![p][c] = s]
          /\ driver' \in [Connections -> {"none", "running", "ended"}]
          /\ \A d \in Connections : driver'[d] = driver[d] \/ (driver'[d] = "ended" /\ d = c)
          /\ home[c] = p => driver'[c] = "ended"
          /\ touched' \subseteq Processes \X Connections
          /\ \/ touched' = touched
             \/ touched' = touched \cup {<<p, c>>} /\ home[c] = p
      BY <2>0, <3>1, DropEffect
    <3> QED BY <2>0, <3>2 DEF Alive, Born
  <2>2. CASE ~(c \in cancelled[p] \/ ~loopOpen[p])
    <3>1. stage' = [stage EXCEPT ![p][c] = "posted"] /\ UNCHANGED <<touched, driver>>
      BY <1>9, <2>2 DEF Post, Move
    <3> QED BY <2>0, <3>1 DEF Alive, Born
  <2> QED BY <2>1, <2>2
<1>10. ASSUME NEW p \in Processes, NEW c \in Connections, Delivered(p, c)
      PROVE  TypeOK'
  BY <1>10 DEF Delivered, Move, processVars, driverVars, Alive, Born
<1>11. ASSUME NEW p \in Processes, NEW c \in Connections, Opened(p, c)
      PROVE  TypeOK'
  BY <1>11 DEF Opened, Move, processVars, driverVars, Alive, Born
<1>12. ASSUME NEW p \in Processes, NEW c \in Connections, Unclaimed(p, c)
      PROVE  TypeOK'
  <2>1. Drop(p, c) /\ Alive(p) /\ stage[p][c] \in {"posted", "delivered", "open"}
        /\ UNCHANGED <<phase, pid, loader, OWNER_PROCESS, answer, cancelled, loopOpen, home>>
    BY <1>12 DEF Unclaimed, processVars
  <2>2. /\ \E s \in {"gone", "forgotten"} : stage' = [stage EXCEPT ![p][c] = s]
        /\ driver' \in [Connections -> {"none", "running", "ended"}]
        /\ \A d \in Connections : driver'[d] = driver[d] \/ (driver'[d] = "ended" /\ d = c)
        /\ home[c] = p => driver'[c] = "ended"
        /\ touched' \subseteq Processes \X Connections
        /\ \/ touched' = touched
           \/ touched' = touched \cup {<<p, c>>} /\ home[c] = p
    BY <2>1, DropEffect
  <2> QED BY <2>1, <2>2 DEF Alive, Born
<1>13. ASSUME NEW p \in Processes, NEW c \in Connections, NEW loop \in {"owner", "other"}, Operate(p, c, loop)
      PROVE  TypeOK'
  BY <1>13 DEF Operate, Answer, is_owner_process, processVars, objectVars, Alive, Born
<1>14. ASSUME NEW p \in Processes, NEW c \in Connections, Finalize(p, c)
      PROVE  TypeOK'
  <2>1. Drop(p, c) /\ Alive(p) /\ stage[p][c] \in {"posted", "delivered", "open"}
        /\ UNCHANGED <<phase, pid, loader, OWNER_PROCESS, answer, cancelled, loopOpen, home>>
    BY <1>14 DEF Finalize, processVars
  <2>2. /\ \E s \in {"gone", "forgotten"} : stage' = [stage EXCEPT ![p][c] = s]
        /\ driver' \in [Connections -> {"none", "running", "ended"}]
        /\ \A d \in Connections : driver'[d] = driver[d] \/ (driver'[d] = "ended" /\ d = c)
        /\ home[c] = p => driver'[c] = "ended"
        /\ touched' \subseteq Processes \X Connections
        /\ \/ touched' = touched
           \/ touched' = touched \cup {<<p, c>>} /\ home[c] = p
    BY <2>1, DropEffect
  <2> QED BY <2>1, <2>2 DEF Alive, Born
<1>15. ASSUME NEW c \in Connections, DriverEnds(c)
      PROVE  TypeOK'
  BY <1>15 DEF DriverEnds, processVars, objectVars, Alive, Born
<1>16. CASE UNCHANGED vars
  BY <1>16 DEF vars, processVars, objectVars, driverVars, Alive, Born
<1> HIDE DEF TypeOK, OwnerInv, Answers, Stages
<1> QED
  BY <1>1, <1>2, <1>3, <1>4, <1>5, <1>6, <1>7, <1>8, <1>9, <1>10, <1>11, <1>12, <1>13, <1>14, <1>15, <1>16
     DEF Next, ProcessStep, ConnectionStep, RuntimeStep, LoopStep

\* No step gives a pid twice, changes a claim, or moves an object to a process that
\* did not inherit the module with it.
LEMMA OwnerStep ==
    ASSUME TypeOK, OwnerInv, ~MayRecycle, [Next]_vars
    PROVE  OwnerInv'
<1> USE ContextAssumption DEF TypeOK, OwnerInv
<1>1. ASSUME NEW p \in Processes, NEW interpreter \in {"main", "sub"}, Import(p, interpreter)
      PROVE  OwnerInv'
  <2>1. Alive(p) /\ UNCHANGED <<phase, pid, stage, cancelled, loopOpen, home, driver, touched>>
    BY <1>1, ImportEffect DEF objectVars, driverVars
  <2>2. PICK a \in Answers : answer' = [answer EXCEPT ![p] = a]
    BY <1>1, ImportEffect
  <2>3. CASE OWNER_PROCESS' = OWNER_PROCESS /\ loader' = loader
    BY <2>1, <2>2, <2>3 DEF Alive, Born
  <2>4. CASE /\ loader[p] = NoProcess
             /\ OWNER_PROCESS' = [OWNER_PROCESS EXCEPT ![p] = pid[p]]
             /\ loader' = [loader EXCEPT ![p] = p]
    BY <2>1, <2>2, <2>4 DEF Alive, Born
  <2> QED BY <1>1, <2>3, <2>4, ImportEffect
<1>2. ASSUME NEW p \in Processes, NEW q \in Processes, NEW n \in Pids, Fork(p, q, n)
      PROVE  OwnerInv'
  BY <1>2 DEF Fork, Free, driverVars, Alive, Born
<1>3. ASSUME NEW p \in Processes, Exit(p)
      PROVE  OwnerInv'
  BY <1>3 DEF Exit, objectVars, Alive, Born
<1>4. ASSUME NEW p \in Processes, CloseLoop(p)
      PROVE  OwnerInv'
  BY <1>4 DEF CloseLoop, processVars, driverVars, Alive, Born
<1>5. ASSUME NEW p \in Processes, NEW c \in Connections,
                  NEW running \in BOOLEAN, NEW valid \in BOOLEAN, Connect(p, c, running, valid)
      PROVE  OwnerInv'
  <2>1. Alive(p) /\ home[c] = NoProcess /\ loader[p] # NoProcess
        /\ UNCHANGED <<phase, pid, loader, OWNER_PROCESS, loopOpen, cancelled, driver, touched>>
    BY <1>5, ConnectEffect DEF processVars
  <2>2. PICK a \in Answers : answer' = [answer EXCEPT ![p] = a]
    BY <1>5, ConnectEffect
  <2>3. CASE stage' = stage /\ home' = home
    BY <2>1, <2>2, <2>3 DEF Alive, Born
  <2>4. CASE /\ is_owner_process(p)
             /\ stage' = [stage EXCEPT ![p][c] = "connecting"]
             /\ home' = [home EXCEPT ![c] = p]
    BY <2>1, <2>2, <2>4 DEF is_owner_process, Alive, Born
  <2> QED BY <1>5, <2>3, <2>4, ConnectEffect
<1>6. ASSUME NEW p \in Processes, NEW c \in Connections, CancelConnect(p, c)
      PROVE  OwnerInv'
  BY <1>6 DEF CancelConnect, processVars, driverVars, Alive, Born
<1>7. ASSUME NEW p \in Processes, NEW c \in Connections, ConnectFails(p, c)
      PROVE  OwnerInv'
  BY <1>7 DEF ConnectFails, Move, processVars, driverVars, Alive, Born
<1>8. ASSUME NEW p \in Processes, NEW c \in Connections, Established(p, c)
      PROVE  OwnerInv'
  BY <1>8 DEF Established, Move, processVars, Alive, Born
<1>9. ASSUME NEW p \in Processes, NEW c \in Connections, Post(p, c)
      PROVE  OwnerInv'
  <2>0. Alive(p) /\ home[c] = p /\ stage[p][c] = "started"
        /\ UNCHANGED <<phase, pid, loader, OWNER_PROCESS, answer, cancelled, loopOpen, home>>
    BY <1>9 DEF Post, processVars
  <2>1. CASE c \in cancelled[p] \/ ~loopOpen[p]
    <3>1. Drop(p, c)
      BY <1>9, <2>1 DEF Post
    <3>2. /\ \E s \in {"gone", "forgotten"} : stage' = [stage EXCEPT ![p][c] = s]
          /\ driver' \in [Connections -> {"none", "running", "ended"}]
          /\ \A d \in Connections : driver'[d] = driver[d] \/ (driver'[d] = "ended" /\ d = c)
          /\ home[c] = p => driver'[c] = "ended"
          /\ touched' \subseteq Processes \X Connections
          /\ \/ touched' = touched
             \/ touched' = touched \cup {<<p, c>>} /\ home[c] = p
      BY <2>0, <3>1, DropEffect
    <3> QED BY <2>0, <3>2 DEF Alive, Born
  <2>2. CASE ~(c \in cancelled[p] \/ ~loopOpen[p])
    <3>1. stage' = [stage EXCEPT ![p][c] = "posted"] /\ UNCHANGED <<touched, driver>>
      BY <1>9, <2>2 DEF Post, Move
    <3> QED BY <2>0, <3>1 DEF Alive, Born
  <2> QED BY <2>1, <2>2
<1>10. ASSUME NEW p \in Processes, NEW c \in Connections, Delivered(p, c)
      PROVE  OwnerInv'
  BY <1>10 DEF Delivered, Move, processVars, driverVars, Alive, Born
<1>11. ASSUME NEW p \in Processes, NEW c \in Connections, Opened(p, c)
      PROVE  OwnerInv'
  BY <1>11 DEF Opened, Move, processVars, driverVars, Alive, Born
<1>12. ASSUME NEW p \in Processes, NEW c \in Connections, Unclaimed(p, c)
      PROVE  OwnerInv'
  <2>1. Drop(p, c) /\ Alive(p) /\ stage[p][c] \in {"posted", "delivered", "open"}
        /\ UNCHANGED <<phase, pid, loader, OWNER_PROCESS, answer, cancelled, loopOpen, home>>
    BY <1>12 DEF Unclaimed, processVars
  <2>2. /\ \E s \in {"gone", "forgotten"} : stage' = [stage EXCEPT ![p][c] = s]
        /\ driver' \in [Connections -> {"none", "running", "ended"}]
        /\ \A d \in Connections : driver'[d] = driver[d] \/ (driver'[d] = "ended" /\ d = c)
        /\ home[c] = p => driver'[c] = "ended"
        /\ touched' \subseteq Processes \X Connections
        /\ \/ touched' = touched
           \/ touched' = touched \cup {<<p, c>>} /\ home[c] = p
    BY <2>1, DropEffect
  <2> QED BY <2>1, <2>2 DEF Alive, Born
<1>13. ASSUME NEW p \in Processes, NEW c \in Connections, NEW loop \in {"owner", "other"}, Operate(p, c, loop)
      PROVE  OwnerInv'
  BY <1>13 DEF Operate, Answer, is_owner_process, processVars, objectVars, Alive, Born
<1>14. ASSUME NEW p \in Processes, NEW c \in Connections, Finalize(p, c)
      PROVE  OwnerInv'
  <2>1. Drop(p, c) /\ Alive(p) /\ stage[p][c] \in {"posted", "delivered", "open"}
        /\ UNCHANGED <<phase, pid, loader, OWNER_PROCESS, answer, cancelled, loopOpen, home>>
    BY <1>14 DEF Finalize, processVars
  <2>2. /\ \E s \in {"gone", "forgotten"} : stage' = [stage EXCEPT ![p][c] = s]
        /\ driver' \in [Connections -> {"none", "running", "ended"}]
        /\ \A d \in Connections : driver'[d] = driver[d] \/ (driver'[d] = "ended" /\ d = c)
        /\ home[c] = p => driver'[c] = "ended"
        /\ touched' \subseteq Processes \X Connections
        /\ \/ touched' = touched
           \/ touched' = touched \cup {<<p, c>>} /\ home[c] = p
    BY <2>1, DropEffect
  <2> QED BY <2>1, <2>2 DEF Alive, Born
<1>15. ASSUME NEW c \in Connections, DriverEnds(c)
      PROVE  OwnerInv'
  BY <1>15 DEF DriverEnds, processVars, objectVars, Alive, Born
<1>16. CASE UNCHANGED vars
  BY <1>16 DEF vars, processVars, objectVars, driverVars, Alive, Born
<1> HIDE DEF TypeOK, OwnerInv
<1> QED
  BY <1>1, <1>2, <1>3, <1>4, <1>5, <1>6, <1>7, <1>8, <1>9, <1>10, <1>11, <1>12, <1>13, <1>14, <1>15, <1>16
     DEF Next, ProcessStep, ConnectionStep, RuntimeStep, LoopStep

\* The home of a connection is its owner, so each of its drops ends the driver.
LEMMA OrphanStep ==
    ASSUME TypeOK, OwnerInv, NoOrphan, [Next]_vars
    PROVE  NoOrphan'
<1> USE ContextAssumption DEF TypeOK, OwnerInv, NoOrphan
<1>1. ASSUME NEW p \in Processes, NEW interpreter \in {"main", "sub"}, Import(p, interpreter)
      PROVE  NoOrphan'
  BY <1>1 DEF Import, Claim, Answer, Objects, is_owner_process, objectVars, driverVars, Alive, Born
<1>2. ASSUME NEW p \in Processes, NEW q \in Processes, NEW n \in Pids, Fork(p, q, n)
      PROVE  NoOrphan'
  BY <1>2 DEF Fork, Free, driverVars, Alive, Born
<1>3. ASSUME NEW p \in Processes, Exit(p)
      PROVE  NoOrphan'
  BY <1>3 DEF Exit, objectVars, Alive, Born
<1>4. ASSUME NEW p \in Processes, CloseLoop(p)
      PROVE  NoOrphan'
  BY <1>4 DEF CloseLoop, processVars, driverVars, Alive, Born
<1>5. ASSUME NEW p \in Processes, NEW c \in Connections,
                  NEW running \in BOOLEAN, NEW valid \in BOOLEAN, Connect(p, c, running, valid)
      PROVE  NoOrphan'
  <2>1. Alive(p) /\ home[c] = NoProcess /\ loader[p] # NoProcess
        /\ UNCHANGED <<phase, pid, loader, OWNER_PROCESS, loopOpen, cancelled, driver, touched>>
    BY <1>5, ConnectEffect DEF processVars
  <2>2. PICK a \in Answers : answer' = [answer EXCEPT ![p] = a]
    BY <1>5, ConnectEffect
  <2>3. CASE stage' = stage /\ home' = home
    BY <2>1, <2>2, <2>3 DEF Alive, Born
  <2>4. CASE /\ is_owner_process(p)
             /\ stage' = [stage EXCEPT ![p][c] = "connecting"]
             /\ home' = [home EXCEPT ![c] = p]
    BY <2>1, <2>2, <2>4 DEF is_owner_process, Alive, Born
  <2> QED BY <1>5, <2>3, <2>4, ConnectEffect
<1>6. ASSUME NEW p \in Processes, NEW c \in Connections, CancelConnect(p, c)
      PROVE  NoOrphan'
  BY <1>6 DEF CancelConnect, processVars, driverVars, Alive, Born
<1>7. ASSUME NEW p \in Processes, NEW c \in Connections, ConnectFails(p, c)
      PROVE  NoOrphan'
  BY <1>7 DEF ConnectFails, Move, processVars, driverVars, Alive, Born
<1>8. ASSUME NEW p \in Processes, NEW c \in Connections, Established(p, c)
      PROVE  NoOrphan'
  BY <1>8 DEF Established, Move, processVars, Alive, Born
<1>9. ASSUME NEW p \in Processes, NEW c \in Connections, Post(p, c)
      PROVE  NoOrphan'
  <2>0. Alive(p) /\ home[c] = p /\ stage[p][c] = "started"
        /\ UNCHANGED <<phase, pid, loader, OWNER_PROCESS, answer, cancelled, loopOpen, home>>
    BY <1>9 DEF Post, processVars
  <2>1. CASE c \in cancelled[p] \/ ~loopOpen[p]
    <3>1. Drop(p, c)
      BY <1>9, <2>1 DEF Post
    <3>2. /\ \E s \in {"gone", "forgotten"} : stage' = [stage EXCEPT ![p][c] = s]
          /\ driver' \in [Connections -> {"none", "running", "ended"}]
          /\ \A d \in Connections : driver'[d] = driver[d] \/ (driver'[d] = "ended" /\ d = c)
          /\ home[c] = p => driver'[c] = "ended"
          /\ touched' \subseteq Processes \X Connections
          /\ \/ touched' = touched
             \/ touched' = touched \cup {<<p, c>>} /\ home[c] = p
      BY <2>0, <3>1, DropEffect
    <3> QED BY <2>0, <3>2 DEF Alive, Born
  <2>2. CASE ~(c \in cancelled[p] \/ ~loopOpen[p])
    <3>1. stage' = [stage EXCEPT ![p][c] = "posted"] /\ UNCHANGED <<touched, driver>>
      BY <1>9, <2>2 DEF Post, Move
    <3> QED BY <2>0, <3>1 DEF Alive, Born
  <2> QED BY <2>1, <2>2
<1>10. ASSUME NEW p \in Processes, NEW c \in Connections, Delivered(p, c)
      PROVE  NoOrphan'
  BY <1>10 DEF Delivered, Move, processVars, driverVars, Alive, Born
<1>11. ASSUME NEW p \in Processes, NEW c \in Connections, Opened(p, c)
      PROVE  NoOrphan'
  BY <1>11 DEF Opened, Move, processVars, driverVars, Alive, Born
<1>12. ASSUME NEW p \in Processes, NEW c \in Connections, Unclaimed(p, c)
      PROVE  NoOrphan'
  <2>1. Drop(p, c) /\ Alive(p) /\ stage[p][c] \in {"posted", "delivered", "open"}
        /\ UNCHANGED <<phase, pid, loader, OWNER_PROCESS, answer, cancelled, loopOpen, home>>
    BY <1>12 DEF Unclaimed, processVars
  <2>2. /\ \E s \in {"gone", "forgotten"} : stage' = [stage EXCEPT ![p][c] = s]
        /\ driver' \in [Connections -> {"none", "running", "ended"}]
        /\ \A d \in Connections : driver'[d] = driver[d] \/ (driver'[d] = "ended" /\ d = c)
        /\ home[c] = p => driver'[c] = "ended"
        /\ touched' \subseteq Processes \X Connections
        /\ \/ touched' = touched
           \/ touched' = touched \cup {<<p, c>>} /\ home[c] = p
    BY <2>1, DropEffect
  <2> QED BY <2>1, <2>2 DEF Alive, Born
<1>13. ASSUME NEW p \in Processes, NEW c \in Connections, NEW loop \in {"owner", "other"}, Operate(p, c, loop)
      PROVE  NoOrphan'
  BY <1>13 DEF Operate, Answer, is_owner_process, processVars, objectVars, Alive, Born
<1>14. ASSUME NEW p \in Processes, NEW c \in Connections, Finalize(p, c)
      PROVE  NoOrphan'
  <2>1. Drop(p, c) /\ Alive(p) /\ stage[p][c] \in {"posted", "delivered", "open"}
        /\ UNCHANGED <<phase, pid, loader, OWNER_PROCESS, answer, cancelled, loopOpen, home>>
    BY <1>14 DEF Finalize, processVars
  <2>2. /\ \E s \in {"gone", "forgotten"} : stage' = [stage EXCEPT ![p][c] = s]
        /\ driver' \in [Connections -> {"none", "running", "ended"}]
        /\ \A d \in Connections : driver'[d] = driver[d] \/ (driver'[d] = "ended" /\ d = c)
        /\ home[c] = p => driver'[c] = "ended"
        /\ touched' \subseteq Processes \X Connections
        /\ \/ touched' = touched
           \/ touched' = touched \cup {<<p, c>>} /\ home[c] = p
    BY <2>1, DropEffect
  <2> QED BY <2>1, <2>2 DEF Alive, Born
<1>15. ASSUME NEW c \in Connections, DriverEnds(c)
      PROVE  NoOrphan'
  BY <1>15 DEF DriverEnds, processVars, objectVars, Alive, Born
<1>16. CASE UNCHANGED vars
  BY <1>16 DEF vars, processVars, objectVars, driverVars, Alive, Born
<1> HIDE DEF TypeOK, OwnerInv, NoOrphan
<1> QED
  BY <1>1, <1>2, <1>3, <1>4, <1>5, <1>6, <1>7, <1>8, <1>9, <1>10, <1>11, <1>12, <1>13, <1>14, <1>15, <1>16
     DEF Next, ProcessStep, ConnectionStep, RuntimeStep, LoopStep

\* A process that passes the comparison is the home of what it holds.
LEMMA QuarantineStep ==
    ASSUME TypeOK, OwnerInv, Quarantine, [Next]_vars
    PROVE  Quarantine'
<1> USE ContextAssumption DEF TypeOK, OwnerInv, Quarantine
<1>1. ASSUME NEW p \in Processes, NEW interpreter \in {"main", "sub"}, Import(p, interpreter)
      PROVE  Quarantine'
  BY <1>1 DEF Import, Claim, Answer, Objects, is_owner_process, objectVars, driverVars, Alive, Born
<1>2. ASSUME NEW p \in Processes, NEW q \in Processes, NEW n \in Pids, Fork(p, q, n)
      PROVE  Quarantine'
  BY <1>2 DEF Fork, Free, driverVars, Alive, Born
<1>3. ASSUME NEW p \in Processes, Exit(p)
      PROVE  Quarantine'
  BY <1>3 DEF Exit, objectVars, Alive, Born
<1>4. ASSUME NEW p \in Processes, CloseLoop(p)
      PROVE  Quarantine'
  BY <1>4 DEF CloseLoop, processVars, driverVars, Alive, Born
<1>5. ASSUME NEW p \in Processes, NEW c \in Connections,
                  NEW running \in BOOLEAN, NEW valid \in BOOLEAN, Connect(p, c, running, valid)
      PROVE  Quarantine'
  BY <1>5 DEF Connect, Answer, Move, is_owner_process, processVars, Alive, Born
<1>6. ASSUME NEW p \in Processes, NEW c \in Connections, CancelConnect(p, c)
      PROVE  Quarantine'
  BY <1>6 DEF CancelConnect, processVars, driverVars, Alive, Born
<1>7. ASSUME NEW p \in Processes, NEW c \in Connections, ConnectFails(p, c)
      PROVE  Quarantine'
  BY <1>7 DEF ConnectFails, Move, processVars, driverVars, Alive, Born
<1>8. ASSUME NEW p \in Processes, NEW c \in Connections, Established(p, c)
      PROVE  Quarantine'
  BY <1>8 DEF Established, Move, processVars, Alive, Born
<1>9. ASSUME NEW p \in Processes, NEW c \in Connections, Post(p, c)
      PROVE  Quarantine'
  BY <1>9 DEF Post, Move, Drop, is_owner_process, processVars, Alive, Born
<1>10. ASSUME NEW p \in Processes, NEW c \in Connections, Delivered(p, c)
      PROVE  Quarantine'
  BY <1>10 DEF Delivered, Move, processVars, driverVars, Alive, Born
<1>11. ASSUME NEW p \in Processes, NEW c \in Connections, Opened(p, c)
      PROVE  Quarantine'
  BY <1>11 DEF Opened, Move, processVars, driverVars, Alive, Born
<1>12. ASSUME NEW p \in Processes, NEW c \in Connections, Unclaimed(p, c)
      PROVE  Quarantine'
  BY <1>12 DEF Unclaimed, Drop, is_owner_process, processVars, Alive, Born
<1>13. ASSUME NEW p \in Processes, NEW c \in Connections, NEW loop \in {"owner", "other"}, Operate(p, c, loop)
      PROVE  Quarantine'
  BY <1>13 DEF Operate, Answer, is_owner_process, processVars, objectVars, Alive, Born
<1>14. ASSUME NEW p \in Processes, NEW c \in Connections, Finalize(p, c)
      PROVE  Quarantine'
  BY <1>14 DEF Finalize, Drop, is_owner_process, processVars, Alive, Born
<1>15. ASSUME NEW c \in Connections, DriverEnds(c)
      PROVE  Quarantine'
  BY <1>15 DEF DriverEnds, processVars, objectVars, Alive, Born
<1>16. CASE UNCHANGED vars
  BY <1>16 DEF vars, processVars, objectVars, driverVars, Alive, Born
<1> HIDE DEF TypeOK, OwnerInv, Quarantine
<1> QED
  BY <1>1, <1>2, <1>3, <1>4, <1>5, <1>6, <1>7, <1>8, <1>9, <1>10, <1>11, <1>12, <1>13, <1>14, <1>15, <1>16
     DEF Next, ProcessStep, ConnectionStep, RuntimeStep, LoopStep

\* A process that inherited the module does not pass the comparison.
LEMMA ClosedStep ==
    ASSUME TypeOK, OwnerInv, FailsClosed, [Next]_vars
    PROVE  FailsClosed'
<1> USE ContextAssumption DEF TypeOK, OwnerInv, FailsClosed
<1>1. ASSUME NEW p \in Processes, NEW interpreter \in {"main", "sub"}, Import(p, interpreter)
      PROVE  FailsClosed'
  BY <1>1 DEF Import, Claim, Answer, Objects, is_owner_process, objectVars, driverVars, Alive, Born
<1>2. ASSUME NEW p \in Processes, NEW q \in Processes, NEW n \in Pids, Fork(p, q, n)
      PROVE  FailsClosed'
  BY <1>2 DEF Fork, Free, driverVars, Alive, Born
<1>3. ASSUME NEW p \in Processes, Exit(p)
      PROVE  FailsClosed'
  BY <1>3 DEF Exit, objectVars, Alive, Born
<1>4. ASSUME NEW p \in Processes, CloseLoop(p)
      PROVE  FailsClosed'
  BY <1>4 DEF CloseLoop, processVars, driverVars, Alive, Born
<1>5. ASSUME NEW p \in Processes, NEW c \in Connections,
                  NEW running \in BOOLEAN, NEW valid \in BOOLEAN, Connect(p, c, running, valid)
      PROVE  FailsClosed'
  BY <1>5 DEF Connect, Answer, Move, is_owner_process, processVars, Alive, Born
<1>6. ASSUME NEW p \in Processes, NEW c \in Connections, CancelConnect(p, c)
      PROVE  FailsClosed'
  BY <1>6 DEF CancelConnect, processVars, driverVars, Alive, Born
<1>7. ASSUME NEW p \in Processes, NEW c \in Connections, ConnectFails(p, c)
      PROVE  FailsClosed'
  BY <1>7 DEF ConnectFails, Move, processVars, driverVars, Alive, Born
<1>8. ASSUME NEW p \in Processes, NEW c \in Connections, Established(p, c)
      PROVE  FailsClosed'
  BY <1>8 DEF Established, Move, processVars, Alive, Born
<1>9. ASSUME NEW p \in Processes, NEW c \in Connections, Post(p, c)
      PROVE  FailsClosed'
  BY <1>9 DEF Post, Move, Drop, is_owner_process, processVars, Alive, Born
<1>10. ASSUME NEW p \in Processes, NEW c \in Connections, Delivered(p, c)
      PROVE  FailsClosed'
  BY <1>10 DEF Delivered, Move, processVars, driverVars, Alive, Born
<1>11. ASSUME NEW p \in Processes, NEW c \in Connections, Opened(p, c)
      PROVE  FailsClosed'
  BY <1>11 DEF Opened, Move, processVars, driverVars, Alive, Born
<1>12. ASSUME NEW p \in Processes, NEW c \in Connections, Unclaimed(p, c)
      PROVE  FailsClosed'
  BY <1>12 DEF Unclaimed, Drop, is_owner_process, processVars, Alive, Born
<1>13. ASSUME NEW p \in Processes, NEW c \in Connections, NEW loop \in {"owner", "other"}, Operate(p, c, loop)
      PROVE  FailsClosed'
  BY <1>13 DEF Operate, Answer, is_owner_process, processVars, objectVars, Alive, Born
<1>14. ASSUME NEW p \in Processes, NEW c \in Connections, Finalize(p, c)
      PROVE  FailsClosed'
  BY <1>14 DEF Finalize, Drop, is_owner_process, processVars, Alive, Born
<1>15. ASSUME NEW c \in Connections, DriverEnds(c)
      PROVE  FailsClosed'
  BY <1>15 DEF DriverEnds, processVars, objectVars, Alive, Born
<1>16. CASE UNCHANGED vars
  BY <1>16 DEF vars, processVars, objectVars, driverVars, Alive, Born
<1> HIDE DEF TypeOK, OwnerInv, FailsClosed
<1> QED
  BY <1>1, <1>2, <1>3, <1>4, <1>5, <1>6, <1>7, <1>8, <1>9, <1>10, <1>11, <1>12, <1>13, <1>14, <1>15, <1>16
     DEF Next, ProcessStep, ConnectionStep, RuntimeStep, LoopStep

Inv == TypeOK /\ OwnerInv /\ Quarantine /\ FailsClosed /\ NoOrphan

LEMMA InvInit == ASSUME Init PROVE Inv
<1> USE ContextAssumption DEF Init
<1>1. TypeOK
  BY DEF TypeOK, Answers, Stages
<1>2. OwnerInv
  BY DEF OwnerInv, Born
<1>3. Quarantine /\ FailsClosed /\ NoOrphan
  BY DEF Quarantine, FailsClosed, NoOrphan
<1> QED BY <1>1, <1>2, <1>3 DEF Inv

LEMMA InvHolds == ASSUME ~MayRecycle PROVE Spec => []Inv
<1>1. Inv /\ [Next]_vars => Inv'
  BY TypeStep, OwnerStep, OrphanStep, QuarantineStep, ClosedStep DEF Inv
<1> QED BY InvInit, <1>1, PTL DEF Spec

\* Types, and a process is claimed exactly where the module is loaded.
THEOREM TypeCorrect == ASSUME ~MayRecycle PROVE Spec => []TypeOK
<1>1. Inv => TypeOK
  BY DEF Inv
<1> QED BY InvHolds, <1>1, PTL

\* Process ids tell the processes apart, and objects stay with their owner's heirs.
THEOREM OwnerInvHolds == ASSUME ~MayRecycle PROVE Spec => []OwnerInv
<1>1. Inv => OwnerInv
  BY DEF Inv
<1> QED BY InvHolds, <1>1, PTL

\* No process but its home touches the Tokio state of a connection.
THEOREM QuarantineHolds == ASSUME ~MayRecycle PROVE Spec => []Quarantine
<1>1. Inv => Quarantine
  BY DEF Inv
<1> QED BY InvHolds, <1>1, PTL

\* Every call in a process that inherited the module is refused.
THEOREM FailsClosedHolds == ASSUME ~MayRecycle PROVE Spec => []FailsClosed
<1>1. Inv => FailsClosed
  BY DEF Inv
<1> QED BY InvHolds, <1>1, PTL

\* A running driver has an owner, in every interleaving of connect, cancellation,
\* loop and finalizer.
THEOREM NoOrphanHolds == ASSUME ~MayRecycle PROVE Spec => []NoOrphan
<1>1. Inv => NoOrphan
  BY DEF Inv
<1> QED BY InvHolds, <1>1, PTL
=============================================================================
