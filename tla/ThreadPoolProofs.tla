-------------------------- MODULE ThreadPoolProofs --------------------------
(***************************************************************************)
(* Theorems about ThreadPool for every number of threads and clients and   *)
(* every configuration.                                                    *)
(***************************************************************************)
EXTENDS ThreadPool, FiniteSetTheorems, TLAPS

-----------------------------------------------------------------------------
(* Remainders, as far as the ring needs them. *)

LEMMA RemainderBound ==
  ASSUME NEW n \in Nat \ {0}, NEW a \in Nat
  PROVE  a % n \in 0 .. n - 1
  OBVIOUS

-----------------------------------------------------------------------------
(* Type correctness. *)

LEMMA InitType == Init => TypeOK
  BY PoolAssumption DEF Init, TypeOK, MainPc, WorkerPc, StopPc, Slot

(* what spawn() changes has its type *)
LEMMA StartThreadType ==
  ASSUME TypeOK, NEW s \in Slot, StartThread(s)
  PROVE  /\ wpc' \in [Threads -> WorkerPc]
         /\ slotOf' \in [Threads -> Slot]
         /\ slots' \in [Slot -> {"empty", "live", "torn", "freed"}]
  BY DEF TypeOK, StartThread, Goto, WorkerPc

LEMMA SpawnFailsType ==
  ASSUME TypeOK, NEW s \in Slot, SpawnFails(s)
  PROVE  /\ wpc' \in [Threads -> WorkerPc]
         /\ slotOf' \in [Threads -> Slot]
         /\ slots' \in [Slot -> {"empty", "live", "torn", "freed"}]
  <1>1. CASE StartThread(s)
    BY <1>1, StartThreadType
  <1>2. CASE slots' = [slots EXCEPT ![s] = "torn"] /\ UNCHANGED <<wpc, slotOf>>
    BY <1>2 DEF TypeOK
  <1> QED
    BY <1>1, <1>2 DEF SpawnFails

LEMMA TypeStep == TypeOK /\ [Next]_vars => TypeOK'
<1> SUFFICES ASSUME TypeOK, [Next]_vars PROVE TypeOK'
  OBVIOUS
<1> USE PoolAssumption
    DEF TypeOK, MainPc, WorkerPc, StopPc, Slot, Goto, vars, queueVars, poolVars, mainVars,
        workVars, stopVars
<1>1. CASE BootWorker
  BY <1>1, StartThreadType DEF BootWorker
<1>2. CASE BootFails
  BY <1>2, SpawnFailsType DEF BootFails
<1>3. CASE BootDone
  BY <1>3 DEF BootDone
<1>4. CASE Listen
  BY <1>4 DEF Listen
<1>5. CASE LockRoom
  BY <1>5 DEF LockRoom
<1>6. CASE AwaitRoom
  BY <1>6 DEF AwaitRoom
<1>7. CASE LockPool
  BY <1>7 DEF LockPool
<1>8. CASE ScaleUp
  BY <1>8, StartThreadType, SpawnFailsType DEF ScaleUp, MustGrow, NewSize
<1>9. CASE Accept
  BY <1>9 DEF Accept
<1>10. CASE AcceptFails
  BY <1>10 DEF AcceptFails
<1>11. CASE LockPush
  BY <1>11 DEF LockPush
<1>12. CASE Push
  <2>1. tail' \in 0 .. QueueSize - 1
    BY <1>12, RemainderBound, tail + 1 \in Nat DEF Push, NextPlace
  <2>2. wpc' \in [Threads -> {"dead", "lockTake", "holdTake", "waitTask", "lockBusy", "holdBusy",
                              "handle", "lockIdle", "holdIdle", "exit"}]
    <3>1. SUFFICES ASSUME NEW u \in Threads, wpc' = [wpc EXCEPT ![u] = "lockTake"]
                   PROVE  wpc' \in [Threads -> WorkerPc]
      BY <1>12 DEF Push, SignalFilled
    <3> QED
      BY <3>1
  <2>3. tasks' \in [0 .. QueueSize - 1 -> Conns \cup {None}]
    BY <1>12 DEF Push
  <2>4. qsize' \in Nat /\ mpc' = "lockRoom" /\ msock' = None /\ qlock' = None
    BY <1>12 DEF Push
  <2>5. UNCHANGED <<stopVars, sock, head, slotOf, task, poolVars>>
    BY <1>12 DEF Push
  <2> QED
    BY <2>1, <2>2, <2>3, <2>4, <2>5
<1>13. ASSUME NEW t \in Threads, LockTake(t) PROVE TypeOK'
  BY <1>13 DEF LockTake
<1>14. ASSUME NEW t \in Threads, AwaitTask(t) PROVE TypeOK'
  BY <1>14 DEF AwaitTask
<1>15. ASSUME NEW t \in Threads, Take(t) PROVE TypeOK'
  <2>1. head' \in 0 .. QueueSize - 1
    BY <1>15, RemainderBound, head + 1 \in Nat DEF Take, NextPlace
  <2>2. qsize' \in Nat
    BY <1>15 DEF Take
  <2>3. task' \in [Threads -> Conns \cup {None}]
    BY <1>15 DEF Take
  <2> QED
    BY <1>15, <2>1, <2>2, <2>3 DEF Take
<1>16. ASSUME NEW t \in Threads, LockBusy(t) PROVE TypeOK'
  BY <1>16 DEF LockBusy
<1>17. ASSUME NEW t \in Threads, Busy(t) PROVE TypeOK'
  BY <1>17 DEF Busy
<1>18. ASSUME NEW t \in Threads, Handle(t) PROVE TypeOK'
  BY <1>18 DEF Handle
<1>19. ASSUME NEW t \in Threads, LockIdle(t) PROVE TypeOK'
  BY <1>19 DEF LockIdle
<1>20. ASSUME NEW t \in Threads, Idle(t) PROVE TypeOK'
  <2>1. size' \in 0 .. Byte - 1
    BY <1>20 DEF Idle, MustShrink
  <2>2. wpc' \in [Threads -> {"dead", "lockTake", "holdTake", "waitTask", "lockBusy", "holdBusy",
                              "handle", "lockIdle", "holdIdle", "exit"}]
    BY <1>20 DEF Idle
  <2>3. slots' \in [0 .. Byte - 1 -> {"empty", "live", "torn", "freed"}]
    BY <1>20 DEF Idle
  <2>4. hpc' \in {"idle", "lock", "check", "wait", "close", "exit"} /\ load' \in Int
    BY <1>20 DEF Idle, SignalAvailable
  <2> QED
    BY <1>20, <2>1, <2>2, <2>3, <2>4 DEF Idle
<1>21. ASSUME NEW t \in Threads, Exit(t) PROVE TypeOK'
  BY <1>21 DEF Exit
<1>22. CASE StopLock
  BY <1>22 DEF StopLock
<1>23. CASE StopCheck
  BY <1>23 DEF StopCheck
<1>24. CASE StopClose
  BY <1>24 DEF StopClose
<1>25. CASE StopExit
  BY <1>25 DEF StopExit
<1>26. CASE SpuriousWakeup
  BY <1>26 DEF SpuriousWakeup
<1>27. CASE Exited
  BY <1>27 DEF Exited
<1>28. ASSUME NEW t \in SignalThreads, Interrupt(t) PROVE TypeOK'
  BY <1>28 DEF Interrupt
<1>29. CASE UNCHANGED vars
  BY <1>29
<1> QED
  BY <1>1, <1>2, <1>3, <1>4, <1>5, <1>6, <1>7, <1>8, <1>9, <1>10, <1>11, <1>12, <1>13, <1>14, <1>15, <1>16, <1>17, <1>18, <1>19, <1>20, <1>21, <1>22, <1>23, <1>24, <1>25, <1>26, <1>27, <1>28, <1>29
  DEF Next, MainStep, WorkerStep, StopStep

(***************************************************************************)
(* Every variable keeps its type: the indexes stay inside the ring and     *)
(* inside the array of workers of a byte's length.                         *)
(***************************************************************************)
THEOREM TypeCorrect == Spec => []TypeOK
<1>1. Init => TypeOK
  BY InitType
<1>2. TypeOK /\ [Next]_vars => TypeOK'
  BY TypeStep
<1> QED
  BY <1>1, <1>2, PTL DEF Spec

-----------------------------------------------------------------------------
(***************************************************************************)
(* Who owns which worker_t.  The inductive invariant says it pointwise:    *)
(* the working threads have distinct slots below size, and every slot      *)
(* below size is somebody's.                                               *)
(***************************************************************************)
SlotsDistinct == \A t, u \in Working : slotOf[t] = slotOf[u] => t = u
SlotsBelow == \A t \in Working : slotOf[t] < size
SlotsFilled == \A s \in 0 .. size - 1 : \E t \in Working : slotOf[t] = s

SlotInv == TypeOK /\ SlotsDistinct /\ SlotsBelow /\ SlotsFilled /\ PoolBounded

LEMMA SlotInvInit ==
  ASSUME ConfigSane
  PROVE  Init => SlotInv
  BY InitType, PoolAssumption
  DEF Init, ConfigSane, SlotInv, SlotsDistinct, SlotsBelow, SlotsFilled, PoolBounded, Working

(* A step that starts no thread, ends none and moves no slot keeps the facts. *)
LEMMA SlotsUntouched ==
  ASSUME SlotInv, TypeOK', Working' = Working, size' = size, slotOf' = slotOf,
         \A t \in Threads : wpc'[t] # "dead" => wpc[t] # "dead",
         mpc' # "boot" => mpc # "boot" \/ LeastWorkers <= size
  PROVE  SlotInv'
  BY DEF SlotInv, SlotsDistinct, SlotsBelow, SlotsFilled, PoolBounded

(* So does one that moves a working thread to another step of its work. *)
LEMMA SlotsMoved ==
  ASSUME SlotInv, TypeOK', NEW t \in Threads, NEW pc, Goto(t, pc),
         wpc[t] \notin {"dead", "exit"}, pc \notin {"dead", "exit"},
         UNCHANGED <<size, slotOf>>, mpc' # "boot" => mpc # "boot"
  PROVE  SlotInv'
  <1>1. Working' = Working
    BY DEF Working, Goto, SlotInv, TypeOK
  <1>2. \A u \in Threads : wpc'[u] # "dead" => wpc[u] # "dead"
    BY DEF Goto, SlotInv, TypeOK
  <1> QED
    BY <1>1, <1>2, SlotsUntouched

(* A started thread takes the first free slot. *)
LEMMA SlotsGrown ==
  ASSUME SlotInv, TypeOK', StartThread(size), size' = size + 1, size + 1 <= MostWorkers,
         mpc' # "boot" => mpc # "boot"
  PROVE  SlotInv'
  <1>1. PICK n \in Threads : /\ wpc[n] = "dead"
                             /\ wpc' = [wpc EXCEPT ![n] = "lockTake"]
                             /\ slotOf' = [slotOf EXCEPT ![n] = size]
    BY DEF StartThread, Goto
  <1>2. Working' = Working \cup {n} /\ n \notin Working
    BY <1>1 DEF Working, SlotInv, TypeOK
  <1>3. slotOf'[n] = size /\ \A t \in Working : slotOf'[t] = slotOf[t]
    BY <1>1, <1>2 DEF Working, SlotInv, TypeOK
  <1>4. size \in Nat /\ \A t \in Threads : slotOf[t] \in Nat
    BY PoolAssumption DEF SlotInv, TypeOK, Slot
  <1>5. SlotsDistinct' /\ SlotsBelow'
    BY <1>2, <1>3, <1>4, \A t \in Working : t \in Threads
    DEF SlotInv, SlotsDistinct, SlotsBelow, Working
  <1>6. SlotsFilled'
    BY <1>2, <1>3, <1>4 DEF SlotInv, SlotsFilled
  <1>7. PoolBounded'
    BY <1>1, <1>4, PoolAssumption DEF SlotInv, PoolBounded, TypeOK
  <1> QED
    BY <1>5, <1>6, <1>7 DEF SlotInv

(* A leaving thread gives back the last slot. *)
LEMMA SlotsShrunk ==
  ASSUME SlotInv, TypeOK', NEW t \in Working, Goto(t, "exit"), MustShrink(t),
         size' = size - 1, UNCHANGED slotOf, mpc' # "boot" => mpc # "boot"
  PROVE  SlotInv'
  <1>1. Working' = Working \ {t}
    BY DEF Working, Goto, SlotInv, TypeOK
  <1>2. slotOf[t] + 1 = size /\ LeastWorkers <= slotOf[t]
    BY PoolAssumption DEF MustShrink, SlotInv, TypeOK, Slot, Working
  <1>3. size \in Nat /\ \A u \in Working : slotOf[u] \in Nat
    BY PoolAssumption DEF SlotInv, TypeOK, Slot, Working
  <1>4. SlotsDistinct'
    BY <1>1 DEF SlotInv, SlotsDistinct
  <1>5. SlotsBelow'
    BY <1>1, <1>2, <1>3 DEF SlotInv, SlotsDistinct, SlotsBelow
  <1>6. SlotsFilled'
    BY <1>1, <1>2, <1>3 DEF SlotInv, SlotsFilled
  <1>7. PoolBounded'
    BY <1>2, <1>3, PoolAssumption DEF SlotInv, PoolBounded, TypeOK, Goto, Working
  <1> QED
    BY <1>4, <1>5, <1>6, <1>7 DEF SlotInv

(* A failed start changes no thread when only the setup can fail. *)
LEMMA SpawnFailsQuietly ==
  ASSUME "detach" \notin SpawnFaults, NEW s, SpawnFails(s)
  PROVE  UNCHANGED <<wpc, slotOf>> /\ slots' = [slots EXCEPT ![s] = "torn"]
  BY DEF SpawnFails

LEMMA SlotStep ==
  ASSUME ConfigSane, "detach" \notin SpawnFaults
  PROVE  SlotInv /\ [Next]_vars => SlotInv'
<1> SUFFICES ASSUME SlotInv, [Next]_vars PROVE SlotInv'
  OBVIOUS
<1>0. TypeOK /\ TypeOK'
  BY TypeStep DEF SlotInv
<1>a. size \in Nat
  BY <1>0, PoolAssumption DEF TypeOK, Slot
<1> USE <1>0 DEF vars, queueVars, poolVars, mainVars, workVars, stopVars
<1>1. CASE BootWorker
  <2>1. size + 1 <= MostWorkers
    BY <1>1, <1>a, PoolAssumption DEF BootWorker, ConfigSane
  <2> QED
    BY <1>1, <2>1, SlotsGrown DEF BootWorker
<1>2. CASE BootFails
  BY <1>2, SlotsUntouched, SpawnFailsQuietly DEF BootFails, Working
<1>3. CASE BootDone
  BY <1>3, SlotsUntouched DEF BootDone, Working
<1>4. CASE Listen
  BY <1>4, SlotsUntouched DEF Listen, Working
<1>5. CASE LockRoom
  BY <1>5, SlotsUntouched DEF LockRoom, Working
<1>6. CASE AwaitRoom
  BY <1>6, SlotsUntouched DEF AwaitRoom, Working
<1>7. CASE LockPool
  BY <1>7, SlotsUntouched DEF LockPool, Working
<1>8. CASE ScaleUp
  <2>1. CASE MustGrow /\ StartThread(size) /\ size' = NewSize
    <3>1. size + 1 <= MostWorkers /\ NewSize = size + 1
      BY <2>1, <1>a, PoolAssumption DEF MustGrow, NewSize, ConfigSane, SlotInv, PoolBounded
    <3> QED
      BY <1>8, <2>1, <3>1, SlotsGrown DEF ScaleUp
  <2>2. CASE MustGrow /\ SpawnFails(size) /\ UNCHANGED size
    BY <1>8, <2>2, SpawnFailsQuietly, SlotsUntouched DEF ScaleUp, Working
  <2>3. CASE UNCHANGED <<size, wpc, slotOf, slots>>
    BY <1>8, <2>3, SlotsUntouched DEF ScaleUp, Working
  <2> QED
    BY <1>8, <2>1, <2>2, <2>3 DEF ScaleUp
<1>9. CASE Accept
  BY <1>9, SlotsUntouched DEF Accept, Working
<1>10. CASE AcceptFails
  BY <1>10, SlotsUntouched DEF AcceptFails, Working
<1>11. CASE LockPush
  BY <1>11, SlotsUntouched DEF LockPush, Working
<1>12. CASE Push
  <2>1. CASE UNCHANGED wpc
    BY <1>12, <2>1, SlotsUntouched DEF Push, Working
  <2>2. ASSUME NEW t \in Threads, wpc[t] = "waitTask", Goto(t, "lockTake")
        PROVE  SlotInv'
    BY <1>12, <2>2, SlotsMoved DEF Push
  <2> QED
    BY <1>12, <2>1, <2>2 DEF Push, SignalFilled
<1>13. ASSUME NEW t \in Threads, LockTake(t) PROVE SlotInv'
  BY <1>13, SlotsMoved DEF LockTake, At
<1>14. ASSUME NEW t \in Threads, AwaitTask(t) PROVE SlotInv'
  BY <1>14, SlotsMoved DEF AwaitTask, At
<1>15. ASSUME NEW t \in Threads, Take(t) PROVE SlotInv'
  BY <1>15, SlotsMoved DEF Take, At
<1>16. ASSUME NEW t \in Threads, LockBusy(t) PROVE SlotInv'
  BY <1>16, SlotsMoved DEF LockBusy, At
<1>17. ASSUME NEW t \in Threads, Busy(t) PROVE SlotInv'
  BY <1>17, SlotsMoved DEF Busy, At
<1>18. ASSUME NEW t \in Threads, Handle(t) PROVE SlotInv'
  BY <1>18, SlotsMoved DEF Handle, At
<1>19. ASSUME NEW t \in Threads, LockIdle(t) PROVE SlotInv'
  BY <1>19, SlotsMoved DEF LockIdle, At
<1>20. ASSUME NEW t \in Threads, Idle(t) PROVE SlotInv'
  <2>1. CASE MustShrink(t)
    BY <1>20, <2>1, SlotsShrunk DEF Idle, At, Working
  <2>2. CASE ~MustShrink(t)
    BY <1>20, <2>2, SlotsMoved DEF Idle, At
  <2> QED
    BY <2>1, <2>2
<1>21. ASSUME NEW t \in Threads, Exit(t) PROVE SlotInv'
  <2>1. wpc[t] = "exit" /\ wpc' = [wpc EXCEPT ![t] = "dead"] /\ slotOf' = [slotOf EXCEPT ![t] = 0]
    BY <1>21 DEF Exit, At, Goto
  <2>2. Working' = Working /\ \A u \in Working : slotOf'[u] = slotOf[u]
    BY <2>1 DEF Working, TypeOK
  <2>3. SlotsDistinct' /\ SlotsBelow' /\ SlotsFilled'
    BY <1>21, <2>2 DEF Exit, SlotInv, SlotsDistinct, SlotsBelow, SlotsFilled
  <2>4. PoolBounded'
    BY <1>21, <2>1 DEF Exit, SlotInv, PoolBounded, TypeOK
  <2> QED
    BY <2>3, <2>4 DEF SlotInv
<1>22. ASSUME NEW t \in SignalThreads, Interrupt(t) PROVE SlotInv'
  BY <1>22, SlotsUntouched DEF Interrupt, Working
<1>23. CASE StopLock
  BY <1>23, SlotsUntouched DEF StopLock, Working
<1>24. CASE StopCheck
  BY <1>24, SlotsUntouched DEF StopCheck, Working
<1>25. CASE StopClose
  BY <1>25, SlotsUntouched DEF StopClose, Working
<1>26. CASE StopExit
  BY <1>26, SlotsUntouched DEF StopExit, Working
<1>27. CASE SpuriousWakeup
  <2>1. CASE UNCHANGED wpc
    BY <1>27, <2>1, SlotsUntouched DEF SpuriousWakeup, Working
  <2>2. ASSUME NEW t \in Threads, wpc[t] = "waitTask", Goto(t, "lockTake"), UNCHANGED mpc
        PROVE  SlotInv'
    BY <1>27, <2>2, SlotsMoved DEF SpuriousWakeup
  <2> QED
    BY <1>27, <2>1, <2>2 DEF SpuriousWakeup
<1>28. CASE UNCHANGED vars
  BY <1>28, SlotsUntouched DEF Working
<1> QED
  BY <1>1, <1>2, <1>3, <1>4, <1>5, <1>6, <1>7, <1>8, <1>9, <1>10, <1>11, <1>12, <1>13, <1>14, <1>15, <1>16, <1>17, <1>18, <1>19, <1>20, <1>21, <1>22, <1>23, <1>24, <1>25, <1>26, <1>27, <1>28
  DEF Next, MainStep, WorkerStep, StopStep, Exited

(***************************************************************************)
(* However the pool grows and shrinks, and whether or not starting a       *)
(* thread fails, the working threads own the first size worker_t's, one    *)
(* each, and the pool keeps to its two sizes -- provided these are in      *)
(* order, below a byte's last value, and pthread_detach does not fail.     *)
(***************************************************************************)
THEOREM SlotsOwned ==
  ASSUME ConfigSane, "detach" \notin SpawnFaults
  PROVE  Spec => [](OneWorkerPerSlot /\ PoolBounded)
<1>1. Init => SlotInv
  BY SlotInvInit
<1>2. SlotInv /\ [Next]_vars => SlotInv'
  BY SlotStep
<1>3. SlotInv => OneWorkerPerSlot /\ PoolBounded
  <2> SUFFICES ASSUME SlotInv PROVE {slotOf[t] : t \in Working} = 0 .. size - 1
    BY DEF SlotInv, SlotsDistinct, OneWorkerPerSlot
  <2>1. \A t \in Working : slotOf[t] \in 0 .. size - 1
    BY PoolAssumption DEF SlotInv, SlotsBelow, TypeOK, Slot, Working
  <2> QED
    BY <2>1 DEF SlotInv, SlotsFilled
<1> QED
  BY <1>1, <1>2, <1>3, PTL DEF Spec

(* The second half of it, for a reader who asks for the sizes alone.  *)
THEOREM SizeBounded ==
  ASSUME ConfigSane, "detach" \notin SpawnFaults
  PROVE  Spec => []PoolBounded
  BY SlotsOwned, PTL

-----------------------------------------------------------------------------
(* The ring.  RingConsistent is inductive once the types are known. *)
RingInv == TypeOK /\ RingConsistent

LEMMA RingUntouched ==
  ASSUME RingInv, TypeOK', UNCHANGED <<head, tail, qsize>>, RoomKept' => RoomKept
  PROVE  RingInv'
  BY DEF RingInv, RingConsistent

LEMMA RingPushed ==
  ASSUME RingInv, TypeOK', RoomKept, ~RoomKept',
         qsize' = qsize + 1, tail' = NextPlace(tail), UNCHANGED head
  PROVE  RingInv'
  <1>1. /\ QueueSize \in Nat \ {0} /\ qsize \in 0 .. QueueSize - 1
        /\ head \in 0 .. QueueSize - 1 /\ tail \in 0 .. QueueSize - 1
    BY PoolAssumption DEF RingInv, RingConsistent, TypeOK
  <1>2. (head + qsize) % QueueSize
          = IF head + qsize < QueueSize THEN head + qsize ELSE head + qsize - QueueSize
    BY <1>1
  <1>3. (tail + 1) % QueueSize = IF tail + 1 < QueueSize THEN tail + 1 ELSE tail + 1 - QueueSize
    BY <1>1
  <1>4. (head + (qsize + 1)) % QueueSize
          = IF head + (qsize + 1) < QueueSize THEN head + (qsize + 1)
                                              ELSE head + (qsize + 1) - QueueSize
    BY <1>1
  <1>5. tail' = (head' + qsize') % QueueSize
    BY <1>1, <1>2, <1>3, <1>4 DEF NextPlace, RingInv, RingConsistent
  <1> QED
    BY <1>1, <1>5 DEF RingInv, RingConsistent

LEMMA RingTaken ==
  ASSUME RingInv, TypeOK', qsize # 0, RoomKept' => RoomKept,
         qsize' = qsize - 1, head' = NextPlace(head), UNCHANGED tail
  PROVE  RingInv'
  <1>1. /\ QueueSize \in Nat \ {0} /\ qsize \in 1 .. QueueSize
        /\ head \in 0 .. QueueSize - 1
    BY PoolAssumption DEF RingInv, RingConsistent, TypeOK
  <1>2. (head + qsize) % QueueSize
          = IF head + qsize < QueueSize THEN head + qsize ELSE head + qsize - QueueSize
    BY <1>1
  <1>3. head' = IF head + 1 < QueueSize THEN head + 1 ELSE head + 1 - QueueSize
    BY <1>1 DEF NextPlace
  <1>4. head' \in 0 .. QueueSize - 1 /\ qsize' \in 0 .. QueueSize
    BY <1>1, <1>3
  <1>5. (head' + qsize') % QueueSize
          = IF head' + qsize' < QueueSize THEN head' + qsize' ELSE head' + qsize' - QueueSize
    BY <1>1, <1>4
  <1>6. tail' = (head' + qsize') % QueueSize
    BY <1>1, <1>2, <1>3, <1>5 DEF RingInv, RingConsistent
  <1> QED
    BY <1>1, <1>6 DEF RingInv, RingConsistent

LEMMA RingStep == RingInv /\ [Next]_vars => RingInv'
<1> SUFFICES ASSUME RingInv, [Next]_vars PROVE RingInv'
  OBVIOUS
<1>0. TypeOK /\ TypeOK'
  BY TypeStep DEF RingInv
<1> USE <1>0 DEF vars, queueVars, poolVars, mainVars, workVars, stopVars
<1>1. CASE BootWorker \/ BootFails \/ BootDone \/ Listen
  BY <1>1, RingUntouched DEF BootWorker, BootFails, BootDone, Listen, RoomKept
<1>2. CASE LockRoom
  BY <1>2, RingUntouched DEF LockRoom, RoomKept
<1>3. CASE AwaitRoom
  <2>1. RoomKept' => qsize' < QueueSize
    BY <1>3, PoolAssumption DEF AwaitRoom, QueueFull, RoomKept, TypeOK
  <2> QED
    BY <1>3, <2>1 DEF AwaitRoom, RingInv, RingConsistent
<1>4. CASE LockPool \/ ScaleUp \/ Accept \/ AcceptFails \/ LockPush
  BY <1>4, RingUntouched DEF LockPool, ScaleUp, Accept, AcceptFails, LockPush, RoomKept
<1>5. CASE Push
  BY <1>5, RingPushed DEF Push, RoomKept
<1>6. ASSUME NEW t \in Threads, LockTake(t) PROVE RingInv'
  BY <1>6, RingUntouched DEF LockTake, RoomKept
<1>7. ASSUME NEW t \in Threads, AwaitTask(t) PROVE RingInv'
  BY <1>7, RingUntouched DEF AwaitTask, RoomKept
<1>8. ASSUME NEW t \in Threads, LockBusy(t) PROVE RingInv'
  BY <1>8, RingUntouched DEF LockBusy, RoomKept
<1>9. ASSUME NEW t \in Threads, Busy(t) PROVE RingInv'
  BY <1>9, RingUntouched DEF Busy, RoomKept
<1>10. ASSUME NEW t \in Threads, Handle(t) PROVE RingInv'
  BY <1>10, RingUntouched DEF Handle, RoomKept
<1>11. ASSUME NEW t \in Threads, LockIdle(t) PROVE RingInv'
  BY <1>11, RingUntouched DEF LockIdle, RoomKept
<1>12. ASSUME NEW t \in Threads, Idle(t) PROVE RingInv'
  BY <1>12, RingUntouched DEF Idle, RoomKept
<1>13. ASSUME NEW t \in Threads, Exit(t) PROVE RingInv'
  BY <1>13, RingUntouched DEF Exit, RoomKept
<1>14. ASSUME NEW t \in Threads, Take(t) PROVE RingInv'
  BY <1>14, RingTaken DEF Take, RoomKept
<1>15. ASSUME NEW t \in SignalThreads, Interrupt(t) PROVE RingInv'
  BY <1>15, RingUntouched DEF Interrupt, RoomKept
<1>16. CASE StopStep
  BY <1>16, RingUntouched DEF StopStep, StopLock, StopCheck, StopClose, StopExit, RoomKept
<1>17. CASE SpuriousWakeup
  BY <1>17, RingUntouched DEF SpuriousWakeup, RoomKept
<1>18. CASE UNCHANGED vars
  BY <1>18, RingUntouched DEF RoomKept
<1> QED
  BY <1>1, <1>2, <1>3, <1>4, <1>5, <1>6, <1>7, <1>8, <1>9, <1>10, <1>11, <1>12, <1>13, <1>14, <1>15, <1>16, <1>17, <1>18
  DEF Next, MainStep, WorkerStep, Exited

(***************************************************************************)
(* The room main() saw is there when it pushes, and the ring never holds   *)
(* more clients than it has places, with any number of workers and         *)
(* wherever a signal strikes.                                              *)
(***************************************************************************)
THEOREM RingAlwaysConsistent == Spec => []RingConsistent
<1>1. Init => RingInv
  <2> SUFFICES ASSUME Init PROVE RingConsistent
    BY InitType DEF RingInv
  <2> QED
    BY PoolAssumption DEF Init, RingConsistent, RoomKept
<1>2. RingInv /\ [Next]_vars => RingInv'
  BY RingStep
<1>3. RingInv => RingConsistent
  BY DEF RingInv
<1> QED
  BY <1>1, <1>2, <1>3, PTL DEF Spec

-----------------------------------------------------------------------------
(* The load. *)
LoadInv == TypeOK /\ LoadExact

LEMMA CountedFinite == CountedBusy \in SUBSET Threads /\ IsFiniteSet(CountedBusy)
  BY PoolAssumption, FS_Subset DEF CountedBusy

LEMMA LoadUntouched ==
  ASSUME LoadInv, TypeOK', CountedBusy' = CountedBusy, load' = load
  PROVE  LoadInv'
  BY DEF LoadInv, LoadExact

LEMMA LoadMoved ==
  ASSUME LoadInv, TypeOK', NEW t \in Threads, NEW pc, Goto(t, pc), UNCHANGED load,
         wpc[t] \in {"handle", "lockIdle", "holdIdle"} <=> pc \in {"handle", "lockIdle", "holdIdle"}
  PROVE  LoadInv'
  BY LoadUntouched DEF CountedBusy, Goto, LoadInv, TypeOK

LEMMA LoadStarted ==
  ASSUME LoadInv, TypeOK', NEW s, StartThread(s), UNCHANGED load
  PROVE  LoadInv'
  BY LoadMoved DEF StartThread

LEMMA LoadSpawnFails ==
  ASSUME LoadInv, TypeOK', NEW s, SpawnFails(s), UNCHANGED load
  PROVE  LoadInv'
  BY LoadStarted, LoadUntouched DEF SpawnFails, CountedBusy

LEMMA LoadRaised ==
  ASSUME LoadInv, TypeOK', NEW t \in Threads, wpc[t] = "holdBusy", Goto(t, "handle"), load' = load + 1
  PROVE  LoadInv'
  <1>1. CountedBusy' = CountedBusy \cup {t} /\ t \notin CountedBusy
    BY DEF CountedBusy, Goto, LoadInv, TypeOK
  <1>2. Cardinality(CountedBusy') = Cardinality(CountedBusy) + 1
    BY <1>1, CountedFinite, FS_AddElement
  <1> QED
    BY <1>2 DEF LoadInv, LoadExact

LEMMA LoadLowered ==
  ASSUME LoadInv, TypeOK', NEW t \in Threads, wpc[t] = "holdIdle", NEW pc, Goto(t, pc),
         pc \in {"exit", "lockTake"}, load' = load - 1
  PROVE  LoadInv'
  <1>1. CountedBusy' = CountedBusy \ {t} /\ t \in CountedBusy
    BY DEF CountedBusy, Goto, LoadInv, TypeOK
  <1>2. Cardinality(CountedBusy') = Cardinality(CountedBusy) - 1
    BY <1>1, CountedFinite, FS_RemoveElement
  <1> QED
    BY <1>2 DEF LoadInv, LoadExact

LEMMA LoadStep == LoadInv /\ [Next]_vars => LoadInv'
<1> SUFFICES ASSUME LoadInv, [Next]_vars PROVE LoadInv'
  OBVIOUS
<1>0. TypeOK /\ TypeOK'
  BY TypeStep DEF LoadInv
<1> USE <1>0 DEF vars, queueVars, poolVars, mainVars, workVars, stopVars
<1>1. CASE BootWorker
  BY <1>1, LoadStarted DEF BootWorker
<1>2. CASE BootFails
  BY <1>2, LoadSpawnFails DEF BootFails
<1>3. CASE BootDone \/ Listen \/ LockRoom \/ AwaitRoom \/ LockPool
  BY <1>3, LoadUntouched DEF BootDone, Listen, LockRoom, AwaitRoom, LockPool, CountedBusy
<1>4. CASE ScaleUp
  <2>1. CASE StartThread(size)
    BY <1>4, <2>1, LoadStarted DEF ScaleUp
  <2>2. CASE SpawnFails(size)
    BY <1>4, <2>2, LoadSpawnFails DEF ScaleUp
  <2>3. CASE UNCHANGED wpc
    BY <1>4, <2>3, LoadUntouched DEF ScaleUp, CountedBusy
  <2> QED
    BY <1>4, <2>1, <2>2, <2>3 DEF ScaleUp
<1>5. CASE Accept \/ AcceptFails \/ LockPush
  BY <1>5, LoadUntouched DEF Accept, AcceptFails, LockPush, CountedBusy
<1>6. CASE Push
  <2>1. CASE UNCHANGED wpc
    BY <1>6, <2>1, LoadUntouched DEF Push, CountedBusy
  <2>2. ASSUME NEW t \in Threads, wpc[t] = "waitTask", Goto(t, "lockTake")
        PROVE  LoadInv'
    BY <1>6, <2>2, LoadMoved DEF Push
  <2> QED
    BY <1>6, <2>1, <2>2 DEF Push, SignalFilled
<1>7. ASSUME NEW t \in Threads, LockTake(t) PROVE LoadInv'
  BY <1>7, LoadMoved DEF LockTake, At
<1>8. ASSUME NEW t \in Threads, AwaitTask(t) PROVE LoadInv'
  BY <1>8, LoadMoved DEF AwaitTask, At
<1>9. ASSUME NEW t \in Threads, Take(t) PROVE LoadInv'
  BY <1>9, LoadMoved DEF Take, At
<1>10. ASSUME NEW t \in Threads, LockBusy(t) PROVE LoadInv'
  BY <1>10, LoadMoved DEF LockBusy, At
<1>11. ASSUME NEW t \in Threads, Handle(t) PROVE LoadInv'
  BY <1>11, LoadMoved DEF Handle, At
<1>12. ASSUME NEW t \in Threads, LockIdle(t) PROVE LoadInv'
  BY <1>12, LoadMoved DEF LockIdle, At
<1>13. ASSUME NEW t \in Threads, Exit(t) PROVE LoadInv'
  BY <1>13, LoadMoved DEF Exit, At
<1>14. ASSUME NEW t \in Threads, Busy(t) PROVE LoadInv'
  BY <1>14, LoadRaised DEF Busy, At
<1>15. ASSUME NEW t \in Threads, Idle(t) PROVE LoadInv'
  <2>1. Goto(t, "exit") \/ Goto(t, "lockTake")
    BY <1>15 DEF Idle
  <2> QED
    BY <1>15, <2>1, LoadLowered DEF Idle, At
<1>16. ASSUME NEW t \in SignalThreads, Interrupt(t) PROVE LoadInv'
  BY <1>16, LoadUntouched DEF Interrupt, CountedBusy
<1>17. CASE StopStep
  BY <1>17, LoadUntouched DEF StopStep, StopLock, StopCheck, StopClose, StopExit, CountedBusy
<1>18. CASE SpuriousWakeup
  <2>1. CASE UNCHANGED wpc
    BY <1>18, <2>1, LoadUntouched DEF SpuriousWakeup, CountedBusy
  <2>2. ASSUME NEW t \in Threads, wpc[t] = "waitTask", Goto(t, "lockTake")
        PROVE  LoadInv'
    BY <1>18, <2>2, LoadMoved DEF SpuriousWakeup
  <2> QED
    BY <1>18, <2>1, <2>2 DEF SpuriousWakeup
<1>19. CASE UNCHANGED vars
  BY <1>19, LoadUntouched DEF CountedBusy
<1> QED
  BY <1>1, <1>2, <1>3, <1>4, <1>5, <1>6, <1>7, <1>8, <1>9, <1>10, <1>11, <1>12, <1>13, <1>14, <1>15, <1>16, <1>17, <1>18, <1>19
  DEF Next, MainStep, WorkerStep, Exited

LEMMA LoadInvariant == Spec => []LoadInv
<1>1. Init => LoadInv
  <2> SUFFICES ASSUME Init PROVE LoadExact
    BY InitType DEF LoadInv
  <2>1. CountedBusy = {}
    BY DEF Init, CountedBusy
  <2> QED
    BY <2>1, FS_EmptySet DEF Init, LoadExact
<1>2. LoadInv /\ [Next]_vars => LoadInv'
  BY LoadStep
<1> QED
  BY <1>1, <1>2, PTL DEF Spec

(***************************************************************************)
(* thread_pool.load is the number of workers inside their busy span, at    *)
(* every moment and in every configuration, a failed start included.       *)
(***************************************************************************)
THEOREM LoadIsExact == Spec => []LoadExact
<1>1. LoadInv => LoadExact
  BY DEF LoadInv
<1> QED
  BY <1>1, LoadInvariant, PTL

(***************************************************************************)
(* stop() never gets past its wait while a worker is inside handle().      *)
(***************************************************************************)
THEOREM StopAwaitsAllHandlers == Spec => StopAwaitsHandlers
<1>1. ASSUME LoadInv, hpc = "check", hpc' = "close", [Next]_vars
      PROVE  \A t \in Threads : wpc[t] # "handle"
  <2>1. StopCheck
    BY <1>1
    DEF Next, MainStep, WorkerStep, StopStep, vars, queueVars, poolVars, mainVars, workVars, stopVars,
        BootWorker, BootFails, BootDone, Listen, LockRoom, AwaitRoom, LockPool, ScaleUp, Accept,
        AcceptFails, LockPush, Push, LockTake, AwaitTask, Take, LockBusy, Busy, Handle, LockIdle,
        Idle, SignalAvailable, Exit, Interrupt, StopLock, StopClose, StopExit, SpuriousWakeup, Exited
  <2>2. Cardinality(CountedBusy) \in Nat /\ ~(Cardinality(CountedBusy) > 0)
    BY <1>1, <2>1, CountedFinite, FS_CardinalityType DEF StopCheck, AnyBusy, LoadInv, LoadExact
  <2>3. CountedBusy = {}
    BY <2>2, CountedFinite, FS_EmptySet
  <2> QED
    BY <2>3 DEF CountedBusy
<1>2. LoadInv /\ [Next]_vars
        => [hpc = "check" /\ hpc' = "close" => \A t \in Threads : wpc[t] # "handle"]_vars
  BY <1>1
<1> QED
  BY <1>2, LoadInvariant, PTL DEF Spec, StopAwaitsHandlers

-----------------------------------------------------------------------------
(***************************************************************************)
(* The resources of a working thread.  Its slot is live because it was     *)
(* live when the thread was started on it, because only a slot no working  *)
(* thread owns is set up or torn (the first one past size), and because a  *)
(* leaving thread releases its own, which is no other's.                   *)
(***************************************************************************)
WorkersLive == \A t \in Working : slots[slotOf[t]] = "live"

LiveInv == SlotInv /\ hpc = "idle" /\ WorkersLive

LEMMA LiveUntouched ==
  ASSUME LiveInv, SlotInv', hpc' = "idle", UNCHANGED <<slots, slotOf>>, Working' \subseteq Working
  PROVE  LiveInv'
  BY DEF LiveInv, WorkersLive

LEMMA LiveMoved ==
  ASSUME LiveInv, SlotInv', hpc' = "idle", NEW t \in Threads, NEW pc, Goto(t, pc),
         wpc[t] \notin {"dead", "exit"}, UNCHANGED <<slots, slotOf>>
  PROVE  LiveInv'
<1>1. Working' \subseteq Working
  BY DEF Working, Goto, LiveInv, SlotInv, TypeOK
<1> QED
  BY <1>1, LiveUntouched

LEMMA LiveStarted ==
  ASSUME LiveInv, SlotInv', hpc' = "idle", StartThread(size)
  PROVE  LiveInv'
<1>1. PICK n \in Threads : /\ wpc[n] = "dead"
                           /\ wpc' = [wpc EXCEPT ![n] = "lockTake"]
                           /\ slotOf' = [slotOf EXCEPT ![n] = size]
                           /\ slots' = [slots EXCEPT ![size] = "live"]
  BY DEF StartThread, Goto
<1>2. Working' = Working \cup {n} /\ Working \subseteq Threads \ {n}
  BY <1>1 DEF Working, LiveInv, SlotInv, TypeOK
<1>3. \A t \in Working' : slots'[slotOf'[t]] = "live"
  BY <1>1, <1>2 DEF LiveInv, WorkersLive, SlotInv, TypeOK
<1> QED
  BY <1>3 DEF LiveInv, WorkersLive

LEMMA LiveTorn ==
  ASSUME LiveInv, SlotInv', hpc' = "idle", UNCHANGED <<wpc, slotOf>>,
         slots' = [slots EXCEPT ![size] = "torn"]
  PROVE  LiveInv'
<1>1. \A t \in Working : slotOf[t] # size /\ slotOf[t] \in Slot
  BY PoolAssumption DEF LiveInv, SlotInv, SlotsBelow, TypeOK, Working, Slot
<1>2. Working' = Working
  BY DEF Working
<1> QED
  BY <1>1, <1>2 DEF LiveInv, WorkersLive, SlotInv, TypeOK

LEMMA LiveReleased ==
  ASSUME LiveInv, SlotInv', hpc' = "idle", NEW t \in Working, Goto(t, "exit"), UNCHANGED slotOf,
         slots' = [slots EXCEPT ![slotOf[t]] = "freed"]
  PROVE  LiveInv'
<1>1. Working' = Working \ {t}
  BY DEF Working, Goto, LiveInv, SlotInv, TypeOK
<1>2. \A u \in Working' : slotOf[u] # slotOf[t] /\ slotOf[u] \in Slot
  BY <1>1 DEF LiveInv, SlotInv, SlotsDistinct, TypeOK, Working
<1> QED
  BY <1>1, <1>2 DEF LiveInv, WorkersLive, SlotInv, TypeOK

LEMMA LiveStep ==
  ASSUME ConfigSane, "detach" \notin SpawnFaults, SignalThreads = {}
  PROVE  LiveInv /\ [Next]_vars => LiveInv'
<1> SUFFICES ASSUME LiveInv, [Next]_vars PROVE LiveInv'
  OBVIOUS
<1>0. SlotInv /\ SlotInv' /\ hpc = "idle"
  BY SlotStep DEF LiveInv
<1> USE <1>0 DEF vars, queueVars, poolVars, mainVars, workVars, stopVars
<1>1. CASE BootWorker
  BY <1>1, LiveStarted DEF BootWorker
<1>2. CASE BootFails
  BY <1>2, SpawnFailsQuietly, LiveTorn DEF BootFails
<1>3. CASE BootDone \/ Listen \/ LockRoom \/ AwaitRoom \/ LockPool
  BY <1>3, LiveUntouched DEF BootDone, Listen, LockRoom, AwaitRoom, LockPool, Working
<1>4. CASE ScaleUp
  <2>1. CASE StartThread(size)
    BY <1>4, <2>1, LiveStarted DEF ScaleUp
  <2>2. CASE SpawnFails(size)
    BY <1>4, <2>2, SpawnFailsQuietly, LiveTorn DEF ScaleUp
  <2>3. CASE UNCHANGED <<wpc, slotOf, slots>>
    BY <1>4, <2>3, LiveUntouched DEF ScaleUp, Working
  <2> QED
    BY <1>4, <2>1, <2>2, <2>3 DEF ScaleUp
<1>5. CASE Accept \/ AcceptFails \/ LockPush
  BY <1>5, LiveUntouched DEF Accept, AcceptFails, LockPush, Working
<1>6. CASE Push
  <2>1. CASE UNCHANGED wpc
    BY <1>6, <2>1, LiveUntouched DEF Push, Working
  <2>2. ASSUME NEW t \in Threads, wpc[t] = "waitTask", Goto(t, "lockTake")
        PROVE  LiveInv'
    BY <1>6, <2>2, LiveMoved DEF Push
  <2> QED
    BY <1>6, <2>1, <2>2 DEF Push, SignalFilled
<1>7. ASSUME NEW t \in Threads, LockTake(t) PROVE LiveInv'
  BY <1>7, LiveMoved DEF LockTake, At
<1>8. ASSUME NEW t \in Threads, AwaitTask(t) PROVE LiveInv'
  BY <1>8, LiveMoved DEF AwaitTask, At
<1>9. ASSUME NEW t \in Threads, Take(t) PROVE LiveInv'
  BY <1>9, LiveMoved DEF Take, At
<1>10. ASSUME NEW t \in Threads, LockBusy(t) PROVE LiveInv'
  BY <1>10, LiveMoved DEF LockBusy, At
<1>11. ASSUME NEW t \in Threads, Busy(t) PROVE LiveInv'
  BY <1>11, LiveMoved DEF Busy, At
<1>12. ASSUME NEW t \in Threads, Handle(t) PROVE LiveInv'
  BY <1>12, LiveMoved DEF Handle, At
<1>13. ASSUME NEW t \in Threads, LockIdle(t) PROVE LiveInv'
  BY <1>13, LiveMoved DEF LockIdle, At
<1>14. ASSUME NEW t \in Threads, Idle(t) PROVE LiveInv'
  <2>1. hpc' = "idle"
    BY <1>14 DEF Idle, SignalAvailable
  <2>2. CASE MustShrink(t)
    BY <1>14, <2>1, <2>2, LiveReleased DEF Idle, At, Working
  <2>3. CASE ~MustShrink(t)
    BY <1>14, <2>1, <2>3, LiveMoved DEF Idle, At
  <2> QED
    BY <2>2, <2>3
<1>15. ASSUME NEW t \in Threads, Exit(t) PROVE LiveInv'
  <2>1. wpc[t] = "exit" /\ wpc' = [wpc EXCEPT ![t] = "dead"] /\ slotOf' = [slotOf EXCEPT ![t] = 0]
    BY <1>15 DEF Exit, At, Goto
  <2>2. Working' = Working /\ \A u \in Working : slotOf'[u] = slotOf[u]
    BY <2>1 DEF Working, SlotInv, TypeOK
  <2> QED
    BY <1>15, <2>2 DEF Exit, LiveInv, WorkersLive
<1>16. CASE StopStep
  BY <1>16 DEF StopStep, StopLock, StopCheck, StopClose, StopExit
<1>17. CASE SpuriousWakeup
  <2>1. hpc' = "idle"
    BY <1>17 DEF SpuriousWakeup
  <2>2. CASE UNCHANGED wpc
    BY <1>17, <2>1, <2>2, LiveUntouched DEF SpuriousWakeup, Working
  <2>3. ASSUME NEW t \in Threads, wpc[t] = "waitTask", Goto(t, "lockTake")
        PROVE  LiveInv'
    BY <1>17, <2>1, <2>3, LiveMoved DEF SpuriousWakeup
  <2> QED
    BY <1>17, <2>2, <2>3 DEF SpuriousWakeup
<1>18. CASE UNCHANGED vars
  BY <1>18, LiveUntouched DEF Working
<1> QED
  BY <1>1, <1>2, <1>3, <1>4, <1>5, <1>6, <1>7, <1>8, <1>9, <1>10, <1>11, <1>12, <1>13, <1>14, <1>15, <1>16, <1>17, <1>18
  DEF Next, MainStep, WorkerStep, Exited

(***************************************************************************)
(* As long as no signal arrives, a worker never touches the database       *)
(* handle or the buffers of a worker_t that has been closed, torn by a     *)
(* failed start or set up anew for another thread.                         *)
(***************************************************************************)
THEOREM HandlersHaveResources ==
  ASSUME ConfigSane, "detach" \notin SpawnFaults, SignalThreads = {}
  PROVE  Spec => []HandlesOnLiveSlot
<1>1. Init => LiveInv
  BY SlotInvInit DEF Init, LiveInv, WorkersLive, Working
<1>2. LiveInv /\ [Next]_vars => LiveInv'
  BY LiveStep
<1>3. LiveInv => HandlesOnLiveSlot
  BY DEF LiveInv, WorkersLive, Working, HandlesOnLiveSlot
<1> QED
  BY <1>1, <1>2, <1>3, PTL DEF Spec

-----------------------------------------------------------------------------
(* What becomes of the clients: ThreadPool as an implementation of          *)
(* ClientService, for every number of threads, clients and places of the    *)
(* ring.                                                                    *)

(* The two variables of ClientService, as ThreadPool has them. *)
Pending == IF msock = None THEN Ring ELSE Append(Ring, msock)
Serving == {task[t] : t \in Threads} \ {None}

(* A worker has a client from its taking until its closing. *)
Carries(t) == wpc[t] \in {"lockBusy", "holdBusy", "handle"}

HandsInv ==
  /\ msock # None <=> mpc \in {"lockPush", "holdPush"}
  /\ \A t \in Threads : task[t] # None <=> Carries(t)

(* Each client that is pending or with a worker is connected, each one that *)
(* is connected is there, and there is none twice.                          *)
ClientsInv ==
  /\ \A i \in DOMAIN Pending : Pending[i] \in sock
  /\ \A t \in Threads : task[t] # None => task[t] \in sock
  /\ \A c \in sock : (\E i \in DOMAIN Pending : Pending[i] = c) \/ (\E t \in Threads : task[t] = c)
  /\ \A i, j \in DOMAIN Pending : Pending[i] = Pending[j] => i = j
  /\ \A t, u \in Threads : task[t] # None /\ task[t] = task[u] => t = u
  /\ \A t \in Threads, i \in DOMAIN Pending : task[t] # Pending[i]

ServiceInv == RingInv /\ HandsInv /\ ClientsInv

-----------------------------------------------------------------------------
(* The ring as a sequence. *)

(* A place that is less than two rounds ahead. *)
LEMMA Wraps ==
  ASSUME NEW a \in 0 .. 2 * QueueSize - 1
  PROVE  a % QueueSize = IF a < QueueSize THEN a ELSE a - QueueSize
  BY PoolAssumption

RingShape ==
  /\ Ring \in Seq(Conns \cup {None}) /\ Len(Ring) = qsize
  /\ \A i \in 1 .. qsize : Ring[i] = tasks[(head + i - 1) % QueueSize]
  /\ QueueSize \in Nat \ {0} /\ qsize \in 0 .. QueueSize
  /\ head \in 0 .. QueueSize - 1 /\ tail \in 0 .. QueueSize - 1

LEMMA RingType == RingInv => RingShape
<1> SUFFICES ASSUME RingInv PROVE RingShape
  OBVIOUS
<1>1. /\ QueueSize \in Nat \ {0} /\ qsize \in 0 .. QueueSize
      /\ head \in 0 .. QueueSize - 1 /\ tail \in 0 .. QueueSize - 1
  BY PoolAssumption DEF RingInv, RingConsistent, TypeOK
<1>2. ASSUME NEW i \in 1 .. qsize
      PROVE  tasks[(head + i - 1) % QueueSize] \in Conns \cup {None}
  <2>1. (head + i - 1) % QueueSize \in 0 .. QueueSize - 1
    BY <1>1, RemainderBound, head + i - 1 \in Nat
  <2> QED
    BY <2>1 DEF RingInv, TypeOK
<1>3. Ring \in [1 .. qsize -> Conns \cup {None}]
  BY <1>2 DEF Ring
<1>4. Ring \in Seq(Conns \cup {None}) /\ Len(Ring) = qsize
  BY <1>1, <1>3
<1> QED
  BY <1>1, <1>4 DEF Ring, RingShape

LEMMA NextRingType == RingInv' => RingShape'
  BY RingType, PTL

PendingShape ==
  /\ Pending \in Seq(Conns \cup {None})
  /\ Len(Pending) = IF msock = None THEN qsize ELSE qsize + 1
  /\ \A i \in 1 .. qsize : Pending[i] = Ring[i]
  /\ msock # None => Pending[qsize + 1] = msock

LEMMA PendingType == RingInv => PendingShape
<1> SUFFICES ASSUME RingInv PROVE PendingShape
  OBVIOUS
<1>1. msock \in Conns \cup {None}
  BY DEF RingInv, TypeOK
<1>2. CASE msock = None
  BY <1>2, RingType DEF Pending, PendingShape, RingShape
<1>3. CASE msock # None
  BY <1>1, <1>3, RingType DEF Pending, PendingShape, RingShape
<1> QED
  BY <1>2, <1>3

LEMMA NextPendingType == RingInv' => PendingShape'
  BY PendingType, PTL

LEMMA PendingUntouched ==
  ASSUME UNCHANGED <<tasks, head, qsize, msock>>
  PROVE  Pending' = Pending
  BY DEF Pending, Ring

(* main() hands its client over to the ring: nobody else sees a difference. *)
LEMMA PendingPushed ==
  ASSUME RingInv, RingInv', HandsInv, Push
  PROVE  Pending' = Pending
<1>1. /\ mpc = "holdPush" /\ msock # None /\ msock' = None
      /\ tasks' = [tasks EXCEPT ![tail] = msock]
      /\ qsize' = qsize + 1 /\ head' = head
  BY DEF Push, HandsInv
<1>2. /\ QueueSize \in Nat \ {0} /\ qsize \in 0 .. QueueSize - 1
      /\ head \in 0 .. QueueSize - 1 /\ tail \in 0 .. QueueSize - 1
      /\ tail = (head + qsize) % QueueSize
      /\ tasks \in [0 .. QueueSize - 1 -> Conns \cup {None}]
  BY <1>1, RingType, SMTT(30) DEF RingShape, RingInv, RingConsistent, RoomKept, TypeOK
<1>3. tail = IF head + qsize < QueueSize THEN head + qsize ELSE head + qsize - QueueSize
  <2>1. (head + qsize) % QueueSize
          = IF head + qsize < QueueSize THEN head + qsize ELSE head + qsize - QueueSize
    BY <1>2
  <2> QED
    BY <1>2, <2>1
<1>4. ASSUME NEW i \in 1 .. qsize
      PROVE  Ring'[i] = Ring[i]
  <2> DEFINE place == (head + i - 1) % QueueSize
  <2>1. place = IF head + i - 1 < QueueSize THEN head + i - 1 ELSE head + i - 1 - QueueSize
    BY <1>2
  <2>2. place # tail /\ place \in 0 .. QueueSize - 1
    BY <1>2, <1>3, <2>1
  <2>3. tasks'[place] = tasks[place]
    BY <1>1, <1>2, <2>2
  <2>4. Ring'[i] = tasks'[(head' + i - 1) % QueueSize] /\ Ring[i] = tasks[place]
    BY <1>1, <1>2 DEF Ring
  <2> QED
    BY <1>1, <2>3, <2>4
<1>5. Ring'[qsize + 1] = msock
  <2>1. Ring'[qsize + 1] = tasks'[(head + (qsize + 1) - 1) % QueueSize]
    BY <1>1, <1>2 DEF Ring
  <2>2. head + (qsize + 1) - 1 = head + qsize
    BY <1>2
  <2> QED
    BY <1>1, <1>2, <2>1, <2>2
<1>6. /\ Pending \in Seq(Conns \cup {None}) /\ Len(Pending) = qsize + 1
      /\ \A i \in 1 .. qsize : Pending[i] = Ring[i]
      /\ Pending[qsize + 1] = msock
  BY <1>1, PendingType DEF PendingShape
<1>7. /\ Ring' \in Seq(Conns \cup {None}) /\ Len(Ring') = qsize + 1
  BY <1>1, NextRingType DEF RingShape
<1>8. \A i \in 1 .. qsize + 1 : Ring'[i] = Pending[i]
  BY <1>2, <1>4, <1>5, <1>6
<1>9. Ring' = Pending
  BY <1>6, <1>7, <1>8
<1> QED
  BY <1>1, <1>9 DEF Pending

(* A worker takes the oldest client. *)
LEMMA PendingTaken ==
  ASSUME RingInv, RingInv', NEW t \in Threads, Take(t)
  PROVE  /\ Len(Pending) >= 1 /\ tasks[head] = Pending[1]
         /\ Pending' = Tail(Pending)
<1>1. /\ qsize # 0 /\ qsize' = qsize - 1 /\ head' = NextPlace(head)
      /\ UNCHANGED <<msock, tasks>>
  BY DEF Take
<1>2. /\ QueueSize \in Nat \ {0} /\ qsize \in 1 .. QueueSize /\ head \in 0 .. QueueSize - 1
  BY <1>1, RingType DEF RingShape
<1>3. head' = IF head + 1 < QueueSize THEN head + 1 ELSE 0
  BY <1>1, <1>2, Wraps DEF NextPlace
<1>4. ASSUME NEW i \in 1 .. qsize - 1
      PROVE  Ring'[i] = Ring[i + 1]
  <2>1. (head' + i - 1) % QueueSize
          = IF head' + i - 1 < QueueSize THEN head' + i - 1 ELSE head' + i - 1 - QueueSize
    BY <1>2, <1>3, Wraps
  <2>2. (head + (i + 1) - 1) % QueueSize
          = IF head + i < QueueSize THEN head + i ELSE head + i - QueueSize
    BY <1>2, Wraps
  <2>3. (head' + i - 1) % QueueSize = (head + (i + 1) - 1) % QueueSize
    BY <1>2, <1>3, <2>1, <2>2
  <2>4. Ring'[i] = tasks'[(head' + i - 1) % QueueSize]
    BY <1>1 DEF Ring
  <2>5. Ring[i + 1] = tasks[(head + (i + 1) - 1) % QueueSize]
    BY <1>2 DEF Ring
  <2> QED
    BY <1>1, <2>3, <2>4, <2>5
<1>5. Ring[1] = tasks[head]
  <2>1. Ring[1] = tasks[(head + 1 - 1) % QueueSize]
    BY <1>2 DEF Ring
  <2>2. (head + 1 - 1) % QueueSize = head
    BY <1>2, Wraps
  <2> QED
    BY <2>1, <2>2
<1>6. /\ Pending \in Seq(Conns \cup {None}) /\ Len(Pending) >= 1
      /\ Len(Pending) = IF msock = None THEN qsize ELSE qsize + 1
      /\ \A i \in 1 .. qsize : Pending[i] = Ring[i]
      /\ msock # None => Pending[qsize + 1] = msock
  BY <1>2, PendingType DEF PendingShape
<1>7. /\ Pending' \in Seq(Conns \cup {None})
      /\ Len(Pending') = Len(Pending) - 1
      /\ \A i \in 1 .. qsize - 1 : Pending'[i] = Ring'[i]
      /\ msock # None => Pending'[qsize] = msock
  <2>1. /\ Pending' \in Seq(Conns \cup {None})
        /\ Len(Pending') = IF msock' = None THEN qsize' ELSE qsize' + 1
        /\ \A i \in 1 .. qsize' : Pending'[i] = Ring'[i]
        /\ msock' # None => Pending'[qsize' + 1] = msock'
    BY NextPendingType DEF PendingShape
  <2> QED
    BY <1>1, <1>2, <1>6, <2>1
<1>8. \A i \in 1 .. Len(Pending) - 1 : Pending'[i] = Pending[i + 1]
  BY <1>2, <1>4, <1>6, <1>7
<1>9. Pending' = Tail(Pending)
  BY <1>6, <1>7, <1>8, SMTT(30)
<1> QED
  BY <1>2, <1>5, <1>6, <1>9

-----------------------------------------------------------------------------
(* Steps that leave every client where it is. *)

LEMMA ClientsUntouched ==
  ASSUME ClientsInv, Pending' = Pending, UNCHANGED <<sock, task>>
  PROVE  ClientsInv'
  BY DEF ClientsInv

LEMMA ServiceUntouched ==
  ASSUME ServiceInv, RingInv', UNCHANGED <<tasks, head, qsize, msock, sock, task>>,
         mpc' \in {"lockPush", "holdPush"} <=> mpc \in {"lockPush", "holdPush"},
         \A t \in Threads : Carries(t)' <=> Carries(t)
  PROVE  ServiceInv'
<1>1. HandsInv'
  BY DEF ServiceInv, HandsInv
<1>2. ClientsInv'
  BY PendingUntouched, ClientsUntouched DEF ServiceInv
<1> QED
  BY <1>1, <1>2 DEF ServiceInv

LEMMA CarriesMoved ==
  ASSUME RingInv, NEW t \in Threads, NEW pc, Goto(t, pc),
         wpc[t] \in {"lockBusy", "holdBusy", "handle"} <=> pc \in {"lockBusy", "holdBusy", "handle"}
  PROVE  \A u \in Threads : Carries(u)' <=> Carries(u)
  BY DEF Carries, Goto, RingInv, TypeOK

LEMMA CarriesStarted ==
  ASSUME RingInv, NEW s, StartThread(s)
  PROVE  \A u \in Threads : Carries(u)' <=> Carries(u)
  BY CarriesMoved DEF StartThread

LEMMA CarriesSpawnFails ==
  ASSUME RingInv, NEW s, SpawnFails(s)
  PROVE  \A u \in Threads : Carries(u)' <=> Carries(u)
  BY CarriesStarted DEF SpawnFails, Carries

LEMMA CarriesSignalled ==
  ASSUME RingInv, SignalFilled
  PROVE  \A u \in Threads : Carries(u)' <=> Carries(u)
<1>1. CASE UNCHANGED wpc
  BY <1>1 DEF Carries
<1>2. ASSUME NEW t \in Threads, wpc[t] = "waitTask", Goto(t, "lockTake")
      PROVE  \A u \in Threads : Carries(u)' <=> Carries(u)
  BY <1>2, CarriesMoved
<1> QED
  BY <1>1, <1>2 DEF SignalFilled

-----------------------------------------------------------------------------
(* The four steps that move a client. *)

LEMMA ServiceAccept ==
  ASSUME ServiceInv, RingInv', Accept
  PROVE  /\ ServiceInv'
         /\ msock' # None /\ msock' \in Conns \ sock /\ sock' = sock \cup {msock'}
         /\ msock = None /\ Pending' = Append(Pending, msock') /\ UNCHANGED task
<1>1. /\ mpc = "accept" /\ mpc' = "lockPush"
      /\ msock' \in Conns \ sock /\ sock' = sock \cup {msock'}
      /\ UNCHANGED <<tasks, head, qsize, task, wpc>>
  BY DEF Accept, queueVars, workVars
<1>2. msock = None /\ msock' # None
  BY <1>1, PoolAssumption DEF ServiceInv, HandsInv
<1>3. Ring' = Ring
  BY <1>1 DEF Ring
<1>4. Pending' = Append(Pending, msock') /\ Pending = Ring
  BY <1>2, <1>3 DEF Pending
<1>5. /\ Pending \in Seq(Conns \cup {None}) /\ msock' \in Conns \cup {None}
      /\ Len(Pending) \in Nat
  BY <1>1, PendingType DEF ServiceInv, PendingShape
<1>6. /\ DOMAIN Pending = 1 .. Len(Pending) /\ DOMAIN Pending' = 1 .. Len(Pending) + 1
      /\ \A i \in 1 .. Len(Pending) : Pending'[i] = Pending[i]
      /\ Pending'[Len(Pending) + 1] = msock'
  BY <1>4, <1>5
<1>7. /\ \A i \in DOMAIN Pending : Pending[i] # msock'
      /\ \A t \in Threads : task[t] # msock'
  BY <1>1, <1>2 DEF ServiceInv, ClientsInv
<1>8. HandsInv'
  BY <1>1, <1>2 DEF ServiceInv, HandsInv, Carries
<1>9. ClientsInv'
  <2> USE DEF ServiceInv, ClientsInv
  <2>1. \A i \in DOMAIN Pending' : Pending'[i] \in sock'
    BY <1>1, <1>5, <1>6
  <2>2. \A t \in Threads : task'[t] # None => task'[t] \in sock'
    BY <1>1
  <2>3. \A c \in sock' : (\E i \in DOMAIN Pending' : Pending'[i] = c)
                           \/ (\E t \in Threads : task'[t] = c)
    <3>1. ASSUME NEW i \in DOMAIN Pending
          PROVE  i \in DOMAIN Pending' /\ Pending'[i] = Pending[i]
      BY <1>5, <1>6
    <3>2. \E i \in DOMAIN Pending' : Pending'[i] = msock'
      BY <1>5, <1>6
    <3> QED
      BY <1>1, <3>1, <3>2
  <2>4. \A i, j \in DOMAIN Pending' : Pending'[i] = Pending'[j] => i = j
    BY <1>5, <1>6, <1>7
  <2>5. \A t \in Threads, i \in DOMAIN Pending' : task'[t] # Pending'[i]
    BY <1>1, <1>5, <1>6, <1>7
  <2> QED
    BY <1>1, <2>1, <2>2, <2>3, <2>4, <2>5
<1> QED
  BY <1>1, <1>2, <1>4, <1>8, <1>9 DEF ServiceInv

LEMMA ServicePush ==
  ASSUME ServiceInv, RingInv', Push
  PROVE  ServiceInv' /\ Pending' = Pending /\ UNCHANGED task
<1>1. Pending' = Pending
  BY PendingPushed DEF ServiceInv
<1>2. UNCHANGED <<sock, task>> /\ mpc' = "lockRoom" /\ msock' = None /\ SignalFilled
  BY DEF Push
<1>3. HandsInv'
  BY <1>2, CarriesSignalled DEF ServiceInv, HandsInv
<1> QED
  BY <1>1, <1>2, <1>3, ClientsUntouched DEF ServiceInv

LEMMA ServiceTake ==
  ASSUME ServiceInv, RingInv', NEW t \in Threads, Take(t)
  PROVE  /\ ServiceInv'
         /\ Pending \in Seq(Conns \cup {None}) /\ Pending # <<>> /\ Pending' = Tail(Pending)
         /\ task[t] = None /\ Head(Pending) # None /\ task' = [task EXCEPT ![t] = Head(Pending)]
<1>1. /\ wpc[t] = "holdTake" /\ wpc' = [wpc EXCEPT ![t] = "lockBusy"]
      /\ task' = [task EXCEPT ![t] = tasks[head]]
      /\ mpc' = IF mpc = "waitRoom" THEN "lockRoom" ELSE mpc
      /\ UNCHANGED <<msock, sock>>
  BY DEF Take, At, Goto
<1>2. /\ RingInv /\ wpc \in [Threads -> WorkerPc] /\ task \in [Threads -> Conns \cup {None}]
  BY DEF ServiceInv, RingInv, TypeOK
<1>3. /\ Len(Pending) >= 1 /\ tasks[head] = Pending[1] /\ Pending' = Tail(Pending)
  BY <1>2, PendingTaken
<1>4. Pending \in Seq(Conns \cup {None})
  BY <1>2, PendingType DEF PendingShape
<1>5. /\ DOMAIN Pending = 1 .. Len(Pending) /\ Len(Pending) \in Nat
      /\ DOMAIN Pending' = 1 .. Len(Pending) - 1
      /\ \A i \in 1 .. Len(Pending) - 1 : Pending'[i] = Pending[i + 1]
  BY <1>3, <1>4
<1>6. Pending[1] # None /\ Pending[1] \in sock
  <2>1. 1 \in DOMAIN Pending
    BY <1>3, <1>5
  <2>2. sock \subseteq Conns /\ None \notin Conns
    BY PoolAssumption DEF ServiceInv, RingInv, TypeOK
  <2> QED
    BY <2>1, <2>2 DEF ServiceInv, ClientsInv
<1>7. /\ task'[t] = Pending[1] /\ task[t] = None
      /\ \A u \in Threads \ {t} : task'[u] = task[u]
  BY <1>1, <1>2, <1>3 DEF ServiceInv, HandsInv, Carries
<1>8. HandsInv'
  <2>1. \A u \in Threads : Carries(u)' <=> u = t \/ Carries(u)
    BY <1>1, <1>2 DEF Carries
  <2>2. \A u \in Threads : task'[u] # None <=> u = t \/ task[u] # None
    BY <1>6, <1>7
  <2>3. msock' # None <=> mpc' \in {"lockPush", "holdPush"}
    BY <1>1 DEF ServiceInv, HandsInv
  <2> QED
    BY <2>1, <2>2, <2>3 DEF ServiceInv, HandsInv
<1>9. ClientsInv'
  <2> USE DEF ServiceInv, ClientsInv
  <2>0. \A i \in DOMAIN Pending' : i + 1 \in DOMAIN Pending /\ i + 1 # 1 /\ Pending'[i] = Pending[i + 1]
    BY <1>3, <1>5
  <2>a. 1 \in DOMAIN Pending
    BY <1>3, <1>5
  <2>1. \A i \in DOMAIN Pending' : Pending'[i] \in sock'
    BY <1>1, <2>0
  <2>2. \A u \in Threads : task'[u] # None => task'[u] \in sock'
    BY <1>1, <1>6, <1>7
  <2>3. \A c \in sock' : (\E i \in DOMAIN Pending' : Pending'[i] = c)
                           \/ (\E u \in Threads : task'[u] = c)
    <3> SUFFICES ASSUME NEW c \in sock, ~ \E u \in Threads : task'[u] = c
                 PROVE  \E i \in DOMAIN Pending' : Pending'[i] = c
      BY <1>1
    <3>1. c # Pending[1] /\ \A u \in Threads : task[u] # c
      <4>1. c # None
        BY PoolAssumption DEF RingInv, TypeOK
      <4> QED
        BY <1>7, <4>1
    <3>2. PICK i \in DOMAIN Pending : Pending[i] = c
      BY <3>1
    <3>3. i - 1 \in DOMAIN Pending' /\ Pending'[i - 1] = c
      BY <1>5, <3>1, <3>2
    <3> QED
      BY <3>3
  <2>4. \A i, j \in DOMAIN Pending' : Pending'[i] = Pending'[j] => i = j
    <3> SUFFICES ASSUME NEW i \in DOMAIN Pending', NEW j \in DOMAIN Pending',
                        Pending'[i] = Pending'[j]
                 PROVE  i = j
      OBVIOUS
    <3>1. i + 1 = j + 1
      BY <2>0
    <3> QED
      BY <1>5, <3>1
  <2>5. \A u, v \in Threads : task'[u] # None /\ task'[u] = task'[v] => u = v
    BY <1>7, <2>a
  <2>6. \A u \in Threads, i \in DOMAIN Pending' : task'[u] # Pending'[i]
    BY <1>7, <2>0, <2>a
  <2> QED
    BY <2>1, <2>2, <2>3, <2>4, <2>5, <2>6
<1>10. Pending # <<>> /\ Head(Pending) = Pending[1]
  BY <1>3, <1>4
<1> QED
  BY <1>1, <1>3, <1>4, <1>6, <1>7, <1>8, <1>9, <1>10 DEF ServiceInv

LEMMA ServiceHandle ==
  ASSUME ServiceInv, RingInv', NEW t \in Threads, Handle(t)
  PROVE  /\ ServiceInv'
         /\ Pending' = Pending /\ task[t] # None /\ task' = [task EXCEPT ![t] = None]
<1>1. /\ wpc[t] = "handle" /\ wpc' = [wpc EXCEPT ![t] = "lockIdle"]
      /\ task' = [task EXCEPT ![t] = None]
      /\ sock' = sock \ {task[t]}
      /\ UNCHANGED <<tasks, head, qsize, msock, mpc>>
  BY DEF Handle, At, Goto, mainVars, queueVars
<1>2. /\ wpc \in [Threads -> WorkerPc] /\ task \in [Threads -> Conns \cup {None}]
  BY DEF ServiceInv, RingInv, TypeOK
<1>3. Pending' = Pending
  BY <1>1, PendingUntouched
<1>4. /\ task'[t] = None /\ task[t] # None
      /\ \A u \in Threads \ {t} : task'[u] = task[u]
  BY <1>1, <1>2 DEF ServiceInv, HandsInv, Carries
<1>5. HandsInv'
  <2>1. \A u \in Threads : Carries(u)' <=> u # t /\ Carries(u)
    BY <1>1, <1>2 DEF Carries
  <2> QED
    BY <1>1, <1>4, <2>1 DEF ServiceInv, HandsInv
<1>6. ClientsInv'
  <2> USE DEF ServiceInv, ClientsInv
  <2>1. \A i \in DOMAIN Pending' : Pending'[i] \in sock'
    BY <1>1, <1>3
  <2>2. \A u \in Threads : task'[u] # None => task'[u] \in sock'
    BY <1>1, <1>4
  <2>3. \A c \in sock' : (\E i \in DOMAIN Pending' : Pending'[i] = c)
                           \/ (\E u \in Threads : task'[u] = c)
    BY <1>1, <1>3, <1>4
  <2>4. \A u, v \in Threads : task'[u] # None /\ task'[u] = task'[v] => u = v
    BY <1>4
  <2>5. None \notin sock
    BY PoolAssumption DEF RingInv, TypeOK
  <2>6. \A u \in Threads, i \in DOMAIN Pending' : task'[u] # Pending'[i]
    BY <1>3, <1>4, <2>5
  <2> QED
    BY <1>3, <2>1, <2>2, <2>3, <2>4, <2>6
<1> QED
  BY <1>1, <1>3, <1>4, <1>5, <1>6 DEF ServiceInv

-----------------------------------------------------------------------------
LEMMA ServiceInit ==
  ASSUME Init
  PROVE  ServiceInv /\ Service!Init
<1>1. RingInv
  BY InitType, PoolAssumption DEF RingInv, Init, RingConsistent, RoomKept
<1>2. /\ msock = None /\ qsize = 0 /\ sock = {} /\ mpc = "boot"
      /\ \A t \in Threads : task[t] = None /\ wpc[t] = "dead"
  BY DEF Init
<1>3. Pending = Ring /\ Ring \in Seq(Conns \cup {None}) /\ Len(Ring) = 0
  BY <1>1, <1>2, RingType DEF Pending, RingShape
<1>4. Pending = <<>> /\ DOMAIN Pending = {}
  BY <1>3
<1>5. HandsInv
  BY <1>2 DEF HandsInv, Carries
<1>6. ClientsInv
  BY <1>2, <1>4 DEF ClientsInv
<1>7. Serving = {}
  BY <1>2 DEF Serving
<1>8. Service!Init
  BY <1>4, <1>7 DEF Service!Init, Pending, Serving
<1> QED
  BY <1>1, <1>5, <1>6, <1>8 DEF ServiceInv

(* Every step that is not one of the four moves no client. *)
Moves == Accept \/ Push \/ \E t \in Threads : Take(t) \/ Handle(t)

LEMMA ServiceStays ==
  ASSUME ServiceInv, RingInv', [Next]_vars, ~Moves
  PROVE  ServiceInv' /\ UNCHANGED <<tasks, head, qsize, msock, task>>
<1>0. RingInv
  BY DEF ServiceInv
<1> USE <1>0 DEF vars, queueVars, poolVars, mainVars, workVars, stopVars
<1>1. CASE BootWorker
  BY <1>1, CarriesStarted, ServiceUntouched DEF BootWorker
<1>2. CASE BootFails
  BY <1>2, CarriesSpawnFails, ServiceUntouched DEF BootFails
<1>3. CASE BootDone \/ Listen \/ LockRoom \/ AwaitRoom \/ LockPool
  BY <1>3, ServiceUntouched DEF BootDone, Listen, LockRoom, AwaitRoom, LockPool, Carries
<1>4. CASE ScaleUp
  <2>1. \A u \in Threads : Carries(u)' <=> Carries(u)
    BY <1>4, CarriesStarted, CarriesSpawnFails DEF ScaleUp, Carries
  <2> QED
    BY <1>4, <2>1, ServiceUntouched DEF ScaleUp
<1>5. CASE AcceptFails
  BY <1>5, ServiceUntouched DEF AcceptFails, Carries
<1>6. CASE LockPush
  BY <1>6, ServiceUntouched DEF LockPush, Carries
<1>7. ASSUME NEW t \in Threads, LockTake(t)
      PROVE  ServiceInv' /\ UNCHANGED <<tasks, head, qsize, msock, task>>
  BY <1>7, CarriesMoved, ServiceUntouched DEF LockTake, At
<1>8. ASSUME NEW t \in Threads, AwaitTask(t)
      PROVE  ServiceInv' /\ UNCHANGED <<tasks, head, qsize, msock, task>>
  BY <1>8, CarriesMoved, ServiceUntouched DEF AwaitTask, At
<1>9. ASSUME NEW t \in Threads, LockBusy(t)
      PROVE  ServiceInv' /\ UNCHANGED <<tasks, head, qsize, msock, task>>
  BY <1>9, CarriesMoved, ServiceUntouched DEF LockBusy, At
<1>10. ASSUME NEW t \in Threads, Busy(t)
      PROVE  ServiceInv' /\ UNCHANGED <<tasks, head, qsize, msock, task>>
  BY <1>10, CarriesMoved, ServiceUntouched DEF Busy, At
<1>11. ASSUME NEW t \in Threads, LockIdle(t)
      PROVE  ServiceInv' /\ UNCHANGED <<tasks, head, qsize, msock, task>>
  BY <1>11, CarriesMoved, ServiceUntouched DEF LockIdle, At
<1>12. ASSUME NEW t \in Threads, Idle(t)
      PROVE  ServiceInv' /\ UNCHANGED <<tasks, head, qsize, msock, task>>
  BY <1>12, CarriesMoved, ServiceUntouched DEF Idle, At
<1>13. ASSUME NEW t \in Threads, Exit(t)
      PROVE  ServiceInv' /\ UNCHANGED <<tasks, head, qsize, msock, task>>
  BY <1>13, CarriesMoved, ServiceUntouched DEF Exit, At
<1>14. ASSUME NEW t \in SignalThreads, Interrupt(t)
      PROVE  ServiceInv' /\ UNCHANGED <<tasks, head, qsize, msock, task>>
  BY <1>14, ServiceUntouched DEF Interrupt, Carries
<1>15. CASE StopStep
  BY <1>15, ServiceUntouched DEF StopStep, StopLock, StopCheck, StopClose, StopExit, Carries
<1>16. CASE SpuriousWakeup
  <2>1. \A u \in Threads : Carries(u)' <=> Carries(u)
    BY <1>16, CarriesMoved DEF SpuriousWakeup, Carries
  <2> QED
    BY <1>16, <2>1, ServiceUntouched DEF SpuriousWakeup
<1>17. CASE UNCHANGED vars
  BY <1>17, ServiceUntouched DEF Carries
<1> QED
  BY <1>1, <1>2, <1>3, <1>4, <1>5, <1>6, <1>7, <1>8, <1>9, <1>10, <1>11, <1>12, <1>13, <1>14, <1>15, <1>16, <1>17
  DEF Next, MainStep, WorkerStep, Exited, Moves

LEMMA ServiceStep ==
  ASSUME ServiceInv, [Next]_vars
  PROVE  ServiceInv'
<1>1. RingInv'
  BY RingStep DEF ServiceInv
<1> QED
  BY <1>1, ServiceAccept, ServicePush, ServiceTake, ServiceHandle, ServiceStays DEF Moves

LEMMA ServiceInvariant == Spec => []ServiceInv
<1>1. Init => ServiceInv
  BY ServiceInit
<1>2. ServiceInv /\ [Next]_vars => ServiceInv'
  BY ServiceStep
<1> QED
  BY <1>1, <1>2, PTL DEF Spec

-----------------------------------------------------------------------------
(* A place of the ring that is in use is a place of the sequence. *)
LEMMA QueuedRing ==
  ASSUME RingInv
  PROVE  /\ \A p \in Queued : \E i \in 1 .. qsize : p = (head + i - 1) % QueueSize /\ Ring[i] = tasks[p]
         /\ \A i \in 1 .. qsize : \E p \in Queued : p = (head + i - 1) % QueueSize /\ Ring[i] = tasks[p]
         /\ IsFiniteSet(Queued)
<1>1. RingShape
  BY RingType
<1>2. ASSUME NEW p \in Queued
      PROVE  \E i \in 1 .. qsize : p = (head + i - 1) % QueueSize /\ Ring[i] = tasks[p]
  <2>1. PICK k \in 0 .. qsize - 1 : p = (head + k) % QueueSize
    BY DEF Queued
  <2>2. k + 1 \in 1 .. qsize /\ head + (k + 1) - 1 = head + k
    BY <1>1 DEF RingShape
  <2> QED
    BY <1>1, <2>1, <2>2 DEF RingShape
<1>3. ASSUME NEW i \in 1 .. qsize
      PROVE  \E p \in Queued : p = (head + i - 1) % QueueSize /\ Ring[i] = tasks[p]
  <2>1. i - 1 \in 0 .. qsize - 1 /\ head + (i - 1) = head + i - 1
    BY <1>1 DEF RingShape
  <2>2. (head + i - 1) % QueueSize \in Queued
    BY <2>1 DEF Queued
  <2> QED
    BY <1>1, <2>2 DEF RingShape
<1>4. IsFiniteSet(Queued)
  <2> DEFINE f == [k \in 0 .. qsize - 1 |-> (head + k) % QueueSize]
  <2>1. f \in Surjection(0 .. qsize - 1, Queued)
    BY DEF Surjection, Queued
  <2>2. IsFiniteSet(0 .. qsize - 1)
    BY <1>1, FS_Interval DEF RingShape
  <2> QED
    BY <2>1, <2>2, FS_Surjection
<1> QED
  BY <1>2, <1>3, <1>4

(* No client is lost, none is in two hands, and none is closed while it     *)
(* waits, however many workers there are and wherever a signal strikes.     *)
THEOREM ClientsOnce == Spec => []EachClientOnce
<1>1. ServiceInv => EachClientOnce
  <2> SUFFICES ASSUME ServiceInv
               PROVE  EachClientOnce
    OBVIOUS
  <2> DEFINE mains == {<<"main", 0>> : m \in {msock} \ {None}}
             rings == {<<"ring", i>> : i \in Queued}
             busy == {u \in Threads : task[u] # None}
             workers == {<<"worker", t>> : t \in busy}
             hands == mains \cup rings \cup workers
             held(h) == CASE h[1] = "main" -> msock
                          [] h[1] = "ring" -> tasks[h[2]]
                          [] h[1] = "worker" -> task[h[2]]
             f == [h \in hands |-> held(h)]
  <2>1. RingInv /\ PendingShape /\ RingShape
    BY RingType, PendingType DEF ServiceInv
  <2>2. None \notin sock
    BY PoolAssumption DEF ServiceInv, RingInv, TypeOK
  <2>3. DOMAIN Pending = IF msock = None THEN 1 .. qsize ELSE 1 .. qsize + 1
    BY <2>1 DEF PendingShape
  (* a place of the ring and main's hand as positions of Pending *)
  <2>4. ASSUME NEW p \in Queued
        PROVE  \E i \in 1 .. qsize :
                 p = (head + i - 1) % QueueSize /\ i \in DOMAIN Pending /\ Pending[i] = tasks[p]
    <3>1. PICK i \in 1 .. qsize : p = (head + i - 1) % QueueSize /\ Ring[i] = tasks[p]
      BY <2>1, QueuedRing
    <3> QED
      BY <2>1, <2>3, <3>1 DEF PendingShape, RingShape
  <2>5. msock # None => qsize + 1 \in DOMAIN Pending /\ Pending[qsize + 1] = msock
    BY <2>1, <2>3 DEF PendingShape, RingShape
  <2>6. /\ \A h \in mains : h = <<"main", 0>> /\ held(h) = msock /\ msock # None
        /\ \A h \in rings : \E p \in Queued : h = <<"ring", p>> /\ held(h) = tasks[p]
        /\ \A h \in workers : \E t \in busy : h = <<"worker", t>> /\ held(h) = task[t]
    OBVIOUS
  <2>7. \A h \in hands : held(h) \in sock
    <3>1. \A h \in mains : held(h) \in sock
      BY <2>5, <2>6 DEF ServiceInv, ClientsInv
    <3>2. \A h \in rings : held(h) \in sock
      <4> SUFFICES ASSUME NEW p \in Queued
                   PROVE  tasks[p] \in sock
        BY <2>6
      <4> QED
        BY <2>4 DEF ServiceInv, ClientsInv
    <3>3. \A h \in workers : held(h) \in sock
      <4> SUFFICES ASSUME NEW t \in busy
                   PROVE  task[t] \in sock
        BY <2>6
      <4> QED
        BY DEF ServiceInv, ClientsInv
    <3> HIDE DEF held, mains, rings, workers
    <3> QED
      BY <3>1, <3>2, <3>3
  <2>8. ASSUME NEW c \in sock
        PROVE  \E h \in hands : held(h) = c
    <3>1. ASSUME NEW i \in DOMAIN Pending, Pending[i] = c
          PROVE  \E h \in hands : held(h) = c
      <4>1. CASE i \in 1 .. qsize
        <5>1. PICK p \in Queued : Ring[i] = tasks[p]
          BY <2>1, <4>1, QueuedRing
        <5>2. <<"ring", p>> \in rings /\ held(<<"ring", p>>) = tasks[p]
          OBVIOUS
        <5>3. tasks[p] = c
          BY <2>1, <3>1, <4>1, <5>1 DEF PendingShape
        <5> HIDE DEF held, rings
        <5> QED
          BY <5>2, <5>3
      <4>2. CASE i \notin 1 .. qsize
        <5>1. msock # None /\ i = qsize + 1
          BY <2>1, <2>3, <4>2 DEF RingShape
        <5>2. msock = c
          BY <2>5, <3>1, <5>1
        <5>3. <<"main", 0>> \in mains /\ held(<<"main", 0>>) = msock
          BY <5>1
        <5> HIDE DEF held, mains
        <5> QED
          BY <5>2, <5>3
      <4> QED
        BY <4>1, <4>2
    <3>2. ASSUME NEW t \in Threads, task[t] = c
          PROVE  \E h \in hands : held(h) = c
      <4>1. t \in busy
        BY <2>2, <3>2
      <4>2. <<"worker", t>> \in workers /\ held(<<"worker", t>>) = task[t]
        BY <4>1
      <4> HIDE DEF held, workers
      <4> QED
        BY <3>2, <4>2
    <3> QED
      BY <3>1, <3>2 DEF ServiceInv, ClientsInv
  <2>9. ASSUME NEW g \in hands, NEW h \in hands, held(g) = held(h)
        PROVE  g = h
    <3>1. ASSUME NEW a \in mains, NEW b \in rings
          PROVE  held(a) # held(b)
      <4>1. PICK p \in Queued : b = <<"ring", p>> /\ held(b) = tasks[p]
        BY <2>6
      <4>2. PICK i \in 1 .. qsize : i \in DOMAIN Pending /\ Pending[i] = tasks[p]
        BY <2>4
      <4>3. held(a) = msock /\ msock # None
        BY <2>6
      <4>4. i # qsize + 1
        BY <2>1 DEF RingShape
      <4> HIDE DEF held
      <4> QED
        BY <2>5, <4>1, <4>2, <4>3, <4>4 DEF ServiceInv, ClientsInv
    <3>2. ASSUME NEW a \in mains, NEW b \in workers
          PROVE  held(a) # held(b)
      <4>1. PICK t \in busy : b = <<"worker", t>> /\ held(b) = task[t]
        BY <2>6
      <4>2. held(a) = msock /\ msock # None
        BY <2>6
      <4> HIDE DEF held
      <4> QED
        BY <2>5, <4>1, <4>2 DEF ServiceInv, ClientsInv
    <3>3. ASSUME NEW a \in rings, NEW b \in workers
          PROVE  held(a) # held(b)
      <4>1. PICK p \in Queued : a = <<"ring", p>> /\ held(a) = tasks[p]
        BY <2>6
      <4>2. PICK i \in 1 .. qsize : i \in DOMAIN Pending /\ Pending[i] = tasks[p]
        BY <2>4
      <4>3. PICK t \in busy : b = <<"worker", t>> /\ held(b) = task[t]
        BY <2>6
      <4> HIDE DEF held
      <4> QED
        BY <4>1, <4>2, <4>3 DEF ServiceInv, ClientsInv
    <3>4. ASSUME NEW a \in rings, NEW b \in rings, held(a) = held(b)
          PROVE  a = b
      <4>1. PICK p \in Queued : a = <<"ring", p>> /\ held(a) = tasks[p]
        BY <2>6
      <4>2. PICK q \in Queued : b = <<"ring", q>> /\ held(b) = tasks[q]
        BY <2>6
      <4>3. PICK i \in 1 .. qsize :
              p = (head + i - 1) % QueueSize /\ i \in DOMAIN Pending /\ Pending[i] = tasks[p]
        BY <2>4
      <4>4. PICK j \in 1 .. qsize :
              q = (head + j - 1) % QueueSize /\ j \in DOMAIN Pending /\ Pending[j] = tasks[q]
        BY <2>4
      <4> HIDE DEF held
      <4>5. i = j
        BY <3>4, <4>1, <4>2, <4>3, <4>4 DEF ServiceInv, ClientsInv
      <4> QED
        BY <4>1, <4>2, <4>3, <4>4, <4>5
    <3>5. ASSUME NEW a \in workers, NEW b \in workers, held(a) = held(b)
          PROVE  a = b
      <4>1. PICK t \in busy : a = <<"worker", t>> /\ held(a) = task[t]
        BY <2>6
      <4>2. PICK u \in busy : b = <<"worker", u>> /\ held(b) = task[u]
        BY <2>6
      <4> HIDE DEF held
      <4> QED
        BY <3>5, <4>1, <4>2 DEF ServiceInv, ClientsInv
    <3>6. ASSUME NEW a \in mains, NEW b \in mains
          PROVE  a = b
      BY <2>6
    <3> HIDE DEF held, mains, rings, workers
    <3> QED
      BY <2>9, <3>1, <3>2, <3>3, <3>4, <3>5, <3>6
  <2>10. IsFiniteSet(hands)
    <3>1. IsFiniteSet(mains)
      <4>1. mains \in SUBSET {<<"main", 0>>}
        OBVIOUS
      <4>2. IsFiniteSet({<<"main", 0>>})
        BY FS_Singleton
      <4> QED
        BY <4>1, <4>2, FS_Subset
    <3>2. IsFiniteSet(rings)
      <4> DEFINE r == [i \in Queued |-> <<"ring", i>>]
      <4>1. r \in Surjection(Queued, rings)
        BY DEF Surjection
      <4> QED
        BY <2>1, <4>1, QueuedRing, FS_Surjection
    <3>3. IsFiniteSet(workers)
      <4> DEFINE w == [t \in busy |-> <<"worker", t>>]
      <4>1. w \in Surjection(busy, workers)
        BY DEF Surjection
      <4>2. busy \in SUBSET Threads
        OBVIOUS
      <4>3. IsFiniteSet(busy)
        BY <4>2, PoolAssumption, FS_Subset
      <4> QED
        BY <4>1, <4>3, FS_Surjection
    <3> HIDE DEF mains, rings, workers
    <3> QED
      BY <3>1, <3>2, <3>3, FS_Union
  <2>11. {held(h) : h \in hands} = sock
    <3> HIDE DEF held, hands
    <3> QED
      BY <2>7, <2>8
  <2>12. Cardinality(hands) = Cardinality(sock)
    <3> HIDE DEF held, hands
    <3>1. f \in [hands -> sock] /\ \A h \in hands : f[h] = held(h)
      BY <2>7
    <3>2. f \in Surjection(hands, sock)
      BY <2>8, <3>1 DEF Surjection
    <3>3. f \in Injection(hands, sock)
      BY <2>9, <3>1 DEF Injection, IsInjective
    <3>4. ExistsBijection(hands, sock)
      BY <3>2, <3>3 DEF ExistsBijection, Bijection
    <3> QED
      BY <2>10, <3>4, FS_Bijection
  <2> QED
    BY <2>11, <2>12 DEF EachClientOnce
<1> QED
  BY <1>1, ServiceInvariant, PTL

-----------------------------------------------------------------------------
(* The steps of ThreadPool as steps of ClientService. *)

LEMMA ServiceRefined ==
  ASSUME ServiceInv, [Next]_vars
  PROVE  [Service!Next]_Service!vars
<1> USE DEF Pending, Serving
<1>0. RingInv' /\ RingInv /\ PendingShape
  BY RingStep, PendingType DEF ServiceInv
<1>a. None \notin Conns /\ task \in [Threads -> Conns \cup {None}]
  BY <1>0, PoolAssumption DEF RingInv, TypeOK
<1>1. CASE Accept
  <2>1. /\ msock' # None /\ msock' \in Conns \ sock /\ msock = None
        /\ Pending' = Append(Pending, msock') /\ UNCHANGED task
    BY <1>0, <1>1, ServiceAccept
  <2>2. Len(Pending) < QueueSize + 1
    <3>1. mpc = "accept"
      BY <1>1 DEF Accept
    <3>2. qsize < QueueSize
      BY <1>0, <3>1 DEF RingInv, RingConsistent, RoomKept
    <3>3. Len(Pending) = qsize /\ qsize \in Nat /\ QueueSize \in Nat
      BY <1>0, <2>1, PoolAssumption DEF PendingShape, RingInv, TypeOK
    <3> HIDE DEF Pending
    <3> QED
      BY <3>2, <3>3
  <2>3. msock' \notin Service!Waiting \cup Serving
    <3>1. \A i \in DOMAIN Pending : Pending[i] # msock'
      BY <2>1 DEF ServiceInv, ClientsInv
    <3>2. msock' \notin Serving
      BY <2>1 DEF ServiceInv, ClientsInv
    <3> QED
      BY <3>1, <3>2 DEF Service!Waiting
  <2>4. Serving' = Serving
    BY <2>1
  <2>5. PICK c \in Conns : c = msock'
    BY <2>1
  <2>6. Service!Admit(c)
    BY <2>1, <2>2, <2>3, <2>4, <2>5 DEF Service!Admit
  <2> QED
    BY <2>6 DEF Service!Next
<1>2. CASE Push
  <2>1. Pending' = Pending /\ UNCHANGED task
    BY <1>0, <1>2, ServicePush
  <2> QED
    BY <2>1 DEF Service!vars
<1>3. ASSUME NEW t \in Threads, Take(t)
      PROVE  [Service!Next]_Service!vars
  <2>1. /\ Pending # <<>> /\ Pending' = Tail(Pending)
        /\ task[t] = None /\ Head(Pending) # None /\ task' = [task EXCEPT ![t] = Head(Pending)]
    BY <1>0, <1>3, ServiceTake
  <2>2. Serving' = Serving \cup {Head(Pending)}
    <3> HIDE DEF Pending
    <3> QED
      BY <1>a, <2>1
  <2>3. Service!Begin
    BY <2>1, <2>2 DEF Service!Begin
  <2> QED
    BY <2>3 DEF Service!Next
<1>4. ASSUME NEW t \in Threads, Handle(t)
      PROVE  [Service!Next]_Service!vars
  <2>1. Pending' = Pending /\ task[t] # None /\ task' = [task EXCEPT ![t] = None]
    BY <1>0, <1>4, ServiceHandle
  <2>2. task[t] \in Serving /\ task[t] \in Conns
    BY <1>a, <2>1
  <2>3. \A u \in Threads : task[u] = task[t] => u = t
    BY <2>1 DEF ServiceInv, ClientsInv
  <2>4. Serving' = Serving \ {task[t]}
    <3> HIDE DEF Pending
    <3> QED
      BY <1>a, <2>1, <2>3
  <2>5. PICK c \in Conns : c = task[t]
    BY <2>2
  <2>6. Service!Finish(c)
    BY <2>1, <2>2, <2>4, <2>5 DEF Service!Finish
  <2> QED
    BY <2>6 DEF Service!Next
<1>5. CASE ~Moves
  <2>1. UNCHANGED <<tasks, head, qsize, msock, task>>
    BY <1>0, <1>5, ServiceStays
  <2>2. Pending' = Pending /\ Serving' = Serving
    BY <2>1, PendingUntouched
  <2> QED
    BY <2>2 DEF Service!vars
<1> QED
  BY <1>1, <1>2, <1>3, <1>4, <1>5 DEF Moves

(* The threads, the ring and the locks serve clients first come, first      *)
(* served, keep no more waiting than the ring and main's hands have room    *)
(* for, and close each connection once.                                     *)
THEOREM ImplementsService == Spec => ServesClients
<1>1. Init => Service!Init
  BY ServiceInit
<1>2. ServiceInv /\ [Next]_vars => [Service!Next]_Service!vars
  BY ServiceRefined
<1> QED
  BY <1>1, <1>2, ServiceInvariant, PTL DEF Spec, ServesClients, Service!Spec
=============================================================================
