----------------------------- MODULE ThreadPool -----------------------------
(***************************************************************************)
(* The process that runs the flua server: the main thread that accepts     *)
(* clients (src/main.c), the ring of accepted clients it shares with the   *)
(* worker threads, the workers themselves and the pool that grows and      *)
(* shrinks with the load (src/lib/thread.c), and the signal handler stop() *)
(* that shuts the process down (src/main.c).                               *)
(*                                                                         *)
(* A critical section of the code is two actions: one takes the mutex, the *)
(* other runs the section and gives the mutex back.  Nobody else can see   *)
(* the section half done, and the step in between is where a signal finds  *)
(* its thread holding the mutex.  pthread_cond_wait gives the mutex back   *)
(* and sleeps in one step; a thread that is woken takes the mutex again    *)
(* and re-tests its condition.  What handle() does with a client is the    *)
(* business of other modules; here it is the span in which a worker uses   *)
(* the database handle and the buffers of its slot.                        *)
(***************************************************************************)
EXTENDS Integers, FiniteSets, Sequences

CONSTANTS
  Threads,       (* pthreads the system can provide; a dead one is used again *)
  Conns,         (* client sockets that can be open at the same time          *)
  Main,          (* the main thread                                           *)
  None,          (* no thread, no client                                      *)
  QueueSize,     (* queue_size                                                *)
  LeastWorkers,  (* least_workers                                             *)
  MostWorkers,   (* most_workers                                              *)
  Byte,          (* values of a uint8_t: 256 in the code                      *)
  SignalThreads, (* threads the kernel may run the signal handler on          *)
  SpawnFaults    (* which steps of spawn() may fail                           *)

(***************************************************************************)
(* configure() in src/lib/config.c admits queue_size in 1..127,            *)
(* least_workers in 1..63 and most_workers in 3..255, each on its own.     *)
(* "setup" is any step of spawn() up to pthread_create, "detach" is        *)
(* pthread_detach.                                                         *)
(***************************************************************************)
ASSUME PoolAssumption ==
  /\ IsFiniteSet(Threads)
  /\ QueueSize \in Nat \ {0}
  /\ LeastWorkers \in Nat \ {0}
  /\ MostWorkers \in Nat \ {0}
  /\ Byte \in Nat
  /\ LeastWorkers < Byte /\ MostWorkers < Byte
  /\ Main \notin Threads
  /\ None \notin Threads \cup Conns \cup {Main}
  /\ SignalThreads \subseteq Threads \cup {Main}
  /\ SpawnFaults \subseteq {"setup", "detach"}

(***************************************************************************)
(* What configure() does not demand and the pool relies on: the two sizes  *)
(* are in order, and the largest is not the last value of a byte.          *)
(***************************************************************************)
ConfigSane == LeastWorkers <= MostWorkers /\ MostWorkers + 1 < Byte

VARIABLES
  process,   (* "up", or the status the process exited with                   *)
  mpc,       (* where the main thread is                                      *)
  msock,     (* client_sock of main(): accepted and not yet queued            *)
  sock,      (* client sockets that are open                                  *)
  tasks, head, tail, qsize, (* queue: the ring and its three counters         *)
  qlock,     (* who holds queue.lock                                          *)
  wpc,       (* where each worker thread is                                   *)
  slotOf,    (* the worker_t a thread was created for: its arg->id            *)
  task,      (* task of thread(): the client a worker has taken               *)
  slots,     (* the resources of each worker_t                                *)
  size, load,(* thread_pool.size and thread_pool.load                         *)
  plock,     (* who holds thread_pool.lock                                    *)
  hpc,       (* where the signal handler is                                   *)
  hthread,   (* the thread it runs on                                         *)
  hindex     (* index of its loop over the workers                            *)

queueVars == <<tasks, head, tail, qsize, qlock>>
poolVars  == <<slots, size, load, plock>>
mainVars  == <<mpc, msock>>
workVars  == <<wpc, slotOf, task>>
stopVars  == <<process, hpc, hthread, hindex>>
vars == <<process, mpc, msock, sock, tasks, head, tail, qsize, qlock, wpc,
          slotOf, task, slots, size, load, plock, hpc, hthread, hindex>>

Slot == 0 .. Byte - 1

MainPc == {"boot", "listen", "lockRoom", "holdRoom", "waitRoom", "lockPool",
           "holdPool", "accept", "refused", "lockPush", "holdPush"}
WorkerPc == {"dead", "lockTake", "holdTake", "waitTask", "lockBusy", "holdBusy",
             "handle", "lockIdle", "holdIdle", "exit"}
StopPc == {"idle", "lock", "check", "wait", "close", "exit"}

Init ==
  /\ process = "up"
  /\ mpc = "boot" /\ msock = None
  /\ sock = {}
  /\ tasks = [i \in 0 .. QueueSize - 1 |-> None]
  /\ head = 0 /\ tail = 0 /\ qsize = 0 /\ qlock = None
  /\ wpc = [t \in Threads |-> "dead"]
  /\ slotOf = [t \in Threads |-> 0]
  /\ task = [t \in Threads |-> None]
  /\ slots = [s \in Slot |-> "empty"]
  /\ size = 0 /\ load = 0 /\ plock = None
  /\ hpc = "idle" /\ hthread = None /\ hindex = 0

(***************************************************************************)
(* A thread takes a step of its own while the process is up and the signal *)
(* handler is not running on top of it.                                    *)
(***************************************************************************)
Runs(t) == process = "up" /\ hthread # t

At(t, pc) == Runs(t) /\ wpc[t] = pc
Goto(t, pc) == wpc' = [wpc EXCEPT ![t] = pc]

-----------------------------------------------------------------------------
(***************************************************************************)
(* spawn(): sets up workers[s], starts a thread on it and detaches it.  A  *)
(* failure before pthread_create (which fails too when the system has no   *)
(* thread left) leaves the slot half set up; a failing pthread_detach      *)
(* returns -1 although the thread runs.                                    *)
(***************************************************************************)
StartThread(s) ==
  \E t \in Threads :
    /\ wpc[t] = "dead"
    /\ Goto(t, "lockTake")
    /\ slotOf' = [slotOf EXCEPT ![t] = s]
    /\ slots' = [slots EXCEPT ![s] = "live"]

SpawnFails(s) ==
  \/ /\ "setup" \in SpawnFaults \/ \A t \in Threads : wpc[t] # "dead"
     /\ slots' = [slots EXCEPT ![s] = "torn"]
     /\ UNCHANGED <<wpc, slotOf>>
  \/ /\ "detach" \in SpawnFaults
     /\ StartThread(s)

(***************************************************************************)
(* main() before its loop: least_workers threads, without the pool's lock, *)
(* then the listening socket.                                              *)
(***************************************************************************)
BootWorker ==
  /\ Runs(Main) /\ mpc = "boot"
  /\ size < LeastWorkers
  /\ StartThread(size)
  /\ size' = size + 1
  /\ UNCHANGED <<process, mpc, msock, sock, queueVars, task, load, plock, hpc, hthread, hindex>>

BootFails ==
  /\ Runs(Main) /\ mpc = "boot"
  /\ size < LeastWorkers
  /\ SpawnFails(size)
  /\ process' = "exit1"
  /\ UNCHANGED <<mainVars, sock, queueVars, task, size, load, plock, hpc, hthread, hindex>>

BootDone ==
  /\ Runs(Main) /\ mpc = "boot"
  /\ size >= LeastWorkers
  /\ mpc' = "listen"
  /\ UNCHANGED <<stopVars, msock, sock, queueVars, workVars, poolVars>>

(* socket, setsockopt, bind and listen; any of them failing exits with 1 *)
Listen ==
  /\ Runs(Main) /\ mpc = "listen"
  /\ \/ mpc' = "lockRoom" /\ UNCHANGED process
     \/ process' = "exit1" /\ UNCHANGED mpc
  /\ UNCHANGED <<msock, sock, queueVars, workVars, poolVars, hpc, hthread, hindex>>

-----------------------------------------------------------------------------
(***************************************************************************)
(* One round of main()'s loop: wait for room in the queue, grow the pool   *)
(* when every worker is busy, accept a client, queue it.                   *)
(***************************************************************************)
QueueFullLate == qsize > QueueSize  (* mutant *)
QueueFull == qsize >= QueueSize

NextPlaceUnwrapped(i) == i + 1  (* mutant *)
NextPlace(i) == (i + 1) % QueueSize

LockRoom ==
  /\ Runs(Main) /\ mpc = "lockRoom"
  /\ qlock = None
  /\ qlock' = Main
  /\ mpc' = "holdRoom"
  /\ UNCHANGED <<stopVars, msock, sock, tasks, head, tail, qsize, workVars, poolVars>>

AwaitRoom ==
  /\ Runs(Main) /\ mpc = "holdRoom"
  /\ qlock' = None
  /\ mpc' = IF QueueFull THEN "waitRoom" ELSE "lockPool"
  /\ UNCHANGED <<stopVars, msock, sock, tasks, head, tail, qsize, workVars, poolVars>>

LockPool ==
  /\ Runs(Main) /\ mpc = "lockPool"
  /\ plock = None
  /\ plock' = Main
  /\ mpc' = "holdPool"
  /\ UNCHANGED <<stopVars, msock, sock, queueVars, workVars, slots, size, load>>

(* uint8_t new_size = thread_pool.size + 1 *)
NewSize == (size + 1) % Byte

MustGrowPastMost == load >= size /\ size <= MostWorkers  (* mutant *)
MustGrow == load >= size /\ NewSize <= MostWorkers

ScaleUp ==
  /\ Runs(Main) /\ mpc = "holdPool"
  /\ \/ /\ MustGrow
        /\ StartThread(size)
        /\ size' = NewSize
     \/ /\ MustGrow
        /\ SpawnFails(size)
        /\ UNCHANGED size
     \/ /\ ~MustGrow
        /\ UNCHANGED <<size, wpc, slotOf, slots>>
  /\ plock' = None
  /\ mpc' = IF hpc = "idle" THEN "accept" ELSE "refused"
  /\ UNCHANGED <<stopVars, msock, sock, queueVars, task, load>>

(***************************************************************************)
(* accept() blocks until a client connects or fails.  A call made on the   *)
(* socket that stop() has closed only fails; a call already made when      *)
(* stop() closes it keeps waiting, and may still return a client.          *)
(***************************************************************************)
Accept ==
  /\ Runs(Main) /\ mpc = "accept"
  /\ \E c \in Conns \ sock :
       /\ msock' = c
       /\ sock' = sock \cup {c}
  /\ mpc' = "lockPush"
  /\ UNCHANGED <<stopVars, queueVars, workVars, poolVars>>

AcceptFails ==
  /\ Runs(Main) /\ mpc \in {"accept", "refused"}
  /\ mpc' = "lockRoom"
  /\ UNCHANGED <<stopVars, msock, sock, queueVars, workVars, poolVars>>

LockPush ==
  /\ Runs(Main) /\ mpc = "lockPush"
  /\ qlock = None
  /\ qlock' = Main
  /\ mpc' = "holdPush"
  /\ UNCHANGED <<stopVars, msock, sock, tasks, head, tail, qsize, workVars, poolVars>>

SignalFilledForgotten == UNCHANGED wpc  (* mutant *)

(* pthread_cond_signal(&queue.filled): wakes one sleeping worker, if any *)
SignalFilled ==
  \/ \E t \in Threads : wpc[t] = "waitTask" /\ Goto(t, "lockTake")
  \/ /\ \A t \in Threads : wpc[t] # "waitTask"
     /\ UNCHANGED wpc

Push ==
  /\ Runs(Main) /\ mpc = "holdPush"
  /\ tasks' = [tasks EXCEPT ![tail] = msock]
  /\ tail' = NextPlace(tail)
  /\ qsize' = qsize + 1
  /\ SignalFilled
  /\ qlock' = None
  /\ msock' = None
  /\ mpc' = "lockRoom"
  /\ UNCHANGED <<stopVars, sock, head, slotOf, task, poolVars>>

-----------------------------------------------------------------------------
(***************************************************************************)
(* thread(): take a client from the queue, count oneself busy, handle the  *)
(* client, count oneself idle, and leave the pool when it is too large.    *)
(***************************************************************************)
LockTake(t) ==
  /\ At(t, "lockTake")
  /\ qlock = None
  /\ qlock' = t
  /\ Goto(t, "holdTake")
  /\ UNCHANGED <<stopVars, mainVars, sock, tasks, head, tail, qsize, slotOf, task, poolVars>>

AwaitTask(t) ==
  /\ At(t, "holdTake")
  /\ qsize = 0
  /\ qlock' = None
  /\ Goto(t, "waitTask")
  /\ UNCHANGED <<stopVars, mainVars, sock, tasks, head, tail, qsize, slotOf, task, poolVars>>

(* mutant: last in, first out *)
TakeNewest(t) ==
  /\ At(t, "holdTake")
  /\ qsize # 0
  /\ task' = [task EXCEPT ![t] = tasks[(tail + QueueSize - 1) % QueueSize]]
  /\ tail' = (tail + QueueSize - 1) % QueueSize
  /\ qsize' = qsize - 1
  /\ mpc' = IF mpc = "waitRoom" THEN "lockRoom" ELSE mpc
  /\ qlock' = None
  /\ Goto(t, "lockBusy")
  /\ UNCHANGED <<stopVars, msock, sock, tasks, head, slotOf, poolVars>>

Take(t) ==
  /\ At(t, "holdTake")
  /\ qsize # 0
  /\ task' = [task EXCEPT ![t] = tasks[head]]
  /\ head' = NextPlace(head)
  /\ qsize' = qsize - 1
  /\ mpc' = IF mpc = "waitRoom" THEN "lockRoom" ELSE mpc  (* signal queue.available *)
  /\ qlock' = None
  /\ Goto(t, "lockBusy")
  /\ UNCHANGED <<stopVars, msock, sock, tasks, tail, slotOf, poolVars>>

LockBusy(t) ==
  /\ At(t, "lockBusy")
  /\ plock = None
  /\ plock' = t
  /\ Goto(t, "holdBusy")
  /\ UNCHANGED <<stopVars, mainVars, sock, queueVars, slotOf, task, slots, size, load>>

(* mutant: load++ left out on a path *)
BusyUncounted(t) ==
  /\ At(t, "holdBusy")
  /\ UNCHANGED load
  /\ plock' = None
  /\ Goto(t, "handle")
  /\ UNCHANGED <<stopVars, mainVars, sock, queueVars, slotOf, task, slots, size>>

Busy(t) ==
  /\ At(t, "holdBusy")
  /\ load' = load + 1
  /\ plock' = None
  /\ Goto(t, "handle")
  /\ UNCHANGED <<stopVars, mainVars, sock, queueVars, slotOf, task, slots, size>>

(* mutant: a path without close() *)
HandleLeavesOpen(t) ==
  /\ At(t, "handle")
  /\ task' = [task EXCEPT ![t] = None]
  /\ Goto(t, "lockIdle")
  /\ UNCHANGED <<stopVars, mainVars, sock, queueVars, slotOf, poolVars>>

(* handle() closes the client socket on each of its paths *)
Handle(t) ==
  /\ At(t, "handle")
  /\ sock' = sock \ {task[t]}
  /\ task' = [task EXCEPT ![t] = None]
  /\ Goto(t, "lockIdle")
  /\ UNCHANGED <<stopVars, mainVars, queueVars, slotOf, poolVars>>

LockIdle(t) ==
  /\ At(t, "lockIdle")
  /\ plock = None
  /\ plock' = t
  /\ Goto(t, "holdIdle")
  /\ UNCHANGED <<stopVars, mainVars, sock, queueVars, slotOf, task, slots, size, load>>

(* mutant: a worker that is not the last leaves *)
MustShrinkAny(t) ==
  /\ load - 1 <= size \div 2
  /\ slotOf[t] >= LeastWorkers

(* the pool is at most half busy and the thread is its last, above the least *)
MustShrink(t) ==
  /\ load - 1 <= size \div 2
  /\ slotOf[t] >= LeastWorkers
  /\ slotOf[t] + 1 = size

SignalAvailableForgotten == UNCHANGED hpc  (* mutant *)

(* pthread_cond_signal(&thread_pool.available): only stop() waits for it *)
SignalAvailable == hpc' = IF hpc = "wait" THEN "lock" ELSE hpc

Idle(t) ==
  /\ At(t, "holdIdle")
  /\ load' = load - 1
  /\ IF MustShrink(t)
       THEN /\ slots' = [slots EXCEPT ![slotOf[t]] = "freed"]
            /\ size' = size - 1
            /\ Goto(t, "exit")
       ELSE /\ Goto(t, "lockTake")
            /\ UNCHANGED <<slots, size>>
  /\ SignalAvailable
  /\ plock' = None
  /\ UNCHANGED <<process, hthread, hindex, mainVars, sock, queueVars, slotOf, task>>

Exit(t) ==
  /\ At(t, "exit")
  /\ Goto(t, "dead")
  /\ slotOf' = [slotOf EXCEPT ![t] = 0]
  /\ UNCHANGED <<stopVars, mainVars, sock, queueVars, task, poolVars>>

-----------------------------------------------------------------------------
(***************************************************************************)
(* stop(): closes the listening socket, waits until no worker is busy,     *)
(* releases what the process holds and exits.  The thread it runs on does  *)
(* not go on.                                                              *)
(***************************************************************************)
Interrupt(t) ==
  /\ process = "up" /\ hpc = "idle"
  /\ t \in Threads => wpc[t] # "dead"
  /\ hpc' = "lock"
  /\ hthread' = t
  /\ UNCHANGED <<process, hindex, mainVars, sock, queueVars, workVars, poolVars>>

StopLock ==
  /\ process = "up" /\ hpc = "lock"
  /\ plock = None
  /\ plock' = hthread
  /\ hpc' = "check"
  /\ UNCHANGED <<process, hthread, hindex, mainVars, sock, queueVars, workVars, slots, size, load>>

AnyBusyOffByOne == load > 1  (* mutant *)
AnyBusy == load > 0

StopCheck ==
  /\ process = "up" /\ hpc = "check"
  /\ hpc' = IF AnyBusy THEN "wait" ELSE "close"
  /\ plock' = None
  /\ UNCHANGED <<process, hthread, hindex, mainVars, sock, queueVars, workVars, slots, size, load>>

(* the loop reads thread_pool.size without the lock, on each of its rounds *)
StopClose ==
  /\ process = "up" /\ hpc = "close"
  /\ IF hindex < size
       THEN /\ slots' = [slots EXCEPT ![hindex] = "freed"]
            /\ hindex' = hindex + 1
            /\ UNCHANGED hpc
       ELSE /\ hpc' = "exit"
            /\ UNCHANGED <<slots, hindex>>
  /\ UNCHANGED <<process, hthread, mainVars, sock, queueVars, workVars, size, load, plock>>

StopExit ==
  /\ process = "up" /\ hpc = "exit"
  /\ process' = "exit0"
  /\ UNCHANGED <<hpc, hthread, hindex, mainVars, sock, queueVars, workVars, poolVars>>

-----------------------------------------------------------------------------
(* POSIX allows pthread_cond_wait to return without a signal. *)
SpuriousWakeup ==
  /\ process = "up"
  /\ \/ /\ mpc = "waitRoom"
        /\ mpc' = "lockRoom"
        /\ UNCHANGED <<wpc, hpc>>
     \/ /\ hpc = "wait"
        /\ hpc' = "lock"
        /\ UNCHANGED <<mpc, wpc>>
     \/ \E t \in Threads :
          /\ wpc[t] = "waitTask"
          /\ Goto(t, "lockTake")
          /\ UNCHANGED <<mpc, hpc>>
  /\ UNCHANGED <<process, hthread, hindex, msock, sock, queueVars, slotOf, task, poolVars>>

MainStep ==
  \/ BootWorker \/ BootFails \/ BootDone \/ Listen
  \/ LockRoom \/ AwaitRoom \/ LockPool \/ ScaleUp \/ Accept \/ AcceptFails \/ LockPush \/ Push

WorkerStep(t) ==
  \/ LockTake(t) \/ AwaitTask(t) \/ Take(t)
  \/ LockBusy(t) \/ Busy(t) \/ Handle(t)
  \/ LockIdle(t) \/ Idle(t) \/ Exit(t)

StopStep == StopLock \/ StopCheck \/ StopClose \/ StopExit

(* the process is gone: nothing happens any more *)
Exited == process # "up" /\ UNCHANGED vars

Next ==
  \/ MainStep
  \/ \E t \in Threads : WorkerStep(t)
  \/ \E t \in SignalThreads : Interrupt(t)
  \/ StopStep
  \/ SpuriousWakeup
  \/ Exited

Spec == Init /\ [][Next]_vars

-----------------------------------------------------------------------------
(***************************************************************************)
(* Fairness.  A thread that can take a step takes it, and a thread that    *)
(* finds a mutex free again and again gets it in the end: nothing else in  *)
(* the code keeps the many users of the two locks from starving one.       *)
(* handle() ends because its receives and sends have timeouts and are      *)
(* bounded in number.  Nothing makes a client connect (Accept), an accept  *)
(* fail, a signal arrive or a condition wake without a signal.  The boot   *)
(* is fair in that main() does not stop in the middle of it.               *)
(***************************************************************************)
MainProceeds ==
  \/ BootWorker \/ BootFails \/ BootDone \/ Listen
  \/ LockRoom \/ AwaitRoom \/ LockPool \/ ScaleUp \/ LockPush \/ Push
  \/ mpc = "refused" /\ AcceptFails

(* Each thread is at one step at a time, so that strong fairness of all its
   steps is strong fairness of the one that takes a mutex and weak fairness
   of the one that does not. *)
Fairness ==
  /\ SF_vars(MainProceeds)
  /\ \A t \in Threads : SF_vars(WorkerStep(t))
  /\ SF_vars(StopStep)

FairSpec == Spec /\ Fairness

-----------------------------------------------------------------------------
(* What holds of every state. *)

TypeOK ==
  /\ process \in {"up", "exit0", "exit1"}
  /\ mpc \in MainPc /\ msock \in Conns \cup {None}
  /\ sock \subseteq Conns
  /\ tasks \in [0 .. QueueSize - 1 -> Conns \cup {None}]
  /\ head \in 0 .. QueueSize - 1 /\ tail \in 0 .. QueueSize - 1
  /\ qsize \in Nat
  /\ qlock \in Threads \cup {Main, None}
  /\ wpc \in [Threads -> WorkerPc]
  /\ slotOf \in [Threads -> Slot]
  /\ task \in [Threads -> Conns \cup {None}]
  /\ slots \in [Slot -> {"empty", "live", "torn", "freed"}]
  /\ size \in Slot /\ load \in Int
  /\ plock \in Threads \cup {Main, None}
  /\ hpc \in StopPc /\ hthread \in Threads \cup {Main, None}
  /\ hindex \in 0 .. Byte

(***************************************************************************)
(* Room seen by main() is still there when it pushes, although it gave the *)
(* queue's lock back to grow the pool and to wait in accept() in between:  *)
(* the ring never holds more than queue_size clients, and its three        *)
(* counters agree (main.c:174-181 and 204-213, thread.c:86-91).            *)
(***************************************************************************)
RoomKept == mpc \in {"lockPool", "holdPool", "accept", "refused", "lockPush", "holdPush"}

RingConsistent ==
  /\ qsize <= QueueSize
  /\ RoomKept => qsize < QueueSize
  /\ tail = (head + qsize) % QueueSize

(***************************************************************************)
(* Every client that is connected is in exactly one pair of hands: main's, *)
(* one place of the ring or one worker's; and all those hold a connected   *)
(* client.  None is served twice, forgotten or closed while it waits.      *)
(***************************************************************************)
Queued == {(head + i) % QueueSize : i \in 0 .. qsize - 1}

EachClientOnce ==
  LET hands == {<<"main", 0>> : m \in {msock} \ {None}}
                 \cup {<<"ring", i>> : i \in Queued}
                 \cup {<<"worker", t>> : t \in {u \in Threads : task[u] # None}}
      held(h) == CASE h[1] = "main" -> msock
                   [] h[1] = "ring" -> tasks[h[2]]
                   [] h[1] = "worker" -> task[h[2]]
  IN /\ {held(h) : h \in hands} = sock
     /\ Cardinality(hands) = Cardinality(sock)

(***************************************************************************)
(* thread_pool.load, on which both the growth of the pool and the graceful *)
(* stop rest, is the number of workers between their two updates of it.    *)
(***************************************************************************)
CountedBusy == {t \in Threads : wpc[t] \in {"handle", "lockIdle", "holdIdle"}}

LoadExact == load = Cardinality(CountedBusy)

(***************************************************************************)
(* The workers that go on working own the worker_t's 0 .. size - 1, each   *)
(* one of its own, however often the pool has grown and shrunk: spawn()    *)
(* never reuses a worker_t that is in use, and the shrinking worker is     *)
(* always the last.                                                        *)
(***************************************************************************)
Working == {t \in Threads : wpc[t] \notin {"dead", "exit"}}

OneWorkerPerSlot ==
  /\ \A t, u \in Working : slotOf[t] = slotOf[u] => t = u
  /\ {slotOf[t] : t \in Working} = 0 .. size - 1

(* The pool stays between its two configured sizes once it has been set up. *)
PoolBounded ==
  /\ size <= MostWorkers
  /\ mpc # "boot" => LeastWorkers <= size
  /\ \A t \in Threads : wpc[t] # "dead" => slotOf[t] < MostWorkers

(***************************************************************************)
(* A worker handles a client only with the open database and the buffers   *)
(* of its own worker_t: no shrinking, failed growth or shutdown releases   *)
(* them under it.                                                          *)
(***************************************************************************)
HandlesOnLiveSlot ==
  \A t \in Threads : wpc[t] \in {"lockBusy", "holdBusy", "handle"} => slots[slotOf[t]] = "live"

-----------------------------------------------------------------------------
(***************************************************************************)
(* The server of threads, ring and locks implements the client service:    *)
(* first come, first served, at most queue_size clients in the ring and    *)
(* one in main's hands.                                                    *)
(***************************************************************************)
Ring == [i \in 1 .. qsize |-> tasks[(head + i - 1) % QueueSize]]

Service == INSTANCE ClientService WITH
  Clients <- Conns,
  Capacity <- QueueSize + 1,
  pending <- IF msock = None THEN Ring ELSE Append(Ring, msock),
  serving <- {task[t] : t \in Threads} \ {None}

ServesClients == Service!Spec

(***************************************************************************)
(* Every client that main() has accepted is handled and disconnected in    *)
(* the end, unless a signal stops the server: no wakeup of a worker or of  *)
(* main() is lost, whatever the pool does meanwhile.                       *)
(***************************************************************************)
ServedUnlessStopped ==
  \A c \in Conns : (c \in sock) ~> (c \notin sock \/ hpc # "idle" \/ process # "up")

(***************************************************************************)
(* stop() goes on to release the buffers only when no worker is inside     *)
(* handle() (main.c:30-36): what the wait for load is there for.           *)
(***************************************************************************)
StopAwaitsHandlers ==
  [][hpc = "check" /\ hpc' = "close" => \A t \in Threads : wpc[t] # "handle"]_vars

(***************************************************************************)
(* A shutdown ends, however busy the pool is, when the signal arrives on a *)
(* thread that neither holds the pool's lock nor is counted in its load.   *)
(***************************************************************************)
Interruptible(t) ==
  IF t = Main THEN mpc # "holdPool" ELSE wpc[t] \notin {"holdBusy", "handle", "lockIdle", "holdIdle"}

StopEnds == (hpc = "lock" /\ Interruptible(hthread)) ~> (process # "up")

(***************************************************************************)
(* The same without the condition, as "graceful shutdown complete"         *)
(* (main.c:54) has it.                                                     *)
(***************************************************************************)
StopAlwaysEnds == (hpc = "lock") ~> (process # "up")
=============================================================================
