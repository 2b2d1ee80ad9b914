----------------------------- MODULE ThreadPool -----------------------------
(***************************************************************************)
(* The thread pool of src/thread_pool.cpp and include/thread_pool.h, with  *)
(* its only client, the loop of Tracker::trackBuild that enqueues one task *)
(* per dependency file, waits for the futures and leaves the scope that    *)
(* owns the pool.                                                          *)
(*                                                                         *)
(* One action is one step between two points where another thread can run: *)
(* taking queue_mutex, evaluating the predicate, giving the mutex up       *)
(* inside condition.wait, notifying.  condition.wait(lock, pred) tests     *)
(* pred, releases the mutex and sleeps atomically, takes the mutex again   *)
(* after a wake-up and tests pred again.                                   *)
(***************************************************************************)
EXTENDS Naturals, Sequences, FiniteSets

CONSTANTS
    Workers,            \* the pool's threads
    Owner,              \* the thread that runs trackBuild
    Free,               \* value of queue_mutex when nobody holds it
    NumTasks,           \* tasks trackBuild enqueues, 1 .. NumTasks in order
    EnqueueMayThrow     \* whether the loop may throw (bad_alloc, system_error)

ASSUME PoolAssumption ==
    /\ Workers # {} /\ IsFiniteSet(Workers)
    /\ Owner \notin Workers
    /\ Free \notin Workers \cup {Owner}
    /\ NumTasks \in Nat
    /\ EnqueueMayThrow \in BOOLEAN

VARIABLES
    queue_mutex,        \* its holder, or Free
    tasks,              \* the queue of tasks, oldest first
    stop,
    wpc,                \* where each worker is in its loop
    job,                \* the task each worker holds, 0 for none
    ready,              \* the tasks whose future is ready
    opc,                \* where the owner is
    enqueued,           \* how many tasks the owner has put in the queue
    gets                \* how many futures the owner has waited for

workerVars == <<wpc, job, ready>>
ownerVars == <<opc, enqueued, gets>>
vars == <<queue_mutex, tasks, stop, workerVars, ownerVars>>

WorkerPCs == {"unborn", "start", "check", "block", "wait", "run", "exited"}
OwnerPCs == {"construct", "enqueue", "push", "notify", "get", "stopLock",
             "stop", "notifyAll", "join", "done"}

Init ==
    /\ queue_mutex = Free
    /\ tasks = <<>>
    /\ stop = FALSE
    /\ wpc = [w \in Workers |-> "unborn"]
    /\ job = [w \in Workers |-> 0]
    /\ ready = {}
    /\ opc = "construct"
    /\ enqueued = 0
    /\ gets = 0

-----------------------------------------------------------------------------
(* Small operators of the code, each with the forms a slip would give it.  *)

PeekOnly(q) == q
DropNewest(q) == SubSeq(q, 1, Len(q) - 1)
(* tasks.pop() *)
PopFront(q) == Tail(q)

StopAlone(s, q) == s
(* The test by which a worker leaves its loop. *)
MayExit(s, q) == s /\ q = <<>>

NobodyWakes(w) == UNCHANGED wpc
(* The effect of a notification on a sleeping worker. *)
Wake(w) == wpc' = [wpc EXCEPT ![w] = "start"]

WakeJustOne ==
    IF \E w \in Workers : wpc[w] = "wait"
    THEN \E w \in Workers : wpc[w] = "wait" /\ Wake(w)
    ELSE UNCHANGED wpc
(* The effect of notify_all. *)
WakeAll == wpc' = [w \in Workers |-> IF wpc[w] = "wait" THEN "start" ELSE wpc[w]]

AnyFuture(t) == t \in 1..NumTasks
(* future.get() returns: the packaged task has run. *)
FutureReady(t) == t \in ready

(* The range-based for over dependency_files has a next element. *)
MoreFiles(n) == n < NumTasks

NoMutex == TRUE
(* unique_lock on queue_mutex gets through. *)
MutexFree == queue_mutex = Free

-----------------------------------------------------------------------------
(* The owner: constructor, trackBuild's loops, destructor.                 *)

(* A worker thread starts while the constructor is still creating others.  *)
Spawn(w) ==
    /\ opc = "construct"
    /\ wpc[w] = "unborn"
    /\ wpc' = [wpc EXCEPT ![w] = "start"]
    /\ UNCHANGED <<queue_mutex, tasks, stop, job, ready, ownerVars>>

Constructed ==
    /\ opc = "construct"
    /\ \A w \in Workers : wpc[w] # "unborn"
    /\ opc' = "enqueue"
    /\ UNCHANGED <<queue_mutex, tasks, stop, workerVars, enqueued, gets>>

EnqueueLock ==
    /\ opc = "enqueue"
    /\ MoreFiles(enqueued)
    /\ MutexFree
    /\ queue_mutex' = Owner
    /\ opc' = "push"
    /\ UNCHANGED <<tasks, stop, workerVars, enqueued, gets>>

(* enqueue throws before anything is pushed: trackBuild is unwound, so its *)
(* locals go and the pool's destructor is entered without future.get().    *)
EnqueueThrows ==
    /\ EnqueueMayThrow
    /\ opc = "enqueue"
    /\ MoreFiles(enqueued)
    /\ opc' = "stopLock"
    /\ UNCHANGED <<queue_mutex, tasks, stop, workerVars, enqueued, gets>>

(* futures.emplace_back throws after enqueue has accepted the task, which  *)
(* may be the last one: unwound in the same way, nobody waits for it.      *)
EmplaceThrows ==
    /\ EnqueueMayThrow
    /\ opc = "enqueue"
    /\ enqueued > 0
    /\ opc' = "stopLock"
    /\ UNCHANGED <<queue_mutex, tasks, stop, workerVars, enqueued, gets>>

(* The body of the locked block and its end.  `stop' is still false: only  *)
(* the owner itself sets it, later.                                        *)
Push ==
    /\ opc = "push"
    /\ ~stop
    /\ tasks' = Append(tasks, enqueued + 1)
    /\ enqueued' = enqueued + 1
    /\ queue_mutex' = Free
    /\ opc' = "notify"
    /\ UNCHANGED <<stop, workerVars, gets>>

NotifyOne ==
    /\ opc = "notify"
    /\ \/ \E w \in Workers : wpc[w] = "wait" /\ Wake(w)
       \/ /\ \A w \in Workers : wpc[w] # "wait"
          /\ UNCHANGED wpc
    /\ opc' = "enqueue"
    /\ UNCHANGED <<queue_mutex, tasks, stop, job, ready, enqueued, gets>>

AllEnqueued ==
    /\ opc = "enqueue"
    /\ ~MoreFiles(enqueued)
    /\ opc' = "get"
    /\ UNCHANGED <<queue_mutex, tasks, stop, workerVars, enqueued, gets>>

GetFuture ==
    /\ opc = "get"
    /\ gets < enqueued
    /\ FutureReady(gets + 1)
    /\ gets' = gets + 1
    /\ UNCHANGED <<queue_mutex, tasks, stop, workerVars, opc, enqueued>>

(* trackBuild returns; its locals are destroyed in reverse order, which    *)
(* takes process_file, futures and record_mutex before the pool.           *)
LeaveScope ==
    /\ opc = "get"
    /\ gets = enqueued
    /\ opc' = "stopLock"
    /\ UNCHANGED <<queue_mutex, tasks, stop, workerVars, enqueued, gets>>

StopLock ==
    /\ opc = "stopLock"
    /\ MutexFree
    /\ queue_mutex' = Owner
    /\ opc' = "stop"
    /\ UNCHANGED <<tasks, stop, workerVars, enqueued, gets>>

SetStop ==
    /\ opc = "stop"
    /\ stop' = TRUE
    /\ queue_mutex' = Free
    /\ opc' = "notifyAll"
    /\ UNCHANGED <<tasks, workerVars, enqueued, gets>>

NotifyAll ==
    /\ opc = "notifyAll"
    /\ WakeAll
    /\ opc' = "join"
    /\ UNCHANGED <<queue_mutex, tasks, stop, job, ready, enqueued, gets>>

Join ==
    /\ opc = "join"
    /\ \A w \in Workers : wpc[w] = "exited"
    /\ opc' = "done"
    /\ UNCHANGED <<queue_mutex, tasks, stop, workerVars, enqueued, gets>>

Owns == \/ \E w \in Workers : Spawn(w)
        \/ Constructed \/ EnqueueLock \/ Push \/ NotifyOne \/ AllEnqueued
        \/ GetFuture \/ LeaveScope \/ StopLock \/ SetStop \/ NotifyAll \/ Join

-----------------------------------------------------------------------------
(* A worker's loop.                                                        *)

(* Takes the mutex, on entering the block or on returning from a sleep.    *)
Lock(w) ==
    /\ wpc[w] = "start"
    /\ MutexFree
    /\ queue_mutex' = w
    /\ wpc' = [wpc EXCEPT ![w] = "check"]
    /\ UNCHANGED <<tasks, stop, job, ready, ownerVars>>

(* The predicate is false: the worker is about to sleep, mutex still held. *)
MustWait(w) ==
    /\ wpc[w] = "check"
    /\ ~stop /\ tasks = <<>>
    /\ wpc' = [wpc EXCEPT ![w] = "block"]
    /\ UNCHANGED <<queue_mutex, tasks, stop, job, ready, ownerVars>>

(* Releases the mutex and joins the sleepers in one step.                  *)
Block(w) ==
    /\ wpc[w] = "block"
    /\ queue_mutex' = Free
    /\ wpc' = [wpc EXCEPT ![w] = "wait"]
    /\ UNCHANGED <<tasks, stop, job, ready, ownerVars>>

Exit(w) ==
    /\ wpc[w] = "check"
    /\ MayExit(stop, tasks)
    /\ queue_mutex' = Free
    /\ wpc' = [wpc EXCEPT ![w] = "exited"]
    /\ UNCHANGED <<tasks, stop, job, ready, ownerVars>>

Take(w) ==
    /\ wpc[w] = "check"
    /\ tasks # <<>> /\ ~MayExit(stop, tasks)
    /\ job' = [job EXCEPT ![w] = Head(tasks)]
    /\ tasks' = PopFront(tasks)
    /\ queue_mutex' = Free
    /\ wpc' = [wpc EXCEPT ![w] = "run"]
    /\ UNCHANGED <<stop, ready, ownerVars>>

(* task() returns; the packaged task has made its future ready.            *)
Run(w) ==
    /\ wpc[w] = "run"
    /\ ready' = ready \cup {job[w]}
    /\ job' = [job EXCEPT ![w] = 0]
    /\ wpc' = [wpc EXCEPT ![w] = "start"]
    /\ UNCHANGED <<queue_mutex, tasks, stop, ownerVars>>

(* A sleeper may wake although nobody notified it.                         *)
SpuriousWake(w) ==
    /\ wpc[w] = "wait"
    /\ wpc' = [wpc EXCEPT ![w] = "start"]
    /\ UNCHANGED <<queue_mutex, tasks, stop, job, ready, ownerVars>>

Works(w) == \/ Lock(w) \/ MustWait(w) \/ Block(w)
            \/ Exit(w) \/ Take(w) \/ Run(w)

(* The program has left the pool's scope: it stops here.                   *)
Left == opc = "done" /\ UNCHANGED vars

Next == \/ Owns \/ EnqueueThrows \/ EmplaceThrows
        \/ \E w \in Workers : Works(w) \/ SpuriousWake(w)
        \/ Left

Spec == Init /\ [][Next]_vars

(* Every thread is scheduled, every task returns (process_file ends and    *)
(* catches what it throws), and sleepers wake for no reason only finitely  *)
(* often: then nobody competes for the mutex for ever.                     *)
Fairness ==
    /\ WF_vars(Owns)
    /\ \A w \in Workers : WF_vars(Works(w))
    /\ <>[][\A w \in Workers : ~SpuriousWake(w)]_vars

FairSpec == Spec /\ Fairness

-----------------------------------------------------------------------------
(* Safety. *)

(* Every variable stays in its type. *)
TypeOK ==
    /\ queue_mutex \in Workers \cup {Owner, Free}
    /\ tasks \in Seq(1..NumTasks)
    /\ stop \in BOOLEAN
    /\ wpc \in [Workers -> WorkerPCs]
    /\ job \in [Workers -> 0..NumTasks]
    /\ ready \in SUBSET (1..NumTasks)
    /\ opc \in OwnerPCs
    /\ enqueued \in 0..NumTasks
    /\ gets \in 0..NumTasks

Queued == {tasks[i] : i \in 1..Len(tasks)}
RunBy(t) == {w \in Workers : wpc[w] = "run" /\ job[w] = t}

(* No enqueued task is lost and none is given to two workers: each is in   *)
(* the queue, or in the hands of exactly one worker, or its future is      *)
(* ready, and never two of these.  (the moves under queue_mutex in the     *)
(* worker's loop and in enqueue)                                           *)
EachTaskOnce ==
    \A t \in 1..enqueued :
        \/ t \in Queued /\ t \notin ready /\ RunBy(t) = {}
        \/ t \notin Queued /\ t \in ready /\ RunBy(t) = {}
        \/ /\ t \notin Queued /\ t \notin ready
           /\ \E w \in Workers : RunBy(t) = {w}

Heading == {w \in Workers : wpc[w] \in {"start", "check"}}

(* One notify_one per push is enough: while any worker sleeps there are at *)
(* least as many workers on their way to the queue as tasks in it, so no   *)
(* wake-up is lost and no worker sleeps through work that is there for it. *)
(* (between emplace and notify_one, the newest task is not announced yet)  *)
WorkConserving ==
    (\E w \in Workers : wpc[w] = "wait")
        => Len(tasks) <= Cardinality(Heading) + (IF opc = "notify" THEN 1 ELSE 0)

(* Once the destructor has called notify_all nobody sleeps or is about to: *)
(* `stop' is set under queue_mutex, so no worker can have tested the old   *)
(* value and go to sleep after the notification that join() relies on.     *)
NoSleeperAtShutdown ==
    opc \in {"join", "done"} =>
        \A w \in Workers : wpc[w] \notin {"wait", "block"}

(* The tasks capture record_mutex and process_file by reference, so none   *)
(* may run once trackBuild has waited for its futures and left the scope   *)
(* that declares them.  (A throw in the loop leaves without any wait.)     *)
TasksUseLiveLocals ==
    /\ gets = NumTasks
    /\ opc \in {"stopLock", "stop", "notifyAll", "join", "done"}
    => \A w \in Workers : wpc[w] # "run"

-----------------------------------------------------------------------------
(* Liveness. *)

(* trackBuild gets out of the pool's scope: no join waits for a sleeper    *)
(* and no future.get() for a task nobody runs.                             *)
Termination == <>(opc = "done")

(* Every task that was enqueued is run, also when the pool is being        *)
(* stopped: workers leave only when the queue is empty.                    *)
EnqueuedIsServed ==
    \A t \in 1..NumTasks : (t <= enqueued) ~> (t \in ready)

-----------------------------------------------------------------------------
(* What the pool promises, read off its state. *)

StatusOf(t) == IF t > enqueued THEN "new"
               ELSE IF t > enqueued - Len(tasks) THEN "queued"
               ELSE IF t \in ready THEN "done"
               ELSE "running"

Runner == INSTANCE TaskRunner
            WITH Capacity <- Cardinality(Workers),
                 status <- [t \in 1..NumTasks |-> StatusOf(t)],
                 closed <- (opc = "done")

(* The pool implements TaskRunner: tasks start in the order they were      *)
(* enqueued, never more at a time than there are workers, and the          *)
(* destructor returns only when every accepted task has finished.          *)
ImplementsTaskRunner == Runner!Spec
=============================================================================
