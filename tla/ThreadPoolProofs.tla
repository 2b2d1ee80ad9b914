-------------------------- MODULE ThreadPoolProofs --------------------------
(***************************************************************************)
(* Proofs about module ThreadPool, for every set of workers and every      *)
(* number of tasks.  The inductive invariant comes in three layers, each   *)
(* proved with the ones before it: who holds the mutex and what that       *)
(* excludes (ControlInv), where the tasks are (TaskInv), and how many      *)
(* workers are on their way to the queue (WorkConserving).                 *)
(***************************************************************************)
EXTENDS ThreadPool, FiniteSetTheorems, SequenceTheorems, TLAPS

(* The holder of queue_mutex is the thread that is between lock and unlock. *)
MutexInv ==
    /\ \A w \in Workers : wpc[w] \in {"check", "block"} <=> queue_mutex = w
    /\ opc \in {"push", "stop"} <=> queue_mutex = Owner

(* What the program counters say of `stop', of the queue and of each other. *)
PhaseInv ==
    /\ stop <=> opc \in {"notifyAll", "join", "done"}
    /\ opc = "push" => enqueued < NumTasks
    /\ \A w \in Workers :
        /\ wpc[w] = "block" => ~stop /\ tasks = <<>>
        /\ wpc[w] = "exited" => stop /\ tasks = <<>>
        /\ wpc[w] = "run" => job[w] # 0
        /\ opc \in {"join", "done"} => wpc[w] \notin {"wait", "block"}
        /\ opc = "done" => wpc[w] = "exited"

ControlInv == TypeOK /\ MutexInv /\ PhaseInv

Taken == enqueued - Len(tasks)

(* The queue holds the tasks after the Taken first ones, in order; those   *)
(* are run by one worker each, or ready; the owner has waited only for     *)
(* tasks that are ready.                                                   *)
TaskInv ==
    /\ Len(tasks) <= enqueued
    /\ \A i \in 1..Len(tasks) : tasks[i] = Taken + i
    /\ \A w \in Workers :
        wpc[w] = "run" => job[w] \in 1..Taken /\ job[w] \notin ready
    /\ \A v, w \in Workers :
        wpc[v] = "run" /\ wpc[w] = "run" /\ job[v] = job[w] => v = w
    /\ \A t \in 1..Taken :
        t \in ready \/ \E w \in Workers : wpc[w] = "run" /\ job[w] = t
    /\ ready \subseteq 1..Taken
    /\ gets <= enqueued
    /\ 1..gets \subseteq ready

-----------------------------------------------------------------------------
(* Types and mutual exclusion. *)

LEMMA InitControl == Init => ControlInv
<1> SUFFICES ASSUME Init
             PROVE  ControlInv
  OBVIOUS
<1>1. TypeOK
  <2>1. tasks \in Seq(1..NumTasks)
    BY EmptySeq DEF Init
  <2>2. 0 \in 0..NumTasks
    BY PoolAssumption
  <2> QED
    BY <2>1, <2>2 DEF Init, TypeOK, WorkerPCs, OwnerPCs
<1>2. MutexInv
  BY PoolAssumption DEF Init, MutexInv
<1>3. PhaseInv
  BY PoolAssumption DEF Init, PhaseInv
<1> QED
  BY <1>1, <1>2, <1>3 DEF ControlInv

(* Every step of the pool and of its owner preserves the control invariant. *)
LEMMA StepControl == ControlInv /\ [Next]_vars => ControlInv'
<1> SUFFICES ASSUME ControlInv, [Next]_vars
             PROVE  ControlInv'
  OBVIOUS
<1> USE PoolAssumption DEF ControlInv, TypeOK, MutexInv, PhaseInv, WorkerPCs,
                           OwnerPCs, ownerVars, workerVars
<1>1. ASSUME NEW w \in Workers, Spawn(w)
      PROVE  ControlInv'
  BY <1>1 DEF Spawn
<1>2. CASE Constructed
  BY <1>2 DEF Constructed
<1>3. CASE EnqueueLock
  BY <1>3 DEF EnqueueLock, MutexFree, MoreFiles
<1>4. CASE EnqueueThrows \/ EmplaceThrows
  <2>1. /\ opc = "enqueue" /\ opc' = "stopLock"
        /\ UNCHANGED <<queue_mutex, tasks, stop, wpc, job, ready, enqueued, gets>>
    BY <1>4 DEF EnqueueThrows, EmplaceThrows
  <2> QED
    BY <2>1
<1>5. CASE Push
  <2>1. /\ enqueued + 1 \in 1..NumTasks
        /\ tasks' \in Seq(1..NumTasks)
    BY <1>5, AppendProperties DEF Push
  <2> QED
    BY <1>5, <2>1 DEF Push
<1>6. CASE NotifyOne
  BY <1>6 DEF NotifyOne, Wake
<1>7. CASE AllEnqueued
  BY <1>7 DEF AllEnqueued
<1>8. CASE GetFuture
  BY <1>8 DEF GetFuture, FutureReady
<1>9. CASE LeaveScope
  BY <1>9 DEF LeaveScope
<1>10. CASE StopLock
  BY <1>10 DEF StopLock, MutexFree
<1>11. CASE SetStop
  BY <1>11 DEF SetStop
<1>12. CASE NotifyAll
  BY <1>12 DEF NotifyAll, WakeAll
<1>13. CASE Join
  BY <1>13 DEF Join
<1>14. ASSUME NEW w \in Workers, Lock(w)
       PROVE  ControlInv'
  BY <1>14 DEF Lock, MutexFree
<1>15. ASSUME NEW w \in Workers, MustWait(w)
       PROVE  ControlInv'
  BY <1>15 DEF MustWait
<1>16. ASSUME NEW w \in Workers, Block(w)
       PROVE  ControlInv'
  BY <1>16 DEF Block
<1>17. ASSUME NEW w \in Workers, Exit(w)
       PROVE  ControlInv'
  BY <1>17 DEF Exit, MayExit
<1>18. ASSUME NEW w \in Workers, Take(w)
       PROVE  ControlInv'
  <2>1. Head(tasks) \in 1..NumTasks /\ tasks' \in Seq(1..NumTasks)
    BY <1>18, HeadTailProperties DEF Take, PopFront
  <2> QED
    BY <1>18, <2>1 DEF Take, PopFront
<1>19. ASSUME NEW w \in Workers, Run(w)
       PROVE  ControlInv'
  <2>1. job[w] \in 1..NumTasks /\ 0 \in 0..NumTasks
    BY <1>19 DEF Run
  <2> QED
    BY <1>19, <2>1 DEF Run
<1>20. ASSUME NEW w \in Workers, SpuriousWake(w)
       PROVE  ControlInv'
  BY <1>20 DEF SpuriousWake
<1>21. CASE UNCHANGED vars
  <2>1. /\ UNCHANGED <<queue_mutex, tasks, stop, wpc, job>>
        /\ UNCHANGED <<ready, opc, enqueued, gets>>
    BY <1>21 DEF vars
  <2> QED
    BY <2>1
<1> QED
  BY <1>1, <1>2, <1>3, <1>4, <1>5, <1>6, <1>7, <1>8, <1>9, <1>10, <1>11,
     <1>12, <1>13, <1>14, <1>15, <1>16, <1>17, <1>18, <1>19, <1>20, <1>21
  DEF Next, Owns, Works, Left

(* The pool's variables keep their types: the mutex has one holder, the    *)
(* queue holds tasks that were enqueued, nothing is counted past NumTasks. *)
THEOREM PoolTypes == Spec => []TypeOK
<1>1. Init => ControlInv
  BY InitControl
<1>2. ControlInv /\ [Next]_vars => ControlInv'
  BY StepControl
<1>3. ControlInv => TypeOK
  BY DEF ControlInv
<1> QED
  BY <1>1, <1>2, <1>3, PTL DEF Spec

LEMMA AlwaysControl == Spec => []ControlInv
BY InitControl, StepControl, PTL DEF Spec

(* No worker sleeps, or is about to, once the destructor has notified all. *)
THEOREM NobodySleepsThroughShutdown == Spec => []NoSleeperAtShutdown
<1>1. ControlInv => NoSleeperAtShutdown
  BY DEF ControlInv, PhaseInv, NoSleeperAtShutdown
<1> QED
  BY <1>1, AlwaysControl, PTL

-----------------------------------------------------------------------------
(* Where the tasks are. *)

LEMMA InitTasks == Init => TaskInv
<1> SUFFICES ASSUME Init
             PROVE  TaskInv
  OBVIOUS
<1>1. Len(tasks) = 0 /\ 1..0 = {}
  BY EmptySeq DEF Init
<1> QED
  BY <1>1 DEF Init, TaskInv, Taken

(* The queue moves from its head into the workers' hands and from there    *)
(* into `ready'; nothing else changes where a task is.                     *)
LEMMA StepTasks == ControlInv /\ TaskInv /\ [Next]_vars => TaskInv'
<1> SUFFICES ASSUME ControlInv, TaskInv, [Next]_vars
             PROVE  TaskInv'
  OBVIOUS
<1> USE DEF TaskInv, Taken, ownerVars, workerVars
<1>0. /\ TypeOK /\ PhaseInv
      /\ Len(tasks) \in Nat
      /\ enqueued \in Nat /\ gets \in Nat
      /\ wpc \in [Workers -> WorkerPCs]
      /\ job \in [Workers -> 0..NumTasks]
      /\ NumTasks \in Nat
  BY PoolAssumption, LenProperties DEF ControlInv, TypeOK
<1>1. ASSUME NEW w \in Workers, Spawn(w)
      PROVE  TaskInv'
  BY <1>0, <1>1 DEF Spawn
<1>2. CASE Constructed \/ EnqueueLock \/ AllEnqueued
  <2>1. UNCHANGED <<tasks, wpc, job, ready, enqueued, gets>>
    BY <1>2 DEF Constructed, EnqueueLock, AllEnqueued
  <2> QED
    BY <1>0, <2>1
<1>3. CASE EnqueueThrows \/ EmplaceThrows
  <2>1. UNCHANGED <<tasks, wpc, job, ready, enqueued, gets>>
    BY <1>3 DEF EnqueueThrows, EmplaceThrows
  <2> QED
    BY <1>0, <2>1
<1>4. CASE Push
  <2>1. /\ enqueued + 1 \in 1..NumTasks
        /\ Len(tasks') = Len(tasks) + 1
        /\ \A i \in 1..Len(tasks) : tasks'[i] = tasks[i]
        /\ tasks'[Len(tasks) + 1] = enqueued + 1
    BY <1>0, <1>4, AppendProperties DEF Push, PhaseInv, TypeOK
  <2>2. Taken' = Taken
    BY <1>0, <1>4, <2>1 DEF Push
  <2>3. \A i \in 1..Len(tasks') : tasks'[i] = Taken' + i
    <3> TAKE i \in 1..Len(tasks')
    <3>1. CASE i \in 1..Len(tasks)
      BY <1>0, <2>1, <2>2, <3>1
    <3>2. CASE i = Len(tasks) + 1
      BY <1>0, <1>4, <2>1, <2>2, <3>2 DEF Push
    <3> QED
      BY <1>0, <2>1, <3>1, <3>2
  <2> QED
    BY <1>0, <1>4, <2>1, <2>2, <2>3 DEF Push
<1>5. CASE NotifyOne
  BY <1>0, <1>5 DEF NotifyOne, Wake
<1>6. CASE GetFuture
  BY <1>0, <1>6 DEF GetFuture, FutureReady
<1>7. CASE LeaveScope
  BY <1>0, <1>7 DEF LeaveScope
<1>8. CASE StopLock \/ SetStop \/ Join
  <2>1. UNCHANGED <<tasks, wpc, job, ready, enqueued, gets>>
    BY <1>8 DEF StopLock, SetStop, Join
  <2> QED
    BY <1>0, <2>1
<1>9. CASE NotifyAll
  BY <1>0, <1>9 DEF NotifyAll, WakeAll
<1>10. ASSUME NEW w \in Workers, Lock(w) \/ MustWait(w) \/ Block(w) \/ Exit(w)
       PROVE  TaskInv'
  <2>1. /\ UNCHANGED <<tasks, job, ready, opc, enqueued, gets>>
        /\ \A v \in Workers : wpc[v] = "run" <=> wpc'[v] = "run"
    BY <1>0, <1>10 DEF Lock, MustWait, Block, Exit
  <2> QED
    BY <1>0, <2>1
<1>11. ASSUME NEW w \in Workers, Take(w)
       PROVE  TaskInv'
  <2>1. /\ Len(tasks) > 0
        /\ Len(tasks') = Len(tasks) - 1
        /\ \A i \in 1..Len(tasks') : tasks'[i] = tasks[i + 1]
        /\ Head(tasks) = tasks[1]
    BY <1>0, <1>11, HeadTailProperties, EmptySeq DEF Take, PopFront, TypeOK
  <2>2. /\ Taken' = Taken + 1
        /\ Head(tasks) = Taken + 1
    BY <1>0, <1>11, <2>1 DEF Take
  <2>3. /\ job' = [job EXCEPT ![w] = Taken + 1]
        /\ wpc' = [wpc EXCEPT ![w] = "run"]
        /\ wpc[w] = "check"
        /\ UNCHANGED <<ready, opc, enqueued, gets>>
    BY <1>11, <2>2 DEF Take
  <2>4. \A i \in 1..Len(tasks') : tasks'[i] = Taken' + i
    BY <1>0, <2>1, <2>2
  <2>5. \A v \in Workers :
          wpc'[v] = "run" => job'[v] \in 1..Taken' /\ job'[v] \notin ready'
    BY <1>0, <2>1, <2>2, <2>3
  <2>6. \A u, v \in Workers :
          wpc'[u] = "run" /\ wpc'[v] = "run" /\ job'[u] = job'[v] => u = v
    BY <1>0, <2>1, <2>2, <2>3
  <2>7. \A t \in 1..Taken' :
          t \in ready' \/ \E v \in Workers : wpc'[v] = "run" /\ job'[v] = t
    <3> TAKE t \in 1..Taken'
    <3>1. CASE t = Taken + 1
      BY <1>0, <2>3, <3>1
    <3>2. CASE t \in 1..Taken
      BY <1>0, <2>3, <3>2
    <3> QED
      BY <1>0, <2>1, <2>2, <3>1, <3>2
  <2> QED
    BY <1>0, <2>1, <2>2, <2>3, <2>4, <2>5, <2>6, <2>7
<1>12. ASSUME NEW w \in Workers, Run(w)
       PROVE  TaskInv'
  BY <1>0, <1>12 DEF Run
<1>13. ASSUME NEW w \in Workers, SpuriousWake(w)
       PROVE  TaskInv'
  BY <1>0, <1>13 DEF SpuriousWake
<1>14. CASE UNCHANGED vars
  BY <1>14 DEF vars
<1> QED
  BY <1>1, <1>2, <1>3, <1>4, <1>5, <1>6, <1>7, <1>8, <1>9, <1>10, <1>11,
     <1>12, <1>13, <1>14
  DEF Next, Owns, Works, Left

LEMMA AlwaysTasks == Spec => []TaskInv
BY InitTasks, StepTasks, AlwaysControl, PTL DEF Spec

(* Every enqueued task is in the queue, or with exactly one worker, or its *)
(* future is ready, and never two of these.                                *)
THEOREM TaskRunsOnce == Spec => []EachTaskOnce
<1>1. ControlInv /\ TaskInv => EachTaskOnce
  <2> SUFFICES ASSUME ControlInv, TaskInv, NEW t \in 1..enqueued
               PROVE  \/ t \in Queued /\ t \notin ready /\ RunBy(t) = {}
                      \/ t \notin Queued /\ t \in ready /\ RunBy(t) = {}
                      \/ /\ t \notin Queued /\ t \notin ready
                         /\ \E w \in Workers : RunBy(t) = {w}
    BY DEF EachTaskOnce
  <2>1. Len(tasks) \in Nat /\ enqueued \in Nat /\ job \in [Workers -> 0..NumTasks]
    BY LenProperties DEF ControlInv, TypeOK
  <2>2. \A u \in Queued : u \in Nat /\ u > Taken
    BY <2>1 DEF TaskInv, Taken, Queued
  <2>3. CASE t > Taken
    <3>1. /\ t - Taken \in 1..Len(tasks)
          /\ tasks[t - Taken] = t
      BY <2>1, <2>3 DEF TaskInv, Taken
    <3>2. t \in Queued
      BY <3>1 DEF Queued
    <3>3. t \notin ready /\ RunBy(t) = {}
      BY <2>1, <2>3 DEF TaskInv, Taken, RunBy
    <3> QED
      BY <3>2, <3>3
  <2>4. CASE t \in 1..Taken
    <3>1. t \notin Queued
      BY <2>1, <2>2, <2>4 DEF TaskInv, Taken
    <3>2. CASE t \in ready
      BY <3>1, <3>2 DEF TaskInv, RunBy
    <3>3. CASE t \notin ready
      <4>1. PICK w \in Workers : wpc[w] = "run" /\ job[w] = t
        BY <2>4, <3>3 DEF TaskInv
      <4>2. RunBy(t) = {w}
        BY <4>1 DEF TaskInv, RunBy
      <4> QED
        BY <3>1, <3>3, <4>2
    <3> QED
      BY <3>2, <3>3
  <2> QED
    BY <2>1, <2>3, <2>4 DEF Taken, TaskInv
<1> QED
  BY <1>1, AlwaysControl, AlwaysTasks, PTL

(* Once trackBuild has waited for the future of every dependency file and  *)
(* its locals go, no task uses them any more.                              *)
THEOREM LocalsOutliveTasks == Spec => []TasksUseLiveLocals
<1>1. ControlInv /\ TaskInv => TasksUseLiveLocals
  <2> SUFFICES ASSUME ControlInv, TaskInv, gets = NumTasks,
                      NEW w \in Workers, wpc[w] = "run"
               PROVE  FALSE
    BY DEF TasksUseLiveLocals
  <2>1. Len(tasks) \in Nat /\ enqueued \in Nat /\ enqueued <= NumTasks
    BY PoolAssumption, LenProperties DEF ControlInv, TypeOK
  <2>2. job[w] \in 1..gets /\ job[w] \notin ready
    BY <2>1, PoolAssumption DEF TaskInv, Taken
  <2> QED
    BY <2>2 DEF TaskInv
<1> QED
  BY <1>1, AlwaysControl, AlwaysTasks, PTL

-----------------------------------------------------------------------------
(* No wake-up is lost. *)

LEMMA HeadingIsFinite ==
    /\ IsFiniteSet(Heading) /\ Cardinality(Heading) \in Nat
    /\ IsFiniteSet(Heading') /\ Cardinality(Heading') \in Nat
<1>1. Heading \in SUBSET Workers /\ Heading' \in SUBSET Workers
  BY DEF Heading
<1> QED
  BY <1>1, PoolAssumption, FS_Subset, FS_CardinalityType

(* A step that sends a worker to the queue adds it to those heading for it. *)
LEMMA HeadingGains ==
    ASSUME NEW w \in Workers, wpc[w] \notin {"start", "check"},
           wpc \in [Workers -> WorkerPCs],
           wpc' = [wpc EXCEPT ![w] = "start"]
    PROVE  Cardinality(Heading') = Cardinality(Heading) + 1
<1>1. Heading' = Heading \cup {w} /\ w \notin Heading
  BY DEF Heading
<1> QED
  BY <1>1, HeadingIsFinite, FS_AddElement

(* A step by which one of them leaves for its task takes it away. *)
LEMMA HeadingLoses ==
    ASSUME NEW w \in Workers, wpc[w] = "check",
           wpc \in [Workers -> WorkerPCs],
           NEW pc, pc \notin {"start", "check"},
           wpc' = [wpc EXCEPT ![w] = pc]
    PROVE  Cardinality(Heading') = Cardinality(Heading) - 1
<1>1. Heading' = Heading \ {w} /\ w \in Heading
  BY DEF Heading
<1> QED
  BY <1>1, HeadingIsFinite, FS_RemoveElement

(* A worker falls asleep only on an empty queue, and every push is         *)
(* followed by a notification before the next one.                         *)
LEMMA StepConserving ==
    ControlInv /\ WorkConserving /\ [Next]_vars => WorkConserving'
<1> SUFFICES ASSUME ControlInv, WorkConserving, [Next]_vars
             PROVE  WorkConserving'
  OBVIOUS
<1> USE DEF WorkConserving, ownerVars, workerVars
<1>0. /\ PhaseInv
      /\ Len(tasks) \in Nat
      /\ wpc \in [Workers -> WorkerPCs]
      /\ Cardinality(Heading) \in Nat /\ Cardinality(Heading') \in Nat
  BY LenProperties, HeadingIsFinite DEF ControlInv, TypeOK
<1>1. ASSUME NEW w \in Workers, Spawn(w)
      PROVE  WorkConserving'
  <2>1. Cardinality(Heading') = Cardinality(Heading) + 1
    BY <1>0, <1>1, HeadingGains DEF Spawn
  <2> QED
    BY <1>0, <1>1, <2>1 DEF Spawn
<1>2. CASE /\ UNCHANGED <<tasks, wpc>>
           /\ opc # "notify"
  <2>1. Heading' = Heading
    BY <1>2 DEF Heading
  <2> QED
    BY <1>0, <1>2, <2>1
<1>3. CASE Push
  <2>1. Len(tasks') = Len(tasks) + 1
    BY <1>0, <1>3, AppendProperties DEF Push, ControlInv, TypeOK, PhaseInv
  <2>2. Heading' = Heading
    BY <1>3 DEF Push, Heading
  <2> QED
    BY <1>0, <1>3, <2>1, <2>2 DEF Push
<1>4. CASE NotifyOne
  <2>1. CASE \E w \in Workers : wpc[w] = "wait" /\ Wake(w)
    <3>1. PICK w \in Workers : wpc[w] = "wait" /\ Wake(w)
      BY <2>1
    <3>2. Cardinality(Heading') = Cardinality(Heading) + 1
      BY <1>0, <3>1, HeadingGains DEF Wake
    <3> QED
      BY <1>0, <1>4, <3>1, <3>2 DEF NotifyOne
  <2>2. CASE (\A w \in Workers : wpc[w] # "wait") /\ UNCHANGED wpc
    BY <1>4, <2>2 DEF NotifyOne
  <2> QED
    BY <1>4, <2>1, <2>2 DEF NotifyOne
<1>5. CASE NotifyAll
  BY <1>5 DEF NotifyAll, WakeAll
<1>6. ASSUME NEW w \in Workers, Lock(w)
      PROVE  WorkConserving'
  <2>1. Heading' = Heading
    BY <1>0, <1>6 DEF Lock, Heading
  <2> QED
    BY <1>0, <1>6, <2>1 DEF Lock
<1>7. ASSUME NEW w \in Workers, MustWait(w) \/ Block(w) \/ Exit(w)
      PROVE  WorkConserving'
  <2>1. tasks = <<>> /\ tasks' = <<>>
    BY <1>0, <1>7 DEF MustWait, Block, Exit, MayExit, PhaseInv
  <2>2. Len(tasks') = 0
    BY <2>1, EmptySeq
  <2> QED
    BY <1>0, <2>2
<1>8. ASSUME NEW w \in Workers, Take(w)
      PROVE  WorkConserving'
  <2>1. Len(tasks') = Len(tasks) - 1
    BY <1>8, HeadTailProperties DEF Take, PopFront, ControlInv, TypeOK
  <2>2. Cardinality(Heading') = Cardinality(Heading) - 1
    BY <1>0, <1>8, HeadingLoses DEF Take
  <2> QED
    BY <1>0, <1>8, <2>1, <2>2 DEF Take
<1>9. ASSUME NEW w \in Workers, Run(w) \/ SpuriousWake(w)
      PROVE  WorkConserving'
  <2>1. Cardinality(Heading') = Cardinality(Heading) + 1
    BY <1>0, <1>9, HeadingGains DEF Run, SpuriousWake
  <2> QED
    BY <1>0, <1>9, <2>1 DEF Run, SpuriousWake
<1>10. CASE UNCHANGED vars
  <2>1. Heading' = Heading
    BY <1>10 DEF vars, Heading
  <2> QED
    BY <1>10, <2>1 DEF vars
<1>11. ASSUME \/ Constructed \/ EnqueueLock \/ EnqueueThrows \/ EmplaceThrows
              \/ AllEnqueued \/ GetFuture \/ LeaveScope \/ StopLock \/ SetStop \/ Join
       PROVE  WorkConserving'
  <2>1. /\ UNCHANGED <<tasks, wpc>>
        /\ opc # "notify"
    BY <1>11 DEF Constructed, EnqueueLock, EnqueueThrows, EmplaceThrows,
                 AllEnqueued, GetFuture, LeaveScope, StopLock, SetStop, Join
  <2> QED
    BY <1>2, <2>1
<1> QED
  BY <1>1, <1>3, <1>4, <1>5, <1>6, <1>7, <1>8, <1>9, <1>10, <1>11
  DEF Next, Owns, Works, Left

(* One notify_one per push is enough, whatever the number of workers and   *)
(* the order in which they sleep, wake for no reason and take tasks.       *)
THEOREM NoWakeUpIsLost == Spec => []WorkConserving
<1>1. Init => WorkConserving
  BY DEF Init, WorkConserving
<1> QED
  BY <1>1, StepConserving, AlwaysControl, PTL DEF Spec

-----------------------------------------------------------------------------
(* The pool implements TaskRunner. *)

Status == [t \in 1..NumTasks |-> StatusOf(t)]

(* Before a worker takes a task fewer tasks run than there are workers:    *)
(* each running task has a worker of its own, and this one has none.       *)
LEMMA RoomForOneMore ==
    ASSUME ControlInv, TaskInv, NEW w \in Workers, wpc[w] # "run"
    PROVE  Cardinality(Runner!Running) < Cardinality(Workers)
<1> DEFINE holder == [t \in Runner!Running |->
                        CHOOSE v \in Workers : wpc[v] = "run" /\ job[v] = t]
<1>1. /\ Len(tasks) \in Nat /\ enqueued \in 0..NumTasks /\ NumTasks \in Nat
      /\ job \in [Workers -> 0..NumTasks]
  BY PoolAssumption, LenProperties DEF ControlInv, TypeOK
<1>2. ASSUME NEW t \in Runner!Running
      PROVE  \E v \in Workers : wpc[v] = "run" /\ job[v] = t
  <2>1. t \in 1..NumTasks /\ StatusOf(t) = "running"
    BY <1>2 DEF Runner!Running, Runner!Tasks
  <2>2. t \in 1..Taken /\ t \notin ready
    BY <1>1, <2>1 DEF StatusOf, Taken
  <2> QED
    BY <2>2 DEF TaskInv
<1>3. \A t \in Runner!Running :
        holder[t] \in Workers /\ wpc[holder[t]] = "run" /\ job[holder[t]] = t
  BY <1>2
<1>4. holder \in Injection(Runner!Running, Workers \ {w})
  BY <1>3 DEF Injection, IsInjective
<1>5. /\ IsFiniteSet(Workers \ {w})
      /\ Cardinality(Workers \ {w}) = Cardinality(Workers) - 1
  BY PoolAssumption, FS_RemoveElement
<1>6. Cardinality(Runner!Running) <= Cardinality(Workers \ {w})
  BY <1>4, <1>5, FS_Injection
<1>7. /\ Cardinality(Workers) \in Nat
      /\ Cardinality(Runner!Running) \in Nat
  BY <1>4, <1>5, PoolAssumption, FS_Injection, FS_CardinalityType
<1> QED
  BY <1>5, <1>6, <1>7

(* Steps that leave the queue, the ready set and the count of tasks alone, *)
(* and do not end the destructor, change nothing the client can observe.   *)
LEMMA Unobservable ==
    ASSUME UNCHANGED <<tasks, ready, enqueued>>, (opc = "done") <=> (opc' = "done")
    PROVE  UNCHANGED Runner!rvars
BY DEF Runner!rvars, StatusOf

(* A push submits the next task. *)
LEMMA PushSubmits ==
    ASSUME ControlInv, TaskInv, ControlInv', TaskInv', Push
    PROVE  Runner!Submit(enqueued + 1)
<1>1. /\ Len(tasks) \in Nat /\ enqueued \in Nat /\ NumTasks \in Nat
      /\ enqueued + 1 \in 1..NumTasks
      /\ Len(tasks) <= enqueued
      /\ Len(tasks') = Len(tasks) + 1
  BY PoolAssumption, LenProperties, AppendProperties
  DEF ControlInv, TypeOK, PhaseInv, TaskInv, Push
<1>2. \A t \in 1..NumTasks :
        /\ StatusOf(t)' = IF t = enqueued + 1 THEN "queued" ELSE StatusOf(t)
        /\ StatusOf(t) = "new" <=> t > enqueued
  BY <1>1 DEF StatusOf, Push, workerVars
<1>3. opc # "done" /\ opc' # "done"
  BY DEF Push
<1>4. ((opc = "done")') = (opc = "done")
  BY <1>3
<1>5. /\ Status[enqueued + 1] = "new"
      /\ \A u \in 1..NumTasks : u < enqueued + 1 => Status[u] # "new"
  BY <1>1, <1>2 DEF Status
<1>6. Status' = [Status EXCEPT ![enqueued + 1] = "queued"]
  BY <1>1, <1>2 DEF Status
<1> QED
  BY <1>1, <1>3, <1>4, <1>5, <1>6 DEF Runner!Submit, Runner!Tasks, Status

(* A worker that takes the head of the queue starts the oldest task. *)
LEMMA TakeStarts ==
    ASSUME ControlInv, TaskInv, ControlInv', TaskInv',
           NEW w \in Workers, Take(w)
    PROVE  Runner!Start(Taken + 1)
<1>1. /\ Len(tasks) \in Nat /\ enqueued \in Nat /\ NumTasks \in Nat
      /\ enqueued <= NumTasks
      /\ Len(tasks) > 0 /\ Len(tasks) <= enqueued
      /\ Len(tasks') = Len(tasks) - 1
  BY PoolAssumption, LenProperties, HeadTailProperties, EmptySeq
  DEF ControlInv, TypeOK, TaskInv, Take, PopFront
<1>2. /\ Taken + 1 \in 1..NumTasks
      /\ Taken + 1 \notin ready
  BY <1>1 DEF TaskInv, Taken
<1>3. \A t \in 1..NumTasks :
        /\ StatusOf(t)' = IF t = Taken + 1 THEN "running" ELSE StatusOf(t)
        /\ StatusOf(t) = "queued" <=> t > Taken /\ t <= enqueued
  BY <1>1, <1>2 DEF StatusOf, Take, Taken, ownerVars
<1>4. Runner!Cardinality(Runner!Running) < Cardinality(Workers)
  <2>1. Runner!Cardinality(Runner!Running) = Cardinality(Runner!Running)
    BY DEF Runner!Cardinality, Cardinality
  <2> QED
    BY <2>1, RoomForOneMore DEF Take
<1>5. ((opc = "done")') = (opc = "done")
  BY DEF Take, ownerVars
<1>6. /\ Status[Taken + 1] = "queued"
      /\ \A u \in 1..NumTasks : u < Taken + 1 => Status[u] # "queued"
  BY <1>1, <1>2, <1>3 DEF Status, Taken
<1>7. Status' = [Status EXCEPT ![Taken + 1] = "running"]
  BY <1>2, <1>3 DEF Status
<1> QED
  BY <1>2, <1>4, <1>5, <1>6, <1>7 DEF Runner!Start, Runner!Tasks, Status

(* A worker that returns from its task finishes it. *)
LEMMA RunFinishes ==
    ASSUME ControlInv, TaskInv, NEW w \in Workers, Run(w)
    PROVE  Runner!Finish(job[w])
<1>1. /\ Len(tasks) \in Nat /\ enqueued \in Nat /\ NumTasks \in Nat
      /\ enqueued <= NumTasks
      /\ job[w] \in 1..Taken /\ job[w] \notin ready
  BY PoolAssumption, LenProperties DEF ControlInv, TypeOK, TaskInv, Run
<1>2. job[w] \in 1..NumTasks /\ StatusOf(job[w]) = "running"
  BY <1>1 DEF StatusOf, Taken
<1>3. \A t \in 1..NumTasks :
        StatusOf(t)' = IF t = job[w] THEN "done" ELSE StatusOf(t)
  BY <1>1 DEF StatusOf, Run, Taken, ownerVars
<1>4. opc' = opc
  BY DEF Run, ownerVars
<1> QED
  BY <1>2, <1>3, <1>4 DEF Runner!Finish, Runner!Tasks

(* The destructor returns when all workers have exited: nothing is queued, *)
(* and what was taken is finished.                                         *)
LEMMA JoinCloses ==
    ASSUME ControlInv, TaskInv, Join
    PROVE  Runner!Close
<1>1. PICK v \in Workers : wpc[v] = "exited"
  BY PoolAssumption DEF Join
<1>2. Len(tasks) = 0 /\ enqueued \in Nat
  BY <1>1, EmptySeq DEF ControlInv, TypeOK, PhaseInv
<1>3. \A t \in 1..enqueued : t \in ready
  BY <1>2 DEF TaskInv, Taken, Join
<1>4. \A t \in 1..NumTasks : StatusOf(t) \in {"new", "done"}
  BY <1>2, <1>3, PoolAssumption DEF StatusOf
<1>5. \A t \in 1..NumTasks : StatusOf(t)' = StatusOf(t)
  BY DEF StatusOf, Join, workerVars
<1> QED
  BY <1>4, <1>5 DEF Runner!Close, Runner!Tasks, Join

LEMMA StepImplements ==
    ControlInv /\ TaskInv /\ ControlInv' /\ TaskInv' /\ [Next]_vars
        => [Runner!Next]_(Runner!rvars)
<1> SUFFICES ASSUME ControlInv, TaskInv, ControlInv', TaskInv', [Next]_vars
             PROVE  Runner!Next \/ UNCHANGED Runner!rvars
  OBVIOUS
<1>1. CASE Push
  <2>1. enqueued + 1 \in 1..NumTasks
    BY <1>1, PoolAssumption DEF ControlInv, TypeOK, PhaseInv, Push
  <2> QED
    BY <1>1, <2>1, PushSubmits DEF Runner!Next, Runner!Tasks
<1>2. ASSUME NEW w \in Workers, Take(w)
      PROVE  Runner!Next
  <2>1. Taken + 1 \in 1..NumTasks
    BY <1>2, PoolAssumption, LenProperties, EmptySeq
    DEF ControlInv, TypeOK, TaskInv, Taken, Take
  <2> QED
    BY <1>2, <2>1, TakeStarts DEF Runner!Next, Runner!Tasks
<1>3. ASSUME NEW w \in Workers, Run(w)
      PROVE  Runner!Next
  <2>1. job[w] \in 1..NumTasks
    BY <1>3, PoolAssumption, LenProperties
    DEF ControlInv, TypeOK, TaskInv, Taken, Run
  <2> QED
    BY <1>3, <2>1, RunFinishes DEF Runner!Next, Runner!Tasks
<1>4. CASE Join
  BY <1>4, JoinCloses DEF Runner!Next
<1>5. ASSUME \/ \E w \in Workers : Spawn(w)
             \/ Constructed \/ EnqueueLock \/ EnqueueThrows
             \/ EmplaceThrows \/ NotifyOne
             \/ AllEnqueued \/ GetFuture \/ LeaveScope
      PROVE  UNCHANGED Runner!rvars
  <2>1. UNCHANGED <<tasks, ready, enqueued>> /\ opc # "done" /\ opc' # "done"
    BY <1>5 DEF Spawn, Constructed, EnqueueLock, EnqueueThrows, EmplaceThrows,
                NotifyOne, AllEnqueued, GetFuture, LeaveScope, ownerVars, workerVars
  <2> QED
    BY <2>1, Unobservable
<1>6. ASSUME StopLock \/ SetStop \/ NotifyAll
      PROVE  UNCHANGED Runner!rvars
  <2>1. UNCHANGED <<tasks, ready, enqueued>> /\ opc # "done" /\ opc' # "done"
    BY <1>6 DEF StopLock, SetStop, NotifyAll, ownerVars, workerVars
  <2> QED
    BY <2>1, Unobservable
<1>7. ASSUME NEW w \in Workers,
             Lock(w) \/ MustWait(w) \/ Block(w) \/ Exit(w) \/ SpuriousWake(w)
      PROVE  UNCHANGED Runner!rvars
  <2>1. UNCHANGED <<tasks, ready, enqueued, opc>>
    BY <1>7 DEF Lock, MustWait, Block, Exit, SpuriousWake, ownerVars
  <2> QED
    BY <2>1, Unobservable
<1>8. CASE UNCHANGED vars
  BY <1>8, Unobservable DEF vars, ownerVars, workerVars
<1> QED
  BY <1>1, <1>2, <1>3, <1>4, <1>5, <1>6, <1>7, <1>8
  DEF Next, Owns, Works, Left

(* Every behaviour of the pool is one TaskRunner allows: tasks are started *)
(* in the order they were enqueued, never more at a time than there are    *)
(* workers, each finishes once, and the destructor returns only then.      *)
THEOREM PoolImplementsTaskRunner == Spec => ImplementsTaskRunner
<1>1. Init => Runner!Init
  <2> SUFFICES ASSUME Init
               PROVE  Runner!Init
    OBVIOUS
  <2>1. \A t \in 1..NumTasks : StatusOf(t) = "new"
    BY PoolAssumption DEF Init, StatusOf
  <2> QED
    BY <2>1 DEF Init, Runner!Init, Runner!Tasks
<1> QED
  BY <1>1, StepImplements, AlwaysControl, AlwaysTasks, PTL
  DEF Spec, ImplementsTaskRunner, Runner!Spec
=============================================================================
