----------------------------- MODULE TaskRunner -----------------------------
(***************************************************************************)
(* What the tracker relies on when it hands its files to ThreadPool        *)
(* (src/tracker.cpp, trackBuild): the tasks are accepted in order, started *)
(* in the order they were accepted, at most Capacity of them at a time,    *)
(* each exactly once, and the runner closes only when every task it        *)
(* accepted has finished.  Queue, mutex, condition variable and threads do *)
(* not appear; module ThreadPool is shown to implement this one.           *)
(***************************************************************************)
EXTENDS Naturals, FiniteSets

CONSTANTS NumTasks,     \* the files trackBuild has to process
          Capacity      \* the most tasks that run at the same time

VARIABLES status,       \* status[t]: where task t is in its life
          closed        \* the runner's destructor has returned

rvars == <<status, closed>>

Tasks == 1..NumTasks
Statuses == {"new", "queued", "running", "done"}
Running == {t \in Tasks : status[t] = "running"}

Init == /\ status = [t \in Tasks |-> "new"]
        /\ closed = FALSE

(* The next task in order is accepted. *)
Submit(t) == /\ ~closed
             /\ status[t] = "new"
             /\ \A u \in Tasks : u < t => status[u] # "new"
             /\ status' = [status EXCEPT ![t] = "queued"]
             /\ UNCHANGED closed

(* The oldest accepted task starts, if fewer than Capacity are running. *)
Start(t) == /\ status[t] = "queued"
            /\ \A u \in Tasks : u < t => status[u] # "queued"
            /\ Cardinality(Running) < Capacity
            /\ status' = [status EXCEPT ![t] = "running"]
            /\ UNCHANGED closed

Finish(t) == /\ status[t] = "running"
             /\ status' = [status EXCEPT ![t] = "done"]
             /\ UNCHANGED closed

(* Tasks that were never accepted may remain "new": the caller gave up. *)
Close == /\ ~closed
         /\ \A t \in Tasks : status[t] \in {"new", "done"}
         /\ closed' = TRUE
         /\ UNCHANGED status

Next == \/ \E t \in Tasks : Submit(t) \/ Start(t) \/ Finish(t)
        \/ Close

Spec == Init /\ [][Next]_rvars
=============================================================================
