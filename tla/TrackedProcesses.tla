-------------------------- MODULE TrackedProcesses --------------------------
(***************************************************************************)
(* Which processes the bpftrace script of include/bpftrace_script.h sees.  *)
(* The script keeps a hash @tracked of kernel task ids, starts it with the *)
(* id of reprobuild itself, adds the child of every fork (or thread        *)
(* creation) by a task in it, and prints the system calls of the processes *)
(* in it.  Tracker::executeWithBpftrace runs the build once bpftrace       *)
(* reports that it is attached, or after a timeout.                        *)
(*                                                                         *)
(* A task id is a thread id; the processes are the ids that are the thread *)
(* group of some task (bpftrace's builtin pid).  What the script prints of *)
(* them is TraceFraming; names both modules would have begin with TP here. *)
(***************************************************************************)
EXTENDS Naturals, FiniteSets

CONSTANTS
    Ids,                \* task ids
    Root,               \* reprobuild
    Other,              \* a process that has nothing to do with the build
    MaxTracked,         \* capacity of @tracked (65536)
    IdsAreReused,       \* whether the kernel may give out an id again
    AttachMayTimeOut    \* whether attaching may take longer than the timeout

ASSUME IdsAssumption ==
    /\ Root \in Ids /\ Other \in Ids /\ Root # Other
    /\ IsFiniteSet(Ids)
    /\ MaxTracked \in Nat \ {0}
    /\ IdsAreReused \in BOOLEAN /\ AttachMayTimeOut \in BOOLEAN

VARIABLES
    phase,      \* of executeWithBpftrace: "wait", "build", "built"
    attached,   \* bpftrace has its probes in place
    tracked,    \* keys of @tracked
    alive,      \* the ids of the running tasks
    group,      \* the thread group of each
    ours,       \* the ids, running or not, last held by a task of the build
    used        \* the ids given out so far

tpVars == <<phase, attached, tracked, alive, group, ours, used>>

TPInit ==
    /\ phase = "wait"
    /\ attached = FALSE
    /\ tracked = {}
    /\ alive = {Root, Other}
    /\ group = [t \in Ids |-> t]
    /\ ours = {Root}
    /\ used = {Root, Other}

-----------------------------------------------------------------------------
(* The script. *)

(* $pid: the placeholder of the script, replaced by reprobuild's own id.   *)
ScriptPid == Root

(* @tracked[c] = 1; a full hash takes no new key, and keys are never       *)
(* deleted while the script runs.                                          *)
Insert(s, c) == IF Cardinality(s \cup {c}) <= MaxTracked THEN s \cup {c} ELSE s

AnyFork(t) == attached
ProcessIsTracked(t) == attached /\ t \in tracked /\ group[t] = t
(* The filter of the sched_process_fork probe. *)
ForkIsSeen(t) == attached /\ t \in tracked

(* BEGIN, which runs when the probes are in place. *)
Attach ==
    /\ ~attached
    /\ attached' = TRUE
    /\ tracked' = Insert({}, ScriptPid)
    /\ UNCHANGED <<phase, alive, group, ours, used>>

(* A task creates the task c: a thread of its own process, or a process.   *)
(* Before the build, reprobuild's own children are the shell that starts   *)
(* bpftrace and bpftrace, which are not part of the build and not modelled. *)
Create(t, c, g) ==
    /\ phase = "build"
    /\ t \in alive
    /\ c \in Ids \ alive
    /\ \A u \in alive : group[u] # c
    /\ IdsAreReused \/ c \notin used
    /\ alive' = alive \cup {c}
    /\ group' = [group EXCEPT ![c] = g]
    /\ ours' = IF t \in ours THEN ours \cup {c} ELSE ours \ {c}
    /\ used' = used \cup {c}
    /\ tracked' = IF ForkIsSeen(t) THEN Insert(tracked, c) ELSE tracked
    /\ UNCHANGED <<phase, attached>>

Fork(t, c) == Create(t, c, c)
NewThread(t, c) == Create(t, c, group[t])

(* A task ends; reprobuild itself waits for the build. *)
Exit(t) ==
    /\ phase = "build"
    /\ t \in alive \ {Root}
    /\ alive' = alive \ {t}
    /\ group' = [group EXCEPT ![t] = t]
    /\ UNCHANGED <<phase, attached, tracked, ours, used>>

(* The system calls of task t are printed. *)
IsTraced(t) == attached /\ group[t] \in tracked

-----------------------------------------------------------------------------
(* executeWithBpftrace. *)

(* The wait for "Attached" is over. *)
MayBuild == phase = "wait" /\ (attached \/ AttachMayTimeOut)

StartBuild ==
    /\ MayBuild
    /\ phase' = "build"
    /\ UNCHANGED <<attached, tracked, alive, group, ours, used>>

(* std::system returns when the command has; a process of the build that   *)
(* went into the background may be left.                                   *)
BuildEnds ==
    /\ phase = "build"
    /\ phase' = "built"
    /\ UNCHANGED <<attached, tracked, alive, group, ours, used>>

TPNext ==
    \/ Attach \/ StartBuild \/ BuildEnds
    \/ \E t \in alive : Exit(t)
    \/ \E t, c \in Ids : Fork(t, c) \/ NewThread(t, c)
    \/ phase = "built" /\ UNCHANGED tpVars

TPSpec == TPInit /\ [][TPNext]_tpVars

-----------------------------------------------------------------------------
(* Every variable stays in its type. *)
TPTypeOK ==
    /\ phase \in {"wait", "build", "built"} /\ attached \in BOOLEAN
    /\ alive \subseteq used /\ used \subseteq Ids /\ ours \subseteq used
    /\ tracked \subseteq used
    /\ group \in [Ids -> Ids]
    /\ Cardinality(tracked) <= MaxTracked

(* Every process of the build is traced, whatever thread of whatever       *)
(* process created it: forks are filtered by the id of the calling thread, *)
(* system calls by the id of the process, and both are always there.       *)
BuildIsTraced ==
    phase = "build" => \A t \in alive \cap ours : IsTraced(t)

(* Nothing that is not part of the build is traced. *)
OnlyBuildIsTraced ==
    \A t \in alive \ ours : ~IsTraced(t)
=============================================================================
