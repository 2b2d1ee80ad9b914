\* Three workers, four tasks; enqueue may throw, which stops the pool with
\* tasks still queued.
CONSTANTS
    Workers = {w1, w2, w3}
    Owner = owner
    Free = free
    NumTasks = 4
    EnqueueMayThrow = TRUE
SPECIFICATION FairSpec
INVARIANTS
    EachTaskOnce
    WorkConserving
    NoSleeperAtShutdown
    TasksUseLiveLocals
PROPERTIES
    Termination
    EnqueuedIsServed
    ImplementsTaskRunner
