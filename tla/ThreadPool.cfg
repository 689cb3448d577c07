\* Threads for two calls of Start.
SPECIFICATION FairSpec
CONSTANTS
    Threads = {t1, t2, t3, t4}
    ThreadCount = 2
    Users = {u1, u2}
    Tasks = {k1, k2, k3}
    NoTask = NoTask
INVARIANTS TasksNotified TakesOnlyTasks
PROPERTIES ImplementsQueue QueuedIsRun CloseEndsThreads
