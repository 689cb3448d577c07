----------------------------- MODULE ThreadPool -----------------------------
(***************************************************************************)
(* The thread pool of include/containers/thread_pool.h: users push tasks,  *)
(* the threads that Start creates run ExecProc, Close may come at any time *)
(* from another thread, and Start may follow it again.                     *)
(*                                                                         *)
(* A critical section under mtx_ is one action, but for the one of         *)
(* ExecProc: it reads closed_ twice, and closed_ is an atomic that Start   *)
(* writes without mtx_ (and that Push reads without it).                   *)
(***************************************************************************)
EXTENDS Integers, Sequences, FiniteSets

CONSTANTS
    Threads,        \* std::thread objects that may ever be created
    ThreadCount,    \* thread_count_
    Users,          \* threads that push tasks
    Tasks,          \* tasks, none pushed again before it has been run
    NoTask

ASSUME ThreadsAssumption == IsFiniteSet(Threads)
ASSUME CountAssumption   == ThreadCount \in Nat \ {0}
ASSUME NoTaskAssumption  == NoTask \notin Tasks

VARIABLES
    closed,     \* closed_
    toSpawn,    \* threads that Start has yet to create
    tasks,      \* tasks_
    pushing,    \* the task of each user that is inside Push
    pc,         \* where each thread is in ExecProc
    task,       \* the task each thread runs
    undefined   \* the front of an empty list was taken

vars == <<closed, toSpawn, tasks, pushing, pc, task, undefined>>

TypeOK ==
    /\ closed \in BOOLEAN
    /\ toSpawn \in 0 .. ThreadCount
    /\ tasks \in Seq(Tasks)
    /\ pushing \in [Users -> Tasks \cup {NoTask}]
    /\ pc \in [Threads -> {"new", "check", "wait", "locked", "run", "exited"}]
    /\ task \in [Threads -> Tasks \cup {NoTask}]
    /\ undefined \in BOOLEAN

Init ==
    /\ closed = TRUE
    /\ toSpawn = 0
    /\ tasks = <<>>
    /\ pushing = [u \in Users |-> NoTask]
    /\ pc = [t \in Threads |-> "new"]
    /\ task = [t \in Threads |-> NoTask]
    /\ undefined = FALSE

-----------------------------------------------------------------------------
Waiting  == {t \in Threads : pc[t] = "wait"}
Checking == {t \in Threads : pc[t] \in {"check", "locked"}}
Created  == {t \in Threads : pc[t] # "new"}

\* A thread whose wait has ended holds mtx_ until it has taken a task.
MutexFree == \A t \in Threads : pc[t] # "locked"

NotifyOne ==
    IF Waiting = {} THEN UNCHANGED pc
    ELSE \E t \in Waiting : pc' = [pc EXCEPT ![t] = "check"]

NotifyAll == pc' = [t \in Threads |-> IF pc[t] = "wait" THEN "check" ELSE pc[t]]

InUse(k) ==
    \/ \E i \in DOMAIN tasks : tasks[i] = k
    \/ \E u \in Users : pushing[u] = k
    \/ \E t \in Threads : task[t] = k

-----------------------------------------------------------------------------

\* Start asserts that the pool is closed, opens it without mtx_ and then
\* creates its threads one by one.  The bound on its calls is the number of
\* threads there are.
Start ==
    /\ closed /\ toSpawn = 0
    /\ Cardinality(Created) + ThreadCount <= Cardinality(Threads)
    /\ closed' = FALSE
    /\ toSpawn' = ThreadCount
    /\ UNCHANGED <<tasks, pushing, pc, task, undefined>>

Spawn(t) ==
    /\ toSpawn > 0 /\ pc[t] = "new"
    /\ toSpawn' = toSpawn - 1
    /\ pc' = [pc EXCEPT ![t] = "check"]
    /\ UNCHANGED <<closed, tasks, pushing, task, undefined>>

\* Push tests closed_ before it takes mtx_; the pool may be closed between.
PushBegin(u, k) ==
    /\ ~closed /\ pushing[u] = NoTask /\ ~InUse(k)
    /\ pushing' = [pushing EXCEPT ![u] = k]
    /\ UNCHANGED <<closed, toSpawn, tasks, pc, task, undefined>>

\* Defect: a thread is notified only of the first task of the queue.
PushNotifiesIfEmpty(u) ==
    /\ MutexFree /\ pushing[u] # NoTask
    /\ tasks' = Append(tasks, pushing[u])
    /\ pushing' = [pushing EXCEPT ![u] = NoTask]
    /\ IF tasks = <<>> THEN NotifyOne ELSE UNCHANGED pc
    /\ UNCHANGED <<closed, toSpawn, task, undefined>>

\* Defect: no thread is notified.
PushWithoutNotify(u) ==
    /\ MutexFree /\ pushing[u] # NoTask
    /\ tasks' = Append(tasks, pushing[u])
    /\ pushing' = [pushing EXCEPT ![u] = NoTask]
    /\ UNCHANGED <<closed, toSpawn, pc, task, undefined>>

Push(u) ==
    /\ MutexFree /\ pushing[u] # NoTask
    /\ tasks' = Append(tasks, pushing[u])
    /\ pushing' = [pushing EXCEPT ![u] = NoTask]
    /\ NotifyOne
    /\ UNCHANGED <<closed, toSpawn, task, undefined>>

\* Defect: the wait has no predicate to test after a wake-up.
TestNothing(t) ==
    /\ MutexFree /\ pc[t] = "check"
    /\ pc' = [pc EXCEPT ![t] = "locked"]
    /\ UNCHANGED <<closed, toSpawn, tasks, pushing, task, undefined>>

\* ExecProc takes mtx_ and tests the predicate of its wait.
TestPredicate(t) ==
    /\ MutexFree /\ pc[t] = "check"
    /\ pc' = [pc EXCEPT ![t] = IF closed \/ tasks # <<>> THEN "locked" ELSE "wait"]
    /\ UNCHANGED <<closed, toSpawn, tasks, pushing, task, undefined>>

\* Defect: the task that is run is not removed from the list.
TakeWithoutPop(t) ==
    /\ pc[t] = "locked"
    /\ \/ /\ closed
          /\ pc' = [pc EXCEPT ![t] = "exited"]
          /\ UNCHANGED task
       \/ /\ ~closed /\ tasks # <<>>
          /\ task' = [task EXCEPT ![t] = Head(tasks)]
          /\ pc' = [pc EXCEPT ![t] = "run"]
    /\ UNCHANGED <<closed, toSpawn, tasks, pushing, undefined>>

\* The wait has ended: ExecProc reads closed_ again and takes the first task.
TakeTask(t) ==
    /\ pc[t] = "locked"
    /\ \/ /\ closed
          /\ pc' = [pc EXCEPT ![t] = "exited"]
          /\ UNCHANGED <<tasks, task, undefined>>
       \/ /\ ~closed /\ tasks = <<>>
          /\ undefined' = TRUE
          /\ UNCHANGED <<pc, tasks, task>>
       \/ /\ ~closed /\ tasks # <<>>
          /\ task' = [task EXCEPT ![t] = Head(tasks)]
          /\ tasks' = Tail(tasks)
          /\ pc' = [pc EXCEPT ![t] = "run"]
          /\ UNCHANGED undefined
    /\ UNCHANGED <<closed, toSpawn, pushing>>

\* The task returns or throws; the exception is logged.
Finish(t) ==
    /\ pc[t] = "run"
    /\ pc' = [pc EXCEPT ![t] = "check"]
    /\ task' = [task EXCEPT ![t] = NoTask]
    /\ UNCHANGED <<closed, toSpawn, tasks, pushing, undefined>>

SpuriousWakeup(t) ==
    /\ pc[t] = "wait"
    /\ pc' = [pc EXCEPT ![t] = "check"]
    /\ UNCHANGED <<closed, toSpawn, tasks, pushing, task, undefined>>

\* Defect: one thread is notified instead of all.
CloseNotifiesOne ==
    /\ MutexFree
    /\ closed' = TRUE
    /\ NotifyOne
    /\ UNCHANGED <<toSpawn, tasks, pushing, task, undefined>>

\* Close, from the owner, from WebServer::Close or from the destructor.
Close ==
    /\ MutexFree
    /\ closed' = TRUE
    /\ NotifyAll
    /\ UNCHANGED <<toSpawn, tasks, pushing, task, undefined>>

ExecProc(t) == TestPredicate(t) \/ TakeTask(t) \/ Finish(t)

\* Nothing is claimed of an execution after undefined behaviour.
Next ==
    \/ /\ ~undefined
       /\ \/ Start \/ Close
          \/ \E u \in Users : Push(u) \/ \E k \in Tasks : PushBegin(u, k)
          \/ \E t \in Threads : Spawn(t) \/ ExecProc(t) \/ SpuriousWakeup(t)
    \/ undefined /\ UNCHANGED vars

Spec == Init /\ [][Next]_vars

\* Created threads are scheduled, tasks end, and the caller of Start creates
\* the threads it has to.
Fairness ==
    /\ \A t \in Threads : WF_vars(~undefined /\ ExecProc(t))
    /\ WF_vars(~undefined /\ \E t \in Threads : Spawn(t))

FairSpec == Spec /\ Fairness

-----------------------------------------------------------------------------
(* Properties.                                                             *)

\* No lost wake-up: while a thread of the open pool sleeps, every task of the
\* queue has a thread that is about to look at the queue.
TasksNotified ==
    Waiting # {} /\ ~closed => Len(tasks) <= Cardinality(Checking)

\* The pool hands tasks out in order, each once, none while it is closed, and
\* "the remaining tasks will not be executed" after Close: a closed pool has no
\* tasks to hand out.  There is one exception, and the step is named: Start does
\* not clear the list, so that a pool which is opened again with tasks left
\* brings them back, against the comment of Close.
Queue == INSTANCE TaskQueue WITH
    open <- ~closed,
    queue <- IF closed THEN <<>> ELSE tasks,
    running <- {task[t] : t \in {s \in Threads : task[s] # NoTask}}

OpensWithTasks == closed /\ ~closed' /\ tasks # <<>>

ImplementsQueue == Queue!Init /\ [][Queue!Next \/ OpensWithTasks]_(Queue!qvars)

\* A task that was pushed is started, unless the pool is closed first.
QueuedIsRun ==
    \A k \in Tasks : (\E i \in DOMAIN tasks : tasks[i] = k)
                       ~> (closed \/ undefined \/ ~\E i \in DOMAIN tasks : tasks[i] = k)

\* Close ends every thread, so that the destructor's joins return.
CloseEndsThreads ==
    closed ~> (~closed \/ undefined \/ \A t \in Threads : pc[t] \in {"new", "exited"})

\* ExecProc asserts that what it took from the list is a task.  Only a second
\* Start, which opens the pool between the two readings of closed_, can make a
\* thread take the front of an empty list; no wake-up and no Close does.
TakesOnlyTasks == undefined => Cardinality(Created) + toSpawn > ThreadCount
=============================================================================
