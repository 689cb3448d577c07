-------------------------- MODULE ThreadPoolProofs --------------------------
(* Proofs about ThreadPool, for any finite set of threads, any number of   *)
(* threads per Start, any users and any tasks.                             *)
EXTENDS ThreadPool, FiniteSetTheorems, TLAPS

States == {"new", "check", "wait", "locked", "run", "exited"}

-----------------------------------------------------------------------------
(* The inductive invariant.                                                *)

\* Threads that Start has created or will still create.
Ordered == Cardinality(Created) + toSpawn

\* Close wakes every thread, and none falls asleep in a closed pool.
NoneSleepsInClosed == closed => Waiting = {}

\* The mutex is held by one thread at a time.
OneHolder ==
    \A s, t \in Threads : pc[s] = "locked" /\ pc[t] = "locked" => s = t

\* A thread has a task exactly while it runs it.
RunsATask == \A t \in Threads : pc[t] = "run" <=> task[t] # NoTask

\* Before the first Start the pool is closed, and each Start orders
\* ThreadCount threads at once.
OrderedByStarts ==
    /\ Ordered = 0 => closed
    /\ Ordered # 0 => Ordered >= ThreadCount

\* Up to the second Start, the thread that holds the mutex of an open pool has
\* seen a task that is still there.
SeesATask ==
    Ordered <= ThreadCount /\ ~closed =>
        \A t \in Threads : pc[t] = "locked" => tasks # <<>>

\* A task is in one place: with one user, once in the list or with one thread.
OnePlace ==
    /\ \A u, v \in Users : pushing[u] # NoTask /\ pushing[u] = pushing[v] => u = v
    /\ \A s, t \in Threads : task[s] # NoTask /\ task[s] = task[t] => s = t
    /\ \A i, j \in 1 .. Len(tasks) : tasks[i] = tasks[j] => i = j
    /\ \A u \in Users, i \in 1 .. Len(tasks) : pushing[u] # tasks[i]
    /\ \A u \in Users, t \in Threads : pushing[u] # NoTask => pushing[u] # task[t]
    /\ \A i \in 1 .. Len(tasks), t \in Threads : tasks[i] # task[t]

Inv ==
    /\ TypeOK
    /\ TasksNotified
    /\ NoneSleepsInClosed
    /\ OneHolder
    /\ RunsATask
    /\ OrderedByStarts
    /\ SeesATask
    /\ TakesOnlyTasks
    /\ OnePlace

-----------------------------------------------------------------------------
(* Types.                                                                  *)

\* A pool has at least one thread.
LEMMA SomeThread == ThreadCount \in Nat /\ ThreadCount >= 1
  BY CountAssumption

\* The variables keep their types.
LEMMA TypeStep == TypeOK /\ [Next]_vars => TypeOK'
<1> SUFFICES ASSUME TypeOK, [Next]_vars PROVE TypeOK'
  OBVIOUS
<1>1. toSpawn' \in 0 .. ThreadCount
  BY SomeThread DEF TypeOK, Next, vars, Start, Close, Push, PushBegin, Spawn, ExecProc,
     TestPredicate, TakeTask, Finish, SpuriousWakeup
<1> USE DEF TypeOK
<1>2. CASE Start
  BY <1>1, <1>2 DEF Start
<1>3. CASE Close
  BY <1>1, <1>3 DEF Close, NotifyAll
<1>4. ASSUME NEW u \in Users, Push(u) PROVE TypeOK'
  <2>1. tasks' \in Seq(Tasks) /\ pushing' \in [Users -> Tasks \cup {NoTask}]
    BY <1>4 DEF Push
  <2>2. pc' \in [Threads -> States]
    BY <1>4 DEF Push, NotifyOne, Waiting, States
  <2> QED
    BY <1>1, <1>4, <2>1, <2>2 DEF Push, States
<1>5. ASSUME NEW u \in Users, NEW k \in Tasks, PushBegin(u, k) PROVE TypeOK'
  BY <1>1, <1>5 DEF PushBegin
<1>6. ASSUME NEW t \in Threads, Spawn(t) PROVE TypeOK'
  BY <1>1, <1>6 DEF Spawn
<1>7. ASSUME NEW t \in Threads, TestPredicate(t) PROVE TypeOK'
  BY <1>1, <1>7 DEF TestPredicate
<1>8. ASSUME NEW t \in Threads, TakeTask(t) PROVE TypeOK'
  <2>1. CASE ~closed /\ tasks # <<>>
    <3>1. Head(tasks) \in Tasks /\ Tail(tasks) \in Seq(Tasks)
      BY <2>1
    <3> QED
      BY <1>1, <1>8, <2>1, <3>1 DEF TakeTask
  <2>2. CASE closed \/ tasks = <<>>
    BY <1>1, <1>8, <2>2 DEF TakeTask
  <2> QED
    BY <2>1, <2>2
<1>9. ASSUME NEW t \in Threads, Finish(t) PROVE TypeOK'
  BY <1>1, <1>9 DEF Finish
<1>10. ASSUME NEW t \in Threads, SpuriousWakeup(t) PROVE TypeOK'
  BY <1>1, <1>10 DEF SpuriousWakeup
<1>11. CASE UNCHANGED vars
  BY <1>11 DEF vars
<1> QED
  BY <1>2, <1>3, <1>4, <1>5, <1>6, <1>7, <1>8, <1>9, <1>10, <1>11 DEF Next, ExecProc

\* A pool is created with variables of their types.
LEMMA TypeInit == Init => TypeOK
<1> SUFFICES ASSUME Init PROVE TypeOK
  OBVIOUS
<1>1. toSpawn \in 0 .. ThreadCount
  BY SomeThread DEF Init
<1>2. tasks \in Seq(Tasks)
  BY DEF Init
<1>3. closed \in BOOLEAN /\ undefined \in BOOLEAN
  BY DEF Init
<1>4. /\ pushing \in [Users -> Tasks \cup {NoTask}]
      /\ pc \in [Threads -> States]
      /\ task \in [Threads -> Tasks \cup {NoTask}]
  BY DEF Init, States
<1> QED
  BY <1>1, <1>2, <1>3, <1>4 DEF TypeOK, States

\* The variables of the pool keep their types.
THEOREM TypeCorrect == Spec => []TypeOK
  BY TypeInit, TypeStep, PTL DEF Spec

-----------------------------------------------------------------------------
(* Counting threads.                                                       *)

\* Sets of threads are finite.
LEMMA Counts ==
  ASSUME NEW S, S \subseteq Threads
  PROVE  IsFiniteSet(S) /\ Cardinality(S) \in Nat
  BY ThreadsAssumption, FS_Subset, FS_CardinalityType

\* One thread more, or one less.
LEMMA CountOne ==
  ASSUME NEW S, S \subseteq Threads, NEW t \in Threads
  PROVE  /\ Cardinality(S \cup {t}) =
              IF t \in S THEN Cardinality(S) ELSE Cardinality(S) + 1
         /\ Cardinality(S \ {t}) =
              IF t \in S THEN Cardinality(S) - 1 ELSE Cardinality(S)
  BY Counts, FS_AddElement, FS_RemoveElement

\* The counts, and that they are counts.
LEMMA PoolCounts ==
  /\ Cardinality(Waiting) \in Nat
  /\ Cardinality(Checking) \in Nat
  /\ Cardinality(Created) \in Nat
  BY Counts DEF Waiting, Checking, Created

\* What a step of one thread does to the sets that are counted.
LEMMA Moves ==
  ASSUME TypeOK, NEW t \in Threads, NEW v \in States \ {"new"},
         pc' = [pc EXCEPT ![t] = v]
  PROVE  /\ Checking' = IF v \in {"check", "locked"} THEN Checking \cup {t}
                                                     ELSE Checking \ {t}
         /\ Waiting' = IF v = "wait" THEN Waiting \cup {t} ELSE Waiting \ {t}
         /\ Created' = Created \cup {t}
         /\ Checking \subseteq Threads /\ Created \subseteq Threads
<1>1. \A s \in Threads : pc'[s] = IF s = t THEN v ELSE pc[s]
  BY DEF TypeOK
<1>2. Checking' = IF v \in {"check", "locked"} THEN Checking \cup {t} ELSE Checking \ {t}
  BY <1>1 DEF Checking
<1>3. Waiting' = IF v = "wait" THEN Waiting \cup {t} ELSE Waiting \ {t}
  BY <1>1 DEF Waiting
<1>4. Created' = Created \cup {t}
  BY <1>1 DEF Created, States
<1> QED
  BY <1>2, <1>3, <1>4 DEF Checking, Created

\* A thread that has been created and moves on is still one created thread.
LEMMA Remain ==
  ASSUME TypeOK, NEW t \in Threads, NEW v \in States \ {"new"},
         pc[t] # "new", pc' = [pc EXCEPT ![t] = v], toSpawn' = toSpawn
  PROVE  Created' = Created /\ Ordered' = Ordered
<1>1. Created' = Created \cup {t} /\ t \in Created
  BY Moves DEF Created
<1>2. Created' = Created
  BY <1>1
<1> QED
  BY <1>2 DEF Ordered

\* notify_one wakes one thread when any sleeps, and changes nothing otherwise.
LEMMA Notified ==
  ASSUME TypeOK, NotifyOne
  PROVE  /\ Waiting' \subseteq Waiting
         /\ Waiting # {} => Cardinality(Checking') = Cardinality(Checking) + 1
         /\ Created' = Created
         /\ \A s \in Threads : pc'[s] # pc[s] => pc[s] = "wait" /\ pc'[s] = "check"
<1>1. CASE Waiting = {}
  BY <1>1 DEF NotifyOne, Waiting, Checking, Created
<1>2. CASE Waiting # {}
  <2>1. PICK t \in Waiting : pc' = [pc EXCEPT ![t] = "check"]
    BY <1>2 DEF NotifyOne
  <2>2. t \in Threads /\ pc[t] = "wait" /\ "check" \in States \ {"new"}
    BY DEF Waiting, States
  <2>3. /\ Checking' = Checking \cup {t} /\ Checking \subseteq Threads
        /\ Waiting' = Waiting \ {t} /\ Created' = Created \cup {t}
    BY <2>1, <2>2, Moves
  <2>4. t \notin Checking /\ t \in Created
    BY <2>2 DEF Checking, Created
  <2>5. Cardinality(Checking') = Cardinality(Checking) + 1
    BY <2>2, <2>3, <2>4, CountOne
  <2>6. \A s \in Threads : pc'[s] # pc[s] => pc[s] = "wait" /\ pc'[s] = "check"
    BY <2>1, <2>2 DEF TypeOK
  <2> QED
    BY <2>3, <2>4, <2>5, <2>6
<1> QED
  BY <1>1, <1>2

-----------------------------------------------------------------------------
(* The invariant.                                                          *)

\* No wake-up is lost: a task comes with a thread that is woken for it, a task
\* that leaves takes away one thread that was awake, and a thread falls asleep
\* only when there is no task.
LEMMA SleepStep ==
  ASSUME Inv, [Next]_vars
  PROVE  TasksNotified' /\ NoneSleepsInClosed'
<1> USE DEF NoneSleepsInClosed, TasksNotified
<1>t. TypeOK /\ TasksNotified /\ NoneSleepsInClosed
  BY DEF Inv
<1>s. \A v \in {"check", "wait", "locked", "run", "exited"} : v \in States \ {"new"}
  BY DEF States
<1>n. Cardinality(Checking) \in Nat /\ Len(tasks) \in Nat
  BY <1>t, PoolCounts DEF TypeOK
<1>1. CASE Start
  BY <1>t, <1>1 DEF Start, Waiting
<1>2. CASE Close
  <2>1. Waiting' = {}
    BY <1>t, <1>2 DEF Close, NotifyAll, Waiting
  <2> QED
    BY <2>1
<1>3. ASSUME NEW u \in Users, Push(u) PROVE TasksNotified' /\ NoneSleepsInClosed'
  <2>1. /\ Waiting' \subseteq Waiting
        /\ Waiting # {} => Cardinality(Checking') = Cardinality(Checking) + 1
    BY <1>t, <1>3, Notified DEF Push
  <2>2. Len(tasks') = Len(tasks) + 1 /\ closed' = closed
    BY <1>t, <1>3 DEF Push, TypeOK
  <2> QED
    BY <1>t, <1>n, <2>1, <2>2
<1>4. ASSUME NEW u \in Users, NEW k \in Tasks, PushBegin(u, k)
      PROVE  TasksNotified' /\ NoneSleepsInClosed'
  BY <1>t, <1>4 DEF PushBegin, Waiting, Checking
<1>5. ASSUME NEW t \in Threads, NEW v \in {"check", "locked"},
             pc' = [pc EXCEPT ![t] = v], tasks' = tasks, closed' = closed
      PROVE  TasksNotified' /\ NoneSleepsInClosed'
  <2>1. /\ Checking' = Checking \cup {t} /\ Checking \subseteq Threads
        /\ Waiting' = Waiting \ {t}
    BY <1>t, <1>s, <1>5, Moves
  <2>2. Cardinality(Checking') >= Cardinality(Checking)
    BY <1>n, <2>1, CountOne
  <2>3. Cardinality(Checking') \in Nat
    <3>1. Checking' \subseteq Threads
      BY <2>1
    <3> QED
      BY <3>1, Counts
  <2> QED
    BY <1>t, <1>n, <1>5, <2>1, <2>2, <2>3
<1>6. ASSUME NEW t \in Threads, Spawn(t) PROVE TasksNotified' /\ NoneSleepsInClosed'
  BY <1>5, <1>6 DEF Spawn
<1>7. ASSUME NEW t \in Threads, TestPredicate(t)
      PROVE  TasksNotified' /\ NoneSleepsInClosed'
  <2>1. CASE closed \/ tasks # <<>>
    BY <1>5, <1>7, <2>1 DEF TestPredicate
  <2>2. CASE ~closed /\ tasks = <<>>
    <3>1. Len(tasks') = 0 /\ closed' = closed
      BY <1>7, <2>2 DEF TestPredicate
    <3>2. Cardinality(Checking') \in Nat
      <4>1. Checking' = Checking \ {t} /\ Checking \subseteq Threads
        BY <1>t, <1>s, <1>7, <2>2, Moves DEF TestPredicate
      <4>2. Checking' \subseteq Threads
        BY <4>1
      <4> QED
        BY <4>2, Counts
    <3> QED
      BY <2>2, <3>1, <3>2
  <2> QED
    BY <2>1, <2>2
<1>8. ASSUME NEW t \in Threads, TakeTask(t) PROVE TasksNotified' /\ NoneSleepsInClosed'
  <2>1. CASE closed
    <3>1. pc' = [pc EXCEPT ![t] = "exited"] /\ closed' = closed
      BY <1>8, <2>1 DEF TakeTask
    <3>2. Waiting' = Waiting \ {t}
      <4>1. "exited" \in States \ {"new"}
        BY DEF States
      <4> QED
        BY <1>t, <3>1, <4>1, Moves
    <3> QED
      BY <1>t, <2>1, <3>1, <3>2
  <2>2. CASE ~closed /\ tasks = <<>>
    BY <1>t, <1>8, <2>2 DEF TakeTask, Waiting, Checking
  <2>3. CASE ~closed /\ tasks # <<>>
    <3>1. /\ pc' = [pc EXCEPT ![t] = "run"] /\ pc[t] = "locked"
          /\ closed' = closed /\ tasks' = Tail(tasks)
      BY <1>8, <2>3 DEF TakeTask
    <3>2. /\ Checking' = Checking \ {t} /\ Checking \subseteq Threads
          /\ Waiting' = Waiting \ {t}
      <4>1. "run" \in States \ {"new"}
        BY DEF States
      <4> QED
        BY <1>t, <3>1, <4>1, Moves
    <3>3. t \in Checking
      BY <3>1 DEF Checking
    <3>4. Cardinality(Checking') = Cardinality(Checking) - 1
      BY <3>2, <3>3, CountOne
    <3>5. Len(tasks') = Len(tasks) - 1
      BY <1>t, <2>3, <3>1 DEF TypeOK
    <3> QED
      BY <1>t, <1>n, <2>3, <3>1, <3>2, <3>4, <3>5
  <2> QED
    BY <2>1, <2>2, <2>3
<1>9. ASSUME NEW t \in Threads, Finish(t) PROVE TasksNotified' /\ NoneSleepsInClosed'
  BY <1>5, <1>9 DEF Finish
<1>10. ASSUME NEW t \in Threads, SpuriousWakeup(t)
       PROVE  TasksNotified' /\ NoneSleepsInClosed'
  BY <1>5, <1>10 DEF SpuriousWakeup
<1>11. CASE UNCHANGED vars
  BY <1>t, <1>11 DEF vars, Waiting, Checking
<1> QED
  BY <1>1, <1>2, <1>3, <1>4, <1>6, <1>7, <1>8, <1>9, <1>10, <1>11 DEF Next, ExecProc

\* The mutex has one holder, and a thread has a task exactly while it runs it.
LEMMA HolderStep ==
  ASSUME Inv, [Next]_vars
  PROVE  OneHolder' /\ RunsATask'
<1> USE DEF OneHolder, RunsATask
<1>t. TypeOK /\ OneHolder /\ RunsATask
  BY DEF Inv
<1>1. CASE Start
  BY <1>t, <1>1 DEF Start
<1>2. CASE Close
  BY <1>t, <1>2 DEF Close, NotifyAll, TypeOK
<1>3. ASSUME NEW u \in Users, Push(u) PROVE OneHolder' /\ RunsATask'
  <2>1. \A s \in Threads : pc'[s] # pc[s] => pc[s] = "wait" /\ pc'[s] = "check"
    BY <1>t, <1>3, Notified DEF Push
  <2>2. task' = task
    BY <1>3 DEF Push
  <2> QED
    BY <1>t, <2>1, <2>2
<1>4. ASSUME NEW u \in Users, NEW k \in Tasks, PushBegin(u, k)
      PROVE  OneHolder' /\ RunsATask'
  BY <1>t, <1>4 DEF PushBegin
<1>5. ASSUME NEW t \in Threads, Spawn(t) PROVE OneHolder' /\ RunsATask'
  BY <1>t, <1>5 DEF Spawn, TypeOK
<1>6. ASSUME NEW t \in Threads, TestPredicate(t) PROVE OneHolder' /\ RunsATask'
  BY <1>t, <1>6 DEF TestPredicate, MutexFree, TypeOK
<1>7. ASSUME NEW t \in Threads, TakeTask(t) PROVE OneHolder' /\ RunsATask'
  <2>1. CASE ~closed /\ tasks # <<>>
    <3>1. Head(tasks) # NoTask
      BY <1>t, <2>1, NoTaskAssumption DEF TypeOK
    <3> QED
      BY <1>t, <1>7, <2>1, <3>1 DEF TakeTask, TypeOK
  <2>2. CASE closed \/ tasks = <<>>
    BY <1>t, <1>7, <2>2 DEF TakeTask, TypeOK
  <2> QED
    BY <2>1, <2>2
<1>8. ASSUME NEW t \in Threads, Finish(t) PROVE OneHolder' /\ RunsATask'
  BY <1>t, <1>8 DEF Finish, TypeOK
<1>9. ASSUME NEW t \in Threads, SpuriousWakeup(t) PROVE OneHolder' /\ RunsATask'
  BY <1>t, <1>9 DEF SpuriousWakeup, TypeOK
<1>10. CASE UNCHANGED vars
  BY <1>t, <1>10 DEF vars
<1> QED
  BY <1>1, <1>2, <1>3, <1>4, <1>5, <1>6, <1>7, <1>8, <1>9, <1>10 DEF Next, ExecProc

\* Until a second Start orders more threads, a thread that holds the mutex of
\* an open pool finds the task it has seen.
LEMMA OrderStep ==
  ASSUME Inv, [Next]_vars
  PROVE  OrderedByStarts' /\ SeesATask' /\ TakesOnlyTasks'
<1> DEFINE Goal == OrderedByStarts' /\ SeesATask' /\ TakesOnlyTasks'
<1> USE DEF OrderedByStarts, SeesATask, TakesOnlyTasks
<1>t. TypeOK /\ OrderedByStarts /\ SeesATask /\ TakesOnlyTasks /\ OneHolder
  BY DEF Inv
<1>n. Ordered = Cardinality(Created) + toSpawn /\ Ordered \in Nat /\ ThreadCount \in Nat
  BY <1>t, PoolCounts, SomeThread DEF Ordered, TypeOK
<1>p. Ordered' = Cardinality(Created') + toSpawn'
  BY DEF Ordered
<1>s. \A v \in {"check", "wait", "locked", "run", "exited"} : v \in States \ {"new"}
  BY DEF States
<1>1. ASSUME ~undefined, Start PROVE Goal
  <2>1. /\ Created' = Created /\ toSpawn = 0 /\ toSpawn' = ThreadCount
        /\ closed /\ ~closed' /\ tasks' = tasks /\ pc' = pc /\ undefined' = undefined
    BY <1>1 DEF Start, Created
  <2>2. Cardinality(Created) \in Nat
    BY PoolCounts
  <2>3. Ordered' \in Nat /\ Ordered' >= ThreadCount /\ Ordered' # 0
    BY <1>n, <1>p, <2>1, <2>2, SomeThread
  <2>4. ASSUME Ordered' <= ThreadCount PROVE \A t \in Threads : pc[t] # "locked"
    <3>1. Cardinality(Created) = 0
      BY <1>n, <1>p, <2>1, <2>2, <2>4
    <3>2. IsFiniteSet(Created)
      BY Counts DEF Created
    <3>3. Created = {}
      BY <3>1, <3>2, FS_EmptySet
    <3> QED
      BY <3>3 DEF Created
  <2> QED
    BY <1>1, <1>n, <2>1, <2>3, <2>4
<1>2. ASSUME ~undefined, Close PROVE Goal
  <2>1. Created' = Created
    BY <1>t, <1>2 DEF Close, NotifyAll, Created, TypeOK
  <2>2. Ordered' = Ordered /\ closed' /\ undefined' = undefined
    BY <1>2, <2>1 DEF Close, Ordered
  <2> QED
    BY <1>2, <1>t, <2>2
<1>3. ASSUME ~undefined, NEW u \in Users, Push(u) PROVE Goal
  <2>1. Created' = Created
    BY <1>t, <1>3, Notified DEF Push
  <2>2. /\ Ordered' = Ordered /\ closed' = closed /\ undefined' = undefined
        /\ tasks' # <<>>
    BY <1>3, <1>t, <2>1 DEF Push, Ordered, TypeOK
  <2> QED
    BY <1>3, <1>t, <2>2
<1>4. ASSUME ~undefined, NEW u \in Users, NEW k \in Tasks, PushBegin(u, k) PROVE Goal
  <2>1. Ordered' = Ordered
    BY <1>4 DEF PushBegin, Ordered, Created
  <2> QED
    BY <1>4, <1>t, <2>1 DEF PushBegin
<1>5. ASSUME ~undefined, NEW t \in Threads, Spawn(t) PROVE Goal
  <2>1. Created' = Created \cup {t} /\ Created \subseteq Threads /\ t \notin Created
    BY <1>5, <1>t, <1>s, Moves DEF Spawn, Created
  <2>2. Cardinality(Created') = Cardinality(Created) + 1
    BY <2>1, CountOne
  <2>3. Ordered' = Ordered
    BY <1>5, <1>n, <1>p, <1>t, <2>2, PoolCounts DEF Spawn, TypeOK
  <2>4. \A s \in Threads : pc'[s] = "locked" => pc[s] = "locked"
    BY <1>5, <1>t DEF Spawn, TypeOK
  <2> QED
    BY <1>5, <1>t, <2>3, <2>4 DEF Spawn
<1>6. ASSUME ~undefined, NEW t \in Threads, TestPredicate(t) PROVE Goal
  <2>1. Ordered' = Ordered
    BY <1>6, <1>t, <1>s, Remain DEF TestPredicate
  <2>2. \A s \in Threads : pc'[s] = "locked" => closed \/ tasks # <<>>
    BY <1>6, <1>t DEF TestPredicate, MutexFree, TypeOK
  <2> QED
    BY <1>6, <1>t, <2>1, <2>2 DEF TestPredicate
<1>7. ASSUME ~undefined, NEW t \in Threads, TakeTask(t) PROVE Goal
  <2>l. pc[t] = "locked" /\ closed' = closed /\ toSpawn' = toSpawn
    BY <1>7 DEF TakeTask
  <2>1. CASE closed
    <3>1. pc' = [pc EXCEPT ![t] = "exited"] /\ undefined' = undefined
      BY <1>7, <2>1 DEF TakeTask
    <3>2. Ordered' = Ordered
      BY <1>t, <1>s, <2>l, <3>1, Remain
    <3> QED
      BY <1>7, <1>t, <2>1, <2>l, <3>1, <3>2
  <2>2. CASE ~closed /\ tasks = <<>>
    <3>1. tasks' = tasks /\ pc' = pc
      BY <1>7, <2>2 DEF TakeTask
    <3>2. Ordered' = Ordered
      BY <2>l, <3>1 DEF Ordered, Created
    <3>3. Ordered > ThreadCount
      BY <1>t, <1>n, <2>2, <2>l
    <3> QED
      BY <1>t, <1>n, <1>p, <2>2, <2>l, <3>2, <3>3
  <2>3. CASE ~closed /\ tasks # <<>>
    <3>1. pc' = [pc EXCEPT ![t] = "run"] /\ undefined' = undefined
      BY <1>7, <2>3 DEF TakeTask
    <3>2. Ordered' = Ordered
      BY <1>t, <1>s, <2>l, <3>1, Remain
    <3>3. \A s \in Threads : pc'[s] # "locked"
      BY <1>t, <2>l, <3>1 DEF OneHolder, TypeOK
    <3> QED
      BY <1>7, <1>t, <2>3, <2>l, <3>1, <3>2, <3>3
  <2> QED
    BY <2>1, <2>2, <2>3
<1>8. ASSUME ~undefined, NEW t \in Threads, Finish(t) \/ SpuriousWakeup(t) PROVE Goal
  <2>1. /\ pc' = [pc EXCEPT ![t] = "check"] /\ pc[t] # "new" /\ toSpawn' = toSpawn
        /\ closed' = closed /\ tasks' = tasks /\ undefined' = undefined
    BY <1>8 DEF Finish, SpuriousWakeup
  <2>2. Ordered' = Ordered
    BY <1>t, <1>s, <2>1, Remain
  <2>3. \A s \in Threads : pc'[s] = "locked" => pc[s] = "locked"
    BY <1>t, <2>1 DEF TypeOK
  <2> QED
    BY <1>8, <1>t, <2>1, <2>2, <2>3
<1>9. CASE UNCHANGED vars
  <2>1. Ordered' = Ordered /\ Created' = Created
    BY <1>9 DEF vars, Ordered, Created
  <2> QED
    BY <1>9, <1>t, <2>1 DEF vars
<1> QED
  BY <1>1, <1>2, <1>3, <1>4, <1>5, <1>6, <1>7, <1>8, <1>9 DEF Next, ExecProc

\* A task is in one place: it moves from a user to the list and from the list
\* to a thread, and a user takes up only a task that is nowhere.
LEMMA PlaceStep ==
  ASSUME Inv, [Next]_vars
  PROVE  OnePlace'
<1>t. TypeOK /\ OnePlace
  BY DEF Inv
<1>1. ASSUME NEW u \in Users, NEW k \in Tasks, PushBegin(u, k) PROVE OnePlace'
  <2>1. /\ \A i \in 1 .. Len(tasks) : tasks[i] # k
        /\ \A v \in Users : pushing[v] # k
        /\ \A t \in Threads : task[t] # k
    BY <1>1, <1>t DEF PushBegin, InUse, TypeOK
  <2>2. \A v \in Users : pushing'[v] = IF v = u THEN k ELSE pushing[v]
    BY <1>1, <1>t DEF PushBegin, TypeOK
  <2>3. tasks' = tasks /\ task' = task
    BY <1>1 DEF PushBegin
  <2> QED
    BY <1>t, <2>1, <2>2, <2>3 DEF OnePlace
<1>2. ASSUME NEW u \in Users, Push(u) PROVE OnePlace'
  <2>1. \A v \in Users : pushing'[v] = IF v = u THEN NoTask ELSE pushing[v]
    BY <1>2, <1>t DEF Push, TypeOK
  <2>2. /\ Len(tasks') = Len(tasks) + 1 /\ Len(tasks) \in Nat
        /\ \A i \in 1 .. Len(tasks') :
             tasks'[i] = IF i = Len(tasks) + 1 THEN pushing[u] ELSE tasks[i]
    BY <1>2, <1>t DEF Push, TypeOK
  <2>3. pushing[u] # NoTask /\ task' = task
    BY <1>2 DEF Push
  <2>4. \A i \in 1 .. Len(tasks) : tasks[i] # NoTask
    BY <1>t, NoTaskAssumption DEF TypeOK
  <2>5. \A i \in 1 .. Len(tasks') : i # Len(tasks) + 1 => i \in 1 .. Len(tasks)
    BY <2>2
  <2>6. \A i, j \in 1 .. Len(tasks') : tasks'[i] = tasks'[j] => i = j
    BY <1>t, <2>2, <2>5 DEF OnePlace
  <2>7. \A v \in Users, i \in 1 .. Len(tasks') : pushing'[v] # tasks'[i]
    BY <1>t, <2>1, <2>2, <2>3, <2>4, <2>5 DEF OnePlace
  <2>8. \A i \in 1 .. Len(tasks'), t \in Threads : tasks'[i] # task'[t]
    BY <1>t, <2>2, <2>3, <2>5 DEF OnePlace
  <2> QED
    BY <1>t, <2>1, <2>3, <2>6, <2>7, <2>8 DEF OnePlace
<1>3. ASSUME NEW t \in Threads, TakeTask(t) PROVE OnePlace'
  <2>1. CASE closed \/ tasks = <<>>
    BY <1>3, <1>t, <2>1 DEF TakeTask, OnePlace
  <2>2. CASE ~closed /\ tasks # <<>>
    <3>1. /\ Len(tasks') = Len(tasks) - 1 /\ Len(tasks) \in Nat /\ Len(tasks) >= 1
          /\ \A i \in 1 .. Len(tasks') : tasks'[i] = tasks[i + 1]
      BY <1>3, <1>t, <2>2, SMTT(30) DEF TakeTask, TypeOK
    <3>2. \A s \in Threads : task'[s] = IF s = t THEN tasks[1] ELSE task[s]
      BY <1>3, <1>t, <2>2 DEF TakeTask, TypeOK
    <3>3. pushing' = pushing
      BY <1>3 DEF TakeTask
    <3>4. 1 \in 1 .. Len(tasks) /\ tasks[1] # NoTask
      BY <1>t, <3>1, NoTaskAssumption DEF TypeOK
    <3>5. \A i \in 1 .. Len(tasks') : i + 1 \in 1 .. Len(tasks) /\ i + 1 # 1
      BY <3>1
    <3>6. \A i, j \in 1 .. Len(tasks') : tasks'[i] = tasks'[j] => i = j
      <4> SUFFICES ASSUME NEW i \in 1 .. Len(tasks'), NEW j \in 1 .. Len(tasks'),
                          tasks'[i] = tasks'[j]
                   PROVE  i = j
        OBVIOUS
      <4>1. i + 1 = j + 1
        BY <1>t, <3>1, <3>5 DEF OnePlace
      <4> QED
        BY <4>1
    <3>7. \A i \in 1 .. Len(tasks'), s \in Threads : tasks'[i] # task'[s]
      BY <1>t, <3>1, <3>2, <3>4, <3>5 DEF OnePlace
    <3>8. /\ \A r, s \in Threads : task'[s] # NoTask /\ task'[s] = task'[r] => s = r
          /\ \A u \in Users, s \in Threads : pushing'[u] # NoTask => pushing'[u] # task'[s]
          /\ \A u \in Users, i \in 1 .. Len(tasks') : pushing'[u] # tasks'[i]
      BY <1>t, <3>1, <3>2, <3>3, <3>4, <3>5 DEF OnePlace
    <3> QED
      BY <1>t, <3>3, <3>6, <3>7, <3>8 DEF OnePlace
  <2> QED
    BY <2>1, <2>2
<1>4. ASSUME NEW t \in Threads, Finish(t) PROVE OnePlace'
  <2>1. \A s \in Threads : task'[s] = IF s = t THEN NoTask ELSE task[s]
    BY <1>4, <1>t DEF Finish, TypeOK
  <2>2. tasks' = tasks /\ pushing' = pushing
    BY <1>4 DEF Finish
  <2>3. \A i \in 1 .. Len(tasks) : tasks[i] # NoTask
    BY <1>t, NoTaskAssumption DEF TypeOK
  <2> QED
    BY <1>t, <2>1, <2>2, <2>3 DEF OnePlace
<1>5. CASE UNCHANGED <<tasks, pushing, task>>
  BY <1>t, <1>5 DEF OnePlace
<1> QED
  BY <1>1, <1>2, <1>3, <1>4, <1>5 DEF Next, vars, ExecProc, Start, Close, Spawn,
     TestPredicate, SpuriousWakeup

\* In a new pool nothing has been ordered, nothing waits and there is no task.
LEMMA InvInit == Init => Inv
<1> SUFFICES ASSUME Init PROVE Inv
  OBVIOUS
<1>1. TypeOK
  BY TypeInit
<1>2. Waiting = {} /\ Created = {}
  BY DEF Init, Waiting, Created
<1>3. Ordered = 0
  BY <1>2, FS_EmptySet DEF Init, Ordered
<1>4. TasksNotified /\ NoneSleepsInClosed /\ OneHolder /\ RunsATask
  BY <1>2 DEF Init, TasksNotified, NoneSleepsInClosed, OneHolder, RunsATask
<1>5. OrderedByStarts /\ SeesATask /\ TakesOnlyTasks
  BY <1>3 DEF Init, OrderedByStarts, SeesATask, TakesOnlyTasks
<1>6. OnePlace
  BY DEF Init, OnePlace
<1> QED
  BY <1>1, <1>4, <1>5, <1>6 DEF Inv

\* The invariant is inductive.
LEMMA InvStep == Inv /\ [Next]_vars => Inv'
<1> SUFFICES ASSUME Inv, [Next]_vars PROVE Inv'
  OBVIOUS
<1>1. TypeOK'
  BY TypeStep DEF Inv
<1> QED
  BY <1>1, SleepStep, HolderStep, OrderStep, PlaceStep DEF Inv

\* The invariant holds in every reachable state.
THEOREM Invariance == Spec => []Inv
  BY InvInit, InvStep, PTL DEF Spec

\* No wake-up is lost: while a thread of the open pool sleeps, every task of
\* the queue has a thread that is about to look at the queue.
THEOREM NoLostWakeup == Spec => []TasksNotified
<1>1. Inv => TasksNotified
  BY DEF Inv
<1> QED
  BY <1>1, Invariance, PTL

\* Unless the pool is started a second time, no thread of ExecProc takes the
\* front of an empty list.
THEOREM NoEmptyTake == Spec => []TakesOnlyTasks
<1>1. Inv => TakesOnlyTasks
  BY DEF Inv
<1> QED
  BY <1>1, Invariance, PTL

-----------------------------------------------------------------------------
(* The refinement of TaskQueue.                                            *)

\* The tasks that threads run.
Running == {task[t] : t \in {s \in Threads : task[s] # NoTask}}

\* A step of the pool is a step of the queue, or changes nothing of it, if it
\* does not open a pool that has tasks left.
LEMMA QueueStep ==
  ASSUME Inv, [Next]_vars, ~OpensWithTasks
  PROVE  [Queue!Next]_(Queue!qvars)
<1> DEFINE Same == UNCHANGED <<closed, tasks, task>>
<1> USE DEF Queue!Next, Queue!qvars
<1>t. TypeOK /\ RunsATask /\ OnePlace
  BY DEF Inv
<1>1. CASE Same
  BY <1>1
<1>2. CASE Start
  BY <1>2 DEF Start, Queue!Open, OpensWithTasks
<1>3. CASE Close
  <2>1. tasks' = tasks /\ task' = task /\ closed' = TRUE
    BY <1>3 DEF Close
  <2>2. CASE closed = TRUE
    BY <1>1, <2>1, <2>2
  <2>3. CASE closed = FALSE
    BY <2>1, <2>3 DEF Queue!Close
  <2> QED
    BY <1>t, <2>2, <2>3 DEF TypeOK
<1>4. ASSUME NEW u \in Users, Push(u) PROVE [Queue!Next]_(Queue!qvars)
  <2>1. /\ pushing[u] \in Tasks /\ tasks' = Append(tasks, pushing[u])
        /\ closed' = closed /\ task' = task
    BY <1>4, <1>t DEF Push, TypeOK
  <2>2. pushing[u] \notin Running
    BY <1>4, <1>t DEF Push, OnePlace, Running
  <2>3. CASE closed
    BY <2>1, <2>3
  <2>4. CASE ~closed
    <3>1. Queue!Push(pushing[u])
      BY <2>1, <2>2, <2>4 DEF Queue!Push, Running
    <3> QED
      BY <2>1, <3>1
  <2> QED
    BY <2>3, <2>4
<1>5. ASSUME NEW t \in Threads, TakeTask(t) PROVE [Queue!Next]_(Queue!qvars)
  <2>1. CASE closed \/ tasks = <<>>
    BY <1>5, <1>1, <2>1 DEF TakeTask
  <2>2. CASE ~closed /\ tasks # <<>>
    <3>1. /\ pc[t] = "locked" /\ task' = [task EXCEPT ![t] = Head(tasks)]
          /\ tasks' = Tail(tasks) /\ closed' = closed
      BY <1>5, <2>2 DEF TakeTask
    <3>2. task[t] = NoTask
      BY <1>t, <3>1 DEF RunsATask
    <3>3. Head(tasks) # NoTask /\ Head(tasks) = tasks[1] /\ 1 \in 1 .. Len(tasks)
      BY <1>t, <2>2, NoTaskAssumption DEF TypeOK
    <3>4. \A s \in Threads : task'[s] = IF s = t THEN Head(tasks) ELSE task[s]
      BY <1>t, <3>1 DEF TypeOK
    <3>5. Head(tasks) \notin Running
      BY <1>t, <3>3 DEF OnePlace, Running
    <3>6. Running' = Running \cup {Head(tasks)}
      BY <3>2, <3>3, <3>4 DEF Running
    <3>7. Queue!Begin
      BY <2>2, <3>1, <3>5, <3>6 DEF Queue!Begin, Running
    <3> QED
      BY <3>7
  <2> QED
    BY <2>1, <2>2
<1>6. ASSUME NEW t \in Threads, Finish(t) PROVE [Queue!Next]_(Queue!qvars)
  <2>1. /\ task[t] # NoTask /\ task[t] \in Tasks /\ tasks' = tasks /\ closed' = closed
    BY <1>6, <1>t DEF Finish, RunsATask, TypeOK
  <2>2. \A s \in Threads : task'[s] = IF s = t THEN NoTask ELSE task[s]
    BY <1>6, <1>t DEF Finish, TypeOK
  <2>k. PICK k \in Tasks : k = task[t]
    BY <2>1
  <2>3. Running' = Running \ {k}
    BY <1>t, <2>1, <2>2, <2>k DEF Running, OnePlace
  <2>4. k \in Running
    BY <2>1, <2>k DEF Running
  <2>5. Queue!Finish(k)
    BY <2>1, <2>3, <2>4 DEF Queue!Finish, Running
  <2> QED
    BY <2>5
<1> QED
  BY <1>1, <1>2, <1>3, <1>4, <1>5, <1>6 DEF Next, vars, ExecProc, PushBegin, Spawn,
     TestPredicate, SpuriousWakeup

\* The pool hands tasks out in the order they were pushed, each once, none while
\* it is closed and none that remained when it was closed; the only step that is
\* not one of the queue opens a pool that has tasks left.
THEOREM Refinement == Spec => ImplementsQueue
<1>1. Init => Queue!Init
  BY DEF Init, Queue!Init
<1>2. Inv /\ [Next]_vars => [Queue!Next \/ OpensWithTasks]_(Queue!qvars)
  BY QueueStep
<1> QED
  BY <1>1, <1>2, Invariance, PTL DEF Spec, ImplementsQueue
=============================================================================
