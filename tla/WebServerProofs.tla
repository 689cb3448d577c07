-------------------------- MODULE WebServerProofs --------------------------
(* Proofs about WebServer, for any number of sockets, clients and workers. *)
EXTENDS WebServer, TLAPS

USE SocketAssumption, ConnAssumption, TimelyAssumption

\* The initial state is well typed.
LEMMA TypeInit == Init => TypeOK
<1> SUFFICES ASSUME Init PROVE TypeOK
  OBVIOUS
<1>1. tasks \in Seq(Task)
  BY DEF Init
<1> QED
  BY <1>1 DEF Init, TypeOK, Steps

\* Every action of the server and of its environment keeps the types.
LEMMA TypeStep == TypeOK /\ [Next]_vars => TypeOK'
<1> SUFFICES ASSUME TypeOK, [Next]_vars PROVE TypeOK'
  OBVIOUS
<1> USE DEF TypeOK, kernel, main, pool
<1>1. ASSUME NEW c \in Conns, Connect(c) PROVE TypeOK'
  BY <1>1 DEF Connect
<1>2. ASSUME NEW s \in Sockets, TimeElapses(s) PROVE TypeOK'
  BY <1>2 DEF TimeElapses
<1>3. ASSUME NEW s \in Sockets, TickPop(s) PROVE TypeOK'
  BY <1>3 DEF TickPop
<1>4. CASE CloseClient
  BY <1>4 DEF CloseClient
<1>5. CASE TickDone
  BY <1>5 DEF TickDone
<1>6. CASE Wait
  <2>1. batch' \in [Sockets -> {"none", "close", "in", "out"}]
    BY <1>6 DEF Wait
  <2>2. epoll' \in [Sockets -> {"absent", "off", "in", "out"}]
    BY <1>6 DEF Wait, OneShot
  <2>3. PICK l \in {FALSE, edge} : listening' = l /\ edge' = (edge /\ ~l)
    BY <1>6 DEF Wait
  <2>4. listening' \in BOOLEAN /\ edge' \in BOOLEAN
    BY <2>3
  <2> QED
    BY <1>6, <2>1, <2>2, <2>4 DEF Wait
<1>7. CASE OnListenEvent
  BY <1>7 DEF OnListenEvent
<1>8. ASSUME NEW c \in Conns, NEW s \in Sockets, AddClient(c, s) PROVE TypeOK'
  BY <1>8 DEF AddClient
<1>9. CASE AcceptDone
  BY <1>9 DEF AcceptDone
<1>10. CASE AcceptFails
  BY <1>10 DEF AcceptFails, NextLoop
<1>11. ASSUME NEW c \in Conns, NEW s \in Sockets, AddClientFails(c, s) PROVE TypeOK'
  BY <1>11 DEF AddClientFails, NextLoop
<1>12. ASSUME NEW s \in Sockets, OnCloseEvent(s) PROVE TypeOK'
  BY <1>12 DEF OnCloseEvent, Mark
<1>13. ASSUME NEW s \in Sockets, OnReceiveEvent(s) PROVE TypeOK'
  <2> DEFINE t == [kind |-> "recv", conn |-> users[s]]
  <2>1. users[s] # NoConn => t \in Task
    BY DEF Task
  <2>2. tasks' \in Seq(Task)
    <3>1. tasks' = tasks \/ (users[s] # NoConn /\ tasks' = Append(tasks, t))
      BY <1>13 DEF OnReceiveEvent, PushTask
    <3>2. tasks \in Seq(Task)
      OBVIOUS
    <3> HIDE DEF TypeOK, t
    <3> QED
      BY <2>1, <3>1, <3>2
  <2>3. timer' \in [Sockets -> {"none", "live", "late", "zero"}]
    BY <1>13 DEF OnReceiveEvent, PushTask
  <2>4. fate' \in {"ok", "abort", "segv", "race"}
    BY <1>13 DEF OnReceiveEvent, PushTask
  <2> QED
    BY <1>13, <2>2, <2>3, <2>4 DEF OnReceiveEvent
<1>14. ASSUME NEW s \in Sockets, OnSendEvent(s) PROVE TypeOK'
  <2> DEFINE t == [kind |-> "send", conn |-> users[s]]
  <2>1. users[s] # NoConn => t \in Task
    BY DEF Task
  <2>2. tasks' \in Seq(Task)
    <3>1. tasks' = tasks \/ (users[s] # NoConn /\ tasks' = Append(tasks, t))
      BY <1>14 DEF OnSendEvent, PushTask
    <3>2. tasks \in Seq(Task)
      OBVIOUS
    <3> HIDE DEF TypeOK, t
    <3> QED
      BY <2>1, <3>1, <3>2
  <2>3. timer' \in [Sockets -> {"none", "live", "late", "zero"}]
    BY <1>14 DEF OnSendEvent, PushTask
  <2>4. fate' \in {"ok", "abort", "segv", "race"}
    BY <1>14 DEF OnSendEvent, PushTask
  <2> QED
    BY <1>14, <2>2, <2>3, <2>4 DEF OnSendEvent
<1>15. CASE DispatchDone
  BY <1>15 DEF DispatchDone
<1>16. ASSUME NEW w \in Workers, Take(w) PROVE TypeOK'
  <2>1. Head(tasks) \in Task /\ Tail(tasks) \in Seq(Task)
    BY <1>16 DEF Take
  <2>2. Head(tasks).kind \in Steps /\ Head(tasks).conn \in Conns
    BY <2>1 DEF Task, Steps
  <2> QED
    BY <1>16, <2>1, <2>2 DEF Take, Goto
<1>17. ASSUME NEW w \in Workers, ReceiveFrom(w) PROVE TypeOK'
  BY <1>17 DEF ReceiveFrom, Goto, Steps
<1>18. ASSUME NEW w \in Workers, SendTo(w) PROVE TypeOK'
  BY <1>18 DEF SendTo, Goto, Steps
<1>19. ASSUME NEW w \in Workers, Process(w) PROVE TypeOK'
  BY <1>19 DEF Process, Goto, Steps
<1>20. ASSUME NEW w \in Workers, MarkFromWorker(w) PROVE TypeOK'
  BY <1>20 DEF MarkFromWorker, Mark, Goto, Steps
<1>21. ASSUME NEW w \in Workers, TimerRace(w) PROVE TypeOK'
  BY <1>21 DEF TimerRace
<1>22. ASSUME NEW w \in Workers, Release(w) PROVE TypeOK'
  BY <1>22 DEF Release, Goto, Steps
<1>23. CASE UNCHANGED vars
  BY <1>23 DEF vars
<1> QED
  BY <1>1, <1>2, <1>3, <1>4, <1>5, <1>6, <1>7, <1>8, <1>9, <1>10, <1>11,
     <1>12, <1>13, <1>14, <1>15, <1>16, <1>17, <1>18, <1>19, <1>20, <1>21,
     <1>22, <1>23
  DEF Next, MainStep, WorkerStep, Terminated

\* Every step of the server and of its environment keeps the types of the
\* variables.
THEOREM TypeCorrect == Spec => []TypeOK
  BY TypeInit, TypeStep, PTL DEF Spec

-----------------------------------------------------------------------------
(* The inductive invariant.                                                *)

\* The time-out callback runs on a client that is still in the table.
Callback == mainPc = "callback" => closing \in Sockets /\ users[closing] # NoConn

\* The table maps a socket to the connection that was created on it.
Registered ==
    /\ \A s \in Sockets : users[s] # NoConn => sock[users[s]] = s
    /\ \A c \in pending : sock[c] = NoSocket

\* A worker holds a connection exactly while it is not idle.
Employed == \A w \in Workers : (job[w] = NoConn) <=> (pc[w] = "idle")

\* A connection that somebody holds has a socket.
Connected == \A c \in Conns : Held(c) => sock[c] \in Sockets

\* A fetched event has disarmed its socket, and is dispatched or forgotten
\* before the timers are looked at again.
Fetched ==
    \A s \in Sockets :
        batch[s] # "none" => epoll[s] = "off" /\ mainPc \in {"dispatch", "accept"}

\* A marked client has nothing left that could extend its time.
Doomed ==
    \A s \in Sockets : timer[s] = "zero" =>
        /\ epoll[s] = "off" /\ batch[s] = "none"
        /\ ~Queued(users[s]) /\ ~Running(users[s])

Inv ==
    /\ TypeOK /\ KeysAgree /\ Callback /\ Registered /\ Employed
    /\ Connected /\ SocketOwnership /\ Exclusive /\ Fetched /\ Doomed

-----------------------------------------------------------------------------
(* Facts about the queue, the holders and the owners.                      *)

\* Pushing a task queues its connection, and no other.
LEMMA AppendQueue ==
  ASSUME tasks \in Seq(Task), NEW t \in Task, tasks' = Append(tasks, t)
  PROVE  /\ \A c \in Conns : Queued(c)' <=> (Queued(c) \/ c = t.conn)
         /\ /\ \A i, j \in DOMAIN tasks : tasks[i].conn = tasks[j].conn => i = j
            /\ ~Queued(t.conn)
            => \A i, j \in DOMAIN tasks' : tasks'[i].conn = tasks'[j].conn => i = j
<1>1. /\ DOMAIN tasks = 1 .. Len(tasks) /\ DOMAIN tasks' = 1 .. Len(tasks) + 1
      /\ Len(tasks) \in Nat
  OBVIOUS
<1>2. /\ \A i \in DOMAIN tasks : tasks'[i] = tasks[i]
      /\ tasks'[Len(tasks) + 1] = t
  OBVIOUS
<1> HIDE DEF Task
<1> QED
  BY <1>1, <1>2 DEF Queued

\* Taking the first task leaves the others queued.
LEMMA TailQueue ==
  ASSUME tasks \in Seq(Task), tasks # <<>>, tasks' = Tail(tasks),
         \A i, j \in DOMAIN tasks : tasks[i].conn = tasks[j].conn => i = j
  PROVE  /\ Head(tasks) \in Task /\ Queued(Head(tasks).conn)
         /\ \A c \in Conns : Queued(c)' <=> (Queued(c) /\ c # Head(tasks).conn)
         /\ \A i, j \in DOMAIN tasks' : tasks'[i].conn = tasks'[j].conn => i = j
<1>1. /\ DOMAIN tasks = 1 .. Len(tasks) /\ DOMAIN tasks' = 1 .. Len(tasks) - 1
      /\ Len(tasks) \in Nat \ {0}
  OBVIOUS
<1>2. /\ \A i \in DOMAIN tasks' : tasks'[i] = tasks[i + 1]
      /\ Head(tasks) = tasks[1] /\ tasks[1] \in Task
  OBVIOUS
<1>3. \A i \in DOMAIN tasks : i # 1 => \E j \in DOMAIN tasks' : i = j + 1
  <2> SUFFICES ASSUME NEW i \in DOMAIN tasks, i # 1 PROVE \E j \in DOMAIN tasks' : i = j + 1
    OBVIOUS
  <2>1. i - 1 \in DOMAIN tasks' /\ i = (i - 1) + 1
    BY <1>1
  <2> QED
    BY <2>1
<1>4. 1 \in DOMAIN tasks /\ \A j \in DOMAIN tasks' : j + 1 \in DOMAIN tasks /\ j + 1 # 1
  BY <1>1
<1>5. Head(tasks) \in Task /\ Queued(Head(tasks).conn)
  BY <1>2, <1>4 DEF Queued
<1>6. ASSUME NEW c \in Conns PROVE Queued(c)' <=> (Queued(c) /\ c # Head(tasks).conn)
  <2>1. Queued(c)' => Queued(c) /\ c # Head(tasks).conn
    BY <1>2, <1>4 DEF Queued
  <2>2. Queued(c) /\ c # Head(tasks).conn => Queued(c)'
    BY <1>2, <1>3, <1>4 DEF Queued
  <2> QED
    BY <2>1, <2>2
<1>7. ASSUME NEW i \in DOMAIN tasks', NEW j \in DOMAIN tasks', tasks'[i].conn = tasks'[j].conn
      PROVE  i = j
  <2>1. i + 1 = j + 1
    BY <1>2, <1>4, <1>7
  <2> QED
    BY <1>1, <2>1
<1> QED
  BY <1>5, <1>6, <1>7

\* A worker whose client is still in the table is alone on its socket.
LEMMA WorkerOwns ==
  ASSUME Inv, NEW w \in Workers, pc[w] # "idle"
  PROVE  /\ job[w] \in Conns /\ sock[job[w]] \in Sockets
         /\ users[sock[job[w]]] # NoConn => users[sock[job[w]]] = job[w]
<1>1. job[w] \in Conns /\ Held(job[w])
  BY DEF Inv, TypeOK, Employed, Held
<1>2. sock[job[w]] \in Sockets
  BY <1>1 DEF Inv, Connected
<1> DEFINE s == sock[job[w]]
<1>3. ASSUME users[s] # NoConn PROVE users[s] = job[w]
  <2>1. users[s] \in Conns /\ Held(users[s]) /\ sock[users[s]] = s
    BY <1>2, <1>3 DEF Inv, TypeOK, Registered, Held
  <2> QED
    BY <1>1, <2>1 DEF Inv, SocketOwnership
<1> QED
  BY <1>1, <1>2, <1>3

\* A receive or send event finds its client, free, and queues a task for it.
LEMMA PushStep ==
  ASSUME Inv, TypeOK', NEW s \in Sockets, NEW kind \in {"recv", "send"},
         mainPc = "dispatch", batch[s] \in {"in", "out"}, PushTask(s, kind),
         batch' = [batch EXCEPT ![s] = "none"],
         UNCHANGED <<kernel, sock, users, epoll, mainPc, closing, listening, pc, job>>
  PROVE  /\ Inv' /\ fate' = fate
         /\ users[s] \in Conns /\ sock[users[s]] = s
         /\ timer' = [timer EXCEPT ![s] = "live"]
         /\ \A c \in Conns : Queued(c)' <=> (Queued(c) \/ c = users[s])
<1> USE DEF Inv
<1> DEFINE u == users[s]
           t == [kind |-> kind, conn |-> u]
<1>1. epoll[s] = "off" /\ u \in Conns /\ timer[s] # "none"
  BY DEF Fetched, KeysAgree, TypeOK
<1>2. /\ timer' = [timer EXCEPT ![s] = "live"] /\ fate' = fate
      /\ tasks' = Append(tasks, t) /\ t \in Task /\ t.conn = u
  BY <1>1, ConnAssumption DEF PushTask, Task
<1>3. ~Queued(u) /\ ~Running(u) /\ Held(u) /\ sock[u] = s
  BY <1>1 DEF Exclusive, Held, Registered
<1>4. /\ \A c \in Conns : Queued(c)' <=> (Queued(c) \/ c = u)
      /\ \A i, j \in DOMAIN tasks' : tasks'[i].conn = tasks'[j].conn => i = j
  <2> HIDE DEF t
  <2> QED
    BY <1>2, <1>3, AppendQueue DEF Exclusive, TypeOK
<1>5. \A c \in Conns : (Held(c)' <=> Held(c)) /\ (Running(c)' <=> Running(c))
  BY <1>3, <1>4 DEF Held, Running
<1>6. KeysAgree' /\ Callback' /\ Registered' /\ Employed' /\ Fetched'
  BY <1>1, <1>2 DEF KeysAgree, Callback, Registered, Employed, Fetched, TypeOK, kernel
<1>7. Connected' /\ SocketOwnership'
  BY <1>5 DEF Connected, SocketOwnership
<1>8. Exclusive'
  <2>1. \A c \in Conns, r \in Sockets : users[r] = c /\ c = u => r = s
    BY <1>1, <1>3 DEF Registered
  <2> QED
    BY <1>1, <1>3, <1>4, <1>5, <2>1 DEF Exclusive, TypeOK
<1>9. Doomed'
  <2> SUFFICES ASSUME NEW r \in Sockets, timer'[r] = "zero"
               PROVE  /\ epoll'[r] = "off" /\ batch'[r] = "none"
                      /\ ~Queued(users[r])' /\ ~Running(users[r])'
    BY DEF Doomed
  <2>1. r # s /\ timer[r] = "zero"
    BY <1>2 DEF TypeOK
  <2>2. users[r] \in Conns /\ users[r] # u
    BY <1>1, <1>3, <2>1 DEF KeysAgree, Registered, TypeOK
  <2> QED
    BY <1>4, <1>5, <2>1, <2>2 DEF Doomed, TypeOK
<1> QED
  BY <1>1, <1>2, <1>3, <1>4, <1>6, <1>7, <1>8, <1>9

\* The inductive invariant holds when the event loop begins.
LEMMA InvInit == Init => Inv
<1> SUFFICES ASSUME Init PROVE Inv
  OBVIOUS
<1>1. TypeOK
  BY TypeInit
<1>2. ~\E c \in Conns : Held(c)
  BY DEF Init, Held, Queued
<1> QED
  BY <1>1, <1>2 DEF Init, Inv, KeysAgree, Callback, Registered, Employed, Connected,
     SocketOwnership, Exclusive, Queued, Fetched, Doomed, Busy

\* Every action keeps the inductive invariant.
LEMMA InvStep == Inv /\ [Next]_vars => Inv'
<1> SUFFICES ASSUME Inv, [Next]_vars PROVE Inv'
  OBVIOUS
<1> USE DEF Inv, TypeOK, kernel, main, pool
<1>0. TypeOK'
  BY TypeStep
<1>1. ASSUME NEW c \in Conns, Connect(c) PROVE Inv'
  <2>1. KeysAgree'
    BY <1>1 DEF Connect, KeysAgree
  <2>2. Callback'
    BY <1>1 DEF Connect, Callback
  <2>3. Registered'
    BY <1>1 DEF Connect, Registered
  <2>4. Employed'
    BY <1>1 DEF Connect, Employed
  <2>5. Connected'
    BY <1>1 DEF Connect, Connected, Held, Queued
  <2>6. SocketOwnership'
    BY <1>1 DEF Connect, SocketOwnership, Held, Queued
  <2>7. Exclusive'
    BY <1>1 DEF Connect, Exclusive, Queued, Running, Busy, Steps
  <2>8. Fetched'
    BY <1>1 DEF Connect, Fetched
  <2>9. Doomed'
    BY <1>1 DEF Connect, Doomed, Queued, Running, Busy, Steps
  <2> QED
    BY <1>0, <2>1, <2>2, <2>3, <2>4, <2>5, <2>6, <2>7, <2>8, <2>9 DEF Inv
<1>2. ASSUME NEW s \in Sockets, TimeElapses(s) PROVE Inv'
  <2>1. KeysAgree'
    BY <1>2 DEF TimeElapses, KeysAgree
  <2>2. Callback'
    BY <1>2 DEF TimeElapses, Callback
  <2>3. Registered'
    BY <1>2 DEF TimeElapses, Registered
  <2>4. Employed'
    BY <1>2 DEF TimeElapses, Employed
  <2>5. Connected'
    BY <1>2 DEF TimeElapses, Connected, Held, Queued
  <2>6. SocketOwnership'
    BY <1>2 DEF TimeElapses, SocketOwnership, Held, Queued
  <2>7. Exclusive'
    BY <1>2 DEF TimeElapses, Exclusive, Queued, Running, Busy, Steps
  <2>8. Fetched'
    BY <1>2 DEF TimeElapses, Fetched
  <2>9. Doomed'
    BY <1>2 DEF TimeElapses, Doomed, Queued, Running, Busy, Steps
  <2> QED
    BY <1>0, <2>1, <2>2, <2>3, <2>4, <2>5, <2>6, <2>7, <2>8, <2>9 DEF Inv
<1>3. ASSUME NEW s \in Sockets, TickPop(s) PROVE Inv'
  <2>1. KeysAgree'
    BY <1>3 DEF TickPop, Expired, KeysAgree
  <2>2. Callback'
    BY <1>3 DEF TickPop, Expired, Callback, KeysAgree
  <2>3. Registered'
    BY <1>3 DEF TickPop, Expired, Registered
  <2>4. Employed'
    BY <1>3 DEF TickPop, Expired, Employed
  <2>5. Connected'
    BY <1>3 DEF TickPop, Expired, Connected, Held, Queued
  <2>6. SocketOwnership'
    BY <1>3 DEF TickPop, Expired, SocketOwnership, Held, Queued
  <2>7. Exclusive'
    BY <1>3 DEF TickPop, Expired, Exclusive, Queued, Running, Busy, Steps
  <2>8. Fetched'
    BY <1>3 DEF TickPop, Expired, Fetched
  <2>9. Doomed'
    BY <1>3 DEF TickPop, Expired, Doomed, Queued, Running, Busy, Steps
  <2> QED
    BY <1>0, <2>1, <2>2, <2>3, <2>4, <2>5, <2>6, <2>7, <2>8, <2>9 DEF Inv
<1>4. CASE CloseClient
  <2>1. KeysAgree'
    BY <1>4 DEF CloseClient, KeysAgree
  <2>2. Callback'
    BY <1>4 DEF CloseClient, Callback
  <2>3. Registered'
    BY <1>4 DEF CloseClient, Registered
  <2>4. Employed'
    BY <1>4 DEF CloseClient, Employed
  <2>5. Connected'
    BY <1>4 DEF CloseClient, Connected, Held, Queued
  <2>6. SocketOwnership'
    BY <1>4 DEF CloseClient, SocketOwnership, Held, Queued
  <2>7. Exclusive'
    BY <1>4 DEF CloseClient, Exclusive, Queued, Running, Busy, Steps
  <2>8. Fetched'
    BY <1>4 DEF CloseClient, Fetched
  <2>9. Doomed'
    BY <1>4 DEF CloseClient, Doomed, Queued, Running, Busy, Steps
  <2> QED
    BY <1>0, <2>1, <2>2, <2>3, <2>4, <2>5, <2>6, <2>7, <2>8, <2>9 DEF Inv
<1>5. CASE TickDone
  <2>1. KeysAgree'
    BY <1>5 DEF TickDone, KeysAgree
  <2>2. Callback'
    BY <1>5 DEF TickDone, Callback
  <2>3. Registered'
    BY <1>5 DEF TickDone, Registered
  <2>4. Employed'
    BY <1>5 DEF TickDone, Employed
  <2>5. Connected'
    BY <1>5 DEF TickDone, Connected, Held, Queued
  <2>6. SocketOwnership'
    BY <1>5 DEF TickDone, SocketOwnership, Held, Queued
  <2>7. Exclusive'
    BY <1>5 DEF TickDone, Exclusive, Queued, Running, Busy, Steps
  <2>8. Fetched'
    BY <1>5 DEF TickDone, Fetched
  <2>9. Doomed'
    BY <1>5 DEF TickDone, Doomed, Queued, Running, Busy, Steps
  <2> QED
    BY <1>0, <2>1, <2>2, <2>3, <2>4, <2>5, <2>6, <2>7, <2>8, <2>9 DEF Inv
<1>6. CASE Wait
  <2>1. KeysAgree'
    BY <1>6 DEF Wait, OneShot, MayReport, KeysAgree
  <2>2. Callback'
    BY <1>6 DEF Wait, OneShot, MayReport, Callback
  <2>3. Registered'
    BY <1>6 DEF Wait, OneShot, MayReport, Registered
  <2>4. Employed'
    BY <1>6 DEF Wait, OneShot, MayReport, Employed
  <2>5. Connected'
    BY <1>6 DEF Wait, OneShot, MayReport, Connected, Held, Queued
  <2>6. SocketOwnership'
    BY <1>6 DEF Wait, OneShot, MayReport, SocketOwnership, Held, Queued
  <2>7. Exclusive'
    BY <1>6 DEF Wait, OneShot, MayReport, Exclusive, Queued, Running, Busy, Steps
  <2>8. Fetched'
    BY <1>6 DEF Wait, OneShot, MayReport, Fetched
  <2>9. Doomed'
    BY <1>6 DEF Wait, OneShot, MayReport, Doomed, Queued, Running, Busy, Steps
  <2> QED
    BY <1>0, <2>1, <2>2, <2>3, <2>4, <2>5, <2>6, <2>7, <2>8, <2>9 DEF Inv
<1>7. CASE OnListenEvent
  <2>1. KeysAgree'
    BY <1>7 DEF OnListenEvent, KeysAgree
  <2>2. Callback'
    BY <1>7 DEF OnListenEvent, Callback
  <2>3. Registered'
    BY <1>7 DEF OnListenEvent, Registered
  <2>4. Employed'
    BY <1>7 DEF OnListenEvent, Employed
  <2>5. Connected'
    BY <1>7 DEF OnListenEvent, Connected, Held, Queued
  <2>6. SocketOwnership'
    BY <1>7 DEF OnListenEvent, SocketOwnership, Held, Queued
  <2>7. Exclusive'
    BY <1>7 DEF OnListenEvent, Exclusive, Queued, Running, Busy, Steps
  <2>8. Fetched'
    BY <1>7 DEF OnListenEvent, Fetched
  <2>9. Doomed'
    BY <1>7 DEF OnListenEvent, Doomed, Queued, Running, Busy, Steps
  <2> QED
    BY <1>0, <2>1, <2>2, <2>3, <2>4, <2>5, <2>6, <2>7, <2>8, <2>9 DEF Inv
<1>8. ASSUME NEW c \in Conns, NEW s \in Sockets, AddClient(c, s) PROVE Inv'
  <2>1. ~Held(c)
    BY <1>8 DEF AddClient, Registered, Connected
  <2>2. \A d \in Conns : Held(d) => sock[d] # s
    BY <1>8 DEF AddClient, OpenSockets
  <2>3. users[s] = NoConn
    BY <2>2 DEF Registered, Held
  <2>4. epoll[s] = "absent" /\ timer[s] = "none" /\ batch[s] = "none"
    BY <1>8, <2>3 DEF AddClient, KeysAgree, Fetched
  <2>5. /\ users' = [users EXCEPT ![s] = c] /\ sock' = [sock EXCEPT ![c] = s]
        /\ timer' = [timer EXCEPT ![s] = "live"] /\ epoll' = [epoll EXCEPT ![s] = "in"]
        /\ UNCHANGED <<mainPc, closing, batch, tasks, pc, job>>
    BY <1>8, <2>3 DEF AddClient
  <2>6. \A d \in Conns : /\ Held(d)' <=> (Held(d) \/ d = c)
                         /\ Queued(d)' <=> Queued(d)
                         /\ Running(d)' <=> Running(d)
    BY <2>3, <2>5 DEF Held, Queued, Running
  <2>7. ~Queued(c) /\ ~Running(c)
    BY <2>1 DEF Held, Running
  <2>8. KeysAgree' /\ Callback' /\ Employed' /\ Fetched'
    BY <1>8, <2>3, <2>4, <2>5 DEF AddClient, KeysAgree, Callback, Employed, Fetched
  <2>9. Registered'
    BY <1>8, <2>1, <2>5 DEF AddClient, Registered, Held
  <2>10. Connected' /\ SocketOwnership'
    BY <2>1, <2>2, <2>5, <2>6 DEF Connected, SocketOwnership
  <2>11. Exclusive'
    BY <2>3, <2>5, <2>6, <2>7 DEF Exclusive
  <2>12. Doomed'
    BY <2>3, <2>5, <2>6, <2>7 DEF Doomed, KeysAgree
  <2> QED
    BY <1>0, <2>8, <2>9, <2>10, <2>11, <2>12
<1>9. CASE AcceptDone
  <2>1. KeysAgree'
    BY <1>9 DEF AcceptDone, KeysAgree
  <2>2. Callback'
    BY <1>9 DEF AcceptDone, Callback
  <2>3. Registered'
    BY <1>9 DEF AcceptDone, Registered
  <2>4. Employed'
    BY <1>9 DEF AcceptDone, Employed
  <2>5. Connected'
    BY <1>9 DEF AcceptDone, Connected, Held, Queued
  <2>6. SocketOwnership'
    BY <1>9 DEF AcceptDone, SocketOwnership, Held, Queued
  <2>7. Exclusive'
    BY <1>9 DEF AcceptDone, Exclusive, Queued, Running, Busy, Steps
  <2>8. Fetched'
    BY <1>9 DEF AcceptDone, Fetched
  <2>9. Doomed'
    BY <1>9 DEF AcceptDone, Doomed, Queued, Running, Busy, Steps
  <2> QED
    BY <1>0, <2>1, <2>2, <2>3, <2>4, <2>5, <2>6, <2>7, <2>8, <2>9 DEF Inv
<1>10. CASE AcceptFails
  <2>1. KeysAgree'
    BY <1>10 DEF AcceptFails, NextLoop, KeysAgree
  <2>2. Callback'
    BY <1>10 DEF AcceptFails, NextLoop, Callback
  <2>3. Registered'
    BY <1>10 DEF AcceptFails, NextLoop, Registered
  <2>4. Employed'
    BY <1>10 DEF AcceptFails, NextLoop, Employed
  <2>5. Connected'
    BY <1>10 DEF AcceptFails, NextLoop, Connected, Held, Queued
  <2>6. SocketOwnership'
    BY <1>10 DEF AcceptFails, NextLoop, SocketOwnership, Held, Queued
  <2>7. Exclusive'
    BY <1>10 DEF AcceptFails, NextLoop, Exclusive, Queued, Running, Busy, Steps
  <2>8. Fetched'
    BY <1>10 DEF AcceptFails, NextLoop, Fetched
  <2>9. Doomed'
    BY <1>10 DEF AcceptFails, NextLoop, Doomed, Queued, Running, Busy, Steps
  <2> QED
    BY <1>0, <2>1, <2>2, <2>3, <2>4, <2>5, <2>6, <2>7, <2>8, <2>9 DEF Inv
<1>11. ASSUME NEW c \in Conns, NEW s \in Sockets, AddClientFails(c, s) PROVE Inv'
  <2>1. KeysAgree'
    BY <1>11 DEF AddClientFails, NextLoop, KeysAgree
  <2>2. Callback'
    BY <1>11 DEF AddClientFails, NextLoop, Callback
  <2>3. Registered'
    BY <1>11 DEF AddClientFails, NextLoop, Registered
  <2>4. Employed'
    BY <1>11 DEF AddClientFails, NextLoop, Employed
  <2>5. Connected'
    BY <1>11 DEF AddClientFails, NextLoop, Connected, Held, Queued
  <2>6. SocketOwnership'
    BY <1>11 DEF AddClientFails, NextLoop, SocketOwnership, Held, Queued
  <2>7. Exclusive'
    BY <1>11 DEF AddClientFails, NextLoop, Exclusive, Queued, Running, Busy, Steps
  <2>8. Fetched'
    BY <1>11 DEF AddClientFails, NextLoop, Fetched
  <2>9. Doomed'
    BY <1>11 DEF AddClientFails, NextLoop, Doomed, Queued, Running, Busy, Steps
  <2> QED
    BY <1>0, <2>1, <2>2, <2>3, <2>4, <2>5, <2>6, <2>7, <2>8, <2>9 DEF Inv
<1>12. ASSUME NEW s \in Sockets, OnCloseEvent(s) PROVE Inv'
  <2>1. KeysAgree'
    BY <1>12 DEF OnCloseEvent, Mark, KeysAgree
  <2>2. Callback'
    BY <1>12 DEF OnCloseEvent, Mark, Callback
  <2>3. Registered'
    BY <1>12 DEF OnCloseEvent, Mark, Registered
  <2>4. Employed'
    BY <1>12 DEF OnCloseEvent, Mark, Employed
  <2>5. Connected'
    BY <1>12 DEF OnCloseEvent, Mark, Connected, Held, Queued
  <2>6. SocketOwnership'
    BY <1>12 DEF OnCloseEvent, Mark, SocketOwnership, Held, Queued
  <2>7. Exclusive'
    BY <1>12 DEF OnCloseEvent, Mark, Exclusive, Queued, Running, Busy, Steps
  <2>8. Fetched'
    BY <1>12 DEF OnCloseEvent, Mark, Fetched
  <2>9. Doomed'
    <3>1. epoll[s] = "off" /\ users[s] \in Conns
      BY <1>12 DEF OnCloseEvent, Fetched, KeysAgree
    <3>2. ~Queued(users[s]) /\ ~Running(users[s])
      BY <1>12, <3>1 DEF OnCloseEvent, Exclusive
    <3> QED
      BY <1>12, <3>1, <3>2 DEF OnCloseEvent, Mark, Doomed, Queued, Running
  <2> QED
    BY <1>0, <2>1, <2>2, <2>3, <2>4, <2>5, <2>6, <2>7, <2>8, <2>9 DEF Inv
<1>13. ASSUME NEW s \in Sockets, OnReceiveEvent(s) PROVE Inv'
  BY <1>0, <1>13, PushStep DEF OnReceiveEvent
<1>14. ASSUME NEW s \in Sockets, OnSendEvent(s) PROVE Inv'
  BY <1>0, <1>14, PushStep DEF OnSendEvent
<1>15. CASE DispatchDone
  <2>1. KeysAgree'
    BY <1>15 DEF DispatchDone, KeysAgree
  <2>2. Callback'
    BY <1>15 DEF DispatchDone, Callback
  <2>3. Registered'
    BY <1>15 DEF DispatchDone, Registered
  <2>4. Employed'
    BY <1>15 DEF DispatchDone, Employed
  <2>5. Connected'
    BY <1>15 DEF DispatchDone, Connected, Held, Queued
  <2>6. SocketOwnership'
    BY <1>15 DEF DispatchDone, SocketOwnership, Held, Queued
  <2>7. Exclusive'
    BY <1>15 DEF DispatchDone, Exclusive, Queued, Running, Busy, Steps
  <2>8. Fetched'
    BY <1>15 DEF DispatchDone, Fetched
  <2>9. Doomed'
    BY <1>15 DEF DispatchDone, Doomed, Queued, Running, Busy, Steps
  <2> QED
    BY <1>0, <2>1, <2>2, <2>3, <2>4, <2>5, <2>6, <2>7, <2>8, <2>9 DEF Inv
<1>16. ASSUME NEW w \in Workers, Take(w) PROVE Inv'
  <2>1. KeysAgree'
    BY <1>16 DEF Take, Goto, KeysAgree
  <2>2. Callback'
    BY <1>16 DEF Take, Goto, Callback
  <2>3. Registered'
    BY <1>16 DEF Take, Goto, Registered
  <2>4. Employed'
    <3>1. Head(tasks) \in Task
      BY <1>16 DEF Take
    <3>2. Head(tasks).kind # "idle" /\ Head(tasks).conn # NoConn
      BY <3>1 DEF Task
    <3> QED
      BY <1>16, <3>2 DEF Take, Goto, Employed
  <2>5. Connected'
    BY <1>16 DEF Take, Goto, Connected, Held, Queued
  <2>6. SocketOwnership'
    BY <1>16 DEF Take, Goto, SocketOwnership, Held, Queued
  <2>7. Exclusive'
    <3> DEFINE h == Head(tasks).conn
    <3>1. /\ Head(tasks) \in Task /\ Queued(h)
          /\ \A c \in Conns : Queued(c)' <=> (Queued(c) /\ c # h)
          /\ \A i, j \in DOMAIN tasks' : tasks'[i].conn = tasks'[j].conn => i = j
      BY <1>16, TailQueue DEF Take, Exclusive
    <3>2. h \in Conns /\ Head(tasks).kind \in Busy
      BY <3>1 DEF Task, Busy, Steps
    <3>3. \A c \in Conns : Running(c)' <=> (Running(c) \/ c = h)
      BY <1>16, <3>2 DEF Take, Goto, Running, Busy
    <3>4. ~Running(h)
      BY <3>1, <3>2 DEF Exclusive
    <3>5. \A v \in Workers \ {w} : job'[v] = job[v] /\ pc'[v] = pc[v]
      BY <1>16 DEF Take, Goto
    <3>6. job'[w] = h
      BY <1>16 DEF Take
    <3>7. \A v, x \in Workers :
             v # x /\ pc'[v] \in Busy /\ pc'[x] \in Busy => job'[v] # job'[x]
      BY <3>4, <3>5, <3>6 DEF Exclusive, Running
    <3> QED
      BY <1>16, <3>1, <3>3, <3>4, <3>7 DEF Take, Exclusive
  <2>8. Fetched'
    BY <1>16 DEF Take, Goto, Fetched
  <2>9. Doomed'
    BY <1>16 DEF Take, Goto, Doomed, Queued, Running, Busy, Steps
  <2> QED
    BY <1>0, <2>1, <2>2, <2>3, <2>4, <2>5, <2>6, <2>7, <2>8, <2>9 DEF Inv
<1>17. ASSUME NEW w \in Workers, ReceiveFrom(w) PROVE Inv'
  <2>1. KeysAgree'
    BY <1>17 DEF ReceiveFrom, Goto, KeysAgree
  <2>2. Callback'
    BY <1>17 DEF ReceiveFrom, Goto, Callback
  <2>3. Registered'
    BY <1>17 DEF ReceiveFrom, Goto, Registered
  <2>4. Employed'
    BY <1>17 DEF ReceiveFrom, Goto, Employed
  <2>5. Connected'
    BY <1>17 DEF ReceiveFrom, Goto, Connected, Held, Queued
  <2>6. SocketOwnership'
    BY <1>17 DEF ReceiveFrom, Goto, SocketOwnership, Held, Queued
  <2>7. Exclusive'
    BY <1>17 DEF ReceiveFrom, Goto, Exclusive, Queued, Running, Busy, Steps
  <2>8. Fetched'
    BY <1>17 DEF ReceiveFrom, Goto, Fetched
  <2>9. Doomed'
    BY <1>17 DEF ReceiveFrom, Goto, Doomed, Queued, Running, Busy, Steps
  <2> QED
    BY <1>0, <2>1, <2>2, <2>3, <2>4, <2>5, <2>6, <2>7, <2>8, <2>9 DEF Inv
<1>18. ASSUME NEW w \in Workers, SendTo(w) PROVE Inv'
  <2>1. KeysAgree'
    BY <1>18 DEF SendTo, Goto, KeysAgree
  <2>2. Callback'
    BY <1>18 DEF SendTo, Goto, Callback
  <2>3. Registered'
    BY <1>18 DEF SendTo, Goto, Registered
  <2>4. Employed'
    BY <1>18 DEF SendTo, Goto, Employed
  <2>5. Connected'
    BY <1>18 DEF SendTo, Goto, Connected, Held, Queued
  <2>6. SocketOwnership'
    BY <1>18 DEF SendTo, Goto, SocketOwnership, Held, Queued
  <2>7. Exclusive'
    BY <1>18 DEF SendTo, Goto, Exclusive, Queued, Running, Busy, Steps
  <2>8. Fetched'
    BY <1>18 DEF SendTo, Goto, Fetched
  <2>9. Doomed'
    BY <1>18 DEF SendTo, Goto, Doomed, Queued, Running, Busy, Steps
  <2> QED
    BY <1>0, <2>1, <2>2, <2>3, <2>4, <2>5, <2>6, <2>7, <2>8, <2>9 DEF Inv
<1>19. ASSUME NEW w \in Workers, Process(w) PROVE Inv'
  <2> DEFINE c == job[w]
             s == sock[c]
  <2>10. /\ c \in Conns /\ s \in Sockets /\ pc[w] = "process"
         /\ users[s] # NoConn => users[s] = c
    BY <1>19, WorkerOwns DEF Process
  <2>11. Running(c) /\ ~Queued(c) /\ \A v \in Workers \ {w} : pc[v] \in Busy => job[v] # c
    BY <2>10 DEF Running, Exclusive, Busy, Steps
  <2>12. users[s] # NoConn => epoll[s] = "off" /\ batch[s] = "none" /\ timer[s] # "zero"
    BY <2>10, <2>11 DEF Exclusive, Doomed
  <2>13. \/ UNCHANGED <<epoll, pc>>
         \/ /\ users[s] = c
            /\ \E e \in {"in", "out"} : epoll' = [epoll EXCEPT ![s] = e]
            /\ pc' = [pc EXCEPT ![w] = "release"]
    BY <1>19, <2>10 DEF Process, Goto, KeysAgree
  <2>14. UNCHANGED <<sock, users, timer, batch, mainPc, tasks, job>>
    BY <1>19 DEF Process
  <2>15. CASE UNCHANGED <<epoll, pc>>
    <3>1. KeysAgree' /\ Callback' /\ Registered' /\ Employed' /\ Fetched'
      BY <1>19, <2>14, <2>15 DEF Process, KeysAgree, Callback, Registered, Employed, Fetched
    <3>2. Connected' /\ SocketOwnership'
      BY <2>14 DEF Connected, SocketOwnership, Held, Queued
    <3>3. Exclusive' /\ Doomed'
      BY <2>14, <2>15 DEF Exclusive, Doomed, Queued, Running
    <3> QED
      BY <1>0, <3>1, <3>2, <3>3
  <2>16. ASSUME users[s] = c, NEW e \in {"in", "out"}, epoll' = [epoll EXCEPT ![s] = e],
                pc' = [pc EXCEPT ![w] = "release"]
         PROVE  Inv'
    <3>1. KeysAgree' /\ Callback' /\ Registered' /\ Employed' /\ Fetched'
      BY <1>19, <2>10, <2>12, <2>14, <2>16
      DEF Process, KeysAgree, Callback, Registered, Employed, Fetched
    <3>2. \A d \in Conns : /\ Held(d)' <=> Held(d)
                           /\ Queued(d)' <=> Queued(d)
                           /\ Running(d)' <=> (Running(d) /\ d # c)
      BY <2>10, <2>11, <2>14, <2>16 DEF Held, Queued, Running, Busy
    <3>3. Connected' /\ SocketOwnership'
      BY <2>14, <3>2 DEF Connected, SocketOwnership
    <3>4. \A r \in Sockets : users[r] = c => r = s
      BY <2>10 DEF Registered
    <3>5. \A v \in Workers : pc'[v] \in Busy => pc[v] \in Busy
      BY <2>16 DEF Busy
    <3>6. Exclusive'
      BY <2>10, <2>11, <2>14, <2>16, <3>2, <3>4, <3>5 DEF Exclusive
    <3>7. Doomed'
      <4> SUFFICES ASSUME NEW r \in Sockets, timer[r] = "zero"
                   PROVE  /\ epoll'[r] = "off" /\ batch[r] = "none"
                          /\ ~Queued(users[r])' /\ ~Running(users[r])'
        BY <2>14 DEF Doomed
      <4>1. r # s /\ users[r] \in Conns
        BY <2>10, <2>12, <2>16 DEF KeysAgree
      <4> QED
        BY <2>14, <2>16, <3>2, <4>1 DEF Doomed
    <3> QED
      BY <1>0, <3>1, <3>3, <3>6, <3>7
  <2> QED
    BY <2>13, <2>15, <2>16
<1>20. ASSUME NEW w \in Workers, MarkFromWorker(w) PROVE Inv'
  <2>1. KeysAgree'
    BY <1>20 DEF MarkFromWorker, Mark, Goto, KeysAgree
  <2>2. Callback'
    BY <1>20 DEF MarkFromWorker, Mark, Goto, Callback
  <2>3. Registered'
    BY <1>20 DEF MarkFromWorker, Mark, Goto, Registered
  <2>4. Employed'
    BY <1>20 DEF MarkFromWorker, Mark, Goto, Employed
  <2>5. Connected'
    BY <1>20 DEF MarkFromWorker, Mark, Goto, Connected, Held, Queued
  <2>6. SocketOwnership'
    BY <1>20 DEF MarkFromWorker, Mark, Goto, SocketOwnership, Held, Queued
  <2>7. Exclusive'
    BY <1>20 DEF MarkFromWorker, Mark, Goto, Exclusive, Queued, Running, Busy, Steps
  <2>8. Fetched'
    BY <1>20 DEF MarkFromWorker, Mark, Goto, Fetched
  <2>9. Doomed'
    <3> DEFINE c == job[w]
               s == sock[c]
    <3>1. /\ c \in Conns /\ s \in Sockets /\ pc[w] = "mark"
          /\ users[s] # NoConn => users[s] = c
      BY <1>20, WorkerOwns DEF MarkFromWorker
    <3>2. Running(c) /\ ~Queued(c) /\ \A v \in Workers \ {w} : pc[v] \in Busy => job[v] # c
      BY <3>1 DEF Running, Exclusive, Busy, Steps
    <3>3. users[s] # NoConn => epoll[s] = "off" /\ batch[s] = "none"
      BY <3>1, <3>2 DEF Exclusive
    <3>4. \A d \in Conns : (Queued(d)' <=> Queued(d)) /\ (Running(d)' <=> (Running(d) /\ d # c))
      BY <1>20, <3>1, <3>2 DEF MarkFromWorker, Goto, Queued, Running, Busy
    <3>5. \A r \in Sockets : timer'[r] = "zero" => timer[r] = "zero" \/ (r = s /\ users[s] = c)
      BY <1>20, <3>1 DEF MarkFromWorker, Mark, KeysAgree
    <3>6. \A r \in Sockets : timer[r] = "zero" => users[r] \in Conns
      BY DEF KeysAgree
    <3>7. UNCHANGED <<users, epoll, batch>>
      BY <1>20 DEF MarkFromWorker
    <3> QED
      BY <3>1, <3>2, <3>3, <3>4, <3>5, <3>6, <3>7 DEF Doomed
  <2> QED
    BY <1>0, <2>1, <2>2, <2>3, <2>4, <2>5, <2>6, <2>7, <2>8, <2>9 DEF Inv
<1>21. ASSUME NEW w \in Workers, TimerRace(w) PROVE Inv'
  <2>1. KeysAgree'
    BY <1>21 DEF TimerRace, KeysAgree
  <2>2. Callback'
    BY <1>21 DEF TimerRace, Callback
  <2>3. Registered'
    BY <1>21 DEF TimerRace, Registered
  <2>4. Employed'
    BY <1>21 DEF TimerRace, Employed
  <2>5. Connected'
    BY <1>21 DEF TimerRace, Connected, Held, Queued
  <2>6. SocketOwnership'
    BY <1>21 DEF TimerRace, SocketOwnership, Held, Queued
  <2>7. Exclusive'
    BY <1>21 DEF TimerRace, Exclusive, Queued, Running, Busy, Steps
  <2>8. Fetched'
    BY <1>21 DEF TimerRace, Fetched
  <2>9. Doomed'
    BY <1>21 DEF TimerRace, Doomed, Queued, Running, Busy, Steps
  <2> QED
    BY <1>0, <2>1, <2>2, <2>3, <2>4, <2>5, <2>6, <2>7, <2>8, <2>9 DEF Inv
<1>22. ASSUME NEW w \in Workers, Release(w) PROVE Inv'
  <2>1. KeysAgree'
    BY <1>22 DEF Release, Goto, KeysAgree
  <2>2. Callback'
    BY <1>22 DEF Release, Goto, Callback
  <2>3. Registered'
    BY <1>22 DEF Release, Goto, Registered
  <2>4. Employed'
    BY <1>22 DEF Release, Goto, Employed
  <2>5. Connected'
    BY <1>22 DEF Release, Goto, Connected, Held, Queued
  <2>6. SocketOwnership'
    BY <1>22 DEF Release, Goto, SocketOwnership, Held, Queued
  <2>7. Exclusive'
    BY <1>22 DEF Release, Goto, Exclusive, Queued, Running, Busy, Steps
  <2>8. Fetched'
    BY <1>22 DEF Release, Goto, Fetched
  <2>9. Doomed'
    BY <1>22 DEF Release, Goto, Doomed, Queued, Running, Busy, Steps
  <2> QED
    BY <1>0, <2>1, <2>2, <2>3, <2>4, <2>5, <2>6, <2>7, <2>8, <2>9 DEF Inv
<1>23. CASE UNCHANGED vars
  BY <1>23, <1>0 DEF vars, KeysAgree, Callback, Registered, Employed, Connected,
     SocketOwnership, Exclusive, Held, Queued, Running, Fetched, Doomed
<1> QED
  BY <1>1, <1>2, <1>3, <1>4, <1>5, <1>6, <1>7, <1>8, <1>9, <1>10, <1>11, <1>12, <1>13, <1>14, <1>15, <1>16, <1>17, <1>18, <1>19, <1>20, <1>21, <1>22, <1>23
  DEF Next, MainStep, WorkerStep, Terminated

\* The inductive invariant holds in every reachable state.
LEMMA Invariance == Spec => []Inv
  BY InvInit, InvStep, PTL DEF Spec

-----------------------------------------------------------------------------
(* What follows from the invariant, whatever the duration of the tasks.    *)

\* One-shot registration (connect_event_mode) gives a connection to one
\* thread at a time.
THEOREM OneThreadPerConnection == Spec => []Exclusive
<1>1. Inv => Exclusive
  BY DEF Inv
<1> QED
  BY <1>1, Invariance, PTL

\* The shared pointers keep a descriptor from being handed out again while a
\* late worker may still use it.
THEOREM SocketsAreOwned == Spec => []SocketOwnership
<1>1. Inv => SocketOwnership
  BY DEF Inv
<1> QED
  BY <1>1, Invariance, PTL

\* users_, timer_ and the epoll set agree, but for the client being closed.
THEOREM TablesAgree == Spec => []KeysAgree
<1>1. Inv => KeysAgree
  BY DEF Inv
<1> QED
  BY <1>1, Invariance, PTL

\* MarkClientAsToBeClosed is final: nothing extends the time of a marked
\* client.
THEOREM MarksAreFinal == Spec => NeverRevived
<1> DEFINE Final == \A s \in Sockets : timer[s] = "zero" => timer'[s] \in {"zero", "none"}
<1>1. Inv /\ [Next]_vars => [Final]_vars
  <2> SUFFICES ASSUME Inv, Next PROVE Final
    OBVIOUS
  <2> SUFFICES ASSUME NEW s \in Sockets, timer[s] = "zero" PROVE timer'[s] \in {"zero", "none"}
    OBVIOUS
  <2>1. /\ users[s] # NoConn /\ batch[s] = "none"
        /\ s \in OpenSockets /\ timer \in [Sockets -> {"none", "live", "late", "zero"}]
    BY DEF Inv, TypeOK, KeysAgree, Doomed, Registered, OpenSockets, Held
  <2>2. ASSUME NEW r \in Sockets, PushTask(r, "recv") \/ PushTask(r, "send"), batch[r] # "none"
        PROVE  timer'[s] = timer[s]
    BY <2>1, <2>2 DEF PushTask
  <2> QED
    BY <2>1, <2>2
    DEF Next, Terminated, vars, MainStep, WorkerStep, Connect, TimeElapses, TickPop, CloseClient,
        TickDone, Wait, OnListenEvent, AddClient, AcceptDone, AcceptFails, AddClientFails,
        OnCloseEvent, OnReceiveEvent, OnSendEvent, DispatchDone, Take, ReceiveFrom, SendTo,
        Process, MarkFromWorker, TimerRace, Release, Mark
<1> QED
  BY <1>1, Invariance, PTL DEF Spec, NeverRevived

-----------------------------------------------------------------------------
(* What follows when no task outlives the alive time of its client.        *)

\* A connection with a task is still in the table, and has time left.
ServedInTime ==
    \A c \in Conns : Queued(c) \/ Running(c) =>
        users[sock[c]] = c /\ timer[sock[c]] = "live"

Survives == NoAssertionFails /\ NoNullClient

\* If tasks end in time, a step keeps a client that is served in the
\* table and the process alive.
LEMMA TimelyStep ==
  ASSUME Timely, Inv, ServedInTime, Survives, [Next]_vars
  PROVE  ServedInTime' /\ Survives'
<1> USE DEF Inv, TypeOK, kernel, main, pool, Survives, NoAssertionFails, NoNullClient
<1>0. TypeOK'
  BY TypeStep
<1>1. ASSUME NEW c \in Conns, Connect(c) PROVE ServedInTime' /\ Survives'
  BY <1>1 DEF Connect, ServedInTime, Queued, Running, Busy, Steps
<1>2. ASSUME NEW s \in Sockets, TimeElapses(s) PROVE ServedInTime' /\ Survives'
  BY <1>2 DEF TimeElapses, ServedInTime, Queued, Running, Busy, Steps
<1>3. ASSUME NEW s \in Sockets, TickPop(s) PROVE ServedInTime' /\ Survives'
  BY <1>3 DEF TickPop, Expired, ServedInTime, Queued, Running, Busy, Steps
<1>4. CASE CloseClient
  <2>1. /\ users[closing] # NoConn /\ closing \in Sockets /\ timer[closing] = "none"
        /\ fate' = fate
    BY <1>4 DEF CloseClient, Callback, KeysAgree
  <2>2. \A c \in Conns : (Queued(c)' <=> Queued(c)) /\ (Running(c)' <=> Running(c))
    BY <1>4 DEF CloseClient, Queued, Running
  <2>3. \A s \in Sockets \ {closing} : users'[s] = users[s] /\ timer'[s] = timer[s]
    BY <1>4, <2>1 DEF CloseClient
  <2>4. \A c \in Conns : Queued(c) \/ Running(c) => sock[c] \in Sockets \ {closing}
    BY <2>1 DEF ServedInTime, Connected, Held, Queued, Running
  <2> QED
    BY <1>4, <2>1, <2>2, <2>3, <2>4 DEF CloseClient, ServedInTime
<1>5. CASE TickDone
  BY <1>5 DEF TickDone, ServedInTime, Queued, Running, Busy, Steps
<1>6. CASE Wait
  BY <1>6 DEF Wait, ServedInTime, Queued, Running, Busy, Steps
<1>7. CASE OnListenEvent
  BY <1>7 DEF OnListenEvent, ServedInTime, Queued, Running, Busy, Steps
<1>8. ASSUME NEW c \in Conns, NEW s \in Sockets, AddClient(c, s) PROVE ServedInTime' /\ Survives'
  <2>1. \A d \in Conns : Queued(d) \/ Running(d) => Held(d)
    BY DEF Held, Running
  <2>2. ~Held(c) /\ \A d \in Conns : Held(d) => sock[d] \in Sockets /\ sock[d] # s
    BY <1>8 DEF AddClient, Registered, Connected, OpenSockets
  <2>3. \A d \in Conns : (Queued(d)' <=> Queued(d)) /\ (Running(d)' <=> Running(d))
    BY <1>8 DEF AddClient, Queued, Running
  <2>4. \A r \in Sockets \ {s} : users'[r] = users[r] /\ timer'[r] = timer[r]
    BY <1>8 DEF AddClient
  <2>5. fate' = fate /\ \A d \in Conns \ {c} : sock'[d] = sock[d]
    BY <1>8 DEF AddClient
  <2> QED
    BY <2>1, <2>2, <2>3, <2>4, <2>5 DEF ServedInTime
<1>9. CASE AcceptDone
  BY <1>9 DEF AcceptDone, ServedInTime, Queued, Running, Busy, Steps
<1>10. CASE AcceptFails
  BY <1>10 DEF AcceptFails, ServedInTime, Queued, Running, Busy, Steps
<1>11. ASSUME NEW c \in Conns, NEW s \in Sockets, AddClientFails(c, s) PROVE ServedInTime' /\ Survives'
  BY <1>11 DEF AddClientFails, ServedInTime, Queued, Running, Busy, Steps
<1>12. ASSUME NEW s \in Sockets, OnCloseEvent(s) PROVE ServedInTime' /\ Survives'
  <2>1. timer[s] # "none" /\ users[s] \in Conns
    BY <1>12 DEF OnCloseEvent, Fetched, KeysAgree
  <2>2. ~Queued(users[s]) /\ ~Running(users[s])
    BY <1>12, <2>1 DEF OnCloseEvent, Exclusive
  <2>3. \A c \in Conns : (Queued(c)' <=> Queued(c)) /\ (Running(c)' <=> Running(c))
    BY <1>12 DEF OnCloseEvent, Queued, Running
  <2>4. fate' = fate /\ timer' = [timer EXCEPT ![s] = "zero"] /\ UNCHANGED <<users, sock>>
    BY <1>12, <2>1 DEF OnCloseEvent, Mark
  <2> QED
    BY <2>2, <2>3, <2>4 DEF ServedInTime
<1>13. ASSUME NEW s \in Sockets, OnReceiveEvent(s) PROVE ServedInTime' /\ Survives'
  <2>1. /\ fate' = fate /\ users[s] \in Conns /\ sock[users[s]] = s
        /\ timer' = [timer EXCEPT ![s] = "live"]
        /\ \A c \in Conns : Queued(c)' <=> (Queued(c) \/ c = users[s])
    BY <1>0, <1>13, PushStep DEF OnReceiveEvent
  <2>2. UNCHANGED <<users, sock>> /\ \A c \in Conns : Running(c)' <=> Running(c)
    BY <1>13 DEF OnReceiveEvent, Running
  <2> QED
    BY <2>1, <2>2 DEF ServedInTime
<1>14. ASSUME NEW s \in Sockets, OnSendEvent(s) PROVE ServedInTime' /\ Survives'
  <2>1. /\ fate' = fate /\ users[s] \in Conns /\ sock[users[s]] = s
        /\ timer' = [timer EXCEPT ![s] = "live"]
        /\ \A c \in Conns : Queued(c)' <=> (Queued(c) \/ c = users[s])
    BY <1>0, <1>14, PushStep DEF OnSendEvent
  <2>2. UNCHANGED <<users, sock>> /\ \A c \in Conns : Running(c)' <=> Running(c)
    BY <1>14 DEF OnSendEvent, Running
  <2> QED
    BY <2>1, <2>2 DEF ServedInTime
<1>15. CASE DispatchDone
  BY <1>15 DEF DispatchDone, ServedInTime, Queued, Running, Busy, Steps
<1>16. ASSUME NEW w \in Workers, Take(w) PROVE ServedInTime' /\ Survives'
  BY <1>16 DEF Take, Goto, ServedInTime, Queued, Running, Busy, Steps
<1>17. ASSUME NEW w \in Workers, ReceiveFrom(w) PROVE ServedInTime' /\ Survives'
  BY <1>17 DEF ReceiveFrom, Goto, ServedInTime, Queued, Running, Busy, Steps
<1>18. ASSUME NEW w \in Workers, SendTo(w) PROVE ServedInTime' /\ Survives'
  BY <1>18 DEF SendTo, Goto, ServedInTime, Queued, Running, Busy, Steps
<1>19. ASSUME NEW w \in Workers, Process(w) PROVE ServedInTime' /\ Survives'
  <2>1. job[w] \in Conns /\ sock[job[w]] \in Sockets /\ Running(job[w])
    BY <1>19, WorkerOwns DEF Process, Running, Busy, Steps
  <2>2. epoll[sock[job[w]]] # "absent"
    BY <2>1 DEF ServedInTime, KeysAgree
  <2>3. \A c \in Conns : (Queued(c)' <=> Queued(c)) /\ (Running(c)' => Running(c))
    BY <1>19 DEF Process, Goto, Queued, Running, Busy
  <2> QED
    BY <1>19, <2>2, <2>3 DEF Process, ServedInTime
<1>20. ASSUME NEW w \in Workers, MarkFromWorker(w) PROVE ServedInTime' /\ Survives'
  <2> DEFINE c == job[w]
  <2>1. c \in Conns /\ sock[c] \in Sockets /\ pc[w] = "mark"
    BY <1>20, WorkerOwns DEF MarkFromWorker
  <2>2. Running(c) /\ ~Queued(c) /\ \A v \in Workers \ {w} : pc[v] \in Busy => job[v] # c
    BY <2>1 DEF Running, Exclusive, Busy, Steps
  <2>3. \A d \in Conns : (Queued(d)' <=> Queued(d)) /\ (Running(d)' <=> (Running(d) /\ d # c))
    BY <1>20, <2>1, <2>2 DEF MarkFromWorker, Goto, Queued, Running, Busy
  <2>4. \A d \in Conns : (Queued(d) \/ Running(d)) /\ sock[d] = sock[c] => d = c
    BY <2>1, <2>2 DEF ServedInTime
  <2>5. timer[sock[c]] = "live"
    BY <2>1, <2>2 DEF ServedInTime
  <2>6. /\ fate' = fate /\ timer' = [timer EXCEPT ![sock[c]] = "zero"]
        /\ UNCHANGED <<users, sock>>
    BY <1>20, <2>5 DEF MarkFromWorker, Mark
  <2> QED
    BY <2>1, <2>2, <2>3, <2>4, <2>6 DEF ServedInTime
<1>21. ASSUME NEW w \in Workers, TimerRace(w) PROVE ServedInTime' /\ Survives'
  BY <1>21 DEF TimerRace, ServedInTime, Queued, Running, Busy, Steps
<1>22. ASSUME NEW w \in Workers, Release(w) PROVE ServedInTime' /\ Survives'
  BY <1>22 DEF Release, Goto, ServedInTime, Queued, Running, Busy, Steps
<1>23. CASE UNCHANGED vars
  BY <1>23 DEF vars, ServedInTime, Queued, Running
<1> QED
  BY <1>1, <1>2, <1>3, <1>4, <1>5, <1>6, <1>7, <1>8, <1>9, <1>10, <1>11, <1>12, <1>13, <1>14, <1>15, <1>16, <1>17, <1>18, <1>19, <1>20, <1>21, <1>22, <1>23
  DEF Next, MainStep, WorkerStep, Terminated

\* While tasks end within the alive time of their clients, the server
\* survives.
LEMMA Surviving == ASSUME Timely PROVE Spec => []Survives
<1>1. Init => ServedInTime /\ Survives
  BY DEF Init, ServedInTime, Queued, Running, Busy, Survives, NoAssertionFails, NoNullClient
<1>2. Inv /\ ServedInTime /\ Survives /\ [Next]_vars => ServedInTime' /\ Survives'
  BY TimelyStep
<1> QED
  BY <1>1, <1>2, Invariance, PTL DEF Spec

\* While tasks end within the alive time of their clients, no assertion of
\* the server fails: a marked client is still in the timer, and CloseClient
\* finds the client it is called for.
THEOREM ServerSurvives == ASSUME Timely PROVE Spec => []NoAssertionFails
<1>1. Survives => NoAssertionFails
  BY DEF Survives
<1> QED
  BY <1>1, Surviving, PTL

\* Nor does the time-out callback or a handler use a shared pointer that was
\* moved into another closure before.
THEOREM NoMovedPointer == ASSUME Timely PROVE Spec => []NoNullClient
<1>1. Survives => NoNullClient
  BY DEF Survives
<1> QED
  BY <1>1, Surviving, PTL
=============================================================================
