----------------------------- MODULE WebServer -----------------------------
(***************************************************************************)
(* The reactor of include/web_server.h: the event loop of the main thread, *)
(* the one-shot epoll registrations, the per-client timers and the tasks   *)
(* that the worker threads run on connections.                             *)
(*                                                                         *)
(* Every connection is an object shared (std::shared_ptr) by users_, by    *)
(* queued tasks and by the workers that run them; its socket is closed by  *)
(* the destructor, when the last of them lets go.                          *)
(*                                                                         *)
(* Time is abstract.  A timer node is "live" until its alive time passes   *)
(* ("late"); MarkClientAsToBeClosed makes it "zero".  HeapTimer is         *)
(* modelled in module HeapTimer, ThreadPool's wake-ups in ThreadPool.      *)
(***************************************************************************)
EXTENDS Naturals, Sequences

CONSTANTS
    Sockets,    \* descriptors the kernel may hand out
    Conns,      \* connections that clients may open, each at most once
    Workers,    \* threads of the pool
    NoConn, NoSocket,
    Timely      \* TRUE: a task never outlives the alive time of its client

ASSUME SocketAssumption == NoSocket \notin Sockets
ASSUME ConnAssumption   == NoConn \notin Conns
ASSUME TimelyAssumption == Timely \in BOOLEAN

VARIABLES
    pending,    \* connections in the listener's backlog
    edge,       \* the edge-triggered listener has an event to report
    sock,       \* sock[c]: the descriptor of connection object c
    users,      \* users_
    timer,      \* timer_: expiration of each socket's node
    epoll,      \* interest registered in epoller_ for each socket
    mainPc,     \* where the main thread is in Start()
    closing,    \* socket whose time-out callback is running
    batch,      \* events fetched by Wait and not dispatched yet
    listening,  \* the fetched events include the listener's
    tasks,      \* tasks_ of the thread pool
    pc, job,    \* step and connection of each worker
    leaked,     \* accepted descriptors that no object owns
    fate        \* how the process ended, "ok" while it runs

kernel == <<pending, edge, leaked>>
main   == <<mainPc, closing, batch, listening>>
pool   == <<tasks, pc, job>>
vars   == <<pending, edge, sock, users, timer, epoll, mainPc, closing, batch,
            listening, tasks, pc, job, leaked, fate>>

Task   == [kind : {"recv", "send"}, conn : Conns]
Steps  == {"idle", "recv", "send", "process", "mark", "release", "spin"}

\* The steps in which a worker uses the connection it was given.  Once it has
\* re-armed or marked the client it only drops its pointer ("release").
Busy   == Steps \ {"idle", "release"}

TypeOK ==
    /\ pending \subseteq Conns /\ edge \in BOOLEAN
    /\ sock \in [Conns -> Sockets \cup {NoSocket}]
    /\ users \in [Sockets -> Conns \cup {NoConn}]
    /\ timer \in [Sockets -> {"none", "live", "late", "zero"}]
    /\ epoll \in [Sockets -> {"absent", "off", "in", "out"}]
    /\ mainPc \in {"tick", "callback", "wait", "dispatch", "accept"}
    /\ closing \in Sockets \cup {NoSocket}
    /\ batch \in [Sockets -> {"none", "close", "in", "out"}]
    /\ listening \in BOOLEAN
    /\ tasks \in Seq(Task)
    /\ pc \in [Workers -> Steps] /\ job \in [Workers -> Conns \cup {NoConn}]
    /\ leaked \subseteq Sockets
    /\ fate \in {"ok", "abort", "segv", "race"}

Init ==
    /\ pending = {} /\ edge = FALSE /\ leaked = {}
    /\ sock = [c \in Conns |-> NoSocket]
    /\ users = [s \in Sockets |-> NoConn]
    /\ timer = [s \in Sockets |-> "none"]
    /\ epoll = [s \in Sockets |-> "absent"]
    /\ mainPc = "tick" /\ closing = NoSocket
    /\ batch = [s \in Sockets |-> "none"] /\ listening = FALSE
    /\ tasks = <<>>
    /\ pc = [w \in Workers |-> "idle"] /\ job = [w \in Workers |-> NoConn]
    /\ fate = "ok"

-----------------------------------------------------------------------------
Queued(c)  == \E i \in DOMAIN tasks : tasks[i].conn = c
Running(c) == \E w \in Workers : job[w] = c /\ pc[w] \in Busy

\* Whether some std::shared_ptr still points at connection c.
Held(c) ==
    \/ \E s \in Sockets : users[s] = c
    \/ Queued(c)
    \/ \E w \in Workers : job[w] = c

\* Defect: CloseClient closes the socket itself, whoever holds the connection.
OpenWhileListed == leaked \cup {sock[c] : c \in {d \in Conns : \E s \in Sockets : users[s] = d}}

\* Descriptors that are open: ~ConnectionImpl closes a connection's socket
\* only when nobody holds the connection any more.
OpenSockets == leaked \cup {sock[c] : c \in {d \in Conns : Held(d)}}

Expired(s) == timer[s] \in {"late", "zero"}

\* The next iteration of the event loop; what was fetched and not dispatched
\* is forgotten (the catch block of Start).
NextLoop ==
    /\ mainPc' = "tick"
    /\ batch' = [s \in Sockets |-> "none"]

-----------------------------------------------------------------------------
(* The environment: clients that connect, and time.                        *)

Connect(c) ==
    /\ sock[c] = NoSocket /\ c \notin pending
    /\ pending' = pending \cup {c}
    /\ edge' = TRUE
    /\ UNCHANGED <<sock, users, timer, epoll, main, pool, leaked, fate>>

TimeElapses(s) ==
    /\ timer[s] = "live"
    /\ Timely => ~Queued(users[s]) /\ ~Running(users[s])
    /\ timer' = [timer EXCEPT ![s] = "late"]
    /\ UNCHANGED <<kernel, sock, users, epoll, main, pool, fate>>

-----------------------------------------------------------------------------
(* The main thread: ToNextTick, Wait, and the dispatch of the events.      *)

\* HeapTimer::Tick removes an expired node, without mtx_, and then calls its
\* callback.
TickPop(s) ==
    /\ mainPc = "tick" /\ Expired(s)
    /\ timer' = [timer EXCEPT ![s] = "none"]
    /\ mainPc' = "callback" /\ closing' = s
    /\ UNCHANGED <<kernel, sock, users, epoll, batch, listening, pool, fate>>

\* Defect: the socket stays registered in epoll.
CloseWithoutDelete ==
    /\ mainPc = "callback"
    /\ timer' = [timer EXCEPT ![closing] = "none"]
    /\ users' = [users EXCEPT ![closing] = NoConn]
    /\ mainPc' = "tick" /\ closing' = NoSocket
    /\ UNCHANGED <<kernel, sock, epoll, batch, listening, pool, fate>>

CloseClient ==
    /\ mainPc = "callback"
    /\ IF users[closing] = NoConn
       THEN fate' = "abort" /\ UNCHANGED <<users, timer, epoll, mainPc, closing>>
       ELSE /\ epoll' = [epoll EXCEPT ![closing] = "absent"]
            /\ timer' = [timer EXCEPT ![closing] = "none"]
            /\ users' = [users EXCEPT ![closing] = NoConn]
            /\ mainPc' = "tick" /\ closing' = NoSocket
            /\ UNCHANGED fate
    /\ UNCHANGED <<kernel, sock, batch, listening, pool>>

\* Defect: the loop waits for events without looking at the timers.
SkipTick ==
    /\ mainPc = "tick" /\ mainPc' = "wait"
    /\ UNCHANGED <<kernel, sock, users, timer, epoll, closing, batch,
                   listening, pool, fate>>

TickDone ==
    /\ mainPc = "tick" /\ \A s \in Sockets : ~Expired(s)
    /\ mainPc' = "wait"
    /\ UNCHANGED <<kernel, sock, users, timer, epoll, closing, batch,
                   listening, pool, fate>>

\* What epoll may report of socket s: nothing, or one event if s is armed.
MayReport(s, e) == e = "none" \/ (epoll[s] \in {"in", "out"} /\ e \in {"close", epoll[s]})

\* Defect: connect_event_mode without EPOLLONESHOT.
StayArmed(ev) == epoll

\* EPOLLONESHOT: a reported registration is disabled until it is modified.
OneShot(ev) == [s \in Sockets |-> IF ev[s] = "none" THEN epoll[s] ELSE "off"]

\* Wait returns events, or none (time-out, EINTR).
Wait ==
    /\ mainPc = "wait"
    /\ \E ev \in [Sockets -> {"none", "close", "in", "out"}] :
           /\ \A s \in Sockets : MayReport(s, ev[s])
           /\ batch' = ev /\ epoll' = OneShot(ev)
    /\ \E l \in {FALSE, edge} : listening' = l /\ edge' = (edge /\ ~l)
    /\ mainPc' = "dispatch"
    /\ UNCHANGED <<pending, leaked, sock, users, timer, closing, pool, fate>>

OnListenEvent ==
    /\ mainPc = "dispatch" /\ listening
    /\ mainPc' = "accept" /\ listening' = FALSE
    /\ UNCHANGED <<kernel, sock, users, timer, epoll, closing, batch, pool, fate>>

\* Defect: the client gets no timer.
AddWithoutTimer(c, s) ==
    /\ mainPc = "accept" /\ c \in pending /\ s \in Sockets \ OpenSockets
    /\ pending' = pending \ {c}
    /\ sock' = [sock EXCEPT ![c] = s]
    /\ epoll' = [epoll EXCEPT ![s] = "in"]
    /\ users' = [users EXCEPT ![s] = c]
    /\ UNCHANGED <<timer, edge, leaked, main, pool, fate>>

AddClient(c, s) ==
    /\ mainPc = "accept" /\ c \in pending /\ s \in Sockets \ OpenSockets
    /\ pending' = pending \ {c}
    /\ sock' = [sock EXCEPT ![c] = s]
    /\ epoll' = [epoll EXCEPT ![s] = "in"]
    /\ users' = [users EXCEPT ![s] = IF @ = NoConn THEN c ELSE @]
    /\ timer' = [timer EXCEPT ![s] = "live"]
    /\ UNCHANGED <<edge, leaked, main, pool, fate>>

\* accept returns EAGAIN.
AcceptDone ==
    /\ mainPc = "accept" /\ pending = {}
    /\ mainPc' = "dispatch"
    /\ UNCHANGED <<kernel, sock, users, timer, epoll, closing, batch,
                   listening, pool, fate>>

\* accept fails: no descriptor is left, or the connection is broken.  The
\* exception leaves the dispatch loop.
AcceptFails ==
    /\ mainPc = "accept"
    /\ \/ Sockets \subseteq OpenSockets /\ UNCHANGED pending
       \/ \E c \in pending : pending' = pending \ {c}
    /\ NextLoop
    /\ UNCHANGED <<edge, leaked, sock, users, timer, epoll, closing, listening,
                   pool, fate>>

\* fcntl or epoll_ctl fails in AddClient: nobody closes the new socket.
AddClientFails(c, s) ==
    /\ mainPc = "accept" /\ c \in pending /\ s \in Sockets \ OpenSockets
    /\ pending' = pending \ {c} /\ leaked' = leaked \cup {s}
    /\ NextLoop
    /\ UNCHANGED <<edge, sock, users, timer, epoll, closing, listening, pool, fate>>

\* MarkClientAsToBeClosed, with its assertion.
Mark(s) ==
    IF timer[s] = "none"
    THEN fate' = "abort" /\ UNCHANGED timer
    ELSE timer' = [timer EXCEPT ![s] = "zero"] /\ UNCHANGED fate

OnCloseEvent(s) ==
    /\ mainPc = "dispatch" /\ batch[s] = "close"
    /\ Mark(s)
    /\ batch' = [batch EXCEPT ![s] = "none"]
    /\ UNCHANGED <<kernel, sock, users, epoll, mainPc, closing, listening, pool>>

\* Defect: the alive time of the client is not extended.
PushWithoutExtension(s, kind) ==
    /\ tasks' = IF timer[s] = "none" THEN tasks
                ELSE Append(tasks, [kind |-> kind, conn |-> users[s]])
    /\ UNCHANGED <<timer, fate>>

\* ExtendClientAliveTime, Conn and ThreadPool::Push.
PushTask(s, kind) ==
    \/ /\ timer[s] = "none"
       /\ UNCHANGED <<timer, tasks, fate>>
    \/ /\ timer[s] # "none" /\ users[s] = NoConn
       /\ fate' = "abort" /\ UNCHANGED <<timer, tasks>>
    \/ /\ timer[s] # "none" /\ users[s] # NoConn
       /\ timer' = [timer EXCEPT ![s] = "live"]
       /\ tasks' = Append(tasks, [kind |-> kind, conn |-> users[s]])
       /\ UNCHANGED fate

OnReceiveEvent(s) ==
    /\ mainPc = "dispatch" /\ batch[s] = "in"
    /\ PushTask(s, "recv")
    /\ batch' = [batch EXCEPT ![s] = "none"]
    /\ UNCHANGED <<kernel, sock, users, epoll, mainPc, closing, listening, pc, job>>

OnSendEvent(s) ==
    /\ mainPc = "dispatch" /\ batch[s] = "out"
    /\ PushTask(s, "send")
    /\ batch' = [batch EXCEPT ![s] = "none"]
    /\ UNCHANGED <<kernel, sock, users, epoll, mainPc, closing, listening, pc, job>>

DispatchDone ==
    /\ mainPc = "dispatch" /\ ~listening /\ \A s \in Sockets : batch[s] = "none"
    /\ mainPc' = "tick"
    /\ UNCHANGED <<kernel, sock, users, timer, epoll, closing, batch,
                   listening, pool, fate>>

MainStep ==
    \/ CloseClient \/ TickDone \/ Wait \/ OnListenEvent
    \/ AcceptDone \/ AcceptFails \/ DispatchDone
    \/ \E s \in Sockets : \/ TickPop(s) \/ OnCloseEvent(s)
                          \/ OnReceiveEvent(s) \/ OnSendEvent(s)
    \/ \E c \in Conns, s \in Sockets : AddClient(c, s) \/ AddClientFails(c, s)

-----------------------------------------------------------------------------
(* The workers: ThreadPool::ExecProc, ReceiveFrom, SendTo, Process.        *)

Goto(w, step) == pc' = [pc EXCEPT ![w] = step]

Take(w) ==
    /\ pc[w] = "idle" /\ tasks # <<>>
    /\ job' = [job EXCEPT ![w] = Head(tasks).conn]
    /\ Goto(w, Head(tasks).kind)
    /\ tasks' = Tail(tasks)
    /\ UNCHANGED <<kernel, sock, users, timer, epoll, main, fate>>

\* Connection::Receive ends with EAGAIN or throws, and never returns when the
\* peer has closed its side (readv gives 0).
ReceiveFrom(w) ==
    /\ pc[w] = "recv"
    /\ \/ Goto(w, "process")
       \/ Goto(w, "mark")
       \/ ~Timely /\ Goto(w, "spin")
    /\ UNCHANGED <<kernel, sock, users, timer, epoll, main, tasks, job, fate>>

\* Connection::Send ends, and the client keeps alive or not, or it throws.
SendTo(w) ==
    /\ pc[w] = "send"
    /\ Goto(w, "process") \/ Goto(w, "mark")
    /\ UNCHANGED <<kernel, sock, users, timer, epoll, main, tasks, job, fate>>

\* Defect: SendTo does not return after Process and marks the armed client.
ProcessThenMark(w) ==
    /\ pc[w] = "process"
    /\ \E interest \in {"in", "out"} :
           epoll' = [epoll EXCEPT ![sock[job[w]]] = interest]
    /\ Goto(w, "mark")
    /\ UNCHANGED <<kernel, sock, users, timer, main, tasks, job, fate>>

\* Process re-arms the client for sending or receiving.  The caller has moved
\* its pointer: when epoll_ctl fails, the handler uses a null pointer.
Process(w) ==
    /\ pc[w] = "process"
    /\ LET s == sock[job[w]] IN
       IF epoll[s] = "absent"
       THEN fate' = "segv" /\ UNCHANGED <<epoll, pc>>
       ELSE /\ \E interest \in {"in", "out"} : epoll' = [epoll EXCEPT ![s] = interest]
            /\ Goto(w, "release")
            /\ UNCHANGED fate
    /\ UNCHANGED <<kernel, sock, users, timer, main, tasks, job>>

\* MarkClientAsToBeClosed on a worker.
MarkFromWorker(w) ==
    /\ pc[w] = "mark"
    /\ Mark(sock[job[w]])
    /\ Goto(w, "release")
    /\ UNCHANGED <<kernel, sock, users, epoll, main, tasks, job>>

\* The main thread reads the timer heap without mtx_ while a worker changes
\* it: undefined behaviour, of which nothing is claimed afterwards.
TimerRace(w) ==
    /\ pc[w] = "mark" /\ mainPc = "tick"
    /\ fate' = "race"
    /\ UNCHANGED <<kernel, sock, users, timer, epoll, main, pool>>

Release(w) ==
    /\ pc[w] = "release"
    /\ job' = [job EXCEPT ![w] = NoConn] /\ Goto(w, "idle")
    /\ UNCHANGED <<kernel, sock, users, timer, epoll, main, tasks, fate>>

WorkerStep(w) ==
    \/ Take(w) \/ ReceiveFrom(w) \/ SendTo(w) \/ Process(w)
    \/ MarkFromWorker(w) \/ TimerRace(w) \/ Release(w)

-----------------------------------------------------------------------------
Terminated == fate # "ok" /\ UNCHANGED vars

Next ==
    \/ /\ fate = "ok"
       /\ \/ \E c \in Conns : Connect(c)
          \/ \E s \in Sockets : TimeElapses(s)
          \/ MainStep
          \/ \E w \in Workers : WorkerStep(w)
    \/ Terminated

Spec == Init /\ [][Next]_vars

\* The threads are scheduled, and the clock advances.
Fairness ==
    /\ WF_vars(fate = "ok" /\ MainStep)
    /\ \A w \in Workers : WF_vars(fate = "ok" /\ WorkerStep(w))
    /\ \A s \in Sockets : WF_vars(fate = "ok" /\ TimeElapses(s))

FairSpec == Spec /\ Fairness

-----------------------------------------------------------------------------
(* Properties.                                                             *)

\* The table of clients, the epoll set and the timers speak of the same
\* sockets, but for the socket whose expired node has just been removed and
\* whose callback has not closed it yet (Tick, then CloseClient).
KeysAgree ==
    \A s \in Sockets :
        /\ (users[s] = NoConn) <=> (epoll[s] = "absent")
        /\ (timer[s] = "none") <=> (users[s] = NoConn \/ (mainPc = "callback" /\ closing = s))

\* A descriptor is never handed out again while some pointer to the
\* connection it belonged to survives, so what a late worker does to its
\* socket cannot reach another client.
SocketOwnership ==
    \A c, d \in Conns : Held(c) /\ Held(d) /\ sock[c] = sock[d] => c = d

\* One-shot registration gives a connection to one thread at a time: it is
\* armed in epoll, or fetched by Wait, or queued once, or run by one worker.
Exclusive ==
    /\ \A v, w \in Workers :
           v # w /\ pc[v] \in Busy /\ pc[w] \in Busy => job[v] # job[w]
    /\ \A i, j \in DOMAIN tasks : tasks[i].conn = tasks[j].conn => i = j
    /\ \A c \in Conns :
           /\ ~(Queued(c) /\ Running(c))
           /\ \A s \in Sockets :
                 users[s] = c /\ (Queued(c) \/ Running(c)) => epoll[s] = "off" /\ batch[s] = "none"

\* A client marked to be closed is not given new time, by an event that was
\* fetched or a registration that was left armed: it stays marked until its
\* node is removed.
NeverRevived == [][\A s \in Sockets : timer[s] = "zero" => timer'[s] \in {"zero", "none"}]_vars

\* No assertion of the server fails: a socket that is marked has a timer, a
\* socket with a timer has a connection.
NoAssertionFails == fate # "abort"

\* No handler uses the connection pointer that was moved away.
NoNullClient == fate # "segv"

\* A client marked to be closed is removed by the main thread.
MarkedIsClosed ==
    \A s \in Sockets : timer[s] = "zero" ~> (users[s] = NoConn \/ fate # "ok")

\* Nobody will ever report an event of the client of s or run a task for it.
Stranded(s) ==
    /\ users[s] # NoConn /\ epoll[s] = "off" /\ batch[s] = "none"
    /\ ~Queued(users[s]) /\ ~Running(users[s])

\* A client whose fetched event was dropped, because another event of the
\* batch threw, does not keep its socket for ever.
StrandedIsClosed ==
    \A s \in Sockets : Stranded(s) ~> (users[s] = NoConn \/ fate # "ok")
=============================================================================
