------------------------------- MODULE Logger -------------------------------
(***************************************************************************)
(* The logger of include/log.h and src/log/log.cpp.  With a capacity it is *)
(* asynchronous: Log pushes events into a BlockDeque, which a writer       *)
(* thread pops and passes to the appenders; without one, Log passes them   *)
(* to the appenders itself.  Both ways, mtx_ guards what is done.          *)
(*                                                                         *)
(* The deque is represented by what module BlockDeque establishes: a push  *)
(* completes when there is room, Pop when there is an event or it is       *)
(* closed.                                                                 *)
(***************************************************************************)
EXTENDS Integers, Sequences, FiniteSets, Functions

CONSTANTS
    Threads,    \* threads that log
    Events,     \* events, each logged at most once
    Minor,      \* the events of the lower of two levels
    Appenders,
    MaxAppenders,   \* bound on the length of the list of appenders
    Capacity,   \* capacity_ of an asynchronous logger
    Nobody, Writer, NoEvent, Null

ASSUME CapacityAssumption == Capacity \in Nat \ {0} /\ MaxAppenders \in Nat
ASSUME MinorAssumption    == Minor \subseteq Events
ASSUME NamesAssumption    ==
    /\ Nobody \notin Threads \cup {Writer} /\ Writer \notin Threads
    /\ NoEvent \notin Events /\ Null \notin Appenders

VARIABLES
    async,      \* async_: the logger was created with a capacity
    mtx,        \* who holds mtx_
    strict,     \* level_ excludes the minor events
    appenders,  \* appenders_
    queue,      \* event_deque_
    closed,     \* the destructor has closed event_deque_
    pc, event,  \* step and event of each thread in Log
    writer,     \* step of the writer thread
    hand,       \* the event the writer has popped
    accepted,   \* history: events in the order they were pushed or written
    written,    \* history: events passed to the appenders
    crashed     \* a null appender was used

vars == <<async, mtx, strict, appenders, queue, closed, pc, event, writer, hand,
          accepted, written, crashed>>

TypeOK ==
    /\ async \in BOOLEAN /\ mtx \in Threads \cup {Writer, Nobody}
    /\ strict \in BOOLEAN /\ closed \in BOOLEAN /\ crashed \in BOOLEAN
    /\ appenders \in Seq(Appenders \cup {Null})
    /\ queue \in Seq(Events) /\ Len(queue) <= Capacity
    /\ pc \in [Threads -> {"out", "lock", "push"}]
    /\ event \in [Threads -> Events \cup {NoEvent}]
    /\ writer \in {"pop", "lock", "exited"}
    /\ hand \in Events \cup {NoEvent}
    /\ accepted \in Seq(Events) /\ written \in Seq(Events)

Init ==
    /\ async \in BOOLEAN
    /\ mtx = Nobody /\ strict = FALSE /\ appenders = <<>>
    /\ queue = <<>> /\ closed = FALSE
    /\ pc = [t \in Threads |-> "out"] /\ event = [t \in Threads |-> NoEvent]
    /\ writer = (IF async THEN "pop" ELSE "exited") /\ hand = NoEvent
    /\ accepted = <<>> /\ written = <<>> /\ crashed = FALSE

-----------------------------------------------------------------------------
Logged(e) ==
    \/ e \in Range(accepted)
    \/ \E t \in Threads : event[t] = e

\* Defect: the level is tested again when the event is written.
SyncLogRetests(e) ==
    /\ written' = IF strict /\ e \in Minor THEN written ELSE Append(written, e)
    /\ UNCHANGED crashed

\* Every appender of the list is called; a null pointer in it is used too.
SyncLog(e) ==
    /\ written' = Append(written, e)
    /\ crashed' = (Null \in Range(appenders))

-----------------------------------------------------------------------------
\* Log reads level_ without mtx_, before it waits for mtx_.
Log(t, e) ==
    /\ pc[t] = "out" /\ ~closed /\ ~Logged(e)
    /\ ~(strict /\ e \in Minor)
    /\ pc' = [pc EXCEPT ![t] = "lock"] /\ event' = [event EXCEPT ![t] = e]
    /\ UNCHANGED <<async, mtx, strict, appenders, queue, closed, writer, hand,
                   accepted, written, crashed>>

Lock(t) ==
    /\ pc[t] = "lock" /\ mtx = Nobody
    /\ \/ /\ async
          /\ mtx' = t /\ pc' = [pc EXCEPT ![t] = "push"]
          /\ UNCHANGED <<event, accepted, written, crashed>>
       \/ /\ ~async
          /\ SyncLog(event[t]) /\ accepted' = Append(accepted, event[t])
          /\ pc' = [pc EXCEPT ![t] = "out"] /\ event' = [event EXCEPT ![t] = NoEvent]
          /\ UNCHANGED mtx
    /\ UNCHANGED <<async, strict, appenders, queue, closed, writer, hand>>

\* Defect: a full queue drops the event.
PushOrDrop(t) ==
    /\ pc[t] = "push"
    /\ queue' = IF Len(queue) < Capacity THEN Append(queue, event[t]) ELSE queue
    /\ accepted' = Append(accepted, event[t])
    /\ mtx' = Nobody
    /\ pc' = [pc EXCEPT ![t] = "out"] /\ event' = [event EXCEPT ![t] = NoEvent]
    /\ UNCHANGED <<async, strict, appenders, closed, writer, hand, written, crashed>>

\* PushBack blocks on a full queue, with mtx_ held.
PushBack(t) ==
    /\ pc[t] = "push" /\ Len(queue) < Capacity
    /\ queue' = Append(queue, event[t]) /\ accepted' = Append(accepted, event[t])
    /\ mtx' = Nobody
    /\ pc' = [pc EXCEPT ![t] = "out"] /\ event' = [event EXCEPT ![t] = NoEvent]
    /\ UNCHANGED <<async, strict, appenders, closed, writer, hand, written, crashed>>

\* The writer thread: Pop, then SyncLog, until the deque is closed.
WriterPop ==
    /\ writer = "pop" /\ ~closed /\ queue # <<>>
    /\ hand' = Head(queue) /\ queue' = Tail(queue)
    /\ writer' = "lock"
    /\ UNCHANGED <<async, mtx, strict, appenders, closed, pc, event, accepted, written, crashed>>

WriterLog ==
    /\ writer = "lock" /\ mtx = Nobody
    /\ SyncLog(hand)
    /\ hand' = NoEvent /\ writer' = "pop"
    /\ UNCHANGED <<async, mtx, strict, appenders, queue, closed, pc, event, accepted>>

\* Defect: the loop goes on when Pop has returned nothing.
WriterRetries ==
    /\ writer = "pop" /\ closed
    /\ UNCHANGED vars

WriterExit ==
    /\ writer = "pop" /\ closed
    /\ writer' = "exited"
    /\ UNCHANGED <<async, mtx, strict, appenders, queue, closed, pc, event, hand,
                   accepted, written, crashed>>

\* ~Logger runs when nobody uses the logger any more; Close drops the events
\* that are still queued.
Destroy ==
    /\ ~closed /\ \A t \in Threads : pc[t] = "out"
    /\ closed' = TRUE /\ queue' = <<>>
    /\ UNCHANGED <<async, mtx, strict, appenders, pc, event, writer, hand, accepted,
                   written, crashed>>

SetLevel ==
    /\ mtx = Nobody /\ ~closed
    /\ strict' = ~strict
    /\ UNCHANGED <<async, mtx, appenders, queue, closed, pc, event, writer, hand,
                   accepted, written, crashed>>

ChangeAppenders(list) ==
    /\ mtx = Nobody /\ ~closed
    /\ appenders' = list
    /\ UNCHANGED <<async, mtx, strict, queue, closed, pc, event, writer, hand,
                   accepted, written, crashed>>

AddAppender(a) ==
    /\ Len(appenders) < MaxAppenders
    /\ ChangeAppenders(Append(appenders, a))

\* std::remove_if without erase: the j-th of the appenders that are kept moves
\* up to j, and the list keeps its length.  Behind them stay moved-from
\* pointers, and a itself.
RemoveAppender(a) ==
    LET kept    == {i \in DOMAIN appenders : appenders[i] # a}
        from(j) == {i \in kept : Cardinality(kept \cap 1 .. i) = j}
    IN  ChangeAppenders([j \in 1 .. Len(appenders) |->
                             IF from(j) # {} THEN appenders[CHOOSE i \in from(j) : TRUE]
                             ELSE IF appenders[j] = a THEN a ELSE Null])

ClearAppenders == ChangeAppenders(<<>>)

ThreadStep(t) == Lock(t) \/ PushBack(t)
WriterStep    == WriterPop \/ WriterLog \/ WriterExit

Next ==
    \/ /\ ~crashed
       /\ \/ \E t \in Threads : ThreadStep(t) \/ \E e \in Events : Log(t, e)
          \/ WriterStep \/ Destroy \/ SetLevel \/ ClearAppenders
          \/ \E a \in Appenders : AddAppender(a) \/ RemoveAppender(a)
    \/ (crashed \/ (closed /\ writer = "exited")) /\ UNCHANGED vars

Spec == Init /\ [][Next]_vars

\* Threads that are not blocked are scheduled.
Fairness ==
    /\ \A t \in Threads : WF_vars(~crashed /\ ThreadStep(t))
    /\ WF_vars(~crashed /\ WriterStep)

FairSpec == Spec /\ Fairness

-----------------------------------------------------------------------------
(* Properties.                                                             *)

InHand == IF hand = NoEvent THEN <<>> ELSE <<hand>>

\* Nothing is lost, doubled or reordered between Log and the appenders while
\* the logger lives: what was accepted is what was written, what the writer
\* holds and what is queued, in that order.
NothingLost == ~closed => accepted = written \o InHand \o queue

\* The destructor's join returns.
DestroyEnds == closed ~> (writer = "exited" \/ crashed)

\* A thread waits for room in the queue with mtx_, and the writer, with an
\* event in hand, for mtx_.
Stuck == writer = "lock" /\ Len(queue) = Capacity /\ \E t \in Threads : pc[t] = "push"

\* An event that a thread hands to Log reaches the appenders, unless the
\* logger is destroyed first or a full queue has stopped Log and the writer:
\* no other order of threads, level and appenders loses or delays it for ever.
LoggedUnlessStuck ==
    \A e \in Events :
        Logged(e) ~> (e \in Range(written) \/ closed \/ crashed \/ Stuck)
=============================================================================
