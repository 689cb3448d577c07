---------------------------- MODULE LoggerProofs ----------------------------
(* Proofs about Logger, for any threads, events and appenders, and any     *)
(* capacity of the queue.                                                  *)
EXTENDS Logger, SequenceTheorems, TLAPS

-----------------------------------------------------------------------------
(* Sequences of events.                                                    *)

\* A pushed event goes behind what is written, in hand and queued.
LEMMA PushedIsLast ==
  ASSUME NEW S, NEW w \in Seq(S), NEW h \in Seq(S), NEW q \in Seq(S), NEW e \in S
  PROVE  w \o h \o Append(q, e) = Append(w \o h \o q, e)
  BY AppendIsConcat, ConcatProperties, ConcatAssociative

\* The popped event stays between what is written and what is queued.
LEMMA PoppedIsNext ==
  ASSUME NEW S, NEW w \in Seq(S), NEW q \in Seq(S), q # <<>>
  PROVE  w \o <<>> \o q = w \o <<Head(q)>> \o Tail(q)
  OBVIOUS

\* The event in hand is the next that is written.
LEMMA HandIsWritten ==
  ASSUME NEW S, NEW w \in Seq(S), NEW q \in Seq(S), NEW e \in S
  PROVE  w \o <<e>> \o q = Append(w, e) \o <<>> \o q
  OBVIOUS

-----------------------------------------------------------------------------
(* The inductive invariant.                                                *)

\* The types of the variables that events pass through.
Types ==
    /\ async \in BOOLEAN /\ mtx \in Threads \cup {Writer, Nobody}
    /\ closed \in BOOLEAN
    /\ queue \in Seq(Events) /\ Len(queue) <= Capacity
    /\ pc \in [Threads -> {"out", "lock", "push"}]
    /\ event \in [Threads -> Events \cup {NoEvent}]
    /\ writer \in {"pop", "lock", "exited"}
    /\ hand \in Events \cup {NoEvent}
    /\ accepted \in Seq(Events) /\ written \in Seq(Events)

\* A thread has an event from its call of Log to the end of it.
CallHasEvent == \A t \in Threads : pc[t] # "out" => event[t] \in Events

\* mtx_ is kept between two steps only by a thread that waits for room in the
\* queue of an asynchronous logger.
MutexKept ==
    /\ \A t \in Threads : pc[t] = "push" <=> mtx = t
    /\ \A t \in Threads : pc[t] = "push" => async
    /\ mtx # Writer

\* The writer has an event in hand from its Pop until it has written it.
HandHeld == writer = "lock" <=> hand # NoEvent

\* Without a writer thread nothing is queued or in hand.
NoWriterNoQueue == ~async => queue = <<>> /\ hand = NoEvent /\ writer = "exited"

Inv ==
    /\ Types
    /\ CallHasEvent
    /\ MutexKept
    /\ HandHeld
    /\ NoWriterNoQueue
    /\ NothingLost

\* A new logger holds no event, and nobody holds its mutex.
LEMMA InvInit == Init => Inv
<1> SUFFICES ASSUME Init PROVE Inv
  OBVIOUS
<1>1. queue \in Seq(Events) /\ Len(queue) <= Capacity
  BY CapacityAssumption DEF Init
<1>2. accepted \in Seq(Events) /\ written \in Seq(Events)
  BY DEF Init
<1>3. Types
  BY <1>1, <1>2 DEF Init, Types
<1>4. CallHasEvent /\ HandHeld /\ NoWriterNoQueue
  BY DEF Init, CallHasEvent, HandHeld, NoWriterNoQueue
<1>5. MutexKept
  BY NamesAssumption DEF Init, MutexKept
<1>6. NothingLost
  BY DEF Init, NothingLost, InHand
<1> QED
  BY <1>3, <1>4, <1>5, <1>6 DEF Inv

\* Every step of the logging threads, of the writer, of the destructor and of
\* whoever sets the level and the appenders keeps the invariant.
LEMMA InvStep == Inv /\ [Next]_vars => Inv'
<1> SUFFICES ASSUME Inv, [Next]_vars PROVE Inv'
  OBVIOUS
<1>t. Types /\ CallHasEvent /\ MutexKept /\ HandHeld /\ NoWriterNoQueue /\ NothingLost
  BY DEF Inv
<1>i. InHand \in Seq(Events)
  BY <1>t DEF InHand, Types
<1>1. ASSUME NEW t \in Threads, NEW e \in Events, Log(t, e) PROVE Inv'
  <2>1. Types'
    BY <1>1, <1>t DEF Log, Types
  <2>2. CallHasEvent' /\ MutexKept'
    BY <1>1, <1>t DEF Log, Types, CallHasEvent, MutexKept
  <2>3. HandHeld' /\ NoWriterNoQueue' /\ NothingLost'
    BY <1>1, <1>t DEF Log, HandHeld, NoWriterNoQueue, NothingLost, InHand
  <2> QED
    BY <2>1, <2>2, <2>3 DEF Inv
<1>2. ASSUME NEW t \in Threads, Lock(t) PROVE Inv'
  <2>e. event[t] \in Events
    BY <1>2, <1>t DEF Lock, CallHasEvent
  <2>1. CASE async
    <3>1. Types'
      BY <1>2, <1>t, <2>1 DEF Lock, Types
    <3>2. CallHasEvent'
      BY <1>2, <1>t, <2>1 DEF Lock, Types, CallHasEvent
    <3>3. MutexKept'
      BY <1>2, <1>t, <2>1, NamesAssumption DEF Lock, Types, MutexKept
    <3>4. HandHeld' /\ NoWriterNoQueue' /\ NothingLost'
      BY <1>2, <1>t, <2>1 DEF Lock, HandHeld, NoWriterNoQueue, NothingLost, InHand
    <3> QED
      BY <3>1, <3>2, <3>3, <3>4 DEF Inv
  <2>2. CASE ~async
    <3>0. /\ written' = Append(written, event[t]) /\ accepted' = Append(accepted, event[t])
          /\ queue' = queue /\ hand' = hand /\ closed' = closed
          /\ pc' = [pc EXCEPT ![t] = "out"] /\ event' = [event EXCEPT ![t] = NoEvent]
          /\ mtx' = mtx /\ async' = async /\ writer' = writer /\ pc[t] = "lock"
      BY <1>2, <2>2 DEF Lock, SyncLog
    <3>1. written' \in Seq(Events) /\ accepted' \in Seq(Events)
      BY <1>t, <2>e, <3>0 DEF Types
    <3>2. Types'
      BY <1>t, <3>0, <3>1 DEF Types
    <3>3. CallHasEvent' /\ MutexKept'
      BY <1>t, <3>0 DEF Types, CallHasEvent, MutexKept
    <3>4. HandHeld' /\ NoWriterNoQueue'
      BY <1>t, <3>0 DEF HandHeld, NoWriterNoQueue
    <3>5. queue = <<>> /\ InHand = <<>> /\ InHand' = <<>>
      BY <1>t, <2>2, <3>0 DEF NoWriterNoQueue, InHand
    <3>6. ASSUME ~closed PROVE accepted = written
      BY <1>t, <3>5, <3>6 DEF NothingLost, Types
    <3>7. written' \o <<>> \o <<>> = written'
      BY <3>1
    <3>8. NothingLost'
      BY <3>0, <3>5, <3>6, <3>7 DEF NothingLost
    <3> QED
      BY <3>2, <3>3, <3>4, <3>8 DEF Inv
  <2> QED
    BY <2>1, <2>2
<1>3. ASSUME NEW t \in Threads, PushBack(t) PROVE Inv'
  <2>e. event[t] \in Events /\ async /\ mtx = t
    BY <1>3, <1>t DEF PushBack, CallHasEvent, MutexKept
  <2>1. /\ queue' \in Seq(Events) /\ accepted' \in Seq(Events) /\ Len(queue') <= Capacity
    BY <1>3, <1>t, <2>e, CapacityAssumption DEF PushBack, Types
  <2>2. Types'
    BY <1>3, <1>t, <2>1 DEF PushBack, Types
  <2>3. CallHasEvent'
    BY <1>3, <1>t DEF PushBack, Types, CallHasEvent
  <2>4. MutexKept'
    BY <1>3, <1>t, <2>e, NamesAssumption DEF PushBack, Types, MutexKept
  <2>5. HandHeld' /\ NoWriterNoQueue'
    BY <1>3, <1>t, <2>e DEF PushBack, HandHeld, NoWriterNoQueue
  <2>6. written \o InHand \o Append(queue, event[t])
          = Append(written \o InHand \o queue, event[t])
    BY SMTT(30), <1>t, <1>i, <2>e, PushedIsLast DEF Types
  <2>7. NothingLost'
    BY <1>3, <1>t, <2>6 DEF PushBack, NothingLost, InHand
  <2> QED
    BY <2>2, <2>3, <2>4, <2>5, <2>7 DEF Inv
<1>4. CASE WriterPop
  <2>1. /\ hand' = Head(queue) /\ queue' = Tail(queue) /\ Head(queue) \in Events
        /\ queue' \in Seq(Events) /\ Len(queue') <= Capacity /\ async
    BY <1>4, <1>t, CapacityAssumption DEF WriterPop, Types, NoWriterNoQueue
  <2>2. Types'
    BY <1>4, <1>t, <2>1 DEF WriterPop, Types
  <2>3. CallHasEvent' /\ MutexKept'
    BY <1>4, <1>t DEF WriterPop, CallHasEvent, MutexKept
  <2>4. HandHeld' /\ NoWriterNoQueue'
    BY <1>4, <1>t, <2>1, NamesAssumption DEF WriterPop, HandHeld, NoWriterNoQueue
  <2>5. InHand = <<>> /\ InHand' = <<Head(queue)>>
    BY <1>4, <1>t, <2>1, NamesAssumption DEF WriterPop, HandHeld, InHand
  <2>6. written \o <<>> \o queue = written \o <<Head(queue)>> \o Tail(queue)
    BY <1>4, <1>t, PoppedIsNext DEF WriterPop, Types
  <2>7. NothingLost'
    BY <1>4, <1>t, <2>5, <2>6 DEF WriterPop, NothingLost
  <2> QED
    BY <2>2, <2>3, <2>4, <2>7 DEF Inv
<1>5. CASE WriterLog
  <2>e. hand \in Events /\ async
    BY <1>5, <1>t DEF WriterLog, HandHeld, NoWriterNoQueue, Types
  <2>1. written' = Append(written, hand) /\ written' \in Seq(Events)
    BY <1>5, <1>t, <2>e DEF WriterLog, SyncLog, Types
  <2>2. Types'
    BY <1>5, <1>t, <2>1 DEF WriterLog, Types
  <2>3. CallHasEvent' /\ MutexKept'
    BY <1>5, <1>t DEF WriterLog, CallHasEvent, MutexKept
  <2>4. HandHeld' /\ NoWriterNoQueue'
    BY <1>5, <1>t, <2>e DEF WriterLog, HandHeld, NoWriterNoQueue
  <2>5. InHand = <<hand>> /\ InHand' = <<>>
    BY <1>5, <1>t, <2>e, NamesAssumption DEF WriterLog, InHand
  <2>6. written \o <<hand>> \o queue = Append(written, hand) \o <<>> \o queue
    BY <1>t, <2>e, HandIsWritten DEF Types
  <2>7. NothingLost'
    BY <1>5, <1>t, <2>1, <2>5, <2>6 DEF WriterLog, NothingLost
  <2> QED
    BY <2>2, <2>3, <2>4, <2>7 DEF Inv
<1>6. CASE WriterExit
  <2>1. Types' /\ CallHasEvent' /\ MutexKept'
    BY <1>6, <1>t DEF WriterExit, Types, CallHasEvent, MutexKept
  <2>2. HandHeld' /\ NoWriterNoQueue' /\ NothingLost'
    BY <1>6, <1>t DEF WriterExit, HandHeld, NoWriterNoQueue, NothingLost
  <2> QED
    BY <2>1, <2>2 DEF Inv
<1>7. CASE Destroy
  <2>1. queue' \in Seq(Events) /\ Len(queue') <= Capacity
    BY <1>7, CapacityAssumption DEF Destroy
  <2>2. Types'
    BY <1>7, <1>t, <2>1 DEF Destroy, Types
  <2>3. CallHasEvent' /\ MutexKept'
    BY <1>7, <1>t DEF Destroy, CallHasEvent, MutexKept
  <2>4. HandHeld' /\ NoWriterNoQueue' /\ NothingLost'
    BY <1>7, <1>t DEF Destroy, HandHeld, NoWriterNoQueue, NothingLost
  <2> QED
    BY <2>2, <2>3, <2>4 DEF Inv
<1>8. CASE UNCHANGED <<async, mtx, queue, closed, pc, event, writer, hand, accepted, written>>
  <2>1. Types' /\ CallHasEvent' /\ MutexKept'
    BY <1>8, <1>t DEF Types, CallHasEvent, MutexKept
  <2>2. HandHeld' /\ NoWriterNoQueue' /\ NothingLost'
    BY <1>8, <1>t DEF HandHeld, NoWriterNoQueue, NothingLost, InHand
  <2> QED
    BY <2>1, <2>2 DEF Inv
<1> QED
  BY <1>1, <1>2, <1>3, <1>4, <1>5, <1>6, <1>7, <1>8 DEF Next, vars, ThreadStep, WriterStep,
     SetLevel, ClearAppenders, AddAppender, RemoveAppender, ChangeAppenders

\* The invariant holds in every reachable state.
THEOREM Invariance == Spec => []Inv
  BY InvInit, InvStep, PTL DEF Spec

\* Whoever adds, removes and clears appenders, the list has appenders and null
\* pointers only, although remove_if leaves some of it behind.
LEMMA AppendersStep ==
  ASSUME appenders \in Seq(Appenders \cup {Null}), [Next]_vars
  PROVE  appenders' \in Seq(Appenders \cup {Null})
<1> DEFINE A == Appenders \cup {Null}
<1>1. ASSUME NEW a \in Appenders, AddAppender(a) PROVE appenders' \in Seq(A)
  BY <1>1 DEF AddAppender, ChangeAppenders
<1>2. ASSUME NEW a \in Appenders, RemoveAppender(a) PROVE appenders' \in Seq(A)
  <2> DEFINE kept == {i \in DOMAIN appenders : appenders[i] # a}
             from(j) == {i \in kept : Cardinality(kept \cap 1 .. i) = j}
             new(j) == IF from(j) # {} THEN appenders[CHOOSE i \in from(j) : TRUE]
                       ELSE IF appenders[j] = a THEN a ELSE Null
  <2>1. appenders' = [j \in 1 .. Len(appenders) |-> new(j)]
    BY <1>2, Zenon DEF RemoveAppender, ChangeAppenders
  <2>2. ASSUME NEW j \in 1 .. Len(appenders) PROVE new(j) \in A
    <3>1. CASE from(j) # {}
      <4>1. (CHOOSE i \in from(j) : TRUE) \in from(j)
        BY <3>1, Zenon
      <4>2. (CHOOSE i \in from(j) : TRUE) \in DOMAIN appenders
        BY <4>1, Zenon
      <4>3. appenders[CHOOSE i \in from(j) : TRUE] \in A
        BY <4>2
      <4> QED
        BY <3>1, <4>3, Zenon
    <3>2. CASE from(j) = {}
      <4>1. new(j) = IF appenders[j] = a THEN a ELSE Null
        BY <3>2, Zenon
      <4> QED
        BY <4>1, Zenon
    <3> QED
      BY <3>1, <3>2, Zenon
  <2> HIDE DEF new
  <2>3. Len(appenders) \in Nat
    OBVIOUS
  <2> QED
    BY <2>1, <2>2, <2>3
<1>3. CASE ClearAppenders
  BY <1>3 DEF ClearAppenders, ChangeAppenders
<1>4. CASE UNCHANGED appenders
  BY <1>4
<1> QED
  BY <1>1, <1>2, <1>3, <1>4 DEF Next, vars, ThreadStep, WriterStep, Log, Lock, PushBack,
     WriterPop, WriterLog, WriterExit, Destroy, SetLevel

\* The variables of a logger keep their types under every order of the threads
\* that log, write, set the level, change the appenders and destroy it.
THEOREM TypeCorrect == Spec => []TypeOK
<1> DEFINE Rest == /\ strict \in BOOLEAN /\ crashed \in BOOLEAN
                   /\ appenders \in Seq(Appenders \cup {Null})
<1>1. Init => Rest
  <2>1. Init => appenders \in Seq(Appenders \cup {Null})
    BY DEF Init
  <2>2. Init => strict \in BOOLEAN /\ crashed \in BOOLEAN
    BY Zenon DEF Init
  <2> QED
    BY <2>1, <2>2, Zenon
<1>2. Rest /\ [Next]_vars => Rest'
  <2> SUFFICES ASSUME Rest, [Next]_vars PROVE Rest'
    OBVIOUS
  <2>1. appenders' \in Seq(Appenders \cup {Null})
    BY AppendersStep
  <2>2. strict' = ~strict \/ strict' = strict
    BY Zenon DEF Next, vars, ThreadStep, WriterStep, Log, Lock, PushBack, WriterPop,
       WriterLog, WriterExit, Destroy, SetLevel, AddAppender, RemoveAppender,
       ClearAppenders, ChangeAppenders
  <2>3. crashed' = (Null \in Range(appenders)) \/ crashed' = crashed
    BY Zenon DEF Next, vars, ThreadStep, WriterStep, Log, Lock, SyncLog, PushBack,
       WriterPop, WriterLog, WriterExit, Destroy, SetLevel, AddAppender, RemoveAppender,
       ClearAppenders, ChangeAppenders
  <2>4. strict' \in BOOLEAN /\ crashed' \in BOOLEAN
    <3>1. (~strict) \in BOOLEAN /\ (Null \in Range(appenders)) \in BOOLEAN
      OBVIOUS
    <3>2. strict \in BOOLEAN /\ crashed \in BOOLEAN
      BY Zenon
    <3> QED
      BY <2>2, <2>3, <3>1, <3>2, Zenon
  <2> QED
    BY <2>1, <2>4, Zenon
<1>3. Inv /\ Rest => TypeOK
  BY DEF Inv, Types, TypeOK
<1> HIDE DEF Rest
<1> QED
  BY <1>1, <1>2, <1>3, Invariance, PTL DEF Spec

\* Between Log and the appenders nothing is lost, doubled or reordered while
\* the logger lives.
THEOREM NoEventLost == Spec => []NothingLost
<1>1. Inv => NothingLost
  BY DEF Inv
<1> QED
  BY <1>1, Invariance, PTL

-----------------------------------------------------------------------------
(* The deadlock of a full queue.                                           *)

\* Once Log waits for room with mtx_ and the writer, with an event in hand,
\* for mtx_, no step of any thread ends it: neither of them moves again, the
\* level and the appenders cannot be changed and the logger not be destroyed.
THEOREM StuckForGood == Spec => [][Stuck => Stuck']_vars
<1>1. Inv /\ [Next]_vars => [Stuck => Stuck']_vars
  <2> SUFFICES ASSUME Inv, Next, Stuck PROVE Stuck'
    OBVIOUS
  <2>1. PICK t \in Threads : pc[t] = "push"
    BY DEF Stuck
  <2>2. mtx = t /\ mtx # Nobody /\ writer = "lock" /\ Len(queue) = Capacity
    BY <2>1, NamesAssumption DEF Inv, MutexKept, Stuck
  <2>3. ~(Len(queue) < Capacity)
    BY <2>2, CapacityAssumption
  <2>4. CASE \E s \in Threads, e \in Events : Log(s, e)
    <3>1. PICK s \in Threads, e \in Events : Log(s, e)
      BY <2>4
    <3>2. pc'[t] = "push"
      BY <2>1, <3>1 DEF Log, Inv, Types
    <3> QED
      BY <2>2, <3>1, <3>2 DEF Log, Stuck
  <2>5. CASE UNCHANGED vars
    BY <2>5 DEF vars, Stuck
  <2> QED
    BY <2>1, <2>2, <2>3, <2>4, <2>5 DEF Next, ThreadStep, WriterStep, Lock, PushBack,
       WriterPop, WriterLog, WriterExit, Destroy, SetLevel, ClearAppenders, AddAppender,
       RemoveAppender, ChangeAppenders
<1> QED
  BY <1>1, Invariance, PTL DEF Spec
=============================================================================
