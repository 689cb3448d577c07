-------------------------- MODULE BlockDequeProofs --------------------------
(* Proofs about BlockDeque, for any finite sets of producers and consumers *)
(* and any capacity.                                                       *)
EXTENDS BlockDeque, FiniteSetTheorems, TLAPS

USE ThreadAssumption, CapacityAssumption

States == {"out", "wait", "woken", "expired"}

-----------------------------------------------------------------------------
(* How a change of one thread changes the number of woken threads.         *)

\* The woken threads of a finite set can be counted.
LEMMA WokenCount ==
  ASSUME NEW T, IsFiniteSet(T), NEW st \in [T -> States]
  PROVE  IsFiniteSet(Woken(st)) /\ Cardinality(Woken(st)) \in Nat
<1>1. Woken(st) \in SUBSET T
  BY DEF Woken
<1>2. IsFiniteSet(Woken(st))
  BY <1>1, FS_Subset
<1> QED
  BY <1>2, FS_CardinalityType

\* Waking a thread that waits adds one.
LEMMA WakeOne ==
  ASSUME NEW T, IsFiniteSet(T), NEW st \in [T -> States],
         NEW t \in Waiting(st), NEW v \in {"woken", "expired"}
  PROVE  /\ [st EXCEPT ![t] = v] \in [T -> States]
         /\ Waiting([st EXCEPT ![t] = v]) \subseteq Waiting(st)
         /\ Cardinality(Woken([st EXCEPT ![t] = v])) = Cardinality(Woken(st)) + 1
<1> DEFINE up == [st EXCEPT ![t] = v]
<1>1. t \in T /\ st[t] = "wait"
  BY DEF Waiting
<1>2. up \in [T -> States] /\ Waiting(up) \subseteq Waiting(st)
  BY <1>1 DEF States, Waiting
<1>3. Woken(up) = Woken(st) \cup {t} /\ t \notin Woken(st)
  BY <1>1 DEF States, Woken
<1>4. Cardinality(Woken(up)) = Cardinality(Woken(st)) + 1
  BY <1>3, WokenCount, FS_AddElement
<1> QED
  BY <1>2, <1>4

\* A thread that is awake and leaves the call, or waits, takes away itself.
LEMMA TurnAway ==
  ASSUME NEW T, IsFiniteSet(T), NEW st \in [T -> States],
         NEW t \in T, st[t] # "wait", NEW v \in {"out", "wait"}
  PROVE  /\ [st EXCEPT ![t] = v] \in [T -> States]
         /\ Cardinality(Woken([st EXCEPT ![t] = v])) \in Nat
         /\ Cardinality(Woken([st EXCEPT ![t] = v])) >= Cardinality(Woken(st)) - 1
         /\ st[t] = "out" =>
              Cardinality(Woken([st EXCEPT ![t] = v])) = Cardinality(Woken(st))
<1> DEFINE up == [st EXCEPT ![t] = v]
<1>1. up \in [T -> States]
  BY DEF States
<1>2. Woken(up) = Woken(st) \ {t} /\ (st[t] = "out" => t \notin Woken(st))
  BY DEF States, Woken
<1>3. Cardinality(Woken(st)) \in Nat /\ IsFiniteSet(Woken(st))
  BY WokenCount
<1>4. Cardinality(Woken(up)) =
        IF t \in Woken(st) THEN Cardinality(Woken(st)) - 1 ELSE Cardinality(Woken(st))
  BY <1>2, <1>3, FS_RemoveElement
<1>5. Cardinality(Woken(up)) \in Nat
  BY <1>1, WokenCount
<1> QED
  BY <1>1, <1>2, <1>3, <1>4, <1>5

\* notify_one leaves waiters behind only if it has woken one of them.
LEMMA NotifyWakes ==
  ASSUME NEW T, IsFiniteSet(T), NEW st \in [T -> States], NEW up \in NotifyOne(st)
  PROVE  /\ up \in [T -> States]
         /\ Waiting(up) \subseteq Waiting(st)
         /\ Cardinality(Woken(up)) \in Nat
         /\ Cardinality(Woken(up)) >= Cardinality(Woken(st))
         /\ Waiting(up) # {} => Cardinality(Woken(up)) = Cardinality(Woken(st)) + 1
<1>1. CASE Waiting(st) = {}
  BY <1>1, WokenCount DEF NotifyOne
<1>2. CASE Waiting(st) # {}
  <2>1. PICK t \in Waiting(st) : up = [st EXCEPT ![t] = "woken"]
    BY <1>2 DEF NotifyOne
  <2>2. /\ up \in [T -> States] /\ Waiting(up) \subseteq Waiting(st)
        /\ Cardinality(Woken(up)) = Cardinality(Woken(st)) + 1
    BY <2>1, WakeOne
  <2>3. Cardinality(Woken(st)) \in Nat
    BY WokenCount
  <2> QED
    BY <2>2, <2>3
<1> QED
  BY <1>1, <1>2

\* notify_all leaves nobody waiting.
LEMMA NotifyAllWakes ==
  ASSUME NEW T, NEW st \in [T -> States]
  PROVE  /\ NotifyAll(st) \in [T -> States]
         /\ Waiting(NotifyAll(st)) = {}
  BY DEF NotifyAll, Waiting, States

-----------------------------------------------------------------------------
(* The inductive invariant.                                                *)

Inv ==
    /\ TypeOK
    /\ WithinCapacity
    /\ ConsumersNotified
    /\ ProducersNotified
    /\ NoConsumerSleepsInClosed

\* Nobody waits in a new deque.
LEMMA InvInit == Init => Inv
<1> SUFFICES ASSUME Init PROVE Inv
  OBVIOUS
<1>1. Waiting(prod) = {} /\ Waiting(cons) = {}
  BY DEF Init, Waiting
<1>2. TypeOK
  BY DEF Init, TypeOK
<1>3. WithinCapacity
  BY DEF Init, WithinCapacity
<1> QED
  BY <1>1, <1>2, <1>3 DEF Inv, ConsumersNotified, ProducersNotified,
     NoConsumerSleepsInClosed

\* notify_one changes the types of the threads' states no more than waking does.
LEMMA NotifyTypes ==
  ASSUME TypeOK
  PROVE  /\ \A up \in NotifyOne(prod) : up \in [Producers -> {"out", "wait", "woken"}]
         /\ \A up \in NotifyOne(cons) : up \in [Consumers -> States]
         /\ prod \in [Producers -> States] /\ cons \in [Consumers -> States]
         /\ Cardinality(Woken(prod)) \in Nat /\ Cardinality(Woken(cons)) \in Nat
<1>1. prod \in [Producers -> States] /\ cons \in [Consumers -> States]
  BY DEF TypeOK, States
<1>2. \A up \in NotifyOne(prod) : up \in [Producers -> {"out", "wait", "woken"}]
  BY DEF TypeOK, NotifyOne, Waiting
<1>3. \A up \in NotifyOne(cons) : up \in [Consumers -> States]
  BY <1>1, NotifyWakes
<1>4. Cardinality(Woken(prod)) \in Nat /\ Cardinality(Woken(cons)) \in Nat
  BY <1>1, WokenCount
<1> QED
  BY <1>1, <1>2, <1>3, <1>4

\* Every critical section of the deque keeps the invariant.
LEMMA InvStep == Inv /\ [Next]_vars => Inv'
<1> SUFFICES ASSUME Inv, [Next]_vars PROVE Inv'
  OBVIOUS
<1>0. TypeOK /\ WithinCapacity /\ ConsumersNotified /\ ProducersNotified /\ NoConsumerSleepsInClosed
  BY DEF Inv
<1>t. /\ size \in Nat /\ Capacity \in Nat /\ closed \in BOOLEAN /\ cleared \in BOOLEAN
      /\ prod \in [Producers -> {"out", "wait", "woken"}]
      /\ prod \in [Producers -> States] /\ cons \in [Consumers -> States]
      /\ Cardinality(Woken(prod)) \in Nat /\ Cardinality(Woken(cons)) \in Nat
      /\ size <= Capacity
  BY <1>0, NotifyTypes DEF TypeOK, WithinCapacity
<1>s. /\ Waiting(cons) # {} /\ ~closed => size <= Cardinality(Woken(cons))
      /\ Waiting(prod) # {} /\ ~cleared => Capacity - size <= Cardinality(Woken(prod))
      /\ closed => Waiting(cons) = {}
  BY <1>0 DEF ConsumersNotified, ProducersNotified, NoConsumerSleepsInClosed
<1>w. SUFFICES /\ size' \in Nat /\ closed' \in BOOLEAN /\ cleared' \in BOOLEAN
               /\ prod' \in [Producers -> {"out", "wait", "woken"}]
               /\ cons' \in [Consumers -> States]
               /\ size' <= Capacity
               /\ Waiting(cons') # {} /\ ~closed' => size' <= Cardinality(Woken(cons'))
               /\ Waiting(prod') # {} /\ ~cleared' => Capacity - size' <= Cardinality(Woken(prod'))
               /\ closed' => Waiting(cons') = {}
  BY DEF Inv, TypeOK, States, WithinCapacity, ConsumersNotified, ProducersNotified,
     NoConsumerSleepsInClosed
<1>1. ASSUME NEW p \in Producers, Push(p) PROVE <1>w!1
  <2>1. CASE size < Capacity
    <3>1. /\ size' = size + 1 /\ prod' = [prod EXCEPT ![p] = "out"]
          /\ cons' \in NotifyOne(cons) /\ closed' = closed /\ cleared' = cleared
          /\ prod[p] # "wait"
      BY <1>1, <1>t, <2>1 DEF Push
    <3>2. /\ cons' \in [Consumers -> States] /\ Waiting(cons') \subseteq Waiting(cons)
          /\ Waiting(cons') # {} => Cardinality(Woken(cons')) = Cardinality(Woken(cons)) + 1
      BY <3>1, <1>t, NotifyWakes
    <3>3. /\ Cardinality(Woken(prod')) \in Nat
          /\ Cardinality(Woken(prod')) >= Cardinality(Woken(prod)) - 1
      BY <3>1, <1>t, TurnAway
    <3>4. prod' \in [Producers -> {"out", "wait", "woken"}]
      BY <3>1, <1>t
    <3>5. Waiting(prod') = Waiting(prod)
      BY <3>1, <1>t DEF Waiting, States
    <3> QED
      BY <1>t, <1>s, <2>1, <3>1, <3>2, <3>3, <3>4, <3>5
  <2>2. CASE ~(size < Capacity)
    <3>1. /\ size' = size /\ prod' = [prod EXCEPT ![p] = "wait"]
          /\ cons' = cons /\ closed' = closed /\ cleared' = cleared
          /\ prod[p] # "wait"
      BY <1>1, <1>t, <2>2 DEF Push
    <3>2. Cardinality(Woken(prod')) \in Nat
      BY <3>1, <1>t, TurnAway
    <3>3. prod' \in [Producers -> {"out", "wait", "woken"}]
      BY <3>1, <1>t
    <3> QED
      BY <1>t, <1>s, <2>2, <3>1, <3>2, <3>3
  <2> QED
    BY <2>1, <2>2
<1>2. ASSUME NEW c \in Consumers, Pop(c) PROVE <1>w!1
  <2>0. cons[c] # "wait" /\ closed' = closed /\ cleared' = cleared
    BY <1>2 DEF Pop
  <2>1. CASE size = 0 /\ ~closed
    <3>1. size' = size /\ prod' = prod
      BY <1>2, <2>1 DEF Pop
    <3>2. PICK v \in {"out", "wait"} : cons' = [cons EXCEPT ![c] = v]
      BY <1>2, <2>1 DEF Pop
    <3>3. cons' \in [Consumers -> States] /\ Cardinality(Woken(cons')) \in Nat
      BY <2>0, <3>2, <1>t, TurnAway
    <3> QED
      BY <1>t, <1>s, <2>0, <2>1, <3>1, <3>3
  <2>2. CASE closed
    <3>1. size' = size /\ prod' = prod /\ cons' = [cons EXCEPT ![c] = "out"]
      BY <1>2, <2>2 DEF Pop
    <3>2. cons' \in [Consumers -> States] /\ Waiting(cons') = Waiting(cons)
      BY <2>0, <3>1, <1>t DEF Waiting, States
    <3> QED
      BY <1>t, <1>s, <2>0, <2>2, <3>1, <3>2
  <2>3. CASE size > 0 /\ ~closed
    <3>1. /\ size' = size - 1 /\ prod' \in NotifyOne(prod)
          /\ cons' = [cons EXCEPT ![c] = "out"]
      BY <1>2, <2>3, <1>t DEF Pop
    <3>2. cons' \in [Consumers -> States] /\ Waiting(cons') = Waiting(cons)
      BY <2>0, <3>1, <1>t DEF Waiting, States
    <3>3. /\ Waiting(prod') \subseteq Waiting(prod)
          /\ Waiting(prod') # {} => Cardinality(Woken(prod')) = Cardinality(Woken(prod)) + 1
      BY <3>1, <1>t, NotifyWakes
    <3>4. prod' \in [Producers -> {"out", "wait", "woken"}]
      BY <3>1, <1>0, NotifyTypes
    <3>5. /\ Cardinality(Woken(cons')) \in Nat
          /\ Cardinality(Woken(cons')) >= Cardinality(Woken(cons)) - 1
      BY <2>0, <3>1, <1>t, TurnAway
    <3> QED
      BY <1>t, <1>s, <2>0, <2>3, <3>1, <3>2, <3>3, <3>4, <3>5
  <2> QED
    BY <1>t, <2>1, <2>2, <2>3
<1>3. ASSUME NEW c \in Consumers, Expire(c) PROVE <1>w!1
  <2>1. c \in Waiting(cons) /\ cons' = [cons EXCEPT ![c] = "expired"]
        /\ size' = size /\ closed' = closed /\ prod' = prod /\ cleared' = cleared
    BY <1>3, <1>t DEF Expire, Waiting
  <2>2. /\ cons' \in [Consumers -> States] /\ Waiting(cons') \subseteq Waiting(cons)
        /\ Cardinality(Woken(cons')) = Cardinality(Woken(cons)) + 1
    BY <2>1, <1>t, WakeOne
  <2> QED
    BY <1>t, <1>s, <2>1, <2>2
<1>4. CASE SpuriousWakeup
  <2>1. ASSUME NEW p \in Waiting(prod), prod' = [prod EXCEPT ![p] = "woken"],
               UNCHANGED <<size, closed, cons, cleared>>
        PROVE  <1>w!1
    <3>1. /\ Waiting(prod') \subseteq Waiting(prod)
          /\ Cardinality(Woken(prod')) = Cardinality(Woken(prod)) + 1
      BY <2>1, <1>t, WakeOne
    <3>2. prod' \in [Producers -> {"out", "wait", "woken"}]
      BY <2>1, <1>t DEF Waiting
    <3> QED
      BY <1>t, <1>s, <2>1, <3>1, <3>2
  <2>2. ASSUME NEW c \in Waiting(cons), cons' = [cons EXCEPT ![c] = "woken"],
               UNCHANGED <<size, closed, prod, cleared>>
        PROVE  <1>w!1
    <3>1. /\ cons' \in [Consumers -> States] /\ Waiting(cons') \subseteq Waiting(cons)
          /\ Cardinality(Woken(cons')) = Cardinality(Woken(cons)) + 1
      BY <2>2, <1>t, WakeOne
    <3> QED
      BY <1>t, <1>s, <2>2, <3>1
  <2> QED
    BY <1>4, <2>1, <2>2 DEF SpuriousWakeup
<1>5. CASE Flush
  <2>1. /\ cons' \in NotifyOne(cons)
        /\ size' = size /\ closed' = closed /\ prod' = prod /\ cleared' = cleared
    BY <1>5 DEF Flush
  <2>2. /\ cons' \in [Consumers -> States] /\ Waiting(cons') \subseteq Waiting(cons)
        /\ Cardinality(Woken(cons')) \in Nat
        /\ Cardinality(Woken(cons')) >= Cardinality(Woken(cons))
    BY <2>1, <1>t, NotifyWakes
  <2> QED
    BY <1>t, <1>s, <2>1, <2>2
<1>6. CASE Clear
  BY <1>6, <1>t, <1>s DEF Clear
<1>7. CASE Close
  <2>1. /\ size' = 0 /\ closed' = TRUE /\ cleared' = cleared
        /\ prod' = NotifyAll(prod) /\ cons' = NotifyAll(cons)
    BY <1>7 DEF Close
  <2>2. /\ Waiting(prod') = {} /\ Waiting(cons') = {} /\ cons' \in [Consumers -> States]
    BY <2>1, <1>t, NotifyAllWakes
  <2>3. prod' \in [Producers -> {"out", "wait", "woken"}]
    BY <2>1, <1>t DEF NotifyAll
  <2> QED
    BY <1>t, <2>1, <2>2, <2>3
<1>8. CASE UNCHANGED vars
  BY <1>8, <1>t, <1>s DEF vars
<1> QED
  BY <1>1, <1>2, <1>3, <1>4, <1>5, <1>6, <1>7, <1>8 DEF Next

\* The inductive invariant holds in every reachable state.
LEMMA Invariance == Spec => []Inv
  BY InvInit, InvStep, PTL DEF Spec

-----------------------------------------------------------------------------
(* The results.                                                            *)

\* The state of the deque and of its threads keeps its type: in particular no
\* Pop takes an element that is not there.
THEOREM TypeCorrect == Spec => []TypeOK
<1>1. Inv => TypeOK
  BY DEF Inv
<1> QED
  BY <1>1, Invariance, PTL

\* The deque never holds more than capacity_ elements.
THEOREM CapacityKept == Spec => []WithinCapacity
<1>1. Inv => WithinCapacity
  BY DEF Inv
<1> QED
  BY <1>1, Invariance, PTL

\* No wake-up of a consumer is lost in Pop, PushBack, PushFront or Flush.
THEOREM NoLostElement == Spec => []ConsumersNotified
<1>1. Inv => ConsumersNotified
  BY DEF Inv
<1> QED
  BY <1>1, Invariance, PTL

\* No wake-up of a producer is lost, as long as nobody calls Clear.
THEOREM NoLostPlace == Spec => []ProducersNotified
<1>1. Inv => ProducersNotified
  BY DEF Inv
<1> QED
  BY <1>1, Invariance, PTL

\* Close leaves no consumer asleep, and none falls asleep afterwards.
THEOREM CloseWakesConsumers == Spec => []NoConsumerSleepsInClosed
<1>1. Inv => NoConsumerSleepsInClosed
  BY DEF Inv
<1> QED
  BY <1>1, Invariance, PTL
=============================================================================
