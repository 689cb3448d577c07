----------------------------- MODULE BlockDeque -----------------------------
(***************************************************************************)
(* The blocking double-ended queue of include/containers/block_deque.h,    *)
(* used by any number of producers and consumers.                          *)
(*                                                                         *)
(* Every critical section under mtx_ is one action: a thread that is new   *)
(* in the call or has been woken takes the mutex, tests its predicate and  *)
(* either goes (back) to wait or completes the call.  The elements do not  *)
(* matter to blocking, so deq_ is represented by its size.                 *)
(***************************************************************************)
EXTENDS Integers, FiniteSets

CONSTANTS
    Producers,  \* threads that call PushBack and PushFront
    Consumers,  \* threads that call Pop
    Capacity    \* capacity_

ASSUME ThreadAssumption   == IsFiniteSet(Producers) /\ IsFiniteSet(Consumers)
ASSUME CapacityAssumption == Capacity \in Nat \ {0}

VARIABLES
    size,       \* deq_.size()
    closed,     \* closed_
    prod,       \* where each producer is in PushBack or PushFront
    cons,       \* where each consumer is in Pop
    cleared     \* history: Clear has been called

vars == <<size, closed, prod, cons, cleared>>

\* "out": not in a call; "wait": blocked on the condition variable; "woken":
\* has left it and must test its predicate again; "expired": the same, after
\* the time-out of a timed Pop.
TypeOK ==
    /\ size \in Nat
    /\ closed \in BOOLEAN
    /\ prod \in [Producers -> {"out", "wait", "woken"}]
    /\ cons \in [Consumers -> {"out", "wait", "woken", "expired"}]
    /\ cleared \in BOOLEAN

Init ==
    /\ size = 0
    /\ closed = FALSE
    /\ prod = [p \in Producers |-> "out"]
    /\ cons = [c \in Consumers |-> "out"]
    /\ cleared = FALSE

-----------------------------------------------------------------------------
Waiting(st) == {t \in DOMAIN st : st[t] = "wait"}
Woken(st)   == {t \in DOMAIN st : st[t] \in {"woken", "expired"}}

\* The states notify_one may leave: one waiter has been woken, if any waits.
NotifyOne(st) ==
    IF Waiting(st) = {} THEN {st}
    ELSE {[st EXCEPT ![t] = "woken"] : t \in Waiting(st)}

NotifyAll(st) == [t \in DOMAIN st |-> IF st[t] = "wait" THEN "woken" ELSE st[t]]

-----------------------------------------------------------------------------
\* Defect: a woken producer does not test its predicate again.
PushWithoutRetest(p) ==
    /\ prod[p] \in {"out", "woken"}
    /\ \/ /\ size < Capacity \/ prod[p] = "woken"
          /\ size' = size + 1
          /\ prod' = [prod EXCEPT ![p] = "out"]
          /\ cons' \in NotifyOne(cons)
       \/ /\ ~(size < Capacity) /\ prod[p] = "out"
          /\ prod' = [prod EXCEPT ![p] = "wait"]
          /\ UNCHANGED <<size, cons>>
    /\ UNCHANGED <<closed, cleared>>

\* Defect: consumers are notified only of the first element.
PushNotifiesIfEmpty(p) ==
    /\ prod[p] \in {"out", "woken"}
    /\ \/ /\ size < Capacity
          /\ size' = size + 1
          /\ prod' = [prod EXCEPT ![p] = "out"]
          /\ cons' \in IF size = 0 THEN NotifyOne(cons) ELSE {cons}
       \/ /\ ~(size < Capacity)
          /\ prod' = [prod EXCEPT ![p] = "wait"]
          /\ UNCHANGED <<size, cons>>
    /\ UNCHANGED <<closed, cleared>>

\* PushBack and PushFront differ only in the end they add to.  WaitForSpace
\* asks for room and does not look at closed_.
Push(p) ==
    /\ prod[p] \in {"out", "woken"}
    /\ \/ /\ size < Capacity
          /\ size' = size + 1
          /\ prod' = [prod EXCEPT ![p] = "out"]
          /\ cons' \in NotifyOne(cons)
       \/ /\ ~(size < Capacity)
          /\ prod' = [prod EXCEPT ![p] = "wait"]
          /\ UNCHANGED <<size, cons>>
    /\ UNCHANGED <<closed, cleared>>

\* Defects of Pop, as what it does when it takes an element (notify), when it
\* may take one (ready) and when it waits (empty).
PopVariant(c, ready, empty, notified) ==
    /\ cons[c] \in {"out", "woken", "expired"}
    /\ \/ /\ empty
          /\ cons' = [cons EXCEPT ![c] = IF @ = "expired" THEN "out" ELSE "wait"]
          /\ UNCHANGED <<size, prod>>
       \/ /\ ready
          /\ size' = size - 1
          /\ cons' = [cons EXCEPT ![c] = "out"]
          /\ prod' \in notified
    /\ UNCHANGED <<closed, cleared>>

\* Defect: the predicate of the wait ignores closed_.
PopIgnoresClosed(c) == PopVariant(c, size > 0, size = 0, NotifyOne(prod))

\* Defect: producers are notified only when the queue was full.
PopNotifiesIfFull(c) ==
    PopVariant(c, size > 0, size = 0 /\ ~closed,
               IF size = Capacity THEN NotifyOne(prod) ELSE {prod})

\* Defect: nobody tells the producers of the free place.
PopWithoutNotify(c) == PopVariant(c, size > 0, size = 0 /\ ~closed, {prod})

\* Pop, with or without a time-out.  The predicate is "not empty or closed".
Pop(c) ==
    /\ cons[c] \in {"out", "woken", "expired"}
    /\ \/ /\ size = 0 /\ ~closed
          /\ cons' = [cons EXCEPT ![c] = IF @ = "expired" THEN "out" ELSE "wait"]
          /\ UNCHANGED <<size, prod>>
       \/ /\ closed
          /\ cons' = [cons EXCEPT ![c] = "out"]
          /\ UNCHANGED <<size, prod>>
       \/ /\ size > 0 /\ ~closed
          /\ size' = size - 1
          /\ cons' = [cons EXCEPT ![c] = "out"]
          /\ prod' \in NotifyOne(prod)
    /\ UNCHANGED <<closed, cleared>>

\* The time-out of a timed Pop passes while the consumer waits.
Expire(c) ==
    /\ cons[c] = "wait"
    /\ cons' = [cons EXCEPT ![c] = "expired"]
    /\ UNCHANGED <<size, closed, prod, cleared>>

\* A condition variable may wake a thread that nobody notified.
SpuriousWakeup ==
    \/ /\ \E p \in Waiting(prod) : prod' = [prod EXCEPT ![p] = "woken"]
       /\ UNCHANGED <<size, closed, cons, cleared>>
    \/ /\ \E c \in Waiting(cons) : cons' = [cons EXCEPT ![c] = "woken"]
       /\ UNCHANGED <<size, closed, prod, cleared>>

Flush ==
    /\ cons' \in NotifyOne(cons)
    /\ UNCHANGED <<size, closed, prod, cleared>>

\* Clear removes the elements and notifies nobody.
Clear ==
    /\ size' = 0
    /\ cleared' = TRUE
    /\ UNCHANGED <<closed, prod, cons>>

\* Defect: the waiting consumers are not notified.
CloseWithoutNotify ==
    /\ size' = 0
    /\ closed' = TRUE
    /\ prod' = NotifyAll(prod)
    /\ UNCHANGED <<cons, cleared>>

Close ==
    /\ size' = 0
    /\ closed' = TRUE
    /\ prod' = NotifyAll(prod)
    /\ cons' = NotifyAll(cons)
    /\ UNCHANGED cleared

Next ==
    \/ \E p \in Producers : Push(p)
    \/ \E c \in Consumers : Pop(c) \/ Expire(c)
    \/ SpuriousWakeup \/ Flush \/ Clear \/ Close

Spec == Init /\ [][Next]_vars

\* A woken thread is scheduled and gets the mutex.  Nothing obliges a thread
\* to begin a call, a wait to expire or a condition variable to misfire.
Fairness ==
    /\ \A p \in Producers : WF_vars(prod[p] = "woken" /\ Push(p))
    /\ \A c \in Consumers : WF_vars(cons[c] \in {"woken", "expired"} /\ Pop(c))

FairSpec == Spec /\ Fairness

-----------------------------------------------------------------------------
(* Properties.                                                             *)

\* Full() asserts it: no interleaving of woken and newly arrived producers
\* overfills the queue.
WithinCapacity == size <= Capacity

\* No lost wake-up of a consumer: while one of them sleeps in an open queue,
\* every element has a woken consumer on its way to it.
ConsumersNotified ==
    Waiting(cons) # {} /\ ~closed => size <= Cardinality(Woken(cons))

\* No lost wake-up of a producer: while one of them sleeps, every free place
\* has a woken producer on its way to it, unless Clear made the places.
ProducersNotified ==
    Waiting(prod) # {} /\ ~cleared => Capacity - size <= Cardinality(Woken(prod))

\* Nobody sleeps in Pop on a closed queue: Close wakes every consumer, and
\* the predicate keeps those that come later from waiting.
NoConsumerSleepsInClosed == closed => Waiting(cons) = {}

\* Pop returns once the queue is closed.
CloseReleasesConsumers ==
    \A c \in Consumers : closed /\ cons[c] # "out" ~> cons[c] = "out"

\* A producer that sleeps does not stay there beside a free place that Pop or
\* Close made: it completes its push, or others fill the queue first.
PushGetsSpace ==
    \A p \in Producers :
        prod[p] = "wait" /\ size < Capacity ~> prod[p] # "wait" \/ size = Capacity \/ cleared
=============================================================================
