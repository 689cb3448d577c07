----------------------------- MODULE HeapTimer -----------------------------
(***************************************************************************)
(* The timer of include/containers/heap_timer.h: a binary heap of nodes    *)
(* and a map from keys to the positions of their nodes.                    *)
(*                                                                         *)
(* Positions count from 1 here and from 0 in the code.  A callback is not  *)
(* represented but for what it does to the timer; Tick removes a node      *)
(* before it calls the callback, so that a callback of Tick is any further *)
(* operation.                                                              *)
(***************************************************************************)
EXTENDS Integers, Sequences

CONSTANTS
    Keys,
    Times           \* time points a caller may ask for

ASSUME TimesAssumption == Times \subseteq Nat /\ 0 \in Times

VARIABLES
    nodes,      \* nodes_
    index,      \* key_to_idx_
    now,        \* Clock::now()
    interval,   \* what the last call of ToNextTick returned, -1 before
    fired,      \* the key Tick has just popped, if no other call came since
    aborted     \* an assertion has failed

vars == <<nodes, index, now, interval, fired, aborted>>
heap == [nodes |-> nodes, index |-> index]

Node == [key : Keys, expiration : Nat]

TypeOK ==
    /\ nodes \in Seq(Node)
    /\ DOMAIN index \subseteq Keys /\ \A k \in DOMAIN index : index[k] \in Nat
    /\ now \in Nat /\ interval \in Int /\ fired \subseteq Keys /\ aborted \in BOOLEAN

Empty == [nodes |-> <<>>, index |-> [k \in {} |-> 0]]

Init ==
    /\ nodes = Empty.nodes /\ index = Empty.index
    /\ now = 0 /\ interval = -1 /\ fired = {} /\ aborted = FALSE

-----------------------------------------------------------------------------
(* Pure operations on a heap h = [nodes, index].                           *)

\* Defect: the map is not told of the new positions.
SwapNodesOnly(h, i, j) ==
    [h EXCEPT !.nodes = [h.nodes EXCEPT ![i] = h.nodes[j], ![j] = h.nodes[i]]]

Swap(h, i, j) ==
    LET ns == [h.nodes EXCEPT ![i] = h.nodes[j], ![j] = h.nodes[i]]
    IN  [nodes |-> ns, index |-> [h.index EXCEPT ![ns[i].key] = i, ![ns[j].key] = j]]

Valid(h, i)   == i \in 1 .. Len(h.nodes)
Before(h, i, j) == h.nodes[i].expiration < h.nodes[j].expiration
Parent(i)     == i \div 2
SmallChild(h, i) ==
    IF Valid(h, 2 * i + 1) /\ Before(h, 2 * i + 1, 2 * i) THEN 2 * i + 1 ELSE 2 * i

\* Defect: a node stops below its equals.
UpWhileSmaller(st) ==
    IF st.at # 1 /\ Before(st.h, st.at, Parent(st.at))
    THEN [h |-> Swap(st.h, Parent(st.at), st.at), at |-> Parent(st.at)]
    ELSE st

\* One iteration of the loops of ShiftUp and ShiftDown, from a heap and the
\* position of the node that moves.  A node is moved above its equals.
UpStep(st) ==
    IF st.at # 1 /\ ~Before(st.h, Parent(st.at), st.at)
    THEN [h |-> Swap(st.h, Parent(st.at), st.at), at |-> Parent(st.at)]
    ELSE st

DownStep(st) ==
    LET child == SmallChild(st.h, st.at) IN
    IF Valid(st.h, child) /\ Before(st.h, child, st.at)
    THEN [h |-> Swap(st.h, child, st.at), at |-> child]
    ELSE st

\* The loops end after at most as many iterations as the heap has nodes.
ShiftUp(h, i) ==
    LET after[n \in 0 .. Len(h.nodes)] ==
            IF n = 0 THEN [h |-> h, at |-> i] ELSE UpStep(after[n - 1])
    IN  after[Len(h.nodes)].h

ShiftDown(h, i) ==
    LET after[n \in 0 .. Len(h.nodes)] ==
            IF n = 0 THEN [h |-> h, at |-> i] ELSE DownStep(after[n - 1])
    IN  after[Len(h.nodes)].h

SetExpiration(h, i, e) == [h EXCEPT !.nodes[i].expiration = e]

AdjustNode(h, k, e) ==
    LET i == h.index[k]
        changed == SetExpiration(h, i, e)
    IN  IF e < h.nodes[i].expiration THEN ShiftUp(changed, i) ELSE ShiftDown(changed, i)

\* Defect: a new node stays at the bottom.
AppendWithoutShift(h, k, e) ==
    [nodes |-> Append(h.nodes, [key |-> k, expiration |-> e]),
     index |-> [j \in DOMAIN h.index \cup {k} |->
                   IF j = k THEN Len(h.nodes) + 1 ELSE h.index[j]]]

AppendNode(h, k, e) ==
    LET i == Len(h.nodes) + 1 IN
    ShiftUp([nodes |-> Append(h.nodes, [key |-> k, expiration |-> e]),
             index |-> [j \in DOMAIN h.index \cup {k} |-> IF j = k THEN i ELSE h.index[j]]], i)

\* RemoveByIndex gives the node the least time and lifts it to the top: the
\* assertion of the code that it is there is TopIs(...).
Lifted(h, i) == ShiftUp(SetExpiration(h, i, 0), i)
TopIs(h, k)  == h.nodes[1].key = k

\* Defect: the node that came to the top does not sink.
DropWithoutShift(h) ==
    LET n == Len(h.nodes)
        k == h.nodes[1].key
    IN  [nodes |-> [SubSeq(h.nodes, 1, n - 1) EXCEPT ![1] = h.nodes[n]],
         index |-> [j \in DOMAIN h.index \ {k} |->
                       IF j = h.nodes[n].key THEN 1 ELSE h.index[j]]]

\* The top and the last node change places, the last one is dropped and the
\* new top sinks.
DropTop(h) ==
    LET n == Len(h.nodes)
        k == h.nodes[1].key
        last == h.nodes[n].key
    IN  ShiftDown([nodes |-> [SubSeq(h.nodes, 1, n - 1) EXCEPT ![1] = h.nodes[n]],
                   index |-> [j \in DOMAIN h.index \ {k} |->
                                 IF j = last THEN h.index[k] ELSE h.index[j]]], 1)

RemoveByIndex(h, i) ==
    IF Len(h.nodes) = 1 THEN Empty ELSE DropTop(Lifted(h, i))

\* Whether RemoveByIndex(h, i) passes its assertions.
RemovalAsserts(h, i) ==
    /\ Valid(h, i)
    /\ Len(h.nodes) = 1 \/ TopIs(Lifted(h, i), h.nodes[i].key)

-----------------------------------------------------------------------------
Become(h) == nodes' = h.nodes /\ index' = h.index

\* Replaces the heap by h if the assertions hold, and aborts otherwise.
BecomeIf(asserts, h) ==
    /\ aborted' = ~asserts
    /\ IF asserts THEN Become(h) ELSE UNCHANGED <<nodes, index>>

Contain(k) == k \in DOMAIN index

Push(k, e) ==
    /\ Become(IF Contain(k) THEN AdjustNode(heap, k, e) ELSE AppendNode(heap, k, e))
    /\ fired' = {} /\ UNCHANGED <<now, interval, aborted>>

\* Adjust throws std::out_of_range, and changes nothing, for an unknown key.
Adjust(k, e) ==
    /\ Contain(k)
    /\ Become(AdjustNode(heap, k, e))
    /\ fired' = {} /\ UNCHANGED <<now, interval, aborted>>

Remove(k) ==
    /\ Contain(k)
    /\ BecomeIf(RemovalAsserts(heap, index[k]), RemoveByIndex(heap, index[k]))
    /\ fired' = {} /\ UNCHANGED <<now, interval>>

TopExpired == nodes # <<>> /\ nodes[1].expiration <= now

\* One iteration of Tick; its Pop removes the top node.
TickPop ==
    /\ TopExpired
    /\ BecomeIf(RemovalAsserts(heap, 1), RemoveByIndex(heap, 1))
    /\ fired' = {nodes[1].key} /\ UNCHANGED <<now, interval>>

\* Tick finds no expired node at the top; then ToNextTick reads the clock
\* again, which may have advanced.
ToNextTick ==
    /\ ~TopExpired
    /\ now' \in {now, now + 1} \cap Times
    /\ interval' = IF nodes # <<>> /\ nodes[1].expiration > now'
                   THEN nodes[1].expiration - now' ELSE 0
    /\ UNCHANGED <<nodes, index, fired, aborted>>

\* Invoke calls the callback in place, at a position that it keeps, and removes
\* what is at that position afterwards.  A callback must leave the timer alone
\* here: one that removed its own node would destroy itself while it runs.
Invoke(k) ==
    /\ Contain(k)
    /\ LET h == RemoveByIndex(heap, index[k])
       IN  BecomeIf(RemovalAsserts(heap, index[k]) /\ k \notin DOMAIN h.index, h)
    /\ fired' = {} /\ UNCHANGED <<now, interval>>

Clear ==
    /\ Become(Empty)
    /\ fired' = {} /\ UNCHANGED <<now, interval, aborted>>

Advance ==
    /\ now + 1 \in Times
    /\ now' = now + 1 /\ UNCHANGED <<nodes, index, interval, fired, aborted>>

\* An assertion that fails ends the process.
Next ==
    /\ ~aborted
    /\ \/ TickPop \/ ToNextTick \/ Clear \/ Advance
       \/ \E k \in Keys : \/ Remove(k) \/ Invoke(k)
                          \/ \E e \in Times : Push(k, e) \/ Adjust(k, e)

Spec == Init /\ [][Next]_vars

-----------------------------------------------------------------------------
(* Properties.                                                             *)

\* The map leads from every key to the one node that carries it; Size() and
\* Empty() assert a part of it.
IndexAgrees ==
    /\ \A k \in DOMAIN index : Valid(heap, index[k]) /\ nodes[index[k]].key = k
    /\ \A i \in 1 .. Len(nodes) : nodes[i].key \in DOMAIN index /\ index[nodes[i].key] = i

\* No assertion of the heap fails: RemoveByIndex finds the node it lifted at
\* the top, whatever ties there are, and positions stay valid.
NoAssertionFails == ~aborted

\* The heap behaves as a map from keys to times from which the earliest
\* expired key is taken first.
Queue == INSTANCE TimerQueue WITH
    expiry <- [k \in DOMAIN index |-> nodes[index[k]].expiration],
    time <- now

ImplementsQueue == Queue!Spec

\* The interval that ToNextTick returns ends when the earliest of all the
\* timers expires, and is zero if it has expired since: the main loop never
\* sleeps past a client's time-out.
IntervalReachesEarliest ==
    [][interval' # interval /\ nodes # <<>> =>
           interval' = IF Queue!Earliest > now' THEN Queue!Earliest - now' ELSE 0]_vars
=============================================================================
