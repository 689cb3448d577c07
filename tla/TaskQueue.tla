----------------------------- MODULE TaskQueue -----------------------------
(***************************************************************************)
(* What a thread pool promises to the server: tasks are started in the     *)
(* order they were pushed, each once, none while the pool is closed, and   *)
(* the tasks that remain when it is closed are never executed.             *)
(***************************************************************************)
EXTENDS Sequences

CONSTANT Tasks
VARIABLES open, queue, running

qvars == <<open, queue, running>>

Init == open = FALSE /\ queue = <<>> /\ running = {}

Push(t) ==
    /\ open /\ t \notin running
    /\ queue' = Append(queue, t)
    /\ UNCHANGED <<open, running>>

Begin ==
    /\ open /\ queue # <<>> /\ Head(queue) \notin running
    /\ running' = running \cup {Head(queue)}
    /\ queue' = Tail(queue)
    /\ UNCHANGED open

Finish(t) ==
    /\ t \in running
    /\ running' = running \ {t}
    /\ UNCHANGED <<open, queue>>

Open == ~open /\ open' = TRUE /\ UNCHANGED <<queue, running>>

Close ==
    /\ open /\ open' = FALSE
    /\ queue' = <<>>
    /\ UNCHANGED running

Next == Begin \/ Open \/ Close \/ \E t \in Tasks : Push(t) \/ Finish(t)

Spec == Init /\ [][Next]_qvars
=============================================================================
