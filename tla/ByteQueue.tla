----------------------------- MODULE ByteQueue -----------------------------
(***************************************************************************)
(* What a Buffer promises its users: a queue of bytes, put at one end and  *)
(* taken from the other.  op is the last call with the bytes it carried.   *)
(***************************************************************************)
EXTENDS Naturals, Sequences

CONSTANT Byte

VARIABLES queue, op

NoCall == [call |-> "none", bytes |-> <<>>]

Init == queue = <<>> /\ op = NoCall

Put(bytes) ==
    /\ queue' = queue \o bytes
    /\ op' = [call |-> "put", bytes |-> bytes]

Take(n) ==
    /\ queue' = SubSeq(queue, n + 1, Len(queue))
    /\ op' = [call |-> "take", bytes |-> SubSeq(queue, 1, n)]

\* Making room does not touch what is stored.
Reserve ==
    /\ op' = [call |-> "reserve", bytes |-> <<>>]
    /\ UNCHANGED queue

\* The bytes of a call are those it reports: Put(op'.bytes) says which ones.
Next ==
    \/ op'.bytes \in Seq(Byte) /\ Put(op'.bytes)
    \/ Len(op'.bytes) <= Len(queue) /\ Take(Len(op'.bytes))
    \/ Reserve

Spec == Init /\ [][Next]_<<queue, op>>
=============================================================================
