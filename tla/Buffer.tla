------------------------------- MODULE Buffer -------------------------------
(***************************************************************************)
(* The auto-expandable buffer of include/containers/buffer.h and           *)
(* src/containers/buffer/buffer.cpp, with the I/O objects of src/io/io.cpp *)
(* that fill and empty it.                                                 *)
(*                                                                         *)
(* A buffer is one record, so that an operation which calls others is the  *)
(* composition of their effects.  One thread at a time uses a buffer.      *)
(***************************************************************************)
EXTENDS Integers, Sequences

CONSTANTS
    Byte, Zero,     \* the bytes, and the one that std::vector fills with
    InitialSize,    \* size of the constructor, 0 for a buffer made of bytes
    ExtSize,        \* size of the additional buffer of FileDescriptor::WriteTo
    Chunks,         \* bytes that callers put at once
    MaxReadable     \* bound: bytes that callers leave in the buffer

ASSUME ByteAssumption  == Zero \in Byte
ASSUME SizeAssumption  == InitialSize \in Nat /\ ExtSize \in Nat \ {0}
ASSUME ChunkAssumption == Chunks \subseteq Seq(Byte)
ASSUME BoundAssumption == MaxReadable \in Nat

VARIABLES
    mem,    \* buf_ as cells 0 .. size - 1, and the two positions
    peak,   \* history: the most bytes that were ever stored or asked room for
    op      \* the last call and the bytes that it carried

vars == <<mem, peak, op>>

BufferOf(size) ==
    [buf : [0 .. size - 1 -> Byte], size : {size}, read_pos : Nat, write_pos : Nat]

WellFormed(b) ==
    /\ b.size \in Nat /\ b \in BufferOf(b.size)
    /\ b.read_pos <= b.write_pos /\ b.write_pos <= b.size

TypeOK ==
    /\ WellFormed(mem)
    /\ peak \in Nat
    /\ op \in [call : {"none", "put", "take", "reserve"}, bytes : Seq(Byte)]

Init ==
    /\ mem = [buf |-> [i \in 0 .. InitialSize - 1 |-> Zero], size |-> InitialSize,
              read_pos |-> 0, write_pos |-> 0]
    /\ peak = 0
    /\ op = [call |-> "none", bytes |-> <<>>]

-----------------------------------------------------------------------------
WritableSize(b)    == b.size - b.write_pos
ReadableSize(b)    == b.write_pos - b.read_pos
PrependableSize(b) == b.read_pos

ReadableBytes(b) == [i \in 1 .. ReadableSize(b) |-> b.buf[b.read_pos + i - 1]]

\* std::copy of bytes to the cells from pos on.
Copy(b, bytes, pos) ==
    [b EXCEPT !.buf = [i \in 0 .. b.size - 1 |->
        IF i \in pos .. pos + Len(bytes) - 1 THEN bytes[i - pos + 1] ELSE b.buf[i]]]

HasWritten(b, n) == [b EXCEPT !.write_pos = b.write_pos + n]

\* buf_.resize(write_pos_ + n)
Resize(b, n) ==
    [b EXCEPT !.size = b.write_pos + n,
              !.buf = [i \in 0 .. b.write_pos + n - 1 |->
                          IF i < b.size THEN b.buf[i] ELSE Zero]]

\* Defect: the positions are moved without the bytes.
CompactPositions(b) == [b EXCEPT !.read_pos = 0, !.write_pos = ReadableSize(b)]

\* The readable bytes move to the front, over the bytes already retrieved.
Compact(b) ==
    [buf |-> Copy(b, ReadableBytes(b), 0).buf, size |-> b.size,
     read_pos |-> 0, write_pos |-> ReadableSize(b)]

\* Defect: the space in front of the readable bytes is never used again.
MakeSpaceAtEnd(b, n) == Resize(b, n)

MakeSpace(b, n) ==
    IF WritableSize(b) + PrependableSize(b) < n THEN Resize(b, n) ELSE Compact(b)

EnsureWriteableSize(b, n) == IF WritableSize(b) < n THEN MakeSpace(b, n) ELSE b

AppendTo(b, bytes) ==
    IF bytes = <<>> THEN b
    ELSE LET room == EnsureWriteableSize(b, Len(bytes))
         IN  HasWritten(Copy(room, bytes, room.write_pos), Len(bytes))

\* readv into the writable space and then into the additional buffer, whose
\* part is appended.
Scatter(b, bytes) ==
    LET fit == IF Len(bytes) < WritableSize(b) THEN Len(bytes) ELSE WritableSize(b)
        own == HasWritten(Copy(b, SubSeq(bytes, 1, fit), b.write_pos), fit)
    IN  AppendTo(own, SubSeq(bytes, fit + 1, Len(bytes)))

-----------------------------------------------------------------------------
Report(call, bytes) == op' = [call |-> call, bytes |-> bytes]

\* What is stored, or was asked for, beside n more bytes.
Needs(n) == peak' = IF ReadableSize(mem) + n > peak THEN ReadableSize(mem) + n ELSE peak

\* Append in its four forms, operator<<, and StringStream::WriteTo.
AppendBytes(bytes) ==
    /\ ReadableSize(mem) + Len(bytes) <= MaxReadable
    /\ mem' = AppendTo(mem, bytes)
    /\ Needs(Len(bytes)) /\ Report("put", bytes)

Reserve(n) ==
    /\ ReadableSize(mem) + n <= MaxReadable
    /\ mem' = EnsureWriteableSize(mem, n)
    /\ Needs(n) /\ Report("reserve", <<>>)

\* A caller writes to WritableBytes and calls HasWritten; it may write no more
\* than the span holds.
WriteInPlace(bytes) ==
    /\ Len(bytes) <= WritableSize(mem)
    /\ ReadableSize(mem) + Len(bytes) <= MaxReadable
    /\ mem' = HasWritten(Copy(mem, bytes, mem.write_pos), Len(bytes))
    /\ Needs(Len(bytes)) /\ Report("put", bytes)

\* Null::WriteTo hands out the writable space as it is.
NullWriteTo ==
    /\ mem.size - mem.read_pos <= MaxReadable
    /\ mem' = HasWritten(mem, WritableSize(mem))
    /\ Needs(WritableSize(mem))
    /\ Report("put", [i \in 1 .. WritableSize(mem) |-> mem.buf[mem.write_pos + i - 1]])

\* IOBuffer::ReadFrom a descriptor; a read that fails throws and changes
\* nothing.
ReadFrom(bytes) ==
    /\ Len(bytes) <= WritableSize(mem) + ExtSize
    /\ ReadableSize(mem) + Len(bytes) <= MaxReadable
    /\ mem' = Scatter(mem, bytes)
    /\ Needs(Len(bytes)) /\ Report("put", bytes)

\* Retrieve and RetrieveUntil, by callers that respect their assertions, and
\* IOBuffer::WriteTo a descriptor that accepts n bytes.
Retrieve(n) ==
    /\ n <= ReadableSize(mem)
    /\ mem' = [mem EXCEPT !.read_pos = mem.read_pos + n]
    /\ Report("take", SubSeq(ReadableBytes(mem), 1, n))
    /\ UNCHANGED peak

\* Clear, RetrieveAll and RetrieveAllToString, and the I/O objects that take
\* everything.
Clear ==
    /\ mem' = [mem EXCEPT !.read_pos = 0, !.write_pos = 0]
    /\ Report("take", ReadableBytes(mem))
    /\ UNCHANGED peak

Next ==
    \/ \E bytes \in Chunks : AppendBytes(bytes) \/ WriteInPlace(bytes) \/ ReadFrom(bytes)
    \/ \E n \in 0 .. MaxReadable : Reserve(n) \/ Retrieve(n)
    \/ NullWriteTo \/ Clear

Spec == Init /\ [][Next]_vars

-----------------------------------------------------------------------------
(* Properties.                                                             *)

\* Whatever the positions, resizing and compacting do, the readable bytes are
\* those put and not yet taken, in their order.
Queue == INSTANCE ByteQueue WITH queue <- ReadableBytes(mem), op <- op
ImplementsQueue == Queue!Spec

\* Prependable space is reused (buffer.h): a buffer that passes any number of
\* bytes grows to less than twice the most it had to hold at once.
BoundedGrowth == mem.size <= InitialSize \/ mem.size < 2 * peak
=============================================================================
