---------------------------- MODULE BufferProofs ----------------------------
(* Proofs about Buffer, for any bytes and any sizes.                       *)
EXTENDS Buffer, SequenceTheorems, TLAPS

USE ByteAssumption, SizeAssumption, ChunkAssumption, BoundAssumption

-----------------------------------------------------------------------------
(* What the operations do to a buffer, seen as a queue.                    *)

\* A well-formed buffer, field by field.
LEMMA Fields ==
  ASSUME NEW b, WellFormed(b)
  PROVE  /\ b.size \in Nat /\ b.read_pos \in Nat /\ b.write_pos \in Nat
         /\ b.read_pos <= b.write_pos /\ b.write_pos <= b.size
         /\ b.buf \in [0 .. b.size - 1 -> Byte]
         /\ b = [buf |-> b.buf, size |-> b.size, read_pos |-> b.read_pos,
                 write_pos |-> b.write_pos]
  BY DEF WellFormed, BufferOf

\* A buffer whose fields are right is well-formed.
LEMMA Build ==
  ASSUME NEW n \in Nat, NEW r \in Nat, NEW w \in Nat, r <= w, w <= n,
         NEW f \in [0 .. n - 1 -> Byte]
  PROVE  WellFormed([buf |-> f, size |-> n, read_pos |-> r, write_pos |-> w])
  BY DEF WellFormed, BufferOf

\* The readable bytes of a well-formed buffer are a sequence of bytes.
LEMMA Readable ==
  ASSUME NEW b, WellFormed(b)
  PROVE  /\ ReadableSize(b) \in Nat /\ WritableSize(b) \in Nat /\ PrependableSize(b) \in Nat
         /\ ReadableBytes(b) \in Seq(Byte)
         /\ Len(ReadableBytes(b)) = ReadableSize(b)
         /\ \A i \in 1 .. ReadableSize(b) : ReadableBytes(b)[i] = b.buf[b.read_pos + i - 1]
<1>1. /\ b.size \in Nat /\ b.read_pos \in Nat /\ b.write_pos \in Nat
      /\ b.read_pos <= b.write_pos /\ b.write_pos <= b.size
      /\ b.buf \in [0 .. b.size - 1 -> Byte]
  BY Fields
<1>2. ReadableSize(b) \in Nat /\ WritableSize(b) \in Nat /\ PrependableSize(b) \in Nat
  BY <1>1 DEF ReadableSize, WritableSize, PrependableSize
<1>3. \A i \in 1 .. ReadableSize(b) : b.buf[b.read_pos + i - 1] \in Byte
  BY SMTT(30), <1>1 DEF ReadableSize
<1> QED
  BY <1>2, <1>3 DEF ReadableBytes

\* Copying bytes to writable cells changes these cells only.
LEMMA CopyCells ==
  ASSUME NEW b, WellFormed(b), NEW bytes \in Seq(Byte), NEW pos \in Nat,
         pos + Len(bytes) <= b.size
  PROVE  /\ WellFormed(Copy(b, bytes, pos))
         /\ Copy(b, bytes, pos).size = b.size
         /\ Copy(b, bytes, pos).read_pos = b.read_pos
         /\ Copy(b, bytes, pos).write_pos = b.write_pos
         /\ \A i \in 0 .. b.size - 1 : Copy(b, bytes, pos).buf[i] =
                IF i \in pos .. pos + Len(bytes) - 1 THEN bytes[i - pos + 1] ELSE b.buf[i]
<1> DEFINE f == [i \in 0 .. b.size - 1 |->
                   IF i \in pos .. pos + Len(bytes) - 1 THEN bytes[i - pos + 1] ELSE b.buf[i]]
<1>1. /\ b.size \in Nat /\ b.read_pos \in Nat /\ b.write_pos \in Nat
      /\ b.read_pos <= b.write_pos /\ b.write_pos <= b.size
      /\ b.buf \in [0 .. b.size - 1 -> Byte]
      /\ b = [buf |-> b.buf, size |-> b.size, read_pos |-> b.read_pos,
              write_pos |-> b.write_pos]
  BY Fields
<1>2. f \in [0 .. b.size - 1 -> Byte]
  BY <1>1
<1>3. \A i \in 0 .. b.size - 1 : f[i] =
        IF i \in pos .. pos + Len(bytes) - 1 THEN bytes[i - pos + 1] ELSE b.buf[i]
  OBVIOUS
<1>4. Copy(b, bytes, pos) = [b EXCEPT !.buf = f]
  BY DEF Copy
<1> HIDE DEF f
<1>5. Copy(b, bytes, pos) = [buf |-> f, size |-> b.size, read_pos |-> b.read_pos,
                             write_pos |-> b.write_pos]
  BY <1>1, <1>4
<1>6. WellFormed(Copy(b, bytes, pos))
  BY <1>1, <1>2, <1>5, Build
<1> QED
  BY <1>5, <1>6, <1>3

\* Bytes copied behind the readable ones and counted are appended to them.
LEMMA WriteBytes ==
  ASSUME NEW b, WellFormed(b), NEW bytes \in Seq(Byte), Len(bytes) <= WritableSize(b)
  PROVE  LET c == HasWritten(Copy(b, bytes, b.write_pos), Len(bytes))
         IN  /\ WellFormed(c)
             /\ ReadableBytes(c) = ReadableBytes(b) \o bytes
             /\ c.size = b.size
             /\ ReadableSize(c) = ReadableSize(b) + Len(bytes)
             /\ WritableSize(c) = WritableSize(b) - Len(bytes)
<1> DEFINE d == Copy(b, bytes, b.write_pos)
           c == HasWritten(d, Len(bytes))
<1>1. /\ b.size \in Nat /\ b.read_pos \in Nat /\ b.write_pos \in Nat
      /\ b.read_pos <= b.write_pos /\ b.write_pos + Len(bytes) <= b.size /\ Len(bytes) \in Nat
  BY Fields DEF WritableSize
<1>2. /\ WellFormed(d) /\ d.size = b.size /\ d.read_pos = b.read_pos /\ d.write_pos = b.write_pos
      /\ \A i \in 0 .. b.size - 1 : d.buf[i] =
            IF i \in b.write_pos .. b.write_pos + Len(bytes) - 1
            THEN bytes[i - b.write_pos + 1] ELSE b.buf[i]
  BY <1>1, CopyCells
<1>3. /\ d.buf \in [0 .. b.size - 1 -> Byte]
      /\ d = [buf |-> d.buf, size |-> b.size, read_pos |-> b.read_pos, write_pos |-> b.write_pos]
  BY <1>2, Fields
<1> HIDE DEF d
<1>4. c = [buf |-> d.buf, size |-> b.size, read_pos |-> b.read_pos,
           write_pos |-> b.write_pos + Len(bytes)]
  BY SMTT(30), <1>3 DEF HasWritten
<1>5. WellFormed(c)
  <2>1. b.write_pos + Len(bytes) \in Nat /\ b.read_pos <= b.write_pos + Len(bytes)
    BY <1>1
  <2> QED
    BY <1>1, <1>3, <1>4, <2>1, Build
<1>6. /\ c.buf = d.buf /\ c.size = b.size /\ c.read_pos = b.read_pos
      /\ c.write_pos = b.write_pos + Len(bytes)
  BY <1>4
<1> HIDE DEF c
<1>7. /\ ReadableSize(c) = ReadableSize(b) + Len(bytes)
      /\ WritableSize(c) = WritableSize(b) - Len(bytes)
  BY <1>1, <1>6 DEF ReadableSize, WritableSize
<1>8. /\ ReadableBytes(c) \in Seq(Byte) /\ Len(ReadableBytes(c)) = ReadableSize(c)
      /\ \A i \in 1 .. ReadableSize(c) : ReadableBytes(c)[i] = c.buf[c.read_pos + i - 1]
  BY <1>5, Readable
<1>9. /\ ReadableBytes(b) \in Seq(Byte) /\ Len(ReadableBytes(b)) = ReadableSize(b)
      /\ ReadableSize(b) \in Nat
      /\ \A i \in 1 .. ReadableSize(b) : ReadableBytes(b)[i] = b.buf[b.read_pos + i - 1]
  BY Readable
<1>10. \A i \in 1 .. ReadableSize(c) : ReadableBytes(c)[i] =
          IF i <= ReadableSize(b) THEN ReadableBytes(b)[i] ELSE bytes[i - ReadableSize(b)]
  <2> SUFFICES ASSUME NEW i \in 1 .. ReadableSize(c)
               PROVE  ReadableBytes(c)[i] = IF i <= ReadableSize(b) THEN ReadableBytes(b)[i]
                                            ELSE bytes[i - ReadableSize(b)]
    OBVIOUS
  <2>1. ReadableBytes(c)[i] = d.buf[b.read_pos + i - 1]
    BY <1>6, <1>8
  <2>2. b.read_pos + i - 1 \in 0 .. b.size - 1
    BY <1>1, <1>7 DEF ReadableSize
  <2>3. CASE i <= ReadableSize(b)
    <3>1. i \in 1 .. ReadableSize(b) /\ b.read_pos + i - 1 < b.write_pos
      BY <1>1, <1>9, <2>3 DEF ReadableSize
    <3>2. d.buf[b.read_pos + i - 1] = b.buf[b.read_pos + i - 1]
      BY SMTT(30), <1>1, <1>2, <2>2, <3>1
    <3> QED
      BY <1>9, <2>1, <2>3, <3>1, <3>2
  <2>4. CASE ~(i <= ReadableSize(b))
    <3>1. b.read_pos + i - 1 \in b.write_pos .. b.write_pos + Len(bytes) - 1
      BY <1>1, <1>7, <2>4 DEF ReadableSize
    <3>2. d.buf[b.read_pos + i - 1] = bytes[(b.read_pos + i - 1) - b.write_pos + 1]
      BY <1>2, <2>2, <3>1
    <3>3. (b.read_pos + i - 1) - b.write_pos + 1 = i - ReadableSize(b)
      BY <1>1 DEF ReadableSize
    <3> QED
      BY <2>1, <2>4, <3>2, <3>3
  <2> QED
    BY <2>3, <2>4
<1>11. ReadableBytes(c) = ReadableBytes(b) \o bytes
  <2>1. /\ ReadableBytes(b) \o bytes \in Seq(Byte)
        /\ Len(ReadableBytes(b) \o bytes) = ReadableSize(c)
        /\ \A i \in 1 .. ReadableSize(c) : (ReadableBytes(b) \o bytes)[i] =
              IF i <= ReadableSize(b) THEN ReadableBytes(b)[i] ELSE bytes[i - ReadableSize(b)]
    <3> DEFINE q == ReadableBytes(b)
    <3>1. q \in Seq(Byte)
      BY <1>9
    <3> HIDE DEF q
    <3>2. /\ q \o bytes \in Seq(Byte) /\ Len(q \o bytes) = Len(q) + Len(bytes)
          /\ \A i \in 1 .. Len(q) + Len(bytes) : (q \o bytes)[i] =
                IF i <= Len(q) THEN q[i] ELSE bytes[i - Len(q)]
      BY <3>1, ConcatProperties
    <3>3. Len(q) = ReadableSize(b)
      BY <1>9 DEF q
    <3> QED
      BY <1>7, <3>2, <3>3 DEF q
  <2>2. \A i \in 1 .. Len(ReadableBytes(c)) : ReadableBytes(c)[i] = (ReadableBytes(b) \o bytes)[i]
    BY <1>8, <1>10, <2>1
  <2> QED
    BY <1>8, <2>1, <2>2, SeqEqual
<1> QED
  BY <1>5, <1>6, <1>7, <1>11 DEF c, d

\* Two buffers that hold the same bytes at other places have the same
\* readable bytes.
LEMMA SameBytes ==
  ASSUME NEW b, WellFormed(b), NEW c, WellFormed(c), ReadableSize(c) = ReadableSize(b),
         \A i \in 1 .. ReadableSize(b) : c.buf[c.read_pos + i - 1] = b.buf[b.read_pos + i - 1]
  PROVE  ReadableBytes(c) = ReadableBytes(b)
<1>1. /\ ReadableBytes(b) \in Seq(Byte) /\ Len(ReadableBytes(b)) = ReadableSize(b)
      /\ \A i \in 1 .. ReadableSize(b) : ReadableBytes(b)[i] = b.buf[b.read_pos + i - 1]
  BY Readable
<1>2. /\ ReadableBytes(c) \in Seq(Byte) /\ Len(ReadableBytes(c)) = ReadableSize(c)
      /\ \A i \in 1 .. ReadableSize(c) : ReadableBytes(c)[i] = c.buf[c.read_pos + i - 1]
  BY Readable
<1>3. /\ Len(ReadableBytes(c)) = Len(ReadableBytes(b))
      /\ \A i \in 1 .. Len(ReadableBytes(c)) : ReadableBytes(c)[i] = ReadableBytes(b)[i]
  BY <1>1, <1>2
<1> QED
  BY <1>1, <1>2, <1>3, SeqEqual

\* Resizing keeps the readable bytes and gives the room that was asked for.
LEMMA ResizeKeeps ==
  ASSUME NEW b, WellFormed(b), NEW n \in Nat, WritableSize(b) < n
  PROVE  /\ WellFormed(Resize(b, n))
         /\ ReadableBytes(Resize(b, n)) = ReadableBytes(b)
         /\ ReadableSize(Resize(b, n)) = ReadableSize(b)
         /\ WritableSize(Resize(b, n)) = n
         /\ Resize(b, n).size = b.write_pos + n
<1> DEFINE f == [i \in 0 .. b.write_pos + n - 1 |-> IF i < b.size THEN b.buf[i] ELSE Zero]
           c == Resize(b, n)
<1>1. /\ b.size \in Nat /\ b.read_pos \in Nat /\ b.write_pos \in Nat
      /\ b.read_pos <= b.write_pos /\ b.write_pos <= b.size
      /\ b.buf \in [0 .. b.size - 1 -> Byte]
      /\ b = [buf |-> b.buf, size |-> b.size, read_pos |-> b.read_pos,
              write_pos |-> b.write_pos]
  BY Fields
<1>2. f \in [0 .. b.write_pos + n - 1 -> Byte]
  BY <1>1
<1>3. \A i \in 0 .. b.write_pos + n - 1 : i < b.size => f[i] = b.buf[i]
  OBVIOUS
<1>4. c = [b EXCEPT !.size = b.write_pos + n, !.buf = f]
  BY DEF Resize
<1> HIDE DEF f
<1>5. c = [buf |-> f, size |-> b.write_pos + n, read_pos |-> b.read_pos,
           write_pos |-> b.write_pos]
  BY <1>1, <1>4
<1>6. b.write_pos + n \in Nat /\ b.write_pos <= b.write_pos + n
  BY <1>1
<1>7. WellFormed(c)
  BY <1>1, <1>2, <1>5, <1>6, Build
<1>8. /\ c.buf = f /\ c.size = b.write_pos + n /\ c.read_pos = b.read_pos
      /\ c.write_pos = b.write_pos
  BY <1>5
<1> HIDE DEF c
<1>9. ReadableSize(c) = ReadableSize(b) /\ WritableSize(c) = n
  BY <1>1, <1>8 DEF ReadableSize, WritableSize
<1>10. \A i \in 1 .. ReadableSize(b) : c.buf[c.read_pos + i - 1] = b.buf[b.read_pos + i - 1]
  <2> SUFFICES ASSUME NEW i \in 1 .. ReadableSize(b)
               PROVE  c.buf[c.read_pos + i - 1] = b.buf[b.read_pos + i - 1]
    OBVIOUS
  <2>1. b.read_pos + i - 1 \in 0 .. b.write_pos + n - 1 /\ b.read_pos + i - 1 < b.size
    BY <1>1 DEF ReadableSize
  <2> QED
    BY <1>3, <1>8, <2>1
<1>11. ReadableBytes(c) = ReadableBytes(b)
  BY <1>7, <1>9, <1>10, SameBytes
<1> QED
  BY <1>7, <1>8, <1>9, <1>11 DEF c

\* Moving the readable bytes to the front keeps them, and joins the
\* prependable space to the writable space.
LEMMA CompactKeeps ==
  ASSUME NEW b, WellFormed(b)
  PROVE  /\ WellFormed(Compact(b))
         /\ ReadableBytes(Compact(b)) = ReadableBytes(b)
         /\ ReadableSize(Compact(b)) = ReadableSize(b)
         /\ WritableSize(Compact(b)) = WritableSize(b) + PrependableSize(b)
         /\ Compact(b).size = b.size
<1> DEFINE q == ReadableBytes(b)
           d == Copy(b, q, 0)
           c == Compact(b)
<1>1. /\ b.size \in Nat /\ b.read_pos \in Nat /\ b.write_pos \in Nat
      /\ b.read_pos <= b.write_pos /\ b.write_pos <= b.size
  BY Fields
<1>2. /\ q \in Seq(Byte) /\ Len(q) = ReadableSize(b) /\ ReadableSize(b) \in Nat
      /\ \A i \in 1 .. ReadableSize(b) : q[i] = b.buf[b.read_pos + i - 1]
  BY Readable
<1> HIDE DEF q
<1>3. 0 + Len(q) <= b.size /\ ReadableSize(b) <= b.size
  BY <1>1, <1>2 DEF ReadableSize
<1>4. /\ WellFormed(d) /\ d.size = b.size
      /\ \A i \in 0 .. b.size - 1 : d.buf[i] =
            IF i \in 0 .. 0 + Len(q) - 1 THEN q[i - 0 + 1] ELSE b.buf[i]
  BY <1>1, <1>2, <1>3, CopyCells
<1>5. d.buf \in [0 .. b.size - 1 -> Byte]
  BY <1>4, Fields
<1>6. 0 \in Nat /\ 0 <= ReadableSize(b)
  BY <1>2
<1>7. c = [buf |-> d.buf, size |-> b.size, read_pos |-> 0, write_pos |-> ReadableSize(b)]
  BY DEF Compact, q
<1> HIDE DEF d, c
<1>8. WellFormed(c)
  BY <1>1, <1>2, <1>3, <1>5, <1>6, <1>7, Build
<1>9. /\ c.buf = d.buf /\ c.size = b.size /\ c.read_pos = 0 /\ c.write_pos = ReadableSize(b)
  BY <1>7
<1>10. /\ ReadableSize(c) = ReadableSize(b)
       /\ WritableSize(c) = WritableSize(b) + PrependableSize(b)
  BY <1>1, <1>9 DEF ReadableSize, WritableSize, PrependableSize
<1>11. \A i \in 1 .. ReadableSize(b) : c.buf[c.read_pos + i - 1] = b.buf[b.read_pos + i - 1]
  <2> SUFFICES ASSUME NEW i \in 1 .. ReadableSize(b)
               PROVE  c.buf[c.read_pos + i - 1] = b.buf[b.read_pos + i - 1]
    OBVIOUS
  <2>1. /\ i - 1 \in 0 .. b.size - 1 /\ i - 1 \in 0 .. 0 + Len(q) - 1
        /\ (i - 1) - 0 + 1 = i /\ 0 + i - 1 = i - 1
    BY <1>1, <1>2, <1>3
  <2>2. d.buf[i - 1] = q[i]
    BY <1>4, <2>1
  <2> QED
    BY <1>2, <1>9, <2>1, <2>2
<1>12. ReadableBytes(c) = ReadableBytes(b)
  BY <1>8, <1>10, <1>11, SameBytes
<1> QED
  BY <1>8, <1>9, <1>10, <1>12 DEF c

\* EnsureWriteableSize keeps its assertion and the readable bytes, and grows
\* the buffer only if there is too little space in all of it.
LEMMA EnsureKeeps ==
  ASSUME NEW b, WellFormed(b), NEW n \in Nat
  PROVE  /\ WellFormed(EnsureWriteableSize(b, n))
         /\ ReadableBytes(EnsureWriteableSize(b, n)) = ReadableBytes(b)
         /\ ReadableSize(EnsureWriteableSize(b, n)) = ReadableSize(b)
         /\ WritableSize(EnsureWriteableSize(b, n)) >= n
         /\ \/ EnsureWriteableSize(b, n).size = b.size
            \/ /\ b.size < ReadableSize(b) + n
               /\ EnsureWriteableSize(b, n).size = b.write_pos + n
<1> DEFINE e == EnsureWriteableSize(b, n)
<1>1. /\ b.size \in Nat /\ b.read_pos \in Nat /\ b.write_pos \in Nat
      /\ b.read_pos <= b.write_pos /\ b.write_pos <= b.size
  BY Fields
<1>2. ReadableSize(b) \in Nat /\ WritableSize(b) \in Nat /\ PrependableSize(b) \in Nat
  BY Readable
<1>3. CASE ~(WritableSize(b) < n)
  <2>1. e = b
    BY <1>3 DEF EnsureWriteableSize
  <2> QED
    BY <1>2, <1>3, <2>1
<1>4. CASE WritableSize(b) < n /\ WritableSize(b) + PrependableSize(b) < n
  <2>1. e = Resize(b, n)
    BY <1>4 DEF EnsureWriteableSize, MakeSpace
  <2>2. b.size < ReadableSize(b) + n
    BY <1>1, <1>4 DEF ReadableSize, WritableSize, PrependableSize
  <2> QED
    BY <1>4, <2>1, <2>2, ResizeKeeps
<1>5. CASE WritableSize(b) < n /\ ~(WritableSize(b) + PrependableSize(b) < n)
  <2>1. e = Compact(b)
    BY <1>5 DEF EnsureWriteableSize, MakeSpace
  <2> QED
    BY <1>2, <1>5, <2>1, CompactKeeps
<1> QED
  BY <1>3, <1>4, <1>5

\* Append puts the bytes behind the readable ones, whatever space it finds.
LEMMA AppendPuts ==
  ASSUME NEW b, WellFormed(b), NEW bytes \in Seq(Byte)
  PROVE  /\ WellFormed(AppendTo(b, bytes))
         /\ ReadableBytes(AppendTo(b, bytes)) = ReadableBytes(b) \o bytes
         /\ \/ AppendTo(b, bytes).size = b.size
            \/ /\ b.size < ReadableSize(b) + Len(bytes)
               /\ AppendTo(b, bytes).size = b.write_pos + Len(bytes)
<1>1. CASE bytes = <<>>
  <2>1. AppendTo(b, bytes) = b
    BY <1>1 DEF AppendTo
  <2>2. ReadableBytes(b) \in Seq(Byte)
    BY Readable
  <2>3. ReadableBytes(b) \o bytes = ReadableBytes(b)
    BY <1>1, <2>2, ConcatEmptySeq
  <2> QED
    BY <2>1, <2>3
<1>2. CASE bytes # <<>>
  <2> DEFINE room == EnsureWriteableSize(b, Len(bytes))
             c    == HasWritten(Copy(room, bytes, room.write_pos), Len(bytes))
  <2>1. Len(bytes) \in Nat
    OBVIOUS
  <2>2. /\ WellFormed(room) /\ ReadableBytes(room) = ReadableBytes(b)
        /\ WritableSize(room) >= Len(bytes)
        /\ \/ room.size = b.size
           \/ b.size < ReadableSize(b) + Len(bytes) /\ room.size = b.write_pos + Len(bytes)
    BY <2>1, EnsureKeeps
  <2>3. WritableSize(room) \in Nat
    BY <2>2, Readable
  <2>4. AppendTo(b, bytes) = c
    BY <1>2 DEF AppendTo
  <2> HIDE DEF room
  <2>5. Len(bytes) <= WritableSize(room)
    BY <2>1, <2>2, <2>3
  <2>6. WellFormed(c) /\ ReadableBytes(c) = ReadableBytes(room) \o bytes /\ c.size = room.size
    BY <2>2, <2>5, WriteBytes
  <2> QED
    BY <2>2, <2>4, <2>6
<1> QED
  BY <1>1, <1>2

\* The part of a sequence up to a position and the part behind it.
LEMMA SplitAt ==
  ASSUME NEW s \in Seq(Byte), NEW n \in 0 .. Len(s)
  PROVE  /\ SubSeq(s, 1, n) \in Seq(Byte) /\ Len(SubSeq(s, 1, n)) = n
         /\ SubSeq(s, n + 1, Len(s)) \in Seq(Byte) /\ Len(SubSeq(s, n + 1, Len(s))) = Len(s) - n
         /\ SubSeq(s, 1, n) \o SubSeq(s, n + 1, Len(s)) = s
<1>1. 1 \in 1 .. Len(s) + 1 /\ n \in 1 - 1 .. Len(s) /\ Len(s) \in n .. Len(s) /\ Len(s) \in Nat
  OBVIOUS
<1>2. SubSeq(s, 1, n) \o SubSeq(s, n + 1, Len(s)) = SubSeq(s, 1, Len(s))
  BY <1>1, ConcatAdjacentSubSeq
<1>3. SubSeq(s, 1, Len(s)) = s
  BY SubSeqFull
<1>4. SubSeq(s, 1, n) \in Seq(Byte) /\ Len(SubSeq(s, 1, n)) = n
  <2>1. \A i \in 1 .. n : s[i] \in Byte
    BY <1>1, ElementOfSeq
  <2> QED
    BY <2>1, SubSeqProperties
<1>5. SubSeq(s, n + 1, Len(s)) \in Seq(Byte) /\ Len(SubSeq(s, n + 1, Len(s))) = Len(s) - n
  <2>1. n + 1 \in Int /\ \A i \in n + 1 .. Len(s) : s[i] \in Byte
    BY <1>1, ElementOfSeq
  <2>2. /\ SubSeq(s, n + 1, Len(s)) \in Seq(Byte)
        /\ Len(SubSeq(s, n + 1, Len(s))) =
             IF n + 1 <= Len(s) THEN Len(s) - (n + 1) + 1 ELSE 0
    BY <1>1, <2>1, SubSeqProperties
  <2> QED
    BY <1>1, <2>2
<1> QED
  BY <1>2, <1>3, <1>4, <1>5

\* readv puts all its bytes behind the readable ones, although it writes them
\* to two places.
LEMMA ScatterPuts ==
  ASSUME NEW b, WellFormed(b), NEW bytes \in Seq(Byte)
  PROVE  /\ WellFormed(Scatter(b, bytes))
         /\ ReadableBytes(Scatter(b, bytes)) = ReadableBytes(b) \o bytes
         /\ \/ Scatter(b, bytes).size = b.size
            \/ /\ b.size < ReadableSize(b) + Len(bytes)
               /\ Scatter(b, bytes).size <= b.size + Len(bytes)
<1> DEFINE fit  == IF Len(bytes) < WritableSize(b) THEN Len(bytes) ELSE WritableSize(b)
           head == SubSeq(bytes, 1, fit)
           rest == SubSeq(bytes, fit + 1, Len(bytes))
           own  == HasWritten(Copy(b, head, b.write_pos), fit)
<1>1. /\ b.size \in Nat /\ b.read_pos \in Nat /\ b.write_pos \in Nat
      /\ b.read_pos <= b.write_pos /\ b.write_pos <= b.size
  BY Fields
<1>2. ReadableSize(b) \in Nat /\ WritableSize(b) \in Nat /\ ReadableBytes(b) \in Seq(Byte)
  BY Readable
<1>3. fit \in 0 .. Len(bytes) /\ fit <= WritableSize(b)
  BY <1>2
<1>4. Scatter(b, bytes) = AppendTo(own, rest)
  BY DEF Scatter
<1> HIDE DEF fit
<1>5. /\ head \in Seq(Byte) /\ Len(head) = fit
      /\ rest \in Seq(Byte) /\ Len(rest) = Len(bytes) - fit /\ head \o rest = bytes
  BY <1>3, SplitAt
<1> HIDE DEF head, rest
<1>6. own = HasWritten(Copy(b, head, b.write_pos), Len(head))
  BY <1>5
<1> HIDE DEF own
<1>7. /\ WellFormed(own) /\ ReadableBytes(own) = ReadableBytes(b) \o head
      /\ own.size = b.size /\ ReadableSize(own) = ReadableSize(b) + fit
  BY <1>3, <1>5, <1>6, WriteBytes
<1>8. /\ WellFormed(AppendTo(own, rest))
      /\ ReadableBytes(AppendTo(own, rest)) = ReadableBytes(own) \o rest
      /\ \/ AppendTo(own, rest).size = own.size
         \/ /\ own.size < ReadableSize(own) + Len(rest)
            /\ AppendTo(own, rest).size = own.write_pos + Len(rest)
  BY <1>5, <1>7, AppendPuts
<1>9. (ReadableBytes(b) \o head) \o rest = ReadableBytes(b) \o bytes
  <2> DEFINE q == ReadableBytes(b)
  <2>1. q \in Seq(Byte) /\ head \in Seq(Byte) /\ rest \in Seq(Byte)
    BY <1>2, <1>5
  <2> HIDE DEF q
  <2>2. (q \o head) \o rest = q \o (head \o rest)
    BY <2>1, ConcatAssociative
  <2> QED
    BY <1>5, <2>2 DEF q
<1>10. own.write_pos \in Nat /\ own.write_pos <= own.size
  BY <1>7, Fields
<1>11. \/ AppendTo(own, rest).size = b.size
       \/ /\ b.size < ReadableSize(b) + Len(bytes)
          /\ AppendTo(own, rest).size <= b.size + Len(bytes)
  <2>1. Len(bytes) \in Nat /\ fit \in Nat /\ fit <= Len(bytes)
    BY <1>3
  <2>2. CASE AppendTo(own, rest).size = own.size
    BY <1>7, <2>2
  <2>3. CASE /\ own.size < ReadableSize(own) + Len(rest)
             /\ AppendTo(own, rest).size = own.write_pos + Len(rest)
    <3>1. ReadableSize(own) + Len(rest) = ReadableSize(b) + Len(bytes)
      BY <1>2, <1>5, <1>7, <2>1
    <3>2. own.write_pos + Len(rest) <= b.size + Len(bytes)
      BY <1>1, <1>5, <1>7, <1>10, <2>1
    <3> QED
      BY <1>7, <2>3, <3>1, <3>2
  <2> QED
    BY <1>8, <2>2, <2>3
<1> QED
  BY <1>4, <1>7, <1>8, <1>9, <1>11

-----------------------------------------------------------------------------
(* The calls.                                                              *)

\* What a call that puts bytes does, however it finds the place for them.
Puts(bytes) ==
    /\ WellFormed(mem')
    /\ ReadableBytes(mem') = ReadableBytes(mem) \o bytes
    /\ op' = [call |-> "put", bytes |-> bytes]
    /\ \/ mem'.size = mem.size
       \/ /\ mem.size < ReadableSize(mem) + Len(bytes)
          /\ mem'.size <= mem.size + Len(bytes)

\* What a call that takes n bytes does.
Takes(n) ==
    /\ n \in 0 .. ReadableSize(mem)
    /\ WellFormed(mem')
    /\ ReadableBytes(mem') = SubSeq(ReadableBytes(mem), n + 1, ReadableSize(mem))
    /\ op' = [call |-> "take", bytes |-> SubSeq(ReadableBytes(mem), 1, n)]
    /\ mem'.size = mem.size /\ peak' = peak

\* What a call that asks for room does.
Reserves(n) ==
    /\ WellFormed(mem')
    /\ ReadableBytes(mem') = ReadableBytes(mem)
    /\ op' = [call |-> "reserve", bytes |-> <<>>]
    /\ \/ mem'.size = mem.size
       \/ /\ mem.size < ReadableSize(mem) + n
          /\ mem'.size <= mem.size + n

\* Append, writing in place, scattered reading and Null::WriteTo put bytes.
LEMMA PuttingCalls ==
  ASSUME WellFormed(mem)
  PROVE  /\ \A bytes \in Seq(Byte) :
              AppendBytes(bytes) \/ WriteInPlace(bytes) \/ ReadFrom(bytes) =>
                  Puts(bytes) /\ Needs(Len(bytes))
         /\ NullWriteTo => \E bytes \in Seq(Byte) : Puts(bytes) /\ Needs(Len(bytes))
<1>1. /\ mem.size \in Nat /\ mem.read_pos \in Nat /\ mem.write_pos \in Nat
      /\ mem.read_pos <= mem.write_pos /\ mem.write_pos <= mem.size
      /\ mem.buf \in [0 .. mem.size - 1 -> Byte]
  BY Fields
<1>2. WritableSize(mem) \in Nat
  BY Readable
<1>3. ASSUME NEW bytes \in Seq(Byte), AppendBytes(bytes)
      PROVE  Puts(bytes) /\ Needs(Len(bytes))
  <2>1. mem' = AppendTo(mem, bytes) /\ op' = [call |-> "put", bytes |-> bytes] /\ Needs(Len(bytes))
    BY <1>3 DEF AppendBytes, Report
  <2>2. mem.write_pos + Len(bytes) <= mem.size + Len(bytes)
    BY <1>1
  <2> QED
    BY <2>1, <2>2, AppendPuts DEF Puts
<1>4. ASSUME NEW bytes \in Seq(Byte), WriteInPlace(bytes)
      PROVE  Puts(bytes) /\ Needs(Len(bytes))
  <2>1. /\ mem' = HasWritten(Copy(mem, bytes, mem.write_pos), Len(bytes))
        /\ op' = [call |-> "put", bytes |-> bytes]
        /\ Len(bytes) <= WritableSize(mem) /\ Needs(Len(bytes))
    BY <1>4 DEF WriteInPlace, Report
  <2> QED
    BY <2>1, WriteBytes DEF Puts
<1>5. ASSUME NEW bytes \in Seq(Byte), ReadFrom(bytes)
      PROVE  Puts(bytes) /\ Needs(Len(bytes))
  <2>1. mem' = Scatter(mem, bytes) /\ op' = [call |-> "put", bytes |-> bytes] /\ Needs(Len(bytes))
    BY <1>5 DEF ReadFrom, Report
  <2> QED
    BY <2>1, ScatterPuts DEF Puts
<1>6. ASSUME NullWriteTo
      PROVE  \E bytes \in Seq(Byte) : Puts(bytes) /\ Needs(Len(bytes))
  <2> DEFINE bytes == [i \in 1 .. WritableSize(mem) |-> mem.buf[mem.write_pos + i - 1]]
             c     == Copy(mem, bytes, mem.write_pos)
  <2>1. \A i \in 1 .. WritableSize(mem) : mem.buf[mem.write_pos + i - 1] \in Byte
    BY <1>1 DEF WritableSize
  <2>2. /\ bytes \in Seq(Byte) /\ Len(bytes) = WritableSize(mem)
        /\ \A i \in 1 .. WritableSize(mem) : bytes[i] = mem.buf[mem.write_pos + i - 1]
    BY <1>2, <2>1
  <2>3. /\ mem' = HasWritten(mem, WritableSize(mem)) /\ Needs(WritableSize(mem))
        /\ op' = [call |-> "put", bytes |-> bytes]
    BY <1>6 DEF NullWriteTo, Report
  <2> HIDE DEF bytes
  <2>4. c = mem
    <3> DEFINE f == [i \in 0 .. mem.size - 1 |->
                       IF i \in mem.write_pos .. mem.write_pos + Len(bytes) - 1
                       THEN bytes[i - mem.write_pos + 1] ELSE mem.buf[i]]
    <3>1. ASSUME NEW i \in 0 .. mem.size - 1 PROVE f[i] = mem.buf[i]
      <4>1. CASE i \in mem.write_pos .. mem.write_pos + Len(bytes) - 1
        <5>1. /\ i - mem.write_pos + 1 \in 1 .. WritableSize(mem)
              /\ mem.write_pos + (i - mem.write_pos + 1) - 1 = i
          <6>1. Len(bytes) = mem.size - mem.write_pos
            BY <2>2 DEF WritableSize
          <6>2. WritableSize(mem) = mem.size - mem.write_pos
            BY DEF WritableSize
          <6> HIDE DEF f
          <6> QED
            BY SMTT(30), <1>1, <4>1, <6>1, <6>2
        <5> QED
          BY <2>2, <4>1, <5>1
      <4>2. CASE i \notin mem.write_pos .. mem.write_pos + Len(bytes) - 1
        BY <4>2
      <4> QED
        BY <4>1, <4>2
    <3>2. f = mem.buf
      BY <1>1, <3>1
    <3>3. c = [mem EXCEPT !.buf = f]
      BY DEF Copy
    <3> HIDE DEF f
    <3> QED
      BY <3>2, <3>3 DEF WellFormed, BufferOf
  <2>5. mem' = HasWritten(c, Len(bytes))
    BY <2>2, <2>3, <2>4
  <2>6. Len(bytes) <= WritableSize(mem)
    BY <1>2, <2>2
  <2>7. Puts(bytes) /\ Needs(Len(bytes))
    BY <2>2, <2>3, <2>5, <2>6, WriteBytes DEF Puts
  <2> QED
    BY <2>2, <2>7
<1> QED
  BY <1>3, <1>4, <1>5, <1>6

\* Retrieve and Clear take bytes from the front.
LEMMA TakingCalls ==
  ASSUME WellFormed(mem)
  PROVE  /\ \A n \in Nat : Retrieve(n) => Takes(n)
         /\ Clear => Takes(ReadableSize(mem))
<1> DEFINE q == ReadableBytes(mem)
<1>1. /\ mem.size \in Nat /\ mem.read_pos \in Nat /\ mem.write_pos \in Nat
      /\ mem.read_pos <= mem.write_pos /\ mem.write_pos <= mem.size
      /\ mem.buf \in [0 .. mem.size - 1 -> Byte]
      /\ mem = [buf |-> mem.buf, size |-> mem.size, read_pos |-> mem.read_pos,
                write_pos |-> mem.write_pos]
  BY Fields
<1>2. /\ ReadableSize(mem) \in Nat /\ q \in Seq(Byte) /\ Len(q) = ReadableSize(mem)
      /\ \A i \in 1 .. ReadableSize(mem) : q[i] = mem.buf[mem.read_pos + i - 1]
  BY Readable
<1> HIDE DEF q
\* A buffer that differs in its positions only.
<1>3. ASSUME NEW n \in 0 .. ReadableSize(mem), NEW c, WellFormed(c),
             ReadableSize(c) = ReadableSize(mem) - n,
             \A i \in 1 .. ReadableSize(c) : c.buf[c.read_pos + i - 1] = mem.buf[mem.read_pos + n + i - 1]
      PROVE  ReadableBytes(c) = SubSeq(q, n + 1, ReadableSize(mem))
  <2>1. /\ ReadableBytes(c) \in Seq(Byte) /\ Len(ReadableBytes(c)) = ReadableSize(c)
        /\ \A i \in 1 .. ReadableSize(c) : ReadableBytes(c)[i] = c.buf[c.read_pos + i - 1]
    BY <1>3, Readable
  <2> DEFINE t == SubSeq(q, n + 1, ReadableSize(mem))
  <2>2. t \in Seq(Byte) /\ Len(t) = ReadableSize(mem) - n
    BY <1>2, SplitAt
  <2>3. \A i \in 1 .. ReadableSize(mem) - n : t[i] = q[n + i]
    BY <1>2
  <2> HIDE DEF t
  <2>4. \A i \in 1 .. ReadableSize(mem) - n : n + i \in 1 .. ReadableSize(mem)
                                            /\ mem.read_pos + (n + i) - 1 = mem.read_pos + n + i - 1
    BY <1>1, <1>2
  <2>5. \A i \in 1 .. ReadableSize(mem) - n : t[i] = mem.buf[mem.read_pos + n + i - 1]
    BY <1>2, <2>3, <2>4
  <2>6. \A i \in 1 .. Len(ReadableBytes(c)) : ReadableBytes(c)[i] = t[i]
    BY <1>3, <2>1, <2>5
  <2>7. Len(ReadableBytes(c)) = Len(t)
    BY <1>3, <2>1, <2>2
  <2> QED
    BY <2>1, <2>2, <2>6, <2>7, SeqEqual DEF t
<1>4. ASSUME NEW n \in Nat, Retrieve(n) PROVE Takes(n)
  <2>1. /\ n \in 0 .. ReadableSize(mem) /\ mem' = [mem EXCEPT !.read_pos = mem.read_pos + n]
        /\ op' = [call |-> "take", bytes |-> SubSeq(q, 1, n)] /\ peak' = peak
    BY <1>2, <1>4 DEF Retrieve, Report, q
  <2>2. mem' = [buf |-> mem.buf, size |-> mem.size, read_pos |-> mem.read_pos + n,
                write_pos |-> mem.write_pos]
    BY <1>1, <2>1
  <2>3. mem.read_pos + n \in Nat /\ mem.read_pos + n <= mem.write_pos
    BY <1>1, <2>1 DEF ReadableSize
  <2>4. WellFormed(mem')
    BY <1>1, <2>2, <2>3, Build
  <2>5. /\ mem'.buf = mem.buf /\ mem'.size = mem.size /\ mem'.read_pos = mem.read_pos + n
        /\ mem'.write_pos = mem.write_pos
    BY <2>2
  <2>6. ReadableSize(mem') = ReadableSize(mem) - n
    BY <1>1, <2>1, <2>5 DEF ReadableSize
  <2>7. ReadableBytes(mem') = SubSeq(q, n + 1, ReadableSize(mem))
    BY <1>3, <2>1, <2>4, <2>5, <2>6
  <2> QED
    BY <2>1, <2>4, <2>5, <2>7 DEF Takes, q
<1>5. ASSUME Clear PROVE Takes(ReadableSize(mem))
  <2>1. /\ mem' = [mem EXCEPT !.read_pos = 0, !.write_pos = 0]
        /\ op' = [call |-> "take", bytes |-> q] /\ peak' = peak
    BY <1>5 DEF Clear, Report, q
  <2>2. mem' = [buf |-> mem.buf, size |-> mem.size, read_pos |-> 0, write_pos |-> 0]
    BY <1>1, <2>1
  <2>3. 0 \in Nat /\ 0 <= 0 /\ 0 <= mem.size /\ ReadableSize(mem) \in 0 .. ReadableSize(mem)
    BY <1>1, <1>2
  <2>4. WellFormed(mem')
    BY <1>1, <2>2, <2>3, Build
  <2>5. mem'.size = mem.size /\ mem'.read_pos = 0 /\ mem'.write_pos = 0
    BY <2>2
  <2>6. ReadableSize(mem') = 0 /\ ReadableSize(mem) - ReadableSize(mem) = 0
    BY <1>2, <2>5 DEF ReadableSize
  <2>7. ReadableBytes(mem') = SubSeq(q, ReadableSize(mem) + 1, ReadableSize(mem))
    BY <1>3, <2>3, <2>4, <2>6
  <2>8. q = SubSeq(q, 1, ReadableSize(mem))
    BY <1>2, SubSeqFull
  <2> QED
    BY <2>1, <2>3, <2>4, <2>5, <2>7, <2>8 DEF Takes, q
<1> QED
  BY <1>4, <1>5

\* Every call puts bytes, takes bytes or makes room.
LEMMA Calls ==
  ASSUME TypeOK, Next
  PROVE  \/ \E bytes \in Seq(Byte) : Puts(bytes) /\ Needs(Len(bytes))
         \/ \E n \in Nat : Takes(n)
         \/ \E n \in Nat : Reserves(n) /\ Needs(n)
<1>1. WellFormed(mem)
  BY DEF TypeOK
<1>2. ASSUME NEW bytes \in Chunks, AppendBytes(bytes) \/ WriteInPlace(bytes) \/ ReadFrom(bytes)
      PROVE  \E d \in Seq(Byte) : Puts(d) /\ Needs(Len(d))
  <2>1. bytes \in Seq(Byte)
    BY <1>2
  <2> QED
    BY <1>1, <1>2, <2>1, PuttingCalls
<1>3. ASSUME NEW n \in 0 .. MaxReadable, Reserve(n)
      PROVE  Reserves(n) /\ Needs(n)
  <2>1. /\ mem' = EnsureWriteableSize(mem, n) /\ Needs(n)
        /\ op' = [call |-> "reserve", bytes |-> <<>>]
    BY <1>3 DEF Reserve, Report
  <2>2. mem.write_pos + n <= mem.size + n /\ n \in Nat
    BY <1>1, Fields
  <2> QED
    BY <1>1, <2>1, <2>2, EnsureKeeps DEF Reserves
<1>4. ASSUME NEW n \in 0 .. MaxReadable, Retrieve(n)
      PROVE  Takes(n)
  BY <1>1, <1>4, TakingCalls
<1>5. ASSUME NullWriteTo
      PROVE  \E bytes \in Seq(Byte) : Puts(bytes) /\ Needs(Len(bytes))
  BY <1>1, <1>5, PuttingCalls
<1>6. ASSUME Clear PROVE Takes(ReadableSize(mem)) /\ ReadableSize(mem) \in Nat
  BY <1>1, <1>6, TakingCalls, Readable
<1>7. \A n \in 0 .. MaxReadable : n \in Nat
  OBVIOUS
<1> QED
  BY <1>2, <1>3, <1>4, <1>5, <1>6, <1>7 DEF Next

-----------------------------------------------------------------------------
(* The results.                                                            *)

Inv == TypeOK /\ BoundedGrowth

\* A new buffer satisfies the invariant.
LEMMA InvInit == Init => Inv
<1> SUFFICES ASSUME Init PROVE Inv
  OBVIOUS
<1> DEFINE f == [i \in 0 .. InitialSize - 1 |-> Zero]
<1>1. f \in [0 .. InitialSize - 1 -> Byte]
  OBVIOUS
<1>2. mem = [buf |-> f, size |-> InitialSize, read_pos |-> 0, write_pos |-> 0]
  BY DEF Init
<1> HIDE DEF f
<1>3. WellFormed(mem)
  BY <1>1, <1>2, Build
<1>4. mem.size <= InitialSize
  BY <1>2
<1> QED
  BY <1>3, <1>4 DEF Init, Inv, TypeOK, BoundedGrowth

\* A call that grows the buffer keeps it below twice the peak.
LEMMA Growth ==
  ASSUME Inv, NEW n \in Nat, Needs(n), mem'.size \in Nat,
         \/ mem'.size = mem.size
         \/ mem.size < ReadableSize(mem) + n /\ mem'.size <= mem.size + n
  PROVE  BoundedGrowth' /\ peak' \in Nat
<1>1. WellFormed(mem) /\ peak \in Nat
  BY DEF Inv, TypeOK
<1>2. ReadableSize(mem) \in Nat /\ mem.size \in Nat
  BY <1>1, Readable, Fields
<1>3. peak' \in Nat /\ peak' >= peak /\ peak' >= ReadableSize(mem) + n
  BY <1>1, <1>2 DEF Needs
<1>4. mem.size <= InitialSize \/ mem.size < 2 * peak
  BY DEF Inv, BoundedGrowth
<1>5. CASE mem'.size = mem.size
  BY <1>1, <1>2, <1>3, <1>4, <1>5 DEF BoundedGrowth
<1>6. CASE mem.size < ReadableSize(mem) + n /\ mem'.size <= mem.size + n
  <2>1. mem'.size < 2 * peak'
    BY <1>2, <1>3, <1>6
  <2> QED
    BY <1>3, <2>1 DEF BoundedGrowth
<1> QED
  BY <1>5, <1>6

\* Every call keeps the invariant.
LEMMA InvStep == Inv /\ [Next]_vars => Inv'
<1> SUFFICES ASSUME Inv, [Next]_vars PROVE Inv'
  OBVIOUS
<1>0. TypeOK /\ WellFormed(mem) /\ peak \in Nat
  BY DEF Inv, TypeOK
<1>1. ASSUME NEW bytes \in Seq(Byte), Puts(bytes), Needs(Len(bytes)) PROVE Inv'
  <2>1. WellFormed(mem') /\ op' = [call |-> "put", bytes |-> bytes]
    BY <1>1 DEF Puts
  <2>2. mem'.size \in Nat /\ Len(bytes) \in Nat
    BY <2>1, Fields
  <2>3. BoundedGrowth' /\ peak' \in Nat
    BY <1>1, <2>2, Growth DEF Puts
  <2> QED
    BY <2>1, <2>3 DEF Inv, TypeOK
<1>2. ASSUME NEW n \in Nat, Takes(n) PROVE Inv'
  <2>1. /\ WellFormed(mem') /\ n \in 0 .. ReadableSize(mem)
        /\ op' = [call |-> "take", bytes |-> SubSeq(ReadableBytes(mem), 1, n)]
        /\ mem'.size = mem.size /\ peak' = peak
    BY <1>2 DEF Takes
  <2>2. ReadableBytes(mem) \in Seq(Byte) /\ Len(ReadableBytes(mem)) = ReadableSize(mem)
    BY <1>0, Readable
  <2>3. SubSeq(ReadableBytes(mem), 1, n) \in Seq(Byte)
    BY <2>1, <2>2, SplitAt
  <2> QED
    BY <1>0, <2>1, <2>3 DEF Inv, TypeOK, BoundedGrowth
<1>3. ASSUME NEW n \in Nat, Reserves(n), Needs(n) PROVE Inv'
  <2>1. WellFormed(mem') /\ op' = [call |-> "reserve", bytes |-> <<>>]
    BY <1>3 DEF Reserves
  <2>2. mem'.size \in Nat
    BY <2>1, Fields
  <2>3. BoundedGrowth' /\ peak' \in Nat
    BY <1>3, <2>2, Growth DEF Reserves
  <2> QED
    BY <2>1, <2>3 DEF Inv, TypeOK
<1>4. CASE UNCHANGED vars
  BY <1>4 DEF vars, Inv, TypeOK, BoundedGrowth
<1> QED
  BY <1>0, <1>1, <1>2, <1>3, <1>4, Calls

\* The invariant holds in every reachable state.
LEMMA Invariance == Spec => []Inv
  BY InvInit, InvStep, PTL DEF Spec

\* The two positions stay in order and inside the storage: no assertion of
\* buffer.cpp fails.
THEOREM TypeCorrect == Spec => []TypeOK
<1>1. Inv => TypeOK
  BY DEF Inv
<1> QED
  BY <1>1, Invariance, PTL

\* A buffer never grows to twice what it had to hold at once, however many
\* bytes pass through it.
THEOREM SpaceIsReused == Spec => []BoundedGrowth
<1>1. Inv => BoundedGrowth
  BY DEF Inv
<1> QED
  BY <1>1, Invariance, PTL

\* The buffer implements the queue of bytes: no byte is lost, doubled, changed
\* or reordered by resizing, compacting and scattered reading.
THEOREM BufferIsQueue == Spec => ImplementsQueue
<1>1. Init => Queue!Init
  <2> SUFFICES ASSUME Init PROVE Queue!Init
    OBVIOUS
  <2>1. WellFormed(mem) /\ ReadableSize(mem) = 0
    BY InvInit DEF Inv, TypeOK, Init, ReadableSize
  <2>2. ReadableBytes(mem) \in Seq(Byte) /\ Len(ReadableBytes(mem)) = 0
    BY <2>1, Readable
  <2>3. ReadableBytes(mem) = <<>>
    BY <2>2, EmptySeq
  <2> QED
    BY <2>3 DEF Init, Queue!Init, Queue!NoCall
<1>2. Inv /\ [Next]_vars => [Queue!Next]_<<ReadableBytes(mem), op>>
  <2> SUFFICES ASSUME Inv, [Next]_vars PROVE [Queue!Next]_<<ReadableBytes(mem), op>>
    OBVIOUS
  <2>0. TypeOK /\ WellFormed(mem)
    BY DEF Inv, TypeOK
  <2>q. ReadableBytes(mem) \in Seq(Byte) /\ Len(ReadableBytes(mem)) = ReadableSize(mem)
    BY <2>0, Readable
  <2>1. ASSUME NEW bytes \in Seq(Byte), Puts(bytes) PROVE Queue!Next
    <3>1. /\ ReadableBytes(mem') = ReadableBytes(mem) \o bytes
          /\ op' = [call |-> "put", bytes |-> bytes]
      BY <2>1 DEF Puts
    <3>2. op'.bytes = bytes
      BY <3>1
    <3> QED
      BY <3>1, <3>2 DEF Queue!Next, Queue!Put
  <2>2. ASSUME NEW n \in Nat, Takes(n) PROVE Queue!Next
    <3>1. /\ n \in 0 .. ReadableSize(mem)
          /\ ReadableBytes(mem') = SubSeq(ReadableBytes(mem), n + 1, ReadableSize(mem))
          /\ op' = [call |-> "take", bytes |-> SubSeq(ReadableBytes(mem), 1, n)]
      BY <2>2 DEF Takes
    <3>2. Len(SubSeq(ReadableBytes(mem), 1, n)) = n
      BY <2>q, <3>1, SplitAt
    <3>3. Len(op'.bytes) = n
      BY <3>1, <3>2
    <3>4. Queue!Take(n) /\ n <= Len(ReadableBytes(mem))
      BY <2>q, <3>1 DEF Queue!Take
    <3> QED
      BY <3>3, <3>4 DEF Queue!Next
  <2>3. ASSUME NEW n \in Nat, Reserves(n) PROVE Queue!Next
    BY <2>3 DEF Reserves, Queue!Next, Queue!Reserve
  <2>4. CASE UNCHANGED vars
    BY <2>4 DEF vars, ReadableBytes, ReadableSize
  <2> QED
    BY <2>0, <2>1, <2>2, <2>3, <2>4, Calls
<1> QED
  BY <1>1, <1>2, Invariance, PTL DEF Spec, ImplementsQueue, Queue!Spec
=============================================================================
