------------------------ MODULE HttpConnectionProofs ------------------------
(* Proofs about HttpConnection, for any requests, files and sizes of them, *)
(* and about what the connection and the log do with texts (MCText), for   *)
(* texts of any length over any characters.                                *)
EXTENDS HttpConnection, MCText, WellFoundedInduction, SequenceTheorems, TLAPS

-----------------------------------------------------------------------------
(* Induction and concatenations.                                           *)

\* A set that has 0, and the successor of each of its numbers, has them all:
\* of the numbers that it lacks there would be a least one.
LEMMA Induction ==
  ASSUME NEW S, 0 \in S, \A n \in Nat : n \in S => n + 1 \in S
  PROVE  Nat \subseteq S
<1> SUFFICES ASSUME Nat \ S # {} PROVE FALSE
  OBVIOUS
<1> DEFINE Less == {p \in Nat \X Nat : p[1] < p[2]}
<1>1. Less = OpToRel(<, Nat)
  BY Zenon DEF OpToRel
<1>2. IsWellFoundedOn(OpToRel(<, Nat), Nat)
  BY NatLessThanWellFounded
<1>3. IsWellFoundedOn(Less, Nat)
  BY <1>1, <1>2, Zenon
<1> HIDE DEF Less
<1>4. PICK x \in Nat \ S : \A y \in Nat \ S : ~(<<y, x>> \in Less)
  <2>1. Nat \ S \subseteq Nat
    OBVIOUS
  <2> QED
    BY <1>3, <2>1, WFMin
<1>5. x \in Nat /\ x # 0 /\ x - 1 \in Nat /\ x - 1 < x /\ (x - 1) + 1 = x
  BY <1>4
<1>6. <<x - 1, x>> \in Less
  BY <1>5 DEF Less
<1>7. x - 1 \in S
  BY <1>4, <1>5, <1>6
<1> QED
  BY <1>4, <1>5, <1>7

\* The parts of a concatenation, as FlattenSeq adds them up.
Sums(f, s) ==
  f = [i \in 1 .. Len(s) |-> IF i = 1 THEN s[i] ELSE f[i - 1] \o s[i]]

\* There are such parts for every sequence.
LEMMA SumsExist ==
  ASSUME NEW X, NEW s \in Seq(X)
  PROVE  \E f : Sums(f, s)
<1> DEFINE Is(f, m) == f = [i \in 1 .. m |-> IF i = 1 THEN s[i] ELSE f[i - 1] \o s[i]]
           S == {m \in Nat : \E f : Is(f, m)}
<1>1. 0 \in S
  <2>1. Is([i \in 1 .. 0 |-> s[i]], 0)
    OBVIOUS
  <2> QED
    BY <2>1
<1>2. ASSUME NEW m \in Nat, m \in S PROVE m + 1 \in S
  <2>1. PICK f : Is(f, m)
    BY <1>2
  <2> DEFINE last == IF m = 0 THEN s[m + 1] ELSE f[m] \o s[m + 1]
             g == [i \in 1 .. m + 1 |-> IF i <= m THEN f[i] ELSE last]
  <2>2. \A i \in 1 .. m : f[i] = IF i = 1 THEN s[i] ELSE f[i - 1] \o s[i]
    BY <2>1
  <2>3. \A i \in 1 .. m + 1 : g[i] = IF i = 1 THEN s[i] ELSE g[i - 1] \o s[i]
    <3> TAKE i \in 1 .. m + 1
    <3>1. CASE i \in 1 .. m /\ i = 1
      BY <2>2, <3>1
    <3>2. CASE i \in 1 .. m /\ i # 1
      <4>1. i - 1 \in 1 .. m + 1 /\ i - 1 <= m /\ i <= m
        BY <3>2
      <4>2. g[i] = f[i] /\ g[i - 1] = f[i - 1]
        BY <4>1
      <4> QED
        BY <2>2, <3>2, <4>2
    <3>3. CASE i = m + 1 /\ m = 0
      <4>1. g[i] = last /\ last = s[m + 1] /\ i = 1
        BY <3>3
      <4> QED
        BY <3>3, <4>1
    <3>4. CASE i = m + 1 /\ m # 0
      <4>0. last = f[m] \o s[m + 1]
        BY <3>4
      <4> HIDE DEF last
      <4>1. g[i] = last /\ i - 1 = m /\ g[m] = f[m] /\ i # 1
        BY <3>4
      <4> QED
        BY <3>4, <4>0, <4>1
    <3> QED
      BY <3>1, <3>2, <3>3, <3>4
  <2>4. Is(g, m + 1)
    BY <2>3
  <2> HIDE DEF g, Is
  <2>5. m + 1 \in Nat /\ \E q : Is(q, m + 1)
    BY <2>4
  <2> QED
    BY <2>5
<1>3. Nat \subseteq S
  <2> HIDE DEF S
  <2> QED
    BY <1>1, <1>2, Induction
<1>4. Len(s) \in Nat
  OBVIOUS
<1> QED
  BY <1>3, <1>4 DEF Sums

\* FlattenSeq of one more.
LEMMA FlattenMore ==
  ASSUME NEW X, NEW s \in Seq(Seq(X)), NEW x \in Seq(X)
  PROVE  /\ FlattenSeq(<<>>) = <<>>
         /\ FlattenSeq(Append(s, x)) = FlattenSeq(s) \o x
<1>1. FlattenSeq(<<>>) = <<>>
  BY DEF FlattenSeq
<1> DEFINE n == Len(s)
           t == Append(s, x)
           F(u) == CHOOSE f : Sums(f, u)
<1>2. /\ n \in Nat /\ t \in Seq(Seq(X)) /\ Len(t) = n + 1 /\ t[n + 1] = x
      /\ \A i \in 1 .. n : t[i] = s[i]
  OBVIOUS
<1>3. \A u : FlattenSeq(u) = IF Len(u) = 0 THEN u ELSE F(u)[Len(u)]
  BY DEF FlattenSeq, Sums
<1>4. Sums(F(s), s) /\ Sums(F(t), t)
  <2> HIDE DEF t
  <2>1. (\E f : Sums(f, s)) /\ (\E f : Sums(f, t))
    BY <1>2, SumsExist
  <2> QED
    BY <2>1, Zenon
<1>5. PICK f, g : f = F(s) /\ g = F(t)
  OBVIOUS
<1> HIDE DEF F, t, n
<1>6. /\ \A i \in 1 .. n : f[i] = IF i = 1 THEN s[i] ELSE f[i - 1] \o s[i]
      /\ \A i \in 1 .. n + 1 : g[i] = IF i = 1 THEN t[i] ELSE g[i - 1] \o t[i]
  <2>1. Sums(f, s) /\ Sums(g, t)
    BY <1>4, <1>5
  <2> QED
    BY <2>1, <1>2 DEF Sums, n
<1>7. \A m \in Nat : m \in 1 .. n => g[m] = f[m]
  <2> DEFINE S == {m \in Nat : m \in 1 .. n => g[m] = f[m]}
  <2>1. 0 \in S
    BY <1>2
  <2>2. ASSUME NEW m \in Nat, m \in S PROVE m + 1 \in S
    <3> SUFFICES ASSUME m + 1 \in 1 .. n PROVE g[m + 1] = f[m + 1]
      OBVIOUS
    <3>1. m + 1 \in 1 .. n + 1 /\ t[m + 1] = s[m + 1] /\ (m + 1) - 1 = m
      BY <1>2
    <3>2. CASE m = 0
      BY <3>1, <3>2, <1>6
    <3>3. CASE m # 0
      <4>1. m \in 1 .. n /\ m + 1 # 1
        BY <3>3, <1>2
      <4>2. g[m] = f[m]
        BY <4>1, <2>2
      <4> QED
        BY <3>1, <4>1, <4>2, <1>6
    <3> QED
      BY <3>2, <3>3
  <2> HIDE DEF S
  <2>3. Nat \subseteq S
    BY <2>1, <2>2, Induction
  <2> QED
    BY <2>3 DEF S
<1>8. FlattenSeq(t) = g[n + 1]
  BY <1>2, <1>3, <1>5
<1>9. CASE n = 0
  <2>1. s = <<>>
    BY <1>9 DEF n
  <2>2. FlattenSeq(s) = <<>>
    BY <1>1, <2>1
  <2>3. g[n + 1] = x /\ <<>> \o x = x
    BY <1>2, <1>6, <1>9
  <2> QED
    BY <1>1, <1>8, <2>2, <2>3 DEF t
<1>10. CASE n # 0
  <2>1. n \in 1 .. n /\ n + 1 \in 1 .. n + 1 /\ n + 1 # 1 /\ (n + 1) - 1 = n
    BY <1>2, <1>10
  <2>2. FlattenSeq(s) = f[n]
    BY <1>3, <1>5, <1>10 DEF n
  <2>3. g[n + 1] = g[n] \o x /\ g[n] = f[n]
    BY <1>2, <1>6, <1>7, <2>1
  <2> QED
    BY <1>1, <1>8, <2>2, <2>3 DEF t
<1> QED
  BY <1>9, <1>10

\* The pieces of responses.
Part == [of : Nat, part : {"head", "body", "file"}, at : Nat]

\* Concatenation, as the provers had better not look into it.
Cat(a, b) == a \o b

\* Concatenation is associative.
LEMMA Associative ==
  \A a, b, c \in Seq(Part) : /\ Cat(Cat(a, b), c) = Cat(a, Cat(b, c))
                             /\ Cat(a, b) \in Seq(Part)
<1> TAKE a, b, c \in Seq(Part)
<1> QED
  BY SMTT(30), ConcatAssociative, ConcatProperties DEF Cat

\* Moving the head of what follows to the end of what precedes.
LEMMA Regroup ==
  ASSUME NEW w \in Seq(Part), NEW p \in Seq(Part), NEW q \in Seq(Part), NEW r \in Seq(Part),
         NEW b \in Seq(Part), Cat(p, q) = b
  PROVE  Cat(w, p) \in Seq(Part) /\ Cat(Cat(w, p), Cat(q, r)) = Cat(w, Cat(b, r))
BY Associative

\* A sequence is what is in front of a place and what is behind it.
LEMMA Split ==
  ASSUME NEW b \in Seq(Part), NEW n \in 0 .. Len(b)
  PROVE  /\ SubSeq(b, 1, n) \in Seq(Part) /\ SubSeq(b, n + 1, Len(b)) \in Seq(Part)
         /\ Cat(SubSeq(b, 1, n), SubSeq(b, n + 1, Len(b))) = b
<1>1. n \in Nat /\ Len(b) \in Nat /\ n <= Len(b)
  OBVIOUS
<1>2. 1 \in 1 .. Len(b) + 1 /\ n \in 1 - 1 .. Len(b) /\ Len(b) \in n .. Len(b)
  BY <1>1
<1>3. SubSeq(b, 1, n) \o SubSeq(b, n + 1, Len(b)) = SubSeq(b, 1, Len(b))
  BY <1>2, ConcatAdjacentSubSeq
<1>4. SubSeq(b, 1, Len(b)) = b
  BY <1>1
<1>5. SubSeq(b, 1, n) \in Seq(Part) /\ SubSeq(b, n + 1, Len(b)) \in Seq(Part)
  BY <1>1
<1> QED
  BY ZenonT(60), <1>3, <1>4, <1>5 DEF Cat

\* A piece of the buffer that goes to the wire leaves the whole as it was.
LEMMA MoveFront ==
  ASSUME NEW w \in Seq(Part), NEW b \in Seq(Part), NEW r \in Seq(Part),
         NEW n \in 0 .. Len(b)
  PROVE  \E p, q \in Seq(Part) :
           /\ p = SubSeq(b, 1, n) /\ q = SubSeq(b, n + 1, Len(b))
           /\ Cat(w, p) \in Seq(Part) /\ Cat(Cat(w, p), Cat(q, r)) = Cat(w, Cat(b, r))
<1>1. PICK p, q \in Seq(Part) :
          p = SubSeq(b, 1, n) /\ q = SubSeq(b, n + 1, Len(b)) /\ Cat(p, q) = b
  BY ZenonT(60), Split
<1>2. Cat(p, q) = b
  BY <1>1
<1>3. Cat(w, p) \in Seq(Part) /\ Cat(Cat(w, p), Cat(q, r)) = Cat(w, Cat(b, r))
  BY <1>2, Regroup
<1> QED
  BY <1>1, <1>3

\* What precedes is a prefix.
LEMMA FrontIsPrefix ==
  ASSUME NEW w \in Seq(Part), NEW r \in Seq(Part)
  PROVE  IsPrefix(w, w \o r) /\ IsPrefix(w, w)
BY DEF IsPrefix


-----------------------------------------------------------------------------
(* The bytes of the responses.                                             *)

\* What is left of the mapped file of response f when m pieces were sent.
FileRest(f, m) == IF f = 0 THEN <<>> ELSE SubSeq(Content(f, TRUE), m + 1, FileSize)

\* The head and the content of a response are sequences of parts.
LEMMA ContentTypes ==
  ASSUME NEW n \in Nat, NEW mapped
  PROVE  /\ Content(n, mapped) \in Seq(Part) /\ HeadOf(n) \in Seq(Part)
         /\ Len(Content(n, TRUE)) = FileSize
         /\ HeadOf(n) \o Content(n, mapped) \in Seq(Part)
<1>1. /\ Content(n, TRUE) \in Seq(Part) /\ Len(Content(n, TRUE)) = FileSize
  <2>1. FileSize \in Nat
    BY SizeAssumption
  <2>2. \A i \in 1 .. FileSize : [of |-> n, part |-> "file", at |-> i] \in Part
    BY <2>1 DEF Part
  <2>3. Content(n, TRUE) \in [1 .. FileSize -> Part]
    BY <2>2 DEF Content
  <2>4. PICK g : g = Content(n, TRUE)
    OBVIOUS
  <2>5. g \in Seq(Part) /\ Len(g) = FileSize
    <3>1. g \in [1 .. FileSize -> Part]
      BY <2>3, <2>4
    <3> QED
      BY <2>1, <3>1
  <2> QED
    BY <2>4, <2>5
<1>2. Content(n, FALSE) \in Seq(Part)
  BY DEF Content, Part
<1>3. HeadOf(n) \in Seq(Part)
  BY DEF HeadOf, Part
<1>4. Content(n, mapped) = Content(n, TRUE) \/ Content(n, mapped) = Content(n, FALSE)
  BY DEF Content
<1>5. Content(n, mapped) \in Seq(Part)
  BY <1>1, <1>2, <1>4
<1>6. Cat(HeadOf(n), Content(n, mapped)) \in Seq(Part)
  BY <1>3, <1>5, Associative
<1> QED
  BY <1>1, <1>3, <1>5, <1>6 DEF Cat

\* So is the rest of a file.
LEMMA RestTypes ==
  ASSUME NEW f \in Nat, NEW m \in 0 .. FileSize
  PROVE  FileRest(f, m) \in Seq(Part)
<1>1. CASE f = 0
  BY <1>1 DEF FileRest
<1>2. CASE f # 0
  <2>1. PICK c \in Seq(Part) : c = Content(f, TRUE) /\ Len(c) = FileSize
    BY ContentTypes
  <2>2. SubSeq(c, m + 1, Len(c)) \in Seq(Part)
    BY <2>1, Split
  <2> QED
    BY <1>2, <2>1, <2>2 DEF FileRest
<1> QED
  BY <1>1, <1>2

\* A piece of a sequence and the piece behind it are one piece.
LEMMA Adjacent ==
  ASSUME NEW c \in Seq(Part), NEW z \in Nat, Len(c) = z, NEW m \in 0 .. z, NEW n \in m .. z
  PROVE  /\ SubSeq(c, m + 1, n) \in Seq(Part)
         /\ Cat(SubSeq(c, m + 1, n), SubSeq(c, n + 1, z)) = SubSeq(c, m + 1, z)
         /\ SubSeq(c, 1, z) = c /\ SubSeq(c, z + 1, z) = <<>>
<1>1. m \in Nat /\ n \in Nat /\ m <= n /\ n <= z
  OBVIOUS
<1>2. m + 1 \in 1 .. z + 1 /\ n \in (m + 1) - 1 .. z /\ z \in n .. z
  BY <1>1
<1>3. m + 1 \in 1 .. Len(c) + 1 /\ n \in (m + 1) - 1 .. Len(c) /\ z \in n .. Len(c)
  BY <1>2
<1>4. SubSeq(c, m + 1, n) \o SubSeq(c, n + 1, z) = SubSeq(c, m + 1, z)
  BY <1>3, ConcatAdjacentSubSeq
<1>5. SubSeq(c, m + 1, n) \in Seq(Part)
  BY <1>1
<1>6. SubSeq(c, 1, z) = c
  BY SubSeqFull
<1>7. SubSeq(c, z + 1, z) = <<>>
  BY SMT
<1> QED
  BY <1>4, <1>5, <1>6, <1>7 DEF Cat

\* The rest of a file, before anything, after everything, and between.
LEMMA RestOfFile ==
  ASSUME NEW f \in Nat \ {0}, NEW m \in 0 .. FileSize, NEW n \in m .. FileSize
  PROVE  /\ FileRest(f, 0) = Content(f, TRUE) /\ FileRest(f, FileSize) = <<>>
         /\ SubSeq(Content(f, TRUE), m + 1, n) \in Seq(Part)
         /\ Cat(SubSeq(Content(f, TRUE), m + 1, n), FileRest(f, n)) = FileRest(f, m)
<1>1. PICK c \in Seq(Part) : c = Content(f, TRUE) /\ Len(c) = FileSize
  BY ContentTypes
<1>2. \A i : FileRest(f, i) = SubSeq(c, i + 1, FileSize)
  BY <1>1 DEF FileRest
<1>3. FileSize \in Nat /\ 0 + 1 = 1
  BY SizeAssumption
<1>4. Len(c) = FileSize
  BY <1>1
<1>5. /\ SubSeq(c, m + 1, n) \in Seq(Part)
      /\ Cat(SubSeq(c, m + 1, n), SubSeq(c, n + 1, FileSize)) = SubSeq(c, m + 1, FileSize)
      /\ SubSeq(c, 1, FileSize) = c /\ SubSeq(c, FileSize + 1, FileSize) = <<>>
  <2>1. PICK z \in Nat : z = FileSize
    BY <1>3
  <2>2. m \in 0 .. z /\ n \in m .. z /\ Len(c) = z
    BY <1>4, <2>1
  <2>3. /\ SubSeq(c, m + 1, n) \in Seq(Part)
        /\ Cat(SubSeq(c, m + 1, n), SubSeq(c, n + 1, z)) = SubSeq(c, m + 1, z)
        /\ SubSeq(c, 1, z) = c /\ SubSeq(c, z + 1, z) = <<>>
    BY SMTT(30), <2>2, Adjacent
  <2> QED
    BY <2>1, <2>3
<1>6. FileRest(f, 0) = SubSeq(c, 1, FileSize)
  BY <1>2, <1>3
<1> QED
  BY <1>1, <1>2, <1>5, <1>6

\* The empty sequence.
LEMMA Nothing ==
  ASSUME NEW a \in Seq(Part)
  PROVE  <<>> \in Seq(Part) /\ Cat(a, <<>>) = a /\ Cat(<<>>, a) = a
BY ConcatEmptySeq DEF Cat

\* The elements of a sequence with one more.
LEMMA AppendIs ==
  ASSUME NEW u \in Seq(Seq(Part)), NEW x \in Seq(Part), NEW n, n = Len(u) + 1
  PROVE  /\ Append(u, x) \in [1 .. n -> Seq(Part)]
         /\ \A i \in 1 .. n : Append(u, x)[i] = IF i = n THEN x ELSE u[i]
<1>1. PICK t : t = Append(u, x)
  OBVIOUS
<1>2. /\ t \in Seq(Seq(Part)) /\ Len(t) = n /\ t[n] = x /\ Len(u) \in Nat
      /\ \A i \in 1 .. Len(u) : t[i] = u[i]
  BY <1>1, AppendProperties
<1>3. t \in [1 .. n -> Seq(Part)]
  BY <1>2, LenProperties
<1>4. \A i \in 1 .. n : t[i] = IF i = n THEN x ELSE u[i]
  <2>1. PICK m : m = Len(u) /\ m \in Nat /\ n = m + 1
    BY <1>2
  <2>2. \A i \in 1 .. n : i # n => i \in 1 .. m
    BY <2>1
  <2> QED
    BY <1>2, <2>1, <2>2, Zenon
<1> QED
  BY <1>1, <1>3, <1>4

\* One more response.
Promises(s) == [n \in DOMAIN s |-> Promised(s[n], n)]

\* One more answer promises one more response, behind the others.
LEMMA PromiseMore ==
  ASSUME NEW X, NEW s \in Seq(X), NEW a, NEW n, n = Len(s) + 1
  PROVE  /\ FlattenSeq(Promises(Append(s, a))) = FlattenSeq(Promises(s)) \o Promised(a, n)
         /\ Promised(a, n) \in Seq(Part)
<1> DEFINE u == Promises(s)
           t == Append(s, a)
           x == Promised(a, n)
<1>0. PICK Y : Y = X \cup {a}
  OBVIOUS
<1>1. /\ t \in Seq(Y) /\ Len(t) = n /\ t[n] = a /\ n \in Nat /\ Len(s) \in Nat
      /\ \A i \in 1 .. Len(s) : t[i] = s[i]
      /\ DOMAIN t = 1 .. n /\ DOMAIN s = 1 .. Len(s)
  <2>1. s \in Seq(Y) /\ a \in Y
    BY <1>0
  <2> QED
    BY <2>1
<1> HIDE DEF t
<1>2. \A b, m : m \in Nat => Promised(b, m) \in Seq(Part)
  BY ContentTypes DEF Promised
<1>3. u \in Seq(Seq(Part)) /\ Len(u) = Len(s) /\ \A i \in 1 .. Len(s) : u[i] = Promised(s[i], i)
  <2>1. u \in [1 .. Len(s) -> Seq(Part)]
    BY <1>1, <1>2 DEF Promises
  <2> QED
    BY <2>1, <1>1 DEF Promises
<1>4. x \in Seq(Part)
  BY <1>1, <1>2
<1>5. Promises(t) = Append(u, x)
  <2> HIDE DEF x, u
  <2>1. /\ Append(u, x) \in [1 .. n -> Seq(Part)]
        /\ \A i \in 1 .. n : Append(u, x)[i] = IF i = n THEN x ELSE u[i]
    <3>1. n = Len(u) + 1 /\ u \in Seq(Seq(Part))
      BY <1>3
    <3> QED
      BY <3>1, <1>4, AppendIs
  <2>2. \A i \in 1 .. n : Promised(t[i], i) = IF i = n THEN x ELSE u[i]
    <3> TAKE i \in 1 .. n
    <3>1. CASE i = n
      BY <3>1, <1>1 DEF x
    <3>2. CASE i # n
      <4>1. i \in 1 .. Len(s)
        BY <3>2, <1>1
      <4> QED
        BY <3>2, <4>1, <1>1, <1>3
    <3> QED
      BY <3>1, <3>2
  <2> QED
    BY <2>1, <2>2, <1>1 DEF Promises
<1> HIDE DEF u, x
<1>6. FlattenSeq(Append(u, x)) = FlattenSeq(u) \o x
  BY <1>3, <1>4, FlattenMore
<1> QED
  BY <1>4, <1>5, <1>6 DEF t, u, x


-----------------------------------------------------------------------------
(* The specification.                                                      *)

Types ==
  /\ wire \in Seq(Part) /\ write_buf \in Seq(Part) /\ AllPromised \in Seq(Part)
  /\ file \in Nat /\ file_size \in Nat
  /\ \E X : answers \in Seq(X)

\* Between requests everything promised has been written and the buffer is
\* empty; no file is mapped while a request is parsed; while a response is
\* sent, what was written, the buffer and the rest of the file are together
\* what was promised.
Sending(m) == Cat(wire, Cat(write_buf, FileRest(file, m))) = AllPromised

Balanced ==
  /\ step \in {"in", "process", "parse"} => wire = AllPromised /\ write_buf = <<>>
  /\ step = "parse" => file = 0
  /\ step = "out" => Sending(0)
  /\ step = "send" => file_size <= SizeOfFile /\ Sending(file_size)

\* The inductive invariant.
FrameInv == Types /\ Balanced /\ IsPrefix(wire, AllPromised)

\* What is promised is what the answers promise, one behind another.
LEMMA Promise == AllPromised = FlattenSeq(Promises(answers))
BY DEF AllPromised, Promises

\* The size of a mapped file, if there is one.
LEMMA SizeIs ==
  ASSUME FrameInv
  PROVE  /\ FileSize \in Nat /\ SizeOfFile \in 0 .. FileSize /\ 0 \in 0 .. FileSize
         /\ file # 0 => SizeOfFile = FileSize
         /\ file = 0 => SizeOfFile = 0
<1>1. FileSize \in Nat
  BY SizeAssumption
<1> QED
  BY <1>1 DEF SizeOfFile

\* Steps that write nothing and promise nothing.
LEMMA QuietStep ==
  ASSUME FrameInv, UNCHANGED <<write_buf, wire, answers, file_size>>, file' \in Nat,
         Balanced'
  PROVE  FrameInv'
<1>1. AllPromised' = AllPromised
  BY DEF AllPromised
<1>2. Types'
  BY <1>1 DEF FrameInv, Types
<1> QED
  BY <1>1, <1>2 DEF FrameInv

\* The steps that neither build a response nor write.
LEMMA StepsThatWait ==
  ASSUME FrameInv,
         \/ Ask \/ Receive \/ ReceiveFails \/ Process \/ ParseLine
         \/ SendFails \/ TimeOut \/ StartSend \/ UNCHANGED vars
  PROVE  FrameInv'
<1>0. Balanced /\ file \in Nat
  BY DEF FrameInv, Types
<1>1. CASE Ask \/ ParseLine \/ UNCHANGED vars
  <2>1. UNCHANGED <<step, write_buf, wire, answers, file_size, file>>
    BY <1>1 DEF Ask, ParseLine, vars, client
  <2>2. Balanced'
    BY <1>0, <2>1 DEF Balanced, Sending, AllPromised, SizeOfFile
  <2> QED
    BY <1>0, <2>1, <2>2, QuietStep
<1>2. CASE Receive \/ ReceiveFails
  <2>1. /\ UNCHANGED <<write_buf, wire, answers, file_size, file>>
        /\ step = "in" /\ step' \in {"process", "marked", "spin"}
    BY <1>2 DEF Receive, ReceiveFails
  <2>2. Balanced'
    BY <1>0, <2>1 DEF Balanced, AllPromised
  <2> QED
    BY <1>0, <2>1, <2>2, QuietStep
<1>3. CASE Process
  <2>1. /\ UNCHANGED <<write_buf, wire, answers, file_size>> /\ file' = 0
        /\ step = "process" /\ step' \in {"in", "parse"}
    BY <1>3 DEF Process
  <2>2. Balanced'
    BY <1>0, <2>1 DEF Balanced, AllPromised
  <2> QED
    BY <2>1, <2>2, QuietStep
<1>4. CASE SendFails \/ TimeOut
  <2>1. UNCHANGED <<write_buf, wire, answers, file_size, file>> /\ step' = "marked"
    BY <1>4 DEF SendFails, TimeOut
  <2>2. Balanced'
    BY <1>0, <2>1 DEF Balanced, AllPromised
  <2> QED
    BY <1>0, <2>1, <2>2, QuietStep
<1>5. CASE StartSend
  <2>1. /\ UNCHANGED <<write_buf, wire, answers, file>> /\ file_size' = 0
        /\ step = "out" /\ step' = "send"
    BY <1>5 DEF StartSend
  <2>2. AllPromised' = AllPromised /\ SizeOfFile' = SizeOfFile
    BY <2>1 DEF AllPromised, SizeOfFile
  <2>3. 0 <= SizeOfFile /\ 0 \in Nat
    BY SizeIs
  <2>4. Types'
    BY <2>1, <2>2, <2>3 DEF FrameInv, Types
  <2>5. Sending(0)
    BY <1>0, <2>1 DEF Balanced
  <2>6. Cat(wire', Cat(write_buf', FileRest(file', file_size'))) = AllPromised'
    BY <2>1, <2>2, <2>5 DEF Sending
  <2>7. Balanced'
    BY <2>1, <2>2, <2>3, <2>6 DEF Balanced, Sending
  <2> QED
    BY <2>1, <2>2, <2>4, <2>7 DEF FrameInv
<1> QED
  BY <1>1, <1>2, <1>3, <1>4, <1>5

\* What sends: the sum stays.
LEMMA SentStep ==
  ASSUME FrameInv, step = "send", UNCHANGED <<step, answers, file>>,
         wire' \in Seq(Part), write_buf' \in Seq(Part), file_size' \in Nat,
         file_size' <= SizeOfFile,
         Cat(wire', Cat(write_buf', FileRest(file, file_size'))) = AllPromised
  PROVE  FrameInv'
<1>1. AllPromised' = AllPromised /\ SizeOfFile' = SizeOfFile /\ AllPromised \in Seq(Part)
  BY DEF AllPromised, SizeOfFile, FrameInv, Types
<1>2. Types'
  BY <1>1 DEF FrameInv, Types
<1>3. Balanced'
  BY <1>1 DEF Balanced, Sending
<1>4. IsPrefix(wire', AllPromised')
  <2>1. file_size' \in 0 .. FileSize /\ file \in Nat
    BY SizeIs DEF FrameInv, Types
  <2>2. FileRest(file, file_size') \in Seq(Part)
    BY <2>1, RestTypes
  <2>3. PICK r \in Seq(Part) : r = Cat(write_buf', FileRest(file, file_size'))
    BY <2>2, Associative
  <2>4. IsPrefix(wire', Cat(wire', r))
    BY FrontIsPrefix DEF Cat
  <2> QED
    BY <1>1, <2>3, <2>4
<1> QED
  BY <1>2, <1>3, <1>4 DEF FrameInv

\* A write from the buffer moves its front to the wire.
LEMMA SendBufferStep ==
  ASSUME FrameInv, SendBuffer
  PROVE  FrameInv'
<1>1. /\ step = "send" /\ UNCHANGED <<step, answers, file, file_size>>
      /\ wire \in Seq(Part) /\ write_buf \in Seq(Part) /\ file \in Nat /\ file_size \in Nat
      /\ file_size <= SizeOfFile /\ Sending(file_size)
  BY DEF SendBuffer, FrameInv, Types, Balanced
<1>2. PICK n \in 1 .. Len(write_buf) :
          /\ wire' = wire \o SubSeq(write_buf, 1, n)
          /\ write_buf' = SubSeq(write_buf, n + 1, Len(write_buf))
  BY DEF SendBuffer
<1>3. PICK w \in Seq(Part), b \in Seq(Part) : w = wire /\ b = write_buf
  BY <1>1
<1>4. FileRest(file, file_size) \in Seq(Part)
  <2>1. file_size \in 0 .. FileSize
    BY <1>1, SizeIs
  <2> QED
    BY <1>1, <2>1, RestTypes
<1>5. PICK r \in Seq(Part) : r = FileRest(file, file_size)
  BY <1>4
<1>6. n \in 0 .. Len(b)
  BY <1>2, <1>3
<1>7. PICK p, q \in Seq(Part) :
         /\ p = SubSeq(b, 1, n) /\ q = SubSeq(b, n + 1, Len(b))
         /\ Cat(w, p) \in Seq(Part) /\ Cat(Cat(w, p), Cat(q, r)) = Cat(w, Cat(b, r))
  BY ZenonT(60), <1>6, MoveFront
<1>8. wire' = Cat(w, p) /\ write_buf' = q
  BY <1>2, <1>3, <1>7 DEF Cat
<1>9. Cat(w, Cat(b, r)) = AllPromised
  BY <1>1, <1>3, <1>5 DEF Sending
<1>10. Cat(wire', Cat(write_buf', FileRest(file, file_size'))) = AllPromised
  BY <1>1, <1>5, <1>7, <1>8, <1>9
<1>11. wire' \in Seq(Part) /\ write_buf' \in Seq(Part)
  BY <1>7, <1>8
<1> QED
  BY <1>1, <1>10, <1>11, SentStep

\* A write from the mapped file moves its front to the wire.
LEMMA SendFileStep ==
  ASSUME FrameInv, SendFile
  PROVE  FrameInv'
<1>1. /\ step = "send" /\ UNCHANGED <<step, answers, file, write_buf>> /\ write_buf = <<>>
      /\ wire \in Seq(Part) /\ file \in Nat /\ file_size \in Nat
      /\ file_size < SizeOfFile /\ Sending(file_size)
  BY DEF SendFile, FrameInv, Types, Balanced
<1>2. PICK n \in file_size + 1 .. SizeOfFile :
          /\ wire' = wire \o SubSeq(Content(file, TRUE), file_size + 1, n)
          /\ file_size' = n
  BY DEF SendFile
<1>3. file \in Nat \ {0} /\ SizeOfFile = FileSize /\ FileSize \in Nat
  BY <1>1, SizeIs
<1>4. PICK m \in 0 .. FileSize : m = file_size
  BY <1>1, <1>3
<1>5. n \in m .. FileSize /\ n \in 0 .. FileSize
  BY <1>2, <1>3, <1>4
<1>6. PICK f \in Nat \ {0} : f = file
  BY <1>3
<1>7. /\ SubSeq(Content(f, TRUE), m + 1, n) \in Seq(Part)
      /\ Cat(SubSeq(Content(f, TRUE), m + 1, n), FileRest(f, n)) = FileRest(f, m)
  BY <1>5, RestOfFile
<1>8. FileRest(f, n) \in Seq(Part) /\ FileRest(f, m) \in Seq(Part)
  BY <1>5, RestTypes
<1>9. PICK w, p, q, b \in Seq(Part) :
         /\ w = wire /\ p = SubSeq(Content(f, TRUE), m + 1, n)
         /\ q = FileRest(f, n) /\ b = FileRest(f, m)
  BY <1>1, <1>7, <1>8
<1>10. Cat(p, q) = b /\ wire' = Cat(w, p)
  BY <1>2, <1>4, <1>6, <1>7, <1>9 DEF Cat
<1>11. Cat(<<>>, b) = b /\ Cat(<<>>, q) = q /\ <<>> \in Seq(Part)
  BY Nothing
<1>12. Cat(w, b) = AllPromised
  BY <1>1, <1>4, <1>6, <1>9, <1>11 DEF Sending
<1>13. Cat(Cat(w, p), q) = Cat(w, Cat(p, q)) /\ Cat(w, p) \in Seq(Part)
  BY Associative
<1>14. Cat(wire', Cat(write_buf', FileRest(file, file_size'))) = AllPromised
  BY <1>1, <1>2, <1>6, <1>9, <1>10, <1>11, <1>12, <1>13
<1>15. /\ wire' \in Seq(Part) /\ write_buf' \in Seq(Part) /\ file_size' \in Nat
       /\ file_size' <= SizeOfFile
  <2>1. wire' \in Seq(Part)
    BY <1>10, <1>13
  <2>2. write_buf' \in Seq(Part)
    BY <1>1, <1>11
  <2>3. file_size' \in Nat /\ file_size' <= SizeOfFile
    <3>1. file_size' = n
      BY <1>2
    <3> QED
      BY <3>1, <1>3, <1>5
  <2> QED
    BY <2>1, <2>2, <2>3
<1> QED
  BY <1>1, <1>14, <1>15, SentStep

\* When Send has written all of it, the wire has all that was promised.
LEMMA SendDoneStep ==
  ASSUME FrameInv, SendDone
  PROVE  FrameInv'
<1>1. /\ step = "send" /\ UNCHANGED <<write_buf, wire, answers, file_size, file>>
      /\ write_buf = <<>> /\ file_size = SizeOfFile /\ step' \in {"process", "marked"}
      /\ wire \in Seq(Part) /\ file \in Nat /\ Sending(file_size)
  BY DEF SendDone, FrameInv, Types, Balanced
<1>2. FileRest(file, file_size) = <<>>
  <2>1. CASE file = 0
    BY <2>1 DEF FileRest
  <2>2. CASE file # 0
    <3>1. file \in Nat \ {0} /\ file_size = FileSize /\ FileSize \in Nat
      BY <1>1, <2>2, SizeIs
    <3>2. FileSize \in 0 .. FileSize /\ FileSize \in FileSize .. FileSize
      BY <3>1
    <3>3. FileRest(file, FileSize) = <<>>
      BY <3>1, <3>2, RestOfFile
    <3> QED
      BY <3>1, <3>3
  <2> QED
    BY <2>1, <2>2
<1>3. wire = AllPromised
  <2>1. <<>> \in Seq(Part) /\ Cat(wire, <<>>) = wire
    BY <1>1, Nothing
  <2>2. Cat(<<>>, <<>>) = <<>>
    BY <2>1, Nothing
  <2> QED
    BY <1>1, <1>2, <2>1, <2>2 DEF Sending
<1>4. Balanced'
  BY <1>1, <1>3 DEF Balanced, AllPromised
<1> QED
  BY <1>1, <1>4, QuietStep

\* Build promises a response and leaves its bytes in the buffer and the file.
LEMMA BuildStep ==
  ASSUME FrameInv, Build
  PROVE  FrameInv'
<1>1. /\ step = "parse" /\ step' = "out" /\ UNCHANGED <<file_size, wire>>
      /\ wire = AllPromised /\ write_buf = <<>> /\ file = 0
      /\ wire \in Seq(Part) /\ file_size \in Nat
  BY DEF Build, FrameInv, Types, Balanced
<1>2. PICK a, n :
          /\ n = Len(answers) + 1
          /\ answers' = Append(answers, a)
          /\ write_buf' = write_buf \o HeadOf(n)
                             \o (IF a.mapped THEN <<>> ELSE Content(n, FALSE))
          /\ file' = IF a.mapped THEN n ELSE file
  BY DEF Build
<1>3. PICK X, s : s = answers /\ s \in Seq(X)
  BY DEF FrameInv, Types
<1>4. n \in Nat \ {0} /\ Append(s, a) \in Seq(X \cup {a})
  <2>1. s \in Seq(X \cup {a}) /\ a \in X \cup {a} /\ Len(s) \in Nat
    BY <1>3
  <2> QED
    BY <2>1, <1>2, <1>3
<1>5. /\ FlattenSeq(Promises(Append(s, a))) = FlattenSeq(Promises(s)) \o Promised(a, n)
      /\ Promised(a, n) \in Seq(Part)
  <2>1. n = Len(s) + 1 /\ s \in Seq(X)
    BY <1>2, <1>3
  <2> QED
    BY <2>1, PromiseMore
<1>6. AllPromised' = FlattenSeq(Promises(answers'))
  BY DEF AllPromised, Promises
<1>7. AllPromised' = Cat(wire, Promised(a, n))
  BY <1>1, <1>2, <1>3, <1>5, <1>6, Promise DEF Cat
<1>8. PICK h, c, d \in Seq(Part) :
         h = HeadOf(n) /\ c = Content(n, TRUE) /\ d = Content(n, FALSE)
  BY <1>4, ContentTypes
<1>9. FileRest(n, 0) = c
  <2>1. FileSize \in Nat
    BY SizeIs
  <2>2. 0 \in 0 .. FileSize /\ FileSize \in 0 .. FileSize
    BY <2>1
  <2> QED
    BY <1>4, <1>8, <2>2, RestOfFile
<1>10. /\ <<>> \in Seq(Part) /\ Cat(<<>>, h) = h /\ Cat(h, <<>>) = h
       /\ Cat(h, d) \in Seq(Part)
  BY Nothing, Associative
<1>11. /\ write_buf' \in Seq(Part) /\ file' \in Nat
       /\ Cat(write_buf', FileRest(file', 0)) = Promised(a, n)
  <2>1. CASE a.mapped
    <3>1. write_buf' = Cat(Cat(<<>>, h), <<>>) /\ file' = n
      BY <2>1, <1>1, <1>2, <1>8 DEF Cat
    <3>2. Promised(a, n) = Cat(h, c)
      BY <2>1, <1>8 DEF Promised, Cat, Content
    <3> QED
      BY <3>1, <3>2, <1>4, <1>9, <1>10
  <2>2. CASE ~a.mapped
    <3>1. write_buf' = Cat(Cat(<<>>, h), d) /\ file' = 0
      BY <2>2, <1>1, <1>2, <1>8 DEF Cat
    <3>2. Promised(a, n) = Cat(h, d)
      BY <2>2, <1>8 DEF Promised, Cat, Content
    <3>3. FileRest(0, 0) = <<>> /\ 0 \in Nat
      BY DEF FileRest
    <3>4. \A x \in Seq(Part) : Cat(x, <<>>) = x
      BY Nothing
    <3> QED
      BY <3>1, <3>2, <3>3, <3>4, <1>10
  <2> QED
    BY <2>1, <2>2
<1>12. AllPromised' \in Seq(Part) /\ IsPrefix(wire', AllPromised')
  <2>1. PICK x \in Seq(Part) : x = Promised(a, n)
    BY <1>5
  <2>2. Cat(wire, x) \in Seq(Part)
    BY <1>1, Associative
  <2>3. IsPrefix(wire, Cat(wire, x))
    BY <1>1, FrontIsPrefix DEF Cat
  <2> QED
    BY <1>1, <1>7, <2>1, <2>2, <2>3
<1>13. Types'
  <2>1. \E Y : answers' \in Seq(Y)
    BY <1>2, <1>3, <1>4
  <2> QED
    BY <1>1, <1>11, <1>12, <2>1 DEF Types
<1>14. Cat(wire', Cat(write_buf', FileRest(file', 0))) = AllPromised'
  BY <1>1, <1>7, <1>11
<1>15. Balanced'
  BY <1>1, <1>14 DEF Balanced, Sending
<1> QED
  BY <1>12, <1>13, <1>15 DEF FrameInv

\* The inductive invariant holds: what Send has written, what is in the buffer
\* and the rest of the mapped file are together what Build promised.
THEOREM FrameInvariance == Spec => []FrameInv
<1>1. Init => FrameInv
  <2> SUFFICES ASSUME Init PROVE FrameInv
    OBVIOUS
  <2>1. wire = <<>> /\ write_buf = <<>> /\ answers = <<>> /\ file = 0 /\ file_size = 0
        /\ step = "in"
    BY DEF Init
  <2>2. AllPromised = <<>>
    <3>1. Promises(<<>>) = <<>>
      BY DEF Promises
    <3>2. FlattenSeq(<<>>) = <<>>
      BY DEF FlattenSeq
    <3> QED
      BY <2>1, <3>1, <3>2, Promise
  <2>3. <<>> \in Seq(Part) /\ 0 \in Nat
    OBVIOUS
  <2>4. IsPrefix(<<>>, <<>>)
    BY DEF IsPrefix
  <2>5. Types
    BY <2>1, <2>2, <2>3 DEF Types
  <2>6. Balanced
    BY <2>1, <2>2 DEF Balanced
  <2> QED
    BY <2>1, <2>2, <2>4, <2>5, <2>6 DEF FrameInv
<1>2. FrameInv /\ [Next]_vars => FrameInv'
  BY StepsThatWait, SendBufferStep, SendFileStep, SendDoneStep, BuildStep DEF Next, Worker
<1> QED
  BY <1>1, <1>2, PTL DEF Spec

\* What a client gets is the responses in order, each with the content that its
\* head announces, whole before the connection receives or processes again.
THEOREM ResponsesAreFramed == Spec => []WellFramed
<1>1. FrameInv => WellFramed
  BY DEF FrameInv, Balanced, WellFramed
<1> QED
  BY <1>1, FrameInvariance, PTL

\* Concatenation is associative for texts, too.
LEMMA CatAssociative ==
  ASSUME NEW D, NEW a \in Seq(D), NEW b \in Seq(D), NEW c \in Seq(D)
  PROVE  Cat(Cat(a, b), c) = Cat(a, Cat(b, c))
BY SMTT(30), ConcatAssociative DEF Cat

\* A function on 1 .. N is a sequence.
LEMMA FunctionIsSeq ==
  ASSUME NEW X, NEW N \in Nat, NEW f \in [1 .. N -> X]
  PROVE  f \in Seq(X) /\ Len(f) = N /\ DOMAIN f = 1 .. N
OBVIOUS

\* A loop of N iterations on states of T, and the states that it goes through.
Loops(N, T) == [1 .. N -> [T -> T]]
Runs(f, N, T, init, iter) ==
  f \in [0 .. N -> T] /\ f[0] = init /\ \A n \in 1 .. N : f[n] = iter[n][f[n - 1]]

\* Every loop goes through some.
LEMMA LoopExists ==
  ASSUME NEW N \in Nat, NEW T, NEW init \in T, NEW iter \in Loops(N, T)
  PROVE  \E f : Runs(f, N, T, init, iter)
<1> USE DEF Loops
<1> DEFINE Is(f, m) == /\ f \in [0 .. m -> T] /\ f[0] = init
                       /\ \A n \in 1 .. m : f[n] = iter[n][f[n - 1]]
           S == {m \in Nat : m <= N => \E f : Is(f, m)}
<1>1. 0 \in S
  <2>1. Is([n \in 0 .. 0 |-> init], 0)
    OBVIOUS
  <2> QED
    BY <2>1
<1>2. ASSUME NEW m \in Nat, m \in S PROVE m + 1 \in S
  <2> SUFFICES ASSUME m + 1 <= N PROVE \E f : Is(f, m + 1)
    OBVIOUS
  <2>1. PICK f : Is(f, m)
    BY <1>2
  <2> DEFINE last == iter[m + 1][f[m]]
             g == [n \in 0 .. m + 1 |-> IF n <= m THEN f[n] ELSE last]
  <2>2. last \in T
    <3>1. f[m] \in T /\ iter[m + 1] \in [T -> T]
      BY <2>1
    <3> QED
      BY <3>1
  <2>3. g \in [0 .. m + 1 -> T] /\ g[0] = init
    BY <2>1, <2>2
  <2>4. ASSUME NEW n \in 1 .. m + 1 PROVE g[n] = iter[n][g[n - 1]]
    <3>1. CASE n <= m
      <4>1. g[n] = f[n] /\ g[n - 1] = f[n - 1] /\ n \in 1 .. m
        BY <3>1
      <4> QED
        BY <4>1, <2>1
    <3>2. CASE n = m + 1
      <4>1. g[n] = last /\ g[n - 1] = f[m]
        BY <3>2
      <4> QED
        BY <4>1, <3>2
    <3> QED
      BY <3>1, <3>2
  <2> HIDE DEF g
  <2> QED
    BY <2>3, <2>4
<1> HIDE DEF S
<1>3. N \in S
  BY <1>1, <1>2, Induction
<1>4. PICK f : Is(f, N)
  BY <1>3 DEF S
<1> QED
  BY <1>4 DEF Runs

\* What it is to go through them.
LEMMA RunsAre ==
  ASSUME NEW N \in Nat, NEW T, NEW init, NEW iter, NEW f, Runs(f, N, T, init, iter)
  PROVE  /\ f = [n \in 0 .. N |-> f[n]] /\ f[0] = init
         /\ \A n \in 1 .. N : f[n - 1] \in T /\ f[n] = iter[n][f[n - 1]]
BY DEF Runs

\* What holds before a loop and is kept by every iteration holds after each.
LEMMA LoopInvariant ==
  ASSUME NEW N \in Nat, NEW S, NEW g, g[0] \in S[0],
         \A n \in 1 .. N : g[n - 1] \in S[n - 1] => g[n] \in S[n]
  PROVE  \A n \in 0 .. N : g[n] \in S[n]
<1> DEFINE Q == {m \in Nat : m <= N => g[m] \in S[m]}
<1>1. 0 \in Q
  OBVIOUS
<1>2. ASSUME NEW m \in Nat, m \in Q PROVE m + 1 \in Q
  <2> SUFFICES ASSUME m + 1 <= N PROVE g[m + 1] \in S[m + 1]
    OBVIOUS
  <2>1. m + 1 \in 1 .. N /\ (m + 1) - 1 = m /\ g[m] \in S[m]
    BY <1>2
  <2> QED
    BY <2>1
<1> HIDE DEF Q
<1>3. Nat \subseteq Q
  BY <1>1, <1>2, Induction
<1> QED
  BY <1>3 DEF Q

-----------------------------------------------------------------------------
(* Patterns.                                                               *)

\* What the loop over a field keeps, and what a field is.
FieldStates(D) == [j : Nat, type : Seq(D), format : Seq(D), processing : BOOLEAN,
                   begin : Nat, done : BOOLEAN]
Fields(D) == [raw : BOOLEAN, content : Seq(D), format : Seq(D)]

\* A part of a pattern, and that it is what a field stands for.
Cut(p, a, b) == SubSeq(p, a, b)
Reads(p, a, b, type, format) == SubSeq(p, a, b) \in Printed(Pattern!TypedField(type, format))

\* After n iterations of the loop over the field at i: a field that is done is
\* what stands between i and j; before that there is a type only when a format
\* has begun or the pattern has ended.
FieldInv(p, i, n, s) ==
  /\ s.j \in i + 1 .. Len(p) + 1
  /\ s.done \/ s.j = Len(p) + 1 \/ s.j >= i + 1 + n
  /\ s.done => ~s.processing /\ Reads(p, i, s.j - 1, s.type, s.format)
  /\ ~s.done /\ ~s.processing =>
       /\ s.format = <<>>
       /\ s.j <= Len(p) => s.type = <<>>
       /\ s.j > Len(p) => s.type = Cut(p, i + 1, Len(p))
  /\ ~s.done /\ s.processing =>
       /\ s.begin \in i + 1 .. s.j - 1 /\ p[s.begin] = Pattern!LeftBrace
       /\ s.j <= Len(p) => s.type = Cut(p, i + 1, s.begin - 1)

\* A field without a format is a percent sign and a type.
LEMMA ShortField ==
  ASSUME NEW D, NEW p \in Seq(D), NEW i \in 1 .. Len(p), p[i] = "%", NEW k \in i .. Len(p)
  PROVE  Reads(p, i, k, Cut(p, i + 1, k), <<>>)
<1>1. SubSeq(p, i, k) = <<p[i]>> \o SubSeq(p, i + 1, k)
  BY SubSeqRecursiveFirst
<1> QED
  BY <1>1 DEF Reads, Cut, Printed, Pattern!TypedField

\* A field with a format ends with its brace.
LEMMA LongField ==
  ASSUME NEW D, NEW p \in Seq(D), NEW i \in 1 .. Len(p), p[i] = "%",
         NEW b \in i + 1 .. Len(p), p[b] = Pattern!LeftBrace, NEW j \in b + 1 .. Len(p), p[j] = Pattern!RightBrace
  PROVE  Reads(p, i, j, Cut(p, i + 1, b - 1), Cut(p, b + 1, j - 1))
<1>1. i \in Nat /\ b \in Nat /\ j \in Nat /\ Len(p) \in Nat /\ 1 <= i /\ i < b /\ b < j /\ j <= Len(p)
  OBVIOUS
<1> DEFINE t == SubSeq(p, i + 1, b - 1)
           f == SubSeq(p, b + 1, j - 1)
<1>2. SubSeq(p, i, b - 1) = <<"%">> \o t
  BY <1>1, SubSeqRecursiveFirst
<1>3. SubSeq(p, i, b) = SubSeq(p, i, b - 1) \o <<Pattern!LeftBrace>>
  BY <1>1, SubSeqRecursiveSecond
<1>4. SubSeq(p, i, b) \o f = SubSeq(p, i, j - 1)
  BY <1>1, ConcatAdjacentSubSeq
<1>5. SubSeq(p, i, j) = SubSeq(p, i, j - 1) \o <<Pattern!RightBrace>>
  BY <1>1, SubSeqRecursiveSecond
<1>6. SubSeq(p, i, j) = <<"%">> \o t \o <<Pattern!LeftBrace>> \o f \o <<Pattern!RightBrace>>
  BY <1>2, <1>3, <1>4, <1>5
<1> HIDE DEF t, f
<1>7. Printed(Pattern!TypedField(t, f)) =
        {<<"%">> \o t \o <<Pattern!LeftBrace>> \o f \o <<Pattern!RightBrace>>} \cup
        (IF f = <<>> THEN {<<"%">> \o t} ELSE {})
  BY DEF Printed, Pattern!TypedField
<1> QED
  BY <1>6, <1>7 DEF t, f, Reads, Cut

\* Parts of a sequence are sequences.
LEMMA PartType ==
  ASSUME NEW D, NEW p \in Seq(D), NEW a \in Nat, a >= 1, NEW b \in Int, b <= Len(p)
  PROVE  Cut(p, a, b) \in Seq(D)
<1>1. \A i \in a .. b : p[i] \in D
  OBVIOUS
<1> QED
  BY <1>1, SubSeqProperties DEF Cut

\* One iteration keeps it.
LEMMA FieldStepKeeps ==
  ASSUME NEW D, NEW p \in Seq(D), NEW i \in 1 .. Len(p), p[i] = "%", NEW n \in Nat,
         NEW s \in FieldStates(D)
  PROVE  FieldInv(p, i, n, s) => /\ Pattern!FieldStep(p, i, s) \in FieldStates(D)
                                 /\ FieldInv(p, i, n + 1, Pattern!FieldStep(p, i, s))
<1> DEFINE r == Pattern!FieldStep(p, i, s)
<1>0. SUFFICES ASSUME FieldInv(p, i, n, s)
               PROVE  r \in FieldStates(D) /\ FieldInv(p, i, n + 1, r)
  OBVIOUS
<1> HIDE DEF r
<1>1. /\ i \in Nat /\ Len(p) \in Nat /\ 1 <= i /\ i <= Len(p)
      /\ s.j \in Nat /\ s.j + 1 \in Nat /\ i + 1 <= s.j /\ s.j <= Len(p) + 1
  BY SMTT(30), <1>0 DEF FieldInv, FieldStates
<1>7. s.type \in Seq(D) /\ s.format \in Seq(D) /\ s.begin \in Nat
  BY DEF FieldStates
<1>8. s.done \in BOOLEAN /\ s.processing \in BOOLEAN
  BY DEF FieldStates
<1>2. CASE s.done \/ s.j > Len(p)
  <2>1. r = s
    BY <1>2 DEF r, Pattern!FieldStep, Cut
  <2> QED
    BY SMTT(30), <1>0, <1>1, <1>2, <2>1 DEF FieldInv
<1>3. CASE ~s.done /\ s.j <= Len(p) /\ ~s.processing /\ p[s.j] \notin Letters \cup {Pattern!LeftBrace, Pattern!RightBrace}
  <2>1. r = [s EXCEPT !.type = Cut(p, i + 1, s.j - 1), !.done = TRUE]
    BY SMTT(30), <1>1, <1>3 DEF r, Pattern!FieldStep, Cut
  <2>2. Cut(p, i + 1, s.j - 1) \in Seq(D)
    <3>1. i + 1 \in Nat /\ i + 1 >= 1 /\ s.j - 1 \in Int /\ s.j - 1 <= Len(p)
      BY <1>1, <1>3
    <3> QED
      BY <3>1, PartType
  <2>3. Reads(p, i, s.j - 1, Cut(p, i + 1, s.j - 1), <<>>)
    BY SMTT(30), <1>1, <1>3, ShortField
  <2>4. s.format = <<>>
    BY <1>0, <1>3 DEF FieldInv
  <2>5. r \in FieldStates(D) /\ r.j = s.j /\ r.done /\ ~r.processing
        /\ r.type = Cut(p, i + 1, s.j - 1) /\ r.format = <<>>
    BY <2>1, <2>2, <2>4, <1>3 DEF FieldStates
  <2> QED
    BY <1>0, <1>1, <2>3, <2>5 DEF FieldInv
<1>4. CASE ~s.done /\ s.j <= Len(p) /\ ~s.processing /\ p[s.j] = Pattern!LeftBrace
  <2>1. r = [s EXCEPT !.type = Cut(p, i + 1, s.j - 1), !.processing = TRUE,
                      !.begin = s.j, !.j = s.j + 1]
    BY <1>1, <1>4 DEF r, Pattern!FieldStep, Cut
  <2>2. Cut(p, i + 1, s.j - 1) \in Seq(D)
    <3>1. i + 1 \in Nat /\ i + 1 >= 1 /\ s.j - 1 \in Int /\ s.j - 1 <= Len(p)
      BY <1>1, <1>4
    <3> QED
      BY <3>1, PartType
  <2>3. r \in FieldStates(D) /\ r.j = s.j + 1 /\ ~r.done /\ r.processing
        /\ r.begin = s.j /\ r.type = Cut(p, i + 1, s.j - 1)
    BY <2>1, <2>2, <1>1, <1>4 DEF FieldStates
  <2>4. s.j >= i + 1 + n
    BY <1>0, <1>1, <1>4 DEF FieldInv
  <2> QED
    BY SMTT(30), <1>0, <1>1, <1>4, <2>3, <2>4 DEF FieldInv
<1>5. CASE ~s.done /\ s.j <= Len(p) /\ s.processing /\ p[s.j] = Pattern!RightBrace
  <2>1. r = [s EXCEPT !.format = Cut(p, s.begin + 1, s.j - 1), !.processing = FALSE,
                      !.j = s.j + 1, !.done = TRUE]
    BY <1>1, <1>5 DEF r, Pattern!FieldStep, Cut
  <2>2. /\ s.begin \in i + 1 .. s.j - 1 /\ p[s.begin] = Pattern!LeftBrace
        /\ s.type = Cut(p, i + 1, s.begin - 1)
    BY <1>0, <1>1, <1>5 DEF FieldInv
  <2>3. Cut(p, s.begin + 1, s.j - 1) \in Seq(D)
    <3>1. s.begin + 1 \in Nat /\ s.begin + 1 >= 1 /\ s.j - 1 \in Int /\ s.j - 1 <= Len(p)
      BY SMTT(30), <1>1, <1>5, <1>7
    <3> QED
      BY <3>1, PartType
  <2>4. Reads(p, i, s.j, s.type, Cut(p, s.begin + 1, s.j - 1))
    <3>1. /\ s.begin \in i + 1 .. Len(p) /\ s.j \in s.begin + 1 .. Len(p)
      BY SMTT(30), <1>1, <1>5, <2>2
    <3> QED
      BY <1>5, <2>2, <3>1, LongField
  <2>5. r \in FieldStates(D) /\ r.j = s.j + 1 /\ r.done /\ ~r.processing
        /\ r.type = s.type /\ r.format = Cut(p, s.begin + 1, s.j - 1)
    BY <2>1, <2>3, <1>1, <1>5 DEF FieldStates
  <2>6. r.j - 1 = s.j /\ r.j \in i + 1 .. Len(p) + 1
    BY SMTT(30), <2>5, <1>1, <1>5
  <2>7. Reads(p, i, r.j - 1, r.type, r.format)
    BY <2>4, <2>5, <2>6, Zenon
  <2> QED
    BY <2>5, <2>6, <2>7 DEF FieldInv
<1>6. CASE /\ ~s.done /\ s.j <= Len(p)
           /\ s.processing => p[s.j] # Pattern!RightBrace
           /\ ~s.processing => p[s.j] # Pattern!LeftBrace /\ p[s.j] \in Letters \cup {Pattern!LeftBrace, Pattern!RightBrace}
  <2> DEFINE t == IF s.j = Len(p) /\ s.type = <<>> THEN Cut(p, i + 1, Len(p)) ELSE s.type
  <2>1. r = [s EXCEPT !.type = t, !.j = s.j + 1]
    BY SMTT(30), <1>1, <1>6 DEF r, Pattern!FieldStep, Cut
  <2>2. t \in Seq(D)
    <3>1. i + 1 \in Nat /\ i + 1 >= 1 /\ Len(p) \in Int /\ Len(p) <= Len(p)
      BY <1>1
    <3>2. Cut(p, i + 1, Len(p)) \in Seq(D)
      BY <3>1, PartType
    <3> QED
      BY <1>7, <3>2
  <2>3. r \in FieldStates(D) /\ r.j = s.j + 1 /\ ~r.done /\ r.processing = s.processing
        /\ r.type = t /\ r.format = s.format /\ r.begin = s.begin
    BY <2>1, <2>2, <1>1, <1>6 DEF FieldStates
  <2>4. s.j >= i + 1 + n
    BY <1>0, <1>1, <1>6 DEF FieldInv
  <2> QED
    BY SMTT(30), <1>0, <1>1, <1>6, <2>3, <2>4 DEF FieldInv
<1> QED
  BY <1>1, <1>8, <1>2, <1>3, <1>4, <1>5, <1>6

\* The loop over a field leaves it behind the field, which is what it has read.
LEMMA FieldIs ==
  ASSUME NEW D, NEW p \in Seq(D), NEW i \in 1 .. Len(p), p[i] = "%"
  PROVE  LET f == Pattern!FieldAt(p, i)
         IN  /\ f \in FieldStates(D) /\ f.j \in i + 1 .. Len(p) + 1
             /\ ~f.processing =>
                  Reads(p, i, f.j - 1, f.type, f.format)
<1> DEFINE N == Len(p)
           T == {s \in FieldStates(D) : \E n \in Nat : FieldInv(p, i, n, s)}
           S == [n \in 0 .. N |-> {s \in T : FieldInv(p, i, n, s)}]
           init == Pattern!NewField(i)
           iter == [n \in 1 .. N |-> [s \in T |-> Pattern!FieldStep(p, i, s)]]
           Is(f) == f = [n \in 0 .. N |->
                      IF n = 0 THEN init ELSE Pattern!FieldStep(p, i, f[n - 1])]
           g == CHOOSE f : Is(f)
<1>1. N \in Nat /\ i \in Nat /\ 1 <= i /\ i <= N
  OBVIOUS
<1>2. FieldInv(p, i, 0, init) /\ init \in FieldStates(D)
  <2>1. init \in FieldStates(D)
    BY <1>1 DEF FieldStates, Pattern!NewField
  <2>2. i + 1 > N => Cut(p, i + 1, N) = <<>>
    BY <1>1, SubSeqEmpty DEF Cut
  <2>3. /\ init.j = i + 1 /\ init.type = <<>> /\ init.format = <<>>
        /\ ~init.processing /\ ~init.done
    BY DEF Pattern!NewField
  <2> HIDE DEF init
  <2> QED
    BY <1>1, <2>1, <2>2, <2>3 DEF FieldInv
<1>3. init \in T
  BY <1>2, <1>1
<1>4. ASSUME NEW s \in T PROVE Pattern!FieldStep(p, i, s) \in T
  <2>1. PICK n \in Nat : FieldInv(p, i, n, s)
    OBVIOUS
  <2>2. /\ Pattern!FieldStep(p, i, s) \in FieldStates(D)
        /\ FieldInv(p, i, n + 1, Pattern!FieldStep(p, i, s))
    BY <2>1, FieldStepKeeps
  <2> QED
    BY <2>2
<1>5. g = [n \in 0 .. N |-> IF n = 0 THEN init ELSE Pattern!FieldStep(p, i, g[n - 1])]
  <2> HIDE DEF T, init, g
  <2>1. iter \in Loops(N, T)
    BY <1>4 DEF Loops
  <2>2. PICK f : Runs(f, N, T, init, iter)
    <3> HIDE DEF iter, N
    <3> QED
      BY <1>1, <1>3, <2>1, LoopExists
  <2>3. /\ f = [n \in 0 .. N |-> f[n]] /\ f[0] = init
        /\ \A n \in 1 .. N : f[n - 1] \in T /\ f[n] = iter[n][f[n - 1]]
    BY SMTT(30), <1>1, <2>2 DEF Runs
  <2>6. ASSUME NEW n \in 0 .. N
        PROVE  f[n] = IF n = 0 THEN init ELSE Pattern!FieldStep(p, i, f[n - 1])
    BY SMTT(30), <2>3
  <2>4. Is(f)
    BY <2>3, <2>6
  <2>5. Is(g)
    BY <2>4 DEF g
  <2> QED
    BY <2>5
<1>6. \A n \in 0 .. N : g[n] \in S[n]
  <2> HIDE DEF g, T, init
  <2>1. g[0] \in S[0]
    BY <1>1, <1>2, <1>3, <1>5
  <2>2. ASSUME NEW n \in 1 .. N, g[n - 1] \in S[n - 1] PROVE g[n] \in S[n]
    <3>1. n - 1 \in 0 .. N /\ n \in 0 .. N /\ n # 0 /\ n - 1 \in Nat /\ (n - 1) + 1 = n
      BY <1>1
    <3>2. g[n - 1] \in T /\ FieldInv(p, i, n - 1, g[n - 1])
      BY <2>2, <3>1
    <3>3. g[n - 1] \in FieldStates(D)
      BY <3>2 DEF T
    <3>4. g[n] = Pattern!FieldStep(p, i, g[n - 1])
      BY <1>5, <3>1
    <3>5. FieldInv(p, i, (n - 1) + 1, Pattern!FieldStep(p, i, g[n - 1]))
      BY <3>1, <3>2, <3>3, FieldStepKeeps
    <3>6. g[n] \in T
      BY <1>4, <3>2, <3>4
    <3> QED
      BY <3>1, <3>4, <3>5, <3>6
  <2> HIDE DEF S
  <2> QED
    BY <1>1, <2>1, <2>2, LoopInvariant
<1>7. Pattern!FieldAt(p, i) = g[N]
  BY DEF Pattern!FieldAt
<1> DEFINE f == g[N]
<1>8. f \in FieldStates(D) /\ FieldInv(p, i, N, f)
  <2> HIDE DEF g
  <2> QED
    BY <1>1, <1>6
<1> HIDE DEF f, g
<1>9. f.j \in Nat /\ f.done \in BOOLEAN /\ f.processing \in BOOLEAN
  BY <1>8 DEF FieldStates
<1>10. ASSUME ~f.processing
       PROVE  Reads(p, i, f.j - 1, f.type, f.format)
  <2>1. CASE f.done
    BY <1>8, <2>1 DEF FieldInv
  <2>2. CASE ~f.done
    <3>1. f.j = N + 1
      BY <1>1, <1>8, <2>2, <1>9 DEF FieldInv
    <3>4. f.format = <<>> /\ f.type = Cut(p, i + 1, N)
      BY <1>1, <1>8, <1>10, <2>2, <3>1 DEF FieldInv
    <3>2. Reads(p, i, N, Cut(p, i + 1, N), <<>>)
      BY <1>1, ShortField
    <3>3. f.j - 1 = N
      BY <3>1, <1>1
    <3> QED
      BY <3>1, <3>4, <3>2, <3>3
  <2> QED
    BY <1>9, <2>1, <2>2
<1> QED
  BY <1>7, <1>8, <1>10 DEF f, FieldInv

\* What Printings goes through.
Prints(g, fields, D) ==
  /\ g \in [0 .. Len(fields) -> SUBSET Seq(D)] /\ g[0] = {<<>>}
  /\ \A n \in 1 .. Len(fields) : g[n] = Joined(g[n - 1], Printed(fields[n]))

\* The characters of fields and of the signs around them.
Signs(D) == "%" \in D /\ Pattern!LeftBrace \in D /\ Pattern!RightBrace \in D

\* A field stands for texts.
LEMMA PrintedType ==
  ASSUME NEW D, Signs(D), NEW f \in Fields(D)
  PROVE  Printed(f) \subseteq Seq(D)
<1>1. f.content \in Seq(D) /\ f.format \in Seq(D)
  BY DEF Fields
<1>2. /\ <<"%">> \in Seq(D) /\ <<Pattern!LeftBrace>> \in Seq(D)
      /\ <<Pattern!RightBrace>> \in Seq(D)
  BY DEF Signs
<1>3. <<"%">> \o f.content \in Seq(D)
  BY <1>1, <1>2, ConcatProperties
<1>4. <<"%">> \o f.content \o <<Pattern!LeftBrace>> \in Seq(D)
  BY <1>3, <1>2, ConcatProperties
<1>5. <<"%">> \o f.content \o <<Pattern!LeftBrace>> \o f.format \in Seq(D)
  BY <1>4, <1>1, ConcatProperties
<1>6. <<"%">> \o f.content \o <<Pattern!LeftBrace>> \o f.format \o <<Pattern!RightBrace>> \in Seq(D)
  BY <1>5, <1>2, ConcatProperties
<1> QED
  BY <1>1, <1>3, <1>6 DEF Printed

\* Concatenations are texts.
LEMMA JoinedType ==
  ASSUME NEW D, NEW A \in SUBSET Seq(D), NEW B \in SUBSET Seq(D)
  PROVE  Joined(A, B) \in SUBSET Seq(D)
<1>1. SUFFICES ASSUME NEW c \in Joined(A, B) PROVE c \in Seq(D)
  OBVIOUS
<1>2. PICK a \in A, b \in B : c = a \o b
  BY DEF Joined
<1> QED
  BY <1>2, ConcatProperties

\* Printings is the last of them.
LEMMA PrintingsRun ==
  ASSUME NEW D, Signs(D), NEW fields \in Seq(Fields(D))
  PROVE  \E g : Prints(g, fields, D) /\ Printings(fields) = g[Len(fields)]
<1> DEFINE N == Len(fields)
           T == SUBSET Seq(D)
           iter == [n \in 1 .. N |-> [A \in T |-> Joined(A, Printed(fields[n]))]]
           Is(f) == f = [n \in 0 .. N |->
                      IF n = 0 THEN {<<>>} ELSE Joined(f[n - 1], Printed(fields[n]))]
           g == CHOOSE f : Is(f)
<1>1. N \in Nat /\ {<<>>} \in T
  OBVIOUS
<1>2. ASSUME NEW n \in 1 .. N, NEW A \in T PROVE Joined(A, Printed(fields[n])) \in T
  <2>1. fields[n] \in Fields(D)
    OBVIOUS
  <2>2. Printed(fields[n]) \in SUBSET Seq(D)
    BY <2>1, PrintedType
  <2> QED
    BY <2>2, JoinedType
<1>3. g = [n \in 0 .. N |-> IF n = 0 THEN {<<>>} ELSE Joined(g[n - 1], Printed(fields[n]))]
  <2> HIDE DEF T, g
  <2>1. iter \in Loops(N, T)
    BY <1>2 DEF Loops
  <2>2. PICK f : Runs(f, N, T, {<<>>}, iter)
    <3> HIDE DEF iter, N
    <3> QED
      BY <1>1, <2>1, LoopExists
  <2>3. /\ f = [n \in 0 .. N |-> f[n]] /\ f[0] = {<<>>}
        /\ \A n \in 1 .. N : f[n - 1] \in T /\ f[n] = iter[n][f[n - 1]]
    BY <1>1, <2>2 DEF Runs
  <2>4. ASSUME NEW n \in 0 .. N
        PROVE  f[n] = IF n = 0 THEN {<<>>} ELSE Joined(f[n - 1], Printed(fields[n]))
    <3>1. CASE n = 0
      BY <2>3, <3>1
    <3>2. CASE n # 0
      <4>1. n \in 1 .. N /\ f[n - 1] \in T
        BY <1>1, <2>3, <3>2
      <4>2. iter[n][f[n - 1]] = Joined(f[n - 1], Printed(fields[n]))
        BY <4>1
      <4> QED
        BY <2>3, <3>2, <4>1, <4>2
    <3> QED
      BY <3>1, <3>2
  <2>5. Is(f)
    BY <2>3, <2>4
  <2>6. Is(g)
    BY <2>5 DEF g
  <2> QED
    BY <2>6
<1>4. /\ g[0] = {<<>>}
      /\ \A n \in 1 .. N : g[n] = Joined(g[n - 1], Printed(fields[n]))
  <2> HIDE DEF g, T
  <2> QED
    BY SMTT(30), <1>1, <1>3
<1>5. \A n \in 0 .. N : g[n] \in T
  <2> DEFINE S == [n \in 0 .. N |-> T]
  <2> HIDE DEF g, T
  <2>1. g[0] \in S[0]
    BY <1>1, <1>4
  <2>2. ASSUME NEW n \in 1 .. N, g[n - 1] \in S[n - 1] PROVE g[n] \in S[n]
    BY <1>2, <1>4, <2>2
  <2>3. \A n \in 0 .. N : g[n] \in S[n]
    <3> HIDE DEF S
    <3> QED
      BY <1>1, <2>1, <2>2, LoopInvariant
  <2> QED
    BY <2>3
<1>6. Prints(g, fields, D)
  <2> HIDE DEF g
  <2>1. g = [n \in 0 .. N |-> g[n]]
    BY <1>3
  <2> QED
    BY <1>4, <1>5, <2>1 DEF Prints
<1>7. Printings(fields) = g[N]
  BY DEF Printings
<1> HIDE DEF g
<1> QED
  BY <1>6, <1>7

\* Printings of one more field.
LEMMA PrintingsMore ==
  ASSUME NEW D, Signs(D), NEW fields \in Seq(Fields(D)), NEW x \in Fields(D)
  PROVE  /\ Printings(<<>>) = {<<>>}
         /\ Printings(fields) \in SUBSET Seq(D)
         /\ Printings(Append(fields, x)) = Joined(Printings(fields), Printed(x))
<1> DEFINE N == Len(fields)
           more == Append(fields, x)
<1>1. /\ N \in Nat /\ more \in Seq(Fields(D)) /\ Len(more) = N + 1 /\ more[N + 1] = x
      /\ \A n \in 1 .. N : more[n] = fields[n]
  OBVIOUS
<1>2. Printings(<<>>) = {<<>>}
  <2>1. <<>> \in Seq(Fields(D)) /\ Len(<<>>) = 0
    OBVIOUS
  <2>2. PICK g : Prints(g, <<>>, D) /\ Printings(<<>>) = g[Len(<<>>)]
    BY <2>1, PrintingsRun
  <2> QED
    BY <2>1, <2>2 DEF Prints
<1>3. PICK g : Prints(g, fields, D) /\ Printings(fields) = g[N]
  BY PrintingsRun
<1> HIDE DEF more
<1>4. PICK h : Prints(h, more, D) /\ Printings(more) = h[N + 1]
  BY <1>1, PrintingsRun
<1>5. \A n \in 0 .. N : h[n] = g[n]
  <2> DEFINE S == [n \in 0 .. N |-> {g[n]}]
  <2>1. h[0] \in S[0]
    BY <1>1, <1>3, <1>4 DEF Prints
  <2>2. ASSUME NEW n \in 1 .. N, h[n - 1] \in S[n - 1] PROVE h[n] \in S[n]
    <3>1. h[n - 1] = g[n - 1]
      BY <2>2, <1>1
    <3>2. g[n] = Joined(g[n - 1], Printed(fields[n]))
      BY <1>3 DEF Prints
    <3>3. n \in 1 .. Len(more) /\ more[n] = fields[n]
      BY <1>1
    <3>4. h[n] = Joined(h[n - 1], Printed(more[n]))
      BY <3>3, <1>4 DEF Prints
    <3> QED
      BY <3>1, <3>2, <3>3, <3>4
  <2>3. \A n \in 0 .. N : h[n] \in S[n]
    <3> HIDE DEF S
    <3> QED
      BY <1>1, <2>1, <2>2, LoopInvariant
  <2> QED
    BY <2>3
<1>6. Printings(fields) \in SUBSET Seq(D)
  BY <1>1, <1>3 DEF Prints
<1>7. h[N + 1] = Joined(h[N], Printed(more[N + 1]))
  <2>1. N + 1 \in 1 .. Len(more) /\ (N + 1) - 1 = N
    BY <1>1
  <2> QED
    BY <2>1, <1>4 DEF Prints
<1>8. h[N] = g[N]
  BY <1>1, <1>5
<1>9. Printings(more) = Joined(Printings(fields), Printed(x))
  BY <1>1, <1>3, <1>4, <1>7, <1>8
<1> QED
  BY <1>2, <1>6, <1>9 DEF more

\* Raw text that waits to become a field is printed as one.
LEMMA FlushPrints ==
  ASSUME NEW D, Signs(D), NEW fields \in Seq(Fields(D)), NEW raw \in Seq(D)
  PROVE  /\ Pattern!Flush(raw, fields) \in Seq(Fields(D))
         /\ Printings(Pattern!Flush(raw, fields)) = Joined(Printings(fields), {raw})
<1>1. Printings(fields) \in SUBSET Seq(D)
  <2>1. Pattern!RawField(<<>>) \in Fields(D)
    BY DEF Fields, Pattern!RawField
  <2> QED
    BY <2>1, PrintingsMore
<1>2. CASE raw = <<>>
  <2>1. Joined(Printings(fields), {raw}) = Printings(fields)
    BY <1>1, <1>2, ConcatEmptySeq DEF Joined
  <2> QED
    BY <1>2, <2>1 DEF Pattern!Flush
<1>3. CASE raw # <<>>
  <2> DEFINE x == Pattern!RawField(raw)
  <2>1. x \in Fields(D) /\ Printed(x) = {raw}
    BY DEF Fields, Pattern!RawField, Printed
  <2>2. Pattern!Flush(raw, fields) = Append(fields, x)
    BY <1>3 DEF Pattern!Flush
  <2> HIDE DEF x
  <2>3. Append(fields, x) \in Seq(Fields(D))
    BY <2>1
  <2> QED
    <3>1. Printings(Append(fields, x)) = Joined(Printings(fields), Printed(x))
      BY <2>1, PrintingsMore
    <3> QED
      BY <2>1, <2>2, <2>3, <3>1
<1> QED
  BY <1>2, <1>3

\* What the loop over a pattern keeps.
ParseStates(D) == [i : Nat, raw : Seq(D), fields : Seq(Fields(D)), invalid : BOOLEAN]

\* No raw field is empty, and none follows another.
Tidy(fields) ==
  /\ \A k \in DOMAIN fields : fields[k].raw => fields[k].content # <<>>
  /\ \A k \in DOMAIN fields : k > 1 => ~(fields[k].raw /\ fields[k - 1].raw)

\* The last field, if there is one, is not raw.
EndsTyped(fields) == \A k \in DOMAIN fields : k = Len(fields) => ~fields[k].raw

\* After n iterations the characters before i are what the fields stand for,
\* with the raw text that is not a field yet behind them.
ReadSoFar(p, k, raw, fields) == Cut(p, 1, k) \in Joined(Printings(fields), {raw})

PatternInv(p, n, s) ==
  /\ s.i \in 1 .. Len(p) + 1
  /\ s.invalid \/ s.i = Len(p) + 1 \/ s.i >= n + 1
  /\ ~s.invalid => ReadSoFar(p, s.i - 1, s.raw, s.fields)
  /\ Tidy(s.fields) /\ EndsTyped(s.fields)

\* Raw text becomes a field between fields that are not raw.
LEMMA FlushTidy ==
  ASSUME NEW D, NEW raw \in Seq(D), NEW fields \in Seq(Fields(D)),
         Tidy(fields), EndsTyped(fields)
  PROVE  Tidy(Pattern!Flush(raw, fields))
<1>1. CASE raw = <<>>
  BY <1>1 DEF Pattern!Flush
<1>2. CASE raw # <<>>
  <2> DEFINE x == Pattern!RawField(raw)
             N == Len(fields)
             more == Append(fields, x)
  <2>1. x \in Fields(D) /\ x.content = raw
    BY DEF Fields, Pattern!RawField
  <2>2. Pattern!Flush(raw, fields) = more
    BY <1>2 DEF Pattern!Flush
  <2> HIDE DEF x
  <2>3. /\ N \in Nat /\ DOMAIN more = 1 .. N + 1 /\ more[N + 1] = x
        /\ \A n \in 1 .. N : more[n] = fields[n]
        /\ DOMAIN fields = 1 .. N
    BY <2>1
  <2> HIDE DEF more, N
  <2>4. ASSUME NEW k \in 1 .. N + 1 PROVE more[k].raw => more[k].content # <<>>
    BY SMTT(30), <1>2, <2>1, <2>3 DEF Tidy
  <2>5. ASSUME NEW k \in 1 .. N + 1, k > 1 PROVE ~(more[k].raw /\ more[k - 1].raw)
    <3>1. CASE k \in 1 .. N
      <4>1. k - 1 \in 1 .. N
        BY <2>3, <2>5, <3>1
      <4> QED
        BY <2>3, <2>5, <3>1, <4>1 DEF Tidy
    <3>2. CASE k = N + 1
      <4>1. k - 1 = N /\ N \in 1 .. N
        BY <2>3, <2>5, <3>2
      <4>2. ~fields[N].raw
        BY <2>3, <4>1 DEF EndsTyped, N
      <4> QED
        BY <2>3, <4>1, <4>2
    <3> QED
      BY <2>3, <3>1, <3>2
  <2> QED
    BY <2>2, <2>3, <2>4, <2>5 DEF Tidy
<1> QED
  BY <1>1, <1>2

\* So does a field that is not raw.
LEMMA TypedTidy ==
  ASSUME NEW D, NEW fields \in Seq(Fields(D)), Tidy(fields), NEW x \in Fields(D), ~x.raw
  PROVE  Tidy(Append(fields, x)) /\ EndsTyped(Append(fields, x))
<1> DEFINE N == Len(fields)
           more == Append(fields, x)
<1>1. /\ N \in Nat /\ DOMAIN more = 1 .. N + 1 /\ more[N + 1] = x /\ Len(more) = N + 1
      /\ \A n \in 1 .. N : more[n] = fields[n]
      /\ DOMAIN fields = 1 .. N
  OBVIOUS
<1> HIDE DEF more, N
<1>2. ASSUME NEW k \in 1 .. N + 1 PROVE more[k].raw => more[k].content # <<>>
  BY <1>1 DEF Tidy
<1>3. ASSUME NEW k \in 1 .. N + 1, k > 1 PROVE ~(more[k].raw /\ more[k - 1].raw)
  <2>1. CASE k \in 1 .. N
    <3>1. k - 1 \in 1 .. N
      BY <1>1, <1>3, <2>1
    <3> QED
      BY <1>1, <1>3, <2>1, <3>1 DEF Tidy
  <2>2. CASE k = N + 1
    BY <1>1, <2>2
  <2> QED
    BY <1>1, <2>1, <2>2
<1> QED
  BY <1>1, <1>2, <1>3 DEF Tidy, EndsTyped, more

\* A text of A and a text of B.
LEMMA JoinedHas ==
  ASSUME NEW A, NEW B, NEW a \in A, NEW b \in B
  PROVE  a \o b \in Joined(A, B)
BY DEF Joined

\* A raw character is read.
LEMMA ReadRaw ==
  ASSUME NEW D, Signs(D), NEW p \in Seq(D), NEW i \in 1 .. Len(p),
         NEW raw \in Seq(D), NEW fields \in Seq(Fields(D)),
         ReadSoFar(p, i - 1, raw, fields)
  PROVE  ReadSoFar(p, i, Append(raw, p[i]), fields)
<1>1. Printings(fields) \in SUBSET Seq(D)
  <2>1. Pattern!RawField(<<>>) \in Fields(D)
    BY DEF Fields, Pattern!RawField
  <2> QED
    BY <2>1, PrintingsMore
<1>2. PICK a \in Printings(fields) : Cut(p, 1, i - 1) = a \o raw
  BY SMTT(30) DEF ReadSoFar, Joined
<1> DEFINE c == <<p[i]>>
<1>3. Cut(p, 1, i) = Cut(p, 1, i - 1) \o c
  BY SubSeqRecursiveSecond DEF Cut
<1>4. a \in Seq(D) /\ c \in Seq(D)
  BY <1>1, <1>2
<1>6. raw \o c = Append(raw, p[i])
  BY AppendIsConcat
<1> HIDE DEF c
<1>5. Cat(Cat(a, raw), c) = Cat(a, Cat(raw, c))
  BY <1>4, CatAssociative
<1>7. Cut(p, 1, i) = a \o Append(raw, p[i])
  BY <1>2, <1>3, <1>5, <1>6, Zenon DEF Cat
<1>8. a \o Append(raw, p[i]) \in Joined(Printings(fields), {Append(raw, p[i])})
  BY JoinedHas
<1> QED
  BY <1>7, <1>8 DEF ReadSoFar

\* A field is read.
LEMMA ReadTyped ==
  ASSUME NEW D, Signs(D), NEW p \in Seq(D), NEW i \in 1 .. Len(p), NEW j \in i + 1 .. Len(p) + 1,
         NEW raw \in Seq(D), NEW fields \in Seq(Fields(D)),
         NEW type \in Seq(D), NEW format \in Seq(D),
         ReadSoFar(p, i - 1, raw, fields), Reads(p, i, j - 1, type, format)
  PROVE  ReadSoFar(p, j - 1, <<>>,
           Append(Pattern!Flush(raw, fields), Pattern!TypedField(type, format)))
<1> DEFINE x == Pattern!TypedField(type, format)
           flushed == Pattern!Flush(raw, fields)
           more == Append(flushed, x)
<1>1. x \in Fields(D)
  BY DEF Fields, Pattern!TypedField
<1>2. flushed \in Seq(Fields(D)) /\ Printings(flushed) = Joined(Printings(fields), {raw})
  BY FlushPrints
<1> HIDE DEF x, flushed
<1>3. more \in Seq(Fields(D))
  BY <1>1, <1>2
<1>4. Printings(more) = Joined(Printings(flushed), Printed(x))
  BY <1>1, <1>2, PrintingsMore
<1>5. Printings(more) \in SUBSET Seq(D)
  <2> HIDE DEF more
  <2> QED
    BY <1>1, <1>3, PrintingsMore
<1>6. Cut(p, 1, j - 1) = Cut(p, 1, i - 1) \o Cut(p, i, j - 1)
  <2>1. /\ 1 \in 1 .. Len(p) + 1 /\ i - 1 \in 1 - 1 .. Len(p) /\ j - 1 \in i - 1 .. Len(p)
        /\ (i - 1) + 1 = i
    OBVIOUS
  <2> QED
    BY <2>1, ConcatAdjacentSubSeq DEF Cut
<1>7. Cut(p, 1, i - 1) \in Printings(flushed) /\ Cut(p, i, j - 1) \in Printed(x)
  BY <1>2 DEF ReadSoFar, Reads, Cut, x
<1>8. Cut(p, 1, j - 1) \in Printings(more)
  <2>1. Cut(p, 1, i - 1) \o Cut(p, i, j - 1) \in Joined(Printings(flushed), Printed(x))
    BY <1>7, JoinedHas
  <2> QED
    BY <1>4, <1>6, <2>1
<1>9. Cut(p, 1, j - 1) \o <<>> = Cut(p, 1, j - 1)
  BY <1>5, <1>8, ConcatEmptySeq
<1>10. Cut(p, 1, j - 1) \in Joined(Printings(more), {<<>>})
  BY <1>8, <1>9 DEF Joined
<1> QED
  BY <1>10 DEF ReadSoFar, x, flushed

\* One iteration keeps it.
LEMMA PatternStepKeeps ==
  ASSUME NEW D, Signs(D), NEW p \in Seq(D), NEW n \in Nat, NEW s \in ParseStates(D)
  PROVE  PatternInv(p, n, s) => /\ Pattern!ParseStep(p, s) \in ParseStates(D)
                                /\ PatternInv(p, n + 1, Pattern!ParseStep(p, s))
<1> DEFINE r == Pattern!ParseStep(p, s)
<1>0. SUFFICES ASSUME PatternInv(p, n, s)
               PROVE  r \in ParseStates(D) /\ PatternInv(p, n + 1, r)
  OBVIOUS
<1> HIDE DEF r
<1>1. /\ Len(p) \in Nat /\ s.i \in Nat /\ s.i + 1 \in Nat /\ 1 <= s.i /\ s.i <= Len(p) + 1
  BY <1>0 DEF PatternInv, ParseStates
<1>2. s.raw \in Seq(D) /\ s.fields \in Seq(Fields(D))
  BY DEF ParseStates
<1>3. s.invalid \in BOOLEAN
  BY DEF ParseStates
<1>4. Tidy(s.fields) /\ EndsTyped(s.fields)
  BY <1>0 DEF PatternInv
<1>5. CASE s.invalid \/ s.i > Len(p)
  <2>1. r = s
    BY <1>5 DEF r, Pattern!ParseStep
  <2> QED
    BY <1>0, <1>1, <1>5, <2>1 DEF PatternInv
<1>6. CASE ~s.invalid /\ s.i <= Len(p) /\ Pattern!RawAt(p, s.i)
  <2>1. r = [s EXCEPT !.i = s.i + 1, !.raw = Append(s.raw, p[s.i])]
    BY <1>1, <1>6 DEF r, Pattern!ParseStep
  <2>2. p[s.i] \in D
    BY <1>1, <1>6
  <2>3. Append(s.raw, p[s.i]) \in Seq(D)
    BY <1>2, <2>2
  <2>4. /\ r \in ParseStates(D) /\ r.i = s.i + 1 /\ r.raw = Append(s.raw, p[s.i])
        /\ r.fields = s.fields /\ r.invalid = s.invalid
    BY <1>1, <2>1, <2>3 DEF ParseStates
  <2>5. ReadSoFar(p, s.i - 1, s.raw, s.fields)
    BY <1>0, <1>6 DEF PatternInv
  <2>6. ReadSoFar(p, s.i, r.raw, r.fields)
    <3>1. s.i \in 1 .. Len(p)
      BY <1>1, <1>6
    <3> QED
      BY <1>2, <2>4, <2>5, <3>1, ReadRaw
  <2>7. r.i - 1 = s.i
    BY <1>1, <2>4
  <2>8. s.i >= n + 1
    BY <1>0, <1>1, <1>6 DEF PatternInv
  <2> QED
    BY <1>1, <1>4, <1>6, <2>4, <2>6, <2>7, <2>8 DEF PatternInv
<1>7. CASE ~s.invalid /\ s.i <= Len(p) /\ ~Pattern!RawAt(p, s.i)
  <2> DEFINE f == Pattern!FieldAt(p, s.i)
             flushed == Pattern!Flush(s.raw, s.fields)
             x == Pattern!TypedField(f.type, f.format)
             more == Append(flushed, x)
  <2>1. r = [i |-> f.j, raw |-> <<>>, invalid |-> f.processing, fields |-> more]
    BY <1>1, <1>7 DEF r, Pattern!ParseStep, Pattern!Behind
  <2>2. s.i \in 1 .. Len(p) /\ p[s.i] = "%"
    BY <1>1, <1>7 DEF Pattern!RawAt
  <2>3. /\ f \in FieldStates(D) /\ f.j \in s.i + 1 .. Len(p) + 1
        /\ ~f.processing => Reads(p, s.i, f.j - 1, f.type, f.format)
    BY <2>2, FieldIs
  <2> HIDE DEF f
  <2>4. f.j \in Nat /\ f.processing \in BOOLEAN
    BY <2>3 DEF FieldStates
  <2>5. f.type \in Seq(D) /\ f.format \in Seq(D)
    BY <2>3 DEF FieldStates
  <2>6. x \in Fields(D) /\ ~x.raw
    BY <2>5 DEF Fields, Pattern!TypedField
  <2>7. flushed \in Seq(Fields(D)) /\ Tidy(flushed)
    BY <1>2, <1>4, FlushPrints, FlushTidy
  <2>8. Tidy(more) /\ EndsTyped(more)
    <3> HIDE DEF x, flushed
    <3> QED
      BY <2>6, <2>7, TypedTidy
  <2>9. more \in Seq(Fields(D))
    <3> HIDE DEF x, flushed
    <3> QED
      BY <2>6, <2>7
  <2>10. ReadSoFar(p, s.i - 1, s.raw, s.fields)
    BY <1>0, <1>7 DEF PatternInv
  <2>11. ~f.processing => ReadSoFar(p, f.j - 1, <<>>, more)
    BY <1>2, <2>2, <2>3, <2>5, <2>10, ReadTyped
  <2> HIDE DEF more, x, flushed
  <2>12. r \in ParseStates(D)
    BY <2>1, <2>4, <2>9 DEF ParseStates
  <2>13. r.i = f.j /\ r.raw = <<>> /\ r.fields = more /\ r.invalid = f.processing
    BY <2>1
  <2>14. s.i >= n + 1
    BY <1>0, <1>1, <1>7 DEF PatternInv
  <2> QED
    BY <1>1, <2>3, <2>4, <2>8, <2>11, <2>12, <2>13, <2>14 DEF PatternInv
<1> QED
  BY <1>1, <1>3, <1>5, <1>6, <1>7

\* ParsePattern gives fields that stand for the whole pattern, and are tidy.
LEMMA PatternIs ==
  ASSUME NEW D, Signs(D), NEW p \in Seq(D)
  PROVE  \/ Pattern!ParsePattern(p) = Invalid
         \/ \E fields \in Seq(Fields(D)) : /\ Pattern!ParsePattern(p) = fields
                                          /\ p \in Printings(fields) /\ Tidy(fields)
<1> DEFINE N == Len(p)
           T == {s \in ParseStates(D) : \E n \in Nat : PatternInv(p, n, s)}
           S == [n \in 0 .. N |-> {s \in T : PatternInv(p, n, s)}]
           init == [i |-> 1, raw |-> <<>>, fields |-> <<>>, invalid |-> FALSE]
           iter == [n \in 1 .. N |-> [s \in T |-> Pattern!ParseStep(p, s)]]
           Is(f) == f = [n \in 0 .. N |->
                      IF n = 0 THEN init ELSE Pattern!ParseStep(p, f[n - 1])]
           g == CHOOSE f : Is(f)
<1>1. N \in Nat
  OBVIOUS
<1>2. PatternInv(p, 0, init) /\ init \in ParseStates(D)
  <2>1. init \in ParseStates(D)
    BY DEF ParseStates
  <2>2. init.i = 1 /\ init.raw = <<>> /\ init.fields = <<>> /\ ~init.invalid
    OBVIOUS
  <2> HIDE DEF init
  <2>3. Tidy(<<>>) /\ EndsTyped(<<>>)
    BY DEF Tidy, EndsTyped
  <2>4. ReadSoFar(p, 0, <<>>, <<>>)
    <3>1. Pattern!RawField(<<>>) \in Fields(D) /\ <<>> \in Seq(Fields(D))
      BY DEF Fields, Pattern!RawField
    <3>2. Printings(<<>>) = {<<>>}
      BY <3>1, PrintingsMore
    <3>3. Cut(p, 1, 0) = <<>> \o <<>>
      BY SubSeqEmpty DEF Cut
    <3>4. <<>> \o <<>> \in Joined({<<>>}, {<<>>})
      BY JoinedHas
    <3> QED
      BY <3>2, <3>3, <3>4 DEF ReadSoFar
  <2> QED
    BY <1>1, <2>1, <2>2, <2>3, <2>4 DEF PatternInv
<1>3. init \in T
  BY <1>2, <1>1
<1>4. ASSUME NEW s \in T PROVE Pattern!ParseStep(p, s) \in T
  <2>1. PICK n \in Nat : PatternInv(p, n, s)
    OBVIOUS
  <2>2. /\ Pattern!ParseStep(p, s) \in ParseStates(D)
        /\ PatternInv(p, n + 1, Pattern!ParseStep(p, s))
    BY <2>1, PatternStepKeeps
  <2> QED
    BY <2>2
<1>5. g = [n \in 0 .. N |-> IF n = 0 THEN init ELSE Pattern!ParseStep(p, g[n - 1])]
  <2> HIDE DEF T, init, g
  <2>1. iter \in Loops(N, T)
    BY <1>4 DEF Loops
  <2>2. PICK f : Runs(f, N, T, init, iter)
    <3> HIDE DEF iter, N
    <3> QED
      BY <1>1, <1>3, <2>1, LoopExists
  <2>3. /\ f = [n \in 0 .. N |-> f[n]] /\ f[0] = init
        /\ \A n \in 1 .. N : f[n - 1] \in T /\ f[n] = iter[n][f[n - 1]]
    BY <1>1, <2>2 DEF Runs
  <2>4. ASSUME NEW n \in 0 .. N
        PROVE  f[n] = IF n = 0 THEN init ELSE Pattern!ParseStep(p, f[n - 1])
    BY <2>3
  <2>5. Is(f)
    BY <2>3, <2>4
  <2>6. Is(g)
    BY <2>5 DEF g
  <2> QED
    BY <2>6
<1>6. \A n \in 0 .. N : g[n] \in S[n]
  <2> HIDE DEF g, T, init
  <2>1. g[0] \in S[0]
    BY <1>1, <1>2, <1>3, <1>5
  <2>2. ASSUME NEW n \in 1 .. N, g[n - 1] \in S[n - 1] PROVE g[n] \in S[n]
    <3>1. n - 1 \in 0 .. N /\ n \in 0 .. N /\ n # 0 /\ n - 1 \in Nat /\ (n - 1) + 1 = n
      BY <1>1
    <3>2. g[n - 1] \in T /\ PatternInv(p, n - 1, g[n - 1])
      BY <2>2, <3>1
    <3>3. g[n - 1] \in ParseStates(D)
      BY <3>2 DEF T
    <3>4. g[n] = Pattern!ParseStep(p, g[n - 1])
      BY <1>5, <3>1
    <3>5. PatternInv(p, (n - 1) + 1, Pattern!ParseStep(p, g[n - 1]))
      BY <3>1, <3>2, <3>3, PatternStepKeeps
    <3>6. g[n] \in T
      BY <1>4, <3>2, <3>4
    <3> QED
      BY <3>1, <3>4, <3>5, <3>6
  <2> HIDE DEF S
  <2> QED
    BY <1>1, <2>1, <2>2, LoopInvariant
<1> DEFINE last == g[N]
<1>7. Pattern!ParsePattern(p) =
        IF last.invalid THEN Invalid ELSE Pattern!Flush(last.raw, last.fields)
  BY DEF Pattern!ParsePattern
<1>8. last \in ParseStates(D) /\ PatternInv(p, N, last)
  <2> HIDE DEF g
  <2> QED
    BY <1>1, <1>6
<1> HIDE DEF last, g
<1> DEFINE fields == Pattern!Flush(last.raw, last.fields)
<1>9. ASSUME ~last.invalid
      PROVE  fields \in Seq(Fields(D)) /\ p \in Printings(fields) /\ Tidy(fields)
  <2>1. last.raw \in Seq(D) /\ last.fields \in Seq(Fields(D))
    BY <1>8 DEF ParseStates
  <2>2. last.i \in Nat
    BY <1>8 DEF ParseStates
  <2>3. last.i = N + 1
    BY <1>1, <1>8, <1>9, <2>2 DEF PatternInv
  <2>4. ReadSoFar(p, last.i - 1, last.raw, last.fields)
    BY <1>8, <1>9 DEF PatternInv
  <2>5. Tidy(last.fields) /\ EndsTyped(last.fields)
    BY <1>8 DEF PatternInv
  <2>6. fields \in Seq(Fields(D)) /\ Tidy(fields)
        /\ Printings(fields) = Joined(Printings(last.fields), {last.raw})
    BY <2>1, <2>5, FlushPrints, FlushTidy
  <2>7. last.i - 1 = N
    BY <1>1, <2>3
  <2>8. Cut(p, 1, N) = p
    BY SubSeqFull DEF Cut
  <2> QED
    BY <2>4, <2>6, <2>7, <2>8 DEF ReadSoFar
<1> HIDE DEF fields
<1>10. Pattern!ParsePattern(p) = IF last.invalid THEN Invalid ELSE fields
  BY <1>7 DEF fields
<1>11. CASE last.invalid
  BY <1>10, <1>11
<1>12. CASE ~last.invalid
  BY <1>9, <1>10, <1>12
<1> QED
  BY <1>11, <1>12

\* Texts are of their kind's characters.
TextTypeOK == /\ kind \in {"form", "long"} => text \in Seq(FormChars \cup CoreChars)
              /\ kind = "pattern" => text \in Seq(PatternChars)
              /\ kind = "page" => text \in Seq(PageChars)

\* The text of every state is one of the kind's characters.
LEMMA TextTypes == TextSpec => []TextTypeOK
<1>1. TextInit => TextTypeOK
  BY DEF TextInit, TextTypeOK
<1>2. TextTypeOK /\ [TextNext]_<<kind, text>> => TextTypeOK'
  <2> SUFFICES ASSUME TextTypeOK, [TextNext]_<<kind, text>> PROVE TextTypeOK'
    OBVIOUS
  <2>1. CASE Grow("form", FormChars, MaxForm)
    BY <2>1 DEF Grow, TextTypeOK
  <2>2. CASE Grow("long", CoreChars, MaxCore)
    BY <2>2 DEF Grow, TextTypeOK
  <2>3. CASE Grow("pattern", PatternChars, MaxPattern)
    BY <2>3 DEF Grow, TextTypeOK
  <2>4. CASE Grow("page", PageChars, MaxPage)
    BY <2>4 DEF Grow, TextTypeOK
  <2>5. CASE UNCHANGED <<kind, text>>
    BY <2>5 DEF TextTypeOK
  <2> QED
    BY <2>1, <2>2, <2>3, <2>4, <2>5 DEF TextNext
<1> QED
  BY <1>1, <1>2, PTL DEF TextSpec

\* For any characters: ParsePattern loses, doubles and moves no character.
THEOREM PatternsAreKept == TextSpec => []PatternIsKept
<1>1. TextTypeOK => PatternIsKept
  <2> SUFFICES ASSUME kind = "pattern", text \in Seq(PatternChars) PROVE PatternIsKept
    BY DEF TextTypeOK, PatternIsKept
  <2> DEFINE D == PatternChars \cup {"%", Pattern!LeftBrace, Pattern!RightBrace}
             fields == Pattern!ParsePattern(text)
  <2>1. Signs(D)
    BY DEF Signs
  <2>2. text \in Seq(D)
    BY SeqMonotonic
  <2> HIDE DEF D
  <2>3. CASE fields = Invalid
    BY <2>3 DEF PatternIsKept, Pattern!Accepts
  <2>4. CASE fields # Invalid
    <3>1. fields \in Seq(Fields(D)) /\ text \in Printings(fields) /\ Tidy(fields)
      BY <2>1, <2>2, <2>4, PatternIs
    <3>2. Pattern!Accepts(text) => \A i \in DOMAIN fields : fields[i].raw \/ fields[i].content \in Tags
      BY DEF Pattern!Accepts
    <3> HIDE DEF fields
    <3>3. ASSUME Pattern!Accepts(text), NEW i \in DOMAIN fields
          PROVE  /\ fields[i].content # <<>>
                 /\ i > 1 => ~(fields[i].raw /\ fields[i - 1].raw)
      BY <3>1, <3>2, <3>3, PatternAssumption DEF Tidy
    <3> QED
      BY <3>1, <3>3 DEF PatternIsKept, fields
  <2> QED
    BY <2>3, <2>4
<1> QED
  BY <1>1, TextTypes, PTL

-----------------------------------------------------------------------------
(* Concatenations of many texts.                                           *)

\* The first n of a sequence.
Pre(s, n) == SubSeq(s, 1, n)

\* A sequence grows one by one.
LEMMA PreMore ==
  ASSUME NEW X, NEW s \in Seq(X)
  PROVE  /\ Pre(s, 0) = <<>> /\ Pre(s, Len(s)) = s
         /\ \A n \in 0 .. Len(s) : Pre(s, n) \in Seq(X) /\ Len(Pre(s, n)) = n
         /\ \A n \in 0 .. Len(s) - 1 : /\ s[n + 1] \in X
                                       /\ Pre(s, n + 1) = Append(Pre(s, n), s[n + 1])
<1>1. Pre(s, 0) = <<>> /\ Pre(s, Len(s)) = s
  BY SubSeqEmpty, SubSeqFull DEF Pre
<1>2. ASSUME NEW n \in 0 .. Len(s) PROVE Pre(s, n) \in Seq(X) /\ Len(Pre(s, n)) = n
  <2>1. \A i \in 1 .. n : s[i] \in X
    OBVIOUS
  <2>2. n \in Int /\ (IF 1 <= n THEN n - 1 + 1 ELSE 0) = n
    OBVIOUS
  <2> QED
    BY <2>1, <2>2, SubSeqProperties DEF Pre
<1>3. ASSUME NEW n \in 0 .. Len(s) - 1
      PROVE  s[n + 1] \in X /\ Pre(s, n + 1) = Append(Pre(s, n), s[n + 1])
  <2>1. n + 1 \in 1 .. Len(s) /\ 1 \in 1 .. Len(s) /\ (n + 1) - 1 = n /\ n \in 0 .. Len(s)
    OBVIOUS
  <2>2. SubSeq(s, 1, n + 1) = SubSeq(s, 1, n) \o <<s[n + 1]>>
    BY <2>1, SubSeqRecursiveSecond
  <2>3. s[n + 1] \in X
    BY <2>1
  <2>4. SubSeq(s, 1, n) \in Seq(X)
    BY <1>2, <2>1 DEF Pre
  <2>5. Append(SubSeq(s, 1, n), s[n + 1]) = SubSeq(s, 1, n) \o <<s[n + 1]>>
    BY <2>3, <2>4, AppendIsConcat
  <2> QED
    BY <2>2, <2>3, <2>5 DEF Pre
<1> QED
  BY <1>1, <1>2, <1>3

\* A concatenation of texts is one.
LEMMA FlattenType ==
  ASSUME NEW X, NEW s \in Seq(Seq(X))
  PROVE  FlattenSeq(s) \in Seq(X)
<1> DEFINE S == {n \in Nat : n <= Len(s) => FlattenSeq(Pre(s, n)) \in Seq(X)}
<1>1. 0 \in S
  <2>1. Pre(s, 0) = <<>> /\ FlattenSeq(<<>>) = <<>> /\ <<>> \in Seq(X)
    BY PreMore DEF FlattenSeq
  <2>2. FlattenSeq(Pre(s, 0)) = <<>>
    BY <2>1
  <2> QED
    BY <2>1, <2>2
<1>2. ASSUME NEW n \in Nat, n \in S PROVE n + 1 \in S
  <2> SUFFICES ASSUME n + 1 <= Len(s) PROVE FlattenSeq(Pre(s, n + 1)) \in Seq(X)
    OBVIOUS
  <2>1. n \in 0 .. Len(s) - 1 /\ n \in 0 .. Len(s)
    OBVIOUS
  <2>2. /\ Pre(s, n) \in Seq(Seq(X)) /\ s[n + 1] \in Seq(X)
        /\ Pre(s, n + 1) = Append(Pre(s, n), s[n + 1])
    BY <2>1, PreMore
  <2>3. FlattenSeq(Append(Pre(s, n), s[n + 1])) = FlattenSeq(Pre(s, n)) \o s[n + 1]
    BY <2>2, FlattenMore
  <2>4. FlattenSeq(Pre(s, n)) \in Seq(X)
    BY <1>2, <2>1
  <2> QED
    BY ZenonT(60), <2>2, <2>3, <2>4, ConcatProperties
<1> HIDE DEF S
<1>3. Len(s) \in S
  <2>1. Nat \subseteq S
    BY <1>1, <1>2, Induction, Zenon
  <2>2. Len(s) \in Nat
    OBVIOUS
  <2> QED
    BY <2>1, <2>2
<1> QED
  BY <1>3, PreMore DEF S

\* To append before or after concatenating is the same.
LEMMA CatAppend ==
  ASSUME NEW D, NEW s \in Seq(D), NEW u \in Seq(D), NEW x \in D
  PROVE  s \o u \in Seq(D) /\ s \o Append(u, x) = Append(s \o u, x)
<1>1. s \o u \in Seq(D)
  BY ConcatProperties
<1>2. <<x>> \in Seq(D)
  OBVIOUS
<1>3. Append(u, x) = u \o <<x>> /\ Append(s \o u, x) = (s \o u) \o <<x>>
  BY <1>1, AppendIsConcat
<1>4. (s \o u) \o <<x>> = s \o (u \o <<x>>)
  BY SMTT(30), <1>2, ConcatAssociative
<1> QED
  BY <1>1, <1>3, <1>4, Zenon

\* Concatenations of concatenations.
LEMMA FlattenCat ==
  ASSUME NEW X, NEW s \in Seq(Seq(X)), NEW t \in Seq(Seq(X))
  PROVE  FlattenSeq(s \o t) = FlattenSeq(s) \o FlattenSeq(t)
<1> DEFINE Is(n) == FlattenSeq(s \o Pre(t, n)) = Cat(FlattenSeq(s), FlattenSeq(Pre(t, n)))
           S == {n \in Nat : n <= Len(t) => Is(n)}
<1>0. FlattenSeq(s) \in Seq(X)
  BY FlattenType
<1>1. 0 \in S
  <2>1. Pre(t, 0) = <<>> /\ FlattenSeq(<<>>) = <<>>
    BY PreMore DEF FlattenSeq
  <2>2. s \o <<>> = s
    BY ConcatEmptySeq
  <2>3. FlattenSeq(s) \o <<>> = FlattenSeq(s)
    BY <1>0, ConcatEmptySeq
  <2> QED
    BY <2>1, <2>2, <2>3 DEF Cat
<1>2. ASSUME NEW n \in Nat, n \in S PROVE n + 1 \in S
  <2> SUFFICES ASSUME n + 1 <= Len(t) PROVE Is(n + 1)
    OBVIOUS
  <2> DEFINE u == Pre(t, n)
             x == t[n + 1]
  <2>1. n \in 0 .. Len(t) - 1 /\ n \in 0 .. Len(t)
    OBVIOUS
  <2>2. u \in Seq(Seq(X)) /\ x \in Seq(X) /\ Pre(t, n + 1) = Append(u, x)
    BY <2>1, PreMore
  <2>3. FlattenSeq(s \o u) = Cat(FlattenSeq(s), FlattenSeq(u))
    BY <1>2, <2>1
  <2> HIDE DEF u, x
  <2>4. s \o u \in Seq(Seq(X)) /\ s \o Append(u, x) = Append(s \o u, x)
    BY SMTT(30), <2>2, CatAppend
  <2>5. /\ FlattenSeq(Append(u, x)) = Cat(FlattenSeq(u), x)
        /\ FlattenSeq(Append(s \o u, x)) = Cat(FlattenSeq(s \o u), x)
    BY <2>2, <2>4, FlattenMore DEF Cat
  <2>6. FlattenSeq(u) \in Seq(X)
    BY <2>2, FlattenType
  <2>7. Cat(Cat(FlattenSeq(s), FlattenSeq(u)), x) = Cat(FlattenSeq(s), Cat(FlattenSeq(u), x))
    BY <1>0, <2>2, <2>6, CatAssociative
  <2> QED
    BY <2>2, <2>3, <2>4, <2>5, <2>7
<1>3. Len(t) \in S
  <2> HIDE DEF S
  <2>1. Nat \subseteq S
    BY <1>1, <1>2, Induction, Zenon
  <2>2. Len(t) \in Nat
    OBVIOUS
  <2> QED
    BY <2>1, <2>2
<1>4. Is(Len(t)) /\ Pre(t, Len(t)) = t
  BY <1>3, PreMore
<1> QED
  BY <1>4 DEF Cat

\* Single characters, one after another, are the text.
LEMMA FlattenSingles ==
  ASSUME NEW X, NEW x \in Seq(X), NEW s \in Seq(Seq(X)), Len(s) = Len(x),
         \A i \in 1 .. Len(x) : s[i] = <<x[i]>>
  PROVE  FlattenSeq(s) = x
<1> DEFINE S == {n \in Nat : n <= Len(s) => FlattenSeq(Pre(s, n)) = Pre(x, n)}
<1>1. 0 \in S
  <2>1. Pre(s, 0) = <<>> /\ Pre(x, 0) = <<>> /\ FlattenSeq(<<>>) = <<>>
    BY PreMore DEF FlattenSeq
  <2> QED
    BY <2>1
<1>2. ASSUME NEW n \in Nat, n \in S PROVE n + 1 \in S
  <2> SUFFICES ASSUME n + 1 <= Len(s) PROVE FlattenSeq(Pre(s, n + 1)) = Pre(x, n + 1)
    OBVIOUS
  <2>1. n \in 0 .. Len(s) - 1 /\ n \in 0 .. Len(s) /\ n + 1 \in 1 .. Len(x)
    OBVIOUS
  <2>2. /\ Pre(s, n) \in Seq(Seq(X)) /\ s[n + 1] \in Seq(X)
        /\ Pre(s, n + 1) = Append(Pre(s, n), s[n + 1])
    BY <2>1, PreMore
  <2>3. /\ Pre(x, n) \in Seq(X) /\ x[n + 1] \in X
        /\ Pre(x, n + 1) = Append(Pre(x, n), x[n + 1])
    <3>1. n \in 0 .. Len(x) - 1 /\ n \in 0 .. Len(x)
      BY <2>1
    <3> QED
      BY ZenonT(60), <3>1, PreMore
  <2>4. FlattenSeq(Append(Pre(s, n), s[n + 1])) = FlattenSeq(Pre(s, n)) \o s[n + 1]
    BY <2>2, FlattenMore
  <2>5. FlattenSeq(Pre(s, n)) = Pre(x, n) /\ s[n + 1] = <<x[n + 1]>>
    BY <1>2, <2>1
  <2>6. Append(Pre(x, n), x[n + 1]) = Pre(x, n) \o <<x[n + 1]>>
    BY <2>3, AppendIsConcat
  <2> QED
    BY <2>2, <2>3, <2>4, <2>5, <2>6
<1> HIDE DEF S
<1>3. Len(s) \in S
  <2>1. Nat \subseteq S
    BY <1>1, <1>2, Induction, Zenon
  <2>2. Len(s) \in Nat
    OBVIOUS
  <2> QED
    BY <2>1, <2>2
<1>4. Pre(s, Len(s)) = s /\ Pre(x, Len(s)) = x
  BY PreMore
<1> QED
  BY <1>3, <1>4 DEF S

\* Nothing, as often as you like, is nothing.
LEMMA FlattenNothing ==
  ASSUME NEW X, NEW s \in Seq(Seq(X)), \A i \in 1 .. Len(s) : s[i] = <<>>
  PROVE  FlattenSeq(s) = <<>>
<1> DEFINE S == {n \in Nat : n <= Len(s) => FlattenSeq(Pre(s, n)) = <<>>}
<1>1. 0 \in S
  <2>1. Pre(s, 0) = <<>> /\ FlattenSeq(<<>>) = <<>> /\ <<>> \in Seq(X)
    BY PreMore DEF FlattenSeq
  <2>2. FlattenSeq(Pre(s, 0)) = <<>>
    BY <2>1
  <2> QED
    BY <2>1, <2>2
<1>2. ASSUME NEW n \in Nat, n \in S PROVE n + 1 \in S
  <2> SUFFICES ASSUME n + 1 <= Len(s) PROVE FlattenSeq(Pre(s, n + 1)) = <<>>
    OBVIOUS
  <2>1. n \in 0 .. Len(s) - 1 /\ n \in 0 .. Len(s) /\ n + 1 \in 1 .. Len(s)
    OBVIOUS
  <2>2. /\ Pre(s, n) \in Seq(Seq(X)) /\ s[n + 1] \in Seq(X)
        /\ Pre(s, n + 1) = Append(Pre(s, n), s[n + 1])
    BY <2>1, PreMore
  <2>3. FlattenSeq(Append(Pre(s, n), s[n + 1])) = FlattenSeq(Pre(s, n)) \o s[n + 1]
    BY <2>2, FlattenMore
  <2>4. FlattenSeq(Pre(s, n)) = <<>> /\ s[n + 1] = <<>>
    BY <1>2, <2>1
  <2>5. <<>> \o <<>> = <<>>
    OBVIOUS
  <2> QED
    BY <2>2, <2>3, <2>4, <2>5
<1> HIDE DEF S
<1>3. Len(s) \in S
  <2>1. Nat \subseteq S
    BY <1>1, <1>2, Induction, Zenon
  <2>2. Len(s) \in Nat
    OBVIOUS
  <2> QED
    BY <2>1, <2>2
<1> QED
  BY <1>3, PreMore DEF S

-----------------------------------------------------------------------------
(* Pages: the length.                                                      *)

\* The concatenation of PageText is that of the library.
LEMMA SameFlatten == \A s : Page!FlattenSeq(s) = FlattenSeq(s)
BY DEF Page!FlattenSeq, FlattenSeq

\* The length of one more.
LEMMA FlattenLength ==
  ASSUME NEW X, NEW s \in Seq(Seq(X)), NEW n \in 1 .. Len(s)
  PROVE  /\ Len(FlattenSeq(Pre(s, n))) \in Nat /\ Len(FlattenSeq(Pre(s, n - 1))) \in Nat
         /\ Len(FlattenSeq(Pre(s, n))) = Len(FlattenSeq(Pre(s, n - 1))) + Len(s[n])
<1> DEFINE m == n - 1
           u == Pre(s, m)
           x == s[n]
<1>1. m \in 0 .. Len(s) - 1 /\ m \in 0 .. Len(s) /\ m + 1 = n
  OBVIOUS
<1>2. u \in Seq(Seq(X)) /\ s[m + 1] \in Seq(X) /\ Pre(s, m + 1) = Append(u, s[m + 1])
  <2> HIDE DEF m
  <2> QED
    BY <1>1, PreMore
<1>3. x \in Seq(X) /\ Pre(s, n) = Append(u, x)
  BY <1>1, <1>2
<1> HIDE DEF m, u, x
<1>4. FlattenSeq(Append(u, x)) = FlattenSeq(u) \o x
  BY <1>2, <1>3, FlattenMore
<1>5. FlattenSeq(u) \in Seq(X)
  BY <1>2, FlattenType
<1>6. Len(FlattenSeq(u) \o x) = Len(FlattenSeq(u)) + Len(x)
  BY <1>3, <1>5, ConcatProperties
<1>7. Len(FlattenSeq(u)) \in Nat /\ Len(x) \in Nat
  BY <1>3, <1>5
<1>8. FlattenSeq(Pre(s, n)) = FlattenSeq(u) \o x
  BY <1>3, <1>4
<1>9. Len(FlattenSeq(Pre(s, n))) = Len(FlattenSeq(u)) + Len(x)
  BY <1>6, <1>8
<1>10. Len(FlattenSeq(Pre(s, n))) \in Nat
  BY <1>7, <1>9
<1> QED
  BY <1>7, <1>9, <1>10 DEF m, u, x

\* The length in the head of a page is that of the bytes behind it.
LEMMA LengthIsRight ==
  ASSUME NEW X, Page!CR \in X, Page!LF \in X, NEW lines \in Seq(Seq(X)), lines # <<>>
  PROVE  Page!ContentLength(lines) = Len(Page!Content(lines))
<1> DEFINE N == Len(lines)
           Line(i) == IF i # Len(lines) THEN lines[i] \o <<Page!CR, Page!LF>> ELSE lines[i]
           C == [i \in DOMAIN lines |-> Line(i)]
           size == [n \in 1 .. N |-> Len(lines[n])]
           iter == [n \in 1 .. N |-> [k \in Int |-> k + size[n]]]
           init == Page!LineEnds(N)
           Is(f) == f = [i \in 0 .. N |->
                           IF i = 0 THEN init ELSE f[i - 1] + Len(lines[i])]
           g == CHOOSE f : Is(f)
           L(n) == Len(FlattenSeq(Pre(C, n)))
<1>1. N \in Nat /\ N >= 1 /\ init = 2 * (N - 1) /\ init \in Int
  BY DEF Page!LineEnds
<1>2. ASSUME NEW n \in 1 .. N
      PROVE  /\ Line(n) \in Seq(X) /\ Len(lines[n]) \in Nat
             /\ Len(Line(n)) = Len(lines[n]) + (IF n = N THEN 0 ELSE 2)
  <2> DEFINE x == lines[n]
             y == <<Page!CR, Page!LF>>
  <2>1. x \in Seq(X) /\ y \in Seq(X) /\ Len(y) = 2
    OBVIOUS
  <2>2. Line(n) = IF n # N THEN x \o y ELSE x
    OBVIOUS
  <2> HIDE DEF x, y, Line, N
  <2>5. Len(x) \in Nat
    BY <2>1
  <2>6. x \o y \in Seq(X) /\ Len(x \o y) = Len(x) + Len(y)
    BY <2>1, ConcatProperties
  <2>3. x \o y \in Seq(X) /\ Len(x \o y) = Len(x) + 2 /\ Len(x) \in Nat
    BY <2>1, <2>5, <2>6
  <2>4. Line(n) \in Seq(X) /\ Len(x) \in Nat /\ Len(Line(n)) = Len(x) + (IF n = N THEN 0 ELSE 2)
    BY <2>1, <2>2, <2>3
  <2> QED
    BY <2>4 DEF x
<1>3. C = [i \in 1 .. N |-> Line(i)]
  OBVIOUS
<1>13. \A n \in 1 .. N : size[n] = Len(lines[n]) /\ size[n] \in Nat
  BY <1>2
<1> HIDE DEF size, init
<1>4. /\ g = [i \in 0 .. N |-> g[i]] /\ g[0] = init
      /\ \A n \in 1 .. N : g[n] = g[n - 1] + size[n]
  <2> HIDE DEF g, N
  <2>1. iter \in Loops(N, Int)
    BY <1>13 DEF Loops
  <2>2. PICK f : Runs(f, N, Int, init, iter)
    <3> HIDE DEF iter
    <3> QED
      BY <1>1, <2>1, LoopExists
  <2>3. /\ f = [n \in 0 .. N |-> f[n]] /\ f[0] = init
        /\ \A n \in 1 .. N : f[n - 1] \in Int /\ f[n] = iter[n][f[n - 1]]
    <3> HIDE DEF iter
    <3> QED
      BY <1>1, <2>2, RunsAre
  <2>4. \A n \in 1 .. N : f[n] = f[n - 1] + Len(lines[n])
    BY <1>13, <2>3
  <2>5. ASSUME NEW n \in 0 .. N
        PROVE  f[n] = IF n = 0 THEN init ELSE f[n - 1] + Len(lines[n])
    <3>1. CASE n = 0
      BY <2>3, <3>1
    <3>2. CASE n # 0
      <4>1. n \in 1 .. N
        BY <1>1, <3>2
      <4> QED
        BY <2>4, <3>2, <4>1
    <3> QED
      BY <3>1, <3>2
  <2>6. Is(f)
    BY <2>3, <2>5
  <2>7. Is(g)
    BY <2>6 DEF g
  <2>8. g[0] = init /\ \A n \in 1 .. N : g[n] = g[n - 1] + Len(lines[n])
    BY <1>1, <2>7
  <2> QED
    BY <1>13, <2>7, <2>8
<1>5. g[0] = init /\ \A n \in 1 .. N : g[n] = g[n - 1] + size[n]
  BY <1>4
<1>14. C \in Seq(Seq(X)) /\ Len(C) = N /\ \A n \in 1 .. N : C[n] = Line(n)
  <2> HIDE DEF Line, N, C
  <2>1. C \in [1 .. N -> Seq(X)] /\ \A n \in 1 .. N : C[n] = Line(n)
    BY <1>2, <1>3
  <2> QED
    BY <1>1, <2>1, FunctionIsSeq
<1>15. \A n \in 1 .. N : Len(C[n]) = size[n] + (IF n = N THEN 0 ELSE 2)
  <2> HIDE DEF Line, N, C
  <2> QED
    BY <1>2, <1>13, <1>14
<1>16. Page!ContentLength(lines) = g[N]
  BY DEF Page!ContentLength, init
<1>17. Page!Content(lines) = FlattenSeq(C)
  <2>1. Page!Content(lines) = Page!FlattenSeq(C)
    BY DEF Page!Content
  <2> QED
    BY <2>1, SameFlatten
<1> HIDE DEF C, g, N
<1> DEFINE S == [n \in 0 .. N |->
                  {k \in Int : L(n) = k - 2 * (N - 1) + (IF n = N THEN 2 * (N - 1) ELSE 2 * n)}]
<1>6. g[0] \in S[0]
  <2>1. Pre(C, 0) = <<>> /\ FlattenSeq(<<>>) = <<>>
    BY <1>14, PreMore DEF FlattenSeq
  <2>2. L(0) = 0
    BY <2>1
  <2> HIDE DEF L
  <2>3. 0 \in 0 .. N /\ 0 # N
    BY <1>1
  <2> QED
    BY <1>1, <1>5, <2>2, <2>3
<1>7. ASSUME NEW n \in 1 .. N, g[n - 1] \in S[n - 1] PROVE g[n] \in S[n]
  <2>1. L(n) \in Nat /\ L(n - 1) \in Nat /\ L(n) = L(n - 1) + Len(C[n])
    BY <1>14, FlattenLength
  <2> HIDE DEF L
  <2>2. n \in Nat /\ n - 1 \in 0 .. N /\ n \in 0 .. N /\ n >= 1 /\ n <= N /\ n - 1 # N
    BY <1>1
  <2>3. g[n - 1] \in Int /\ L(n - 1) = g[n - 1] - 2 * (N - 1) + 2 * (n - 1)
    BY <1>7, <2>2
  <2>4. g[n] = g[n - 1] + size[n] /\ size[n] \in Nat
    BY <1>5, <1>13
  <2>5. Len(C[n]) = size[n] + (IF n = N THEN 0 ELSE 2)
    BY <1>15
  <2>6. L(n) = g[n] - 2 * (N - 1) + (IF n = N THEN 2 * (N - 1) ELSE 2 * n)
    <3>1. CASE n = N
      BY SMTT(30), <1>1, <2>1, <2>2, <2>3, <2>4, <2>5, <3>1
    <3>2. CASE n # N
      <4>1. L(n) = L(n - 1) + (size[n] + 2)
        BY <2>1, <2>5, <3>2
      <4>2. L(n) = g[n] - 2 * (N - 1) + 2 * n
        <5>1. PICK a \in Int, b \in Int, k \in Int, z \in Int, m \in Int :
                /\ a = L(n) /\ b = L(n - 1) /\ k = g[n - 1] /\ z = size[n] /\ m = 2 * (N - 1)
          BY SMTT(30), <1>1, <2>1, <2>3, <2>4
        <5>2. a = b + (z + 2) /\ b = k - m + 2 * (n - 1)
          BY <2>3, <4>1, <5>1
        <5>3. a = (k + z) - m + 2 * n
          BY <2>2, <5>2
        <5> QED
          BY <2>4, <5>1, <5>3
      <4> QED
        BY <3>2, <4>2
    <3> QED
      BY <3>1, <3>2
  <2>7. g[n] \in Int
    BY <2>3, <2>4
  <2> QED
    BY <2>2, <2>6, <2>7
<1>8. g[N] \in S[N]
  <2> HIDE DEF S
  <2>1. \A n \in 0 .. N : g[n] \in S[n]
    BY <1>1, <1>6, <1>7, LoopInvariant
  <2> QED
    BY <1>1, <2>1
<1>9. L(N) = g[N]
  <2> HIDE DEF L
  <2>1. N \in 0 .. N
    BY <1>1
  <2>2. g[N] \in Int /\ L(N) = g[N] - 2 * (N - 1) + 2 * (N - 1)
    BY <1>8, <2>1
  <2> QED
    BY <1>1, <2>2
<1>10. Pre(C, N) = C
  BY <1>14, PreMore
<1> QED
  BY <1>9, <1>10, <1>16, <1>17

-----------------------------------------------------------------------------
(* Pages: the lines.                                                       *)

\* A set of numbers has a least one.
LEMMA LeastIs ==
  ASSUME NEW S \in SUBSET Nat, S # {}
  PROVE  Page!Least(S) \in S /\ \A j \in S : Page!Least(S) <= j
<1> DEFINE Q == {n \in Nat : \A k \in S : k >= n}
<1>1. \E i \in S : \A j \in S : i <= j
  <2> SUFFICES ASSUME \A i \in S : \E j \in S : ~(i <= j) PROVE FALSE
    OBVIOUS
  <2>1. 0 \in Q
    OBVIOUS
  <2>2. ASSUME NEW n \in Nat, n \in Q PROVE n + 1 \in Q
    <3>1. n \notin S
      BY <2>2
    <3> QED
      BY <2>2, <3>1
  <2> HIDE DEF Q
  <2>3. Nat \subseteq Q
    BY <2>1, <2>2, Induction, Zenon
  <2>4. PICK k \in S : TRUE
    OBVIOUS
  <2>5. k + 1 \in Q
    BY <2>3, <2>4
  <2> QED
    BY <2>4, <2>5 DEF Q
<1> QED
  BY <1>1 DEF Page!Least

\* What is left of a text behind its first m characters.
Rest(x, m) == SubSeq(x, m + 1, Len(x))

\* It has the characters of the text.
LEMMA RestIs ==
  ASSUME NEW X, NEW x \in Seq(X), NEW m \in 0 .. Len(x)
  PROVE  /\ Rest(x, m) \in Seq(X) /\ Len(Rest(x, m)) = Len(x) - m
         /\ DOMAIN Rest(x, m) = 1 .. Len(x) - m
         /\ \A k \in 1 .. Len(x) - m : Rest(x, m)[k] = x[m + k]
<1>1. /\ m + 1 \in Int /\ Len(x) \in Int /\ \A i \in m + 1 .. Len(x) : x[i] \in X
      /\ (IF m + 1 <= Len(x) THEN Len(x) - (m + 1) + 1 ELSE 0) = Len(x) - m
      /\ Len(x) - (m + 1) + 1 = Len(x) - m
  OBVIOUS
<1>2. /\ Rest(x, m) \in Seq(X) /\ Len(Rest(x, m)) = Len(x) - m
      /\ \A k \in 1 .. Len(x) - (m + 1) + 1 : Rest(x, m)[k] = x[m + 1 + k - 1]
  <2> DEFINE a == m + 1
             b == Len(x)
  <2>1. a \in Int /\ b \in Int /\ \A i \in a .. b : x[i] \in X
    BY <1>1
  <2> HIDE DEF a, b
  <2>2. /\ SubSeq(x, a, b) \in Seq(X)
        /\ Len(SubSeq(x, a, b)) = IF a <= b THEN b - a + 1 ELSE 0
        /\ \A k \in 1 .. b - a + 1 : SubSeq(x, a, b)[k] = x[a + k - 1]
    BY <2>1, SubSeqProperties
  <2> QED
    BY <1>1, <2>2, ZenonT(60) DEF a, b, Rest
<1>3. \A k \in 1 .. Len(x) - m : m + 1 + k - 1 = m + k
  OBVIOUS
<1>4. DOMAIN Rest(x, m) = 1 .. Len(Rest(x, m))
  BY <1>2
<1> QED
  BY <1>1, <1>2, <1>3, <1>4

\* The rest of a rest.
LEMMA RestOfRest ==
  ASSUME NEW X, NEW x \in Seq(X), NEW m \in 0 .. Len(x), NEW q \in 0 .. Len(x) - m
  PROVE  SubSeq(Rest(x, m), q + 1, Len(Rest(x, m))) = Rest(x, m + q)
<1> DEFINE r == Rest(x, m)
<1>1. /\ r \in Seq(X) /\ Len(r) = Len(x) - m
      /\ \A k \in 1 .. Len(x) - m : r[k] = x[m + k]
  BY RestIs
<1> HIDE DEF r
<1> DEFINE a == Rest(r, q)
           b == Rest(x, m + q)
<1>2. /\ a \in Seq(X) /\ Len(a) = Len(r) - q /\ \A k \in 1 .. Len(r) - q : a[k] = r[q + k]
  <2>1. r \in Seq(X) /\ q \in 0 .. Len(r)
    BY <1>1
  <2> QED
    BY <2>1, RestIs, Zenon
<1>3. m + q \in 0 .. Len(x)
  OBVIOUS
<1>4. /\ b \in Seq(X) /\ Len(b) = Len(x) - (m + q)
      /\ \A k \in 1 .. Len(x) - (m + q) : b[k] = x[m + q + k]
  BY <1>3, RestIs
<1>7. SubSeq(r, q + 1, Len(r)) = a
  BY DEF Rest
<1> HIDE DEF a, b
<1>5. Len(a) = Len(b)
  BY <1>1, <1>2, <1>4
<1>6. ASSUME NEW k \in 1 .. Len(a) PROVE a[k] = b[k]
  <2>1. k \in 1 .. Len(r) - q /\ q + k \in 1 .. Len(x) - m /\ k \in 1 .. Len(x) - (m + q)
        /\ m + (q + k) = m + q + k
    BY <1>1, <1>2
  <2> QED
    BY <1>1, <1>2, <1>4, <2>1
<1>8. a = b
  BY <1>2, <1>4, <1>5, <1>6, SeqEqual
<1> QED
  BY <1>7, <1>8 DEF r, b

\* A part of a sequence, index by index.
LEMMA PartIs ==
  ASSUME NEW X, NEW x \in Seq(X), NEW a \in Nat, NEW b \in Nat, a <= b, b <= Len(x)
  PROVE  /\ SubSeq(x, a + 1, b) \in Seq(X) /\ Len(SubSeq(x, a + 1, b)) = b - a
         /\ \A i \in 1 .. b - a : SubSeq(x, a + 1, b)[i] = x[a + i]
<1> DEFINE c == a + 1
<1>1. c \in Int /\ b \in Int /\ \A i \in c .. b : x[i] \in X
  OBVIOUS
<1>2. /\ (IF c <= b THEN b - c + 1 ELSE 0) = b - a /\ b - c + 1 = b - a
      /\ \A i \in 1 .. b - a : c + i - 1 = a + i
  OBVIOUS
<1> HIDE DEF c
<1>3. /\ SubSeq(x, c, b) \in Seq(X)
      /\ Len(SubSeq(x, c, b)) = IF c <= b THEN b - c + 1 ELSE 0
      /\ \A k \in 1 .. b - c + 1 : SubSeq(x, c, b)[k] = x[c + k - 1]
  BY <1>1, SubSeqProperties
<1>4. /\ SubSeq(x, c, b) \in Seq(X) /\ Len(SubSeq(x, c, b)) = b - a
      /\ \A i \in 1 .. b - a : SubSeq(x, c, b)[i] = x[a + i]
  <2> DEFINE t == SubSeq(x, c, b)
  <2> HIDE DEF t
  <2>1. /\ t \in Seq(X) /\ Len(t) = IF c <= b THEN b - c + 1 ELSE 0
        /\ \A k \in 1 .. b - c + 1 : t[k] = x[c + k - 1]
    BY <1>3 DEF t
  <2>2. t \in Seq(X) /\ Len(t) = b - a /\ \A i \in 1 .. b - a : t[i] = x[a + i]
    BY <1>2, <2>1
  <2> QED
    BY <2>2 DEF t
<1> QED
  BY <1>4 DEF c

\* A part of a text of which every character is kept, where M has what becomes of
\* every character.
LEMMA PartKept ==
  ASSUME NEW X, NEW x \in Seq(X), NEW M \in Seq(Seq(X)), Len(M) = Len(x),
         NEW a \in Nat, NEW b \in Nat, a <= b, b <= Len(x),
         \A i \in a + 1 .. b : M[i] = <<x[i]>>
  PROVE  FlattenSeq(SubSeq(M, a + 1, b)) = SubSeq(x, a + 1, b)
<1> DEFINE s == SubSeq(M, a + 1, b)
           t == SubSeq(x, a + 1, b)
<1>1. /\ s \in Seq(Seq(X)) /\ Len(s) = b - a
      /\ \A i \in 1 .. b - a : s[i] = M[a + i]
  BY ZenonT(60), PartIs
<1>2. /\ t \in Seq(X) /\ Len(t) = b - a
      /\ \A i \in 1 .. b - a : t[i] = x[a + i]
  BY PartIs
<1> HIDE DEF s, t
<1>3. ASSUME NEW i \in 1 .. b - a PROVE s[i] = <<t[i]>>
  <2>1. a + i \in a + 1 .. b
    OBVIOUS
  <2> QED
    BY <1>1, <1>2, <2>1
<1>4. FlattenSeq(s) = t
  BY <1>1, <1>2, <1>3, FlattenSingles
<1> QED
  BY <1>4 DEF s, t

\* One of which nothing is kept.
LEMMA PartDropped ==
  ASSUME NEW X, NEW M \in Seq(Seq(X)), NEW a \in Nat, NEW b \in Nat, a <= b, b <= Len(M),
         \A i \in a + 1 .. b : M[i] = <<>>
  PROVE  FlattenSeq(SubSeq(M, a + 1, b)) = <<>>
<1> DEFINE s == SubSeq(M, a + 1, b)
<1>1. /\ s \in Seq(Seq(X)) /\ Len(s) = b - a
      /\ \A i \in 1 .. b - a : s[i] = M[a + i]
  BY ZenonT(60), PartIs
<1> HIDE DEF s
<1>2. ASSUME NEW i \in 1 .. b - a PROVE s[i] = <<>>
  <2>1. a + i \in a + 1 .. b
    OBVIOUS
  <2> QED
    BY <1>1, <2>1
<1>3. FlattenSeq(s) = <<>>
  BY <1>1, <1>2, FlattenNothing
<1> QED
  BY <1>3 DEF s

\* Two parts that follow each other.
LEMMA PartMore ==
  ASSUME NEW X, NEW M \in Seq(Seq(X)), NEW a \in Nat, NEW b \in Nat, NEW c \in Nat,
         a <= b, b <= c, c <= Len(M)
  PROVE  FlattenSeq(SubSeq(M, a + 1, c)) =
           Cat(FlattenSeq(SubSeq(M, a + 1, b)), FlattenSeq(SubSeq(M, b + 1, c)))
<1> DEFINE s == SubSeq(M, a + 1, b)
           t == SubSeq(M, b + 1, c)
<1>1. s \in Seq(Seq(X)) /\ t \in Seq(Seq(X))
  <2>1. Len(M) \in Nat /\ b <= Len(M)
    OBVIOUS
  <2> QED
    BY ZenonT(60), <2>1, PartIs
<1>2. SubSeq(M, a + 1, c) = s \o t
  <2>1. a + 1 \in 1 .. Len(M) + 1 /\ b \in (a + 1) - 1 .. Len(M) /\ c \in b .. Len(M)
    OBVIOUS
  <2> QED
    BY <2>1, ConcatAdjacentSubSeq
<1> HIDE DEF s, t
<1>3. FlattenSeq(s \o t) = FlattenSeq(s) \o FlattenSeq(t)
  BY <1>1, FlattenCat
<1> QED
  BY <1>2, <1>3 DEF s, t, Cat

\* The characters of a text, without the line ends.
Marks(x) == [i \in DOMAIN x |-> IF LineEnd(x, i) THEN <<>> ELSE <<x[i]>>]

\* They are texts.
LEMMA MarksType ==
  ASSUME NEW X, NEW x \in Seq(X)
  PROVE  /\ Marks(x) \in Seq(Seq(X)) /\ Len(Marks(x)) = Len(x)
         /\ \A i \in 1 .. Len(x) : Marks(x)[i] = IF LineEnd(x, i) THEN <<>> ELSE <<x[i]>>
<1>1. DOMAIN x = 1 .. Len(x) /\ Len(x) \in Nat
  OBVIOUS
<1>2. \A i \in 1 .. Len(x) : <<>> \in Seq(X) /\ <<x[i]>> \in Seq(X)
  OBVIOUS
<1>3. Marks(x) \in [1 .. Len(x) -> Seq(X)]
  BY <1>1, <1>2 DEF Marks
<1>4. \A i \in 1 .. Len(x) : Marks(x)[i] = IF LineEnd(x, i) THEN <<>> ELSE <<x[i]>>
  BY <1>1 DEF Marks
<1> QED
  BY <1>1, <1>3, <1>4, FunctionIsSeq

\* A part of a text without line ends is kept.
LEMMA MarksKeep ==
  ASSUME NEW X, NEW x \in Seq(X), NEW a \in Nat, NEW b \in Nat, a <= b, b <= Len(x),
         \A i \in a + 1 .. b : ~LineEnd(x, i)
  PROVE  FlattenSeq(SubSeq(Marks(x), a + 1, b)) = SubSeq(x, a + 1, b)
<1> DEFINE M == Marks(x)
<1>1. /\ M \in Seq(Seq(X)) /\ Len(M) = Len(x)
      /\ \A i \in 1 .. Len(x) : M[i] = IF LineEnd(x, i) THEN <<>> ELSE <<x[i]>>
  BY MarksType
<1> HIDE DEF M
<1>2. \A i \in a + 1 .. b : i \in 1 .. Len(x)
  OBVIOUS
<1>3. \A i \in a + 1 .. b : M[i] = <<x[i]>>
  BY <1>1, <1>2
<1> QED
  BY <1>1, <1>3, PartKept DEF M

\* A line end is dropped.
LEMMA MarksDrop ==
  ASSUME NEW X, NEW x \in Seq(X), NEW a \in Nat, NEW b \in Nat, a <= b, b <= Len(x),
         \A i \in a + 1 .. b : LineEnd(x, i)
  PROVE  FlattenSeq(SubSeq(Marks(x), a + 1, b)) = <<>>
<1> DEFINE M == Marks(x)
<1>1. /\ M \in Seq(Seq(X)) /\ Len(M) = Len(x)
      /\ \A i \in 1 .. Len(x) : M[i] = IF LineEnd(x, i) THEN <<>> ELSE <<x[i]>>
  BY MarksType
<1> HIDE DEF M
<1>2. \A i \in a + 1 .. b : i \in 1 .. Len(x)
  OBVIOUS
<1>3. \A i \in a + 1 .. b : M[i] = <<>>
  BY <1>1, <1>2
<1> QED
  BY <1>1, <1>3, PartDropped DEF M

\* Without a line feed there is no line end.
LEMMA NoFeed ==
  ASSUME NEW X, NEW x \in Seq(X), NEW m \in 0 .. Len(x), Page!LineFeeds(Rest(x, m)) = {},
         NEW i \in m + 1 .. Len(x)
  PROVE  ~LineEnd(x, i)
<1> SUFFICES ASSUME NEW q \in i .. Len(x), x[q] = Page!LF PROVE FALSE
  BY DEF LineEnd
<1>1. q - m \in 1 .. Len(x) - m /\ m + (q - m) = q
  OBVIOUS
<1>2. q - m \in DOMAIN Rest(x, m) /\ Rest(x, m)[q - m] = x[q]
  <2>1. /\ DOMAIN Rest(x, m) = 1 .. Len(x) - m
        /\ \A k \in 1 .. Len(x) - m : Rest(x, m)[k] = x[m + k]
    BY RestIs, Zenon
  <2> QED
    BY <1>1, <2>1
<1> QED
  BY <1>2 DEF Page!LineFeeds

\* The first line feed ends the line end that the match is.
LEMMA FirstFeed ==
  ASSUME NEW X, NEW x \in Seq(X), NEW m \in 0 .. Len(x), Page!LineFeeds(Rest(x, m)) # {}
  PROVE  LET q == Page!Least(Page!LineFeeds(Rest(x, m)))
             p == Page!MatchBegin(Rest(x, m), q)
         IN  /\ q \in 1 .. Len(x) - m /\ p \in 1 .. q
             /\ \A i \in m + 1 .. m + p - 1 : ~LineEnd(x, i)
             /\ \A i \in m + p .. m + q : LineEnd(x, i)
<1> DEFINE r == Rest(x, m)
           F == Page!LineFeeds(r)
           q == Page!Least(F)
           P == {p \in 1 .. q : \A i \in p .. q - 1 : r[i] = Page!CR}
           p == Page!MatchBegin(r, q)
<1>1. /\ r \in Seq(X) /\ DOMAIN r = 1 .. Len(x) - m /\ Len(x) \in Nat /\ m \in Nat
      /\ \A k \in 1 .. Len(x) - m : r[k] = x[m + k]
  <2>1. /\ r \in Seq(X) /\ DOMAIN r = 1 .. Len(x) - m
        /\ \A k \in 1 .. Len(x) - m : r[k] = x[m + k]
    BY RestIs, Zenon
  <2>2. Len(x) \in Nat /\ m \in Nat
    OBVIOUS
  <2> QED
    BY <2>1, <2>2
<1>2. F = {k \in 1 .. Len(x) - m : x[m + k] = Page!LF} /\ F # {}
  BY <1>1 DEF Page!LineFeeds
<1> HIDE DEF r, F
<1>3. F \in SUBSET Nat
  BY <1>1, <1>2
<1>4. q \in F /\ \A k \in F : q <= k
  BY <1>2, <1>3, LeastIs
<1> HIDE DEF q
<1>5. /\ q \in 1 .. Len(x) - m /\ x[m + q] = Page!LF
      /\ \A k \in 1 .. q - 1 : x[m + k] # Page!LF
  <2>1. q \in 1 .. Len(x) - m /\ x[m + q] = Page!LF
    BY <1>2, <1>4
  <2>2. ASSUME NEW k \in 1 .. q - 1, x[m + k] = Page!LF PROVE FALSE
    <3>1. k \in 1 .. Len(x) - m /\ ~(q <= k)
      BY <1>1, <2>1
    <3>2. k \in F
      BY <1>2, <2>2, <3>1
    <3> QED
      BY <1>4, <3>1, <3>2
  <2> QED
    BY <2>1, <2>2
<1>6. q \in P /\ P \in SUBSET Nat
  BY <1>5
<1>7. p = Page!Least(P)
  BY DEF Page!MatchBegin
<1> HIDE DEF P, p
<1>8. p \in P /\ \A k \in P : p <= k
  BY <1>6, <1>7, LeastIs
<1>9. p \in 1 .. q /\ \A i \in p .. q - 1 : r[i] = Page!CR
  BY <1>8 DEF P
<1>10. ASSUME NEW i \in m + 1 .. m + p - 1, LineEnd(x, i) PROVE FALSE
  <2>1. PICK e \in i .. Len(x) : x[e] = Page!LF /\ \A k \in i .. e - 1 : x[k] = Page!CR
    BY <1>10 DEF LineEnd
  <2>2. i \in Nat /\ e \in Nat /\ m + 1 <= i /\ i <= e /\ e <= Len(x) /\ i < m + p
    BY <1>1, <1>5, <1>9
  <2>3. e >= m + q
    <3> SUFFICES ASSUME e < m + q PROVE FALSE
      BY <1>1, <1>5, <2>2
    <3>1. e - m \in 1 .. q - 1 /\ m + (e - m) = e
      BY <1>1, <1>5, <2>2
    <3> QED
      BY <1>5, <2>1, <3>1
  <2>4. e = m + q
    <3> SUFFICES ASSUME e > m + q PROVE FALSE
      BY <1>1, <1>5, <2>2, <2>3
    <3>1. m + q \in i .. e - 1
      BY <1>1, <1>5, <1>9, <2>2
    <3>2. x[m + q] = Page!CR
      BY <2>1, <3>1
    <3> QED
      BY <1>5, <3>2 DEF Page!CR, Page!LF
  <2>5. i - m \in P
    <3>1. i - m \in 1 .. q
      BY SMTT(30), <1>1, <1>5, <1>9, <2>2
    <3>2. ASSUME NEW k \in i - m .. q - 1 PROVE r[k] = Page!CR
      <4>1. k \in 1 .. Len(x) - m /\ m + k \in i .. e - 1
        BY <1>1, <1>5, <2>2, <2>4
      <4> QED
        BY <1>1, <2>1, <4>1
    <3> QED
      BY <3>1, <3>2 DEF P
  <2>6. p <= i - m
    BY <1>8, <2>5
  <2> QED
    BY <1>1, <1>5, <1>9, <2>2, <2>6
<1>11. ASSUME NEW i \in m + p .. m + q PROVE LineEnd(x, i)
  <2>1. m + q \in i .. Len(x)
    BY <1>1, <1>5, <1>9
  <2>2. ASSUME NEW k \in i .. m + q - 1 PROVE x[k] = Page!CR
    <3>1. k - m \in p .. q - 1 /\ k - m \in 1 .. Len(x) - m /\ m + (k - m) = k
      BY <1>1, <1>5, <1>9
    <3> QED
      BY <1>1, <1>9, <3>1
  <2> QED
    BY <1>5, <2>1, <2>2 DEF LineEnd
<1> QED
  BY <1>5, <1>9, <1>10, <1>11 DEF r, F, q, p

\* What the iterator keeps.
SplitStates(X) == [str : Seq(X), lines : Seq(Seq(X)), done : BOOLEAN]

\* After n steps the lines are what is before m without the line ends, and the
\* text behind m is left.
SplitUpTo(x, n, m, s) ==
  /\ s.str = Rest(x, m) /\ FlattenSeq(s.lines) = FlattenSeq(Pre(Marks(x), m))
  /\ s.done => m = Len(x) /\ s.lines # <<>>
  /\ s.done \/ m >= n
  /\ n > 0 => s.lines # <<>>

\* One more line.
LEMMA LineMore ==
  ASSUME NEW X, NEW x \in Seq(X), NEW m \in 0 .. Len(x), NEW e \in m .. Len(x),
         NEW lines \in Seq(Seq(X)), NEW line \in Seq(X),
         FlattenSeq(lines) = FlattenSeq(Pre(Marks(x), m)),
         FlattenSeq(SubSeq(Marks(x), m + 1, e)) = line
  PROVE  /\ Append(lines, line) \in Seq(Seq(X)) /\ Append(lines, line) # <<>>
         /\ FlattenSeq(Append(lines, line)) = FlattenSeq(Pre(Marks(x), e))
<1> DEFINE M == Marks(x)
           a == Pre(M, m)
           b == SubSeq(M, m + 1, e)
<1>1. M \in Seq(Seq(X)) /\ Len(M) = Len(x)
  BY MarksType
<1> HIDE DEF M
<1>2. a \in Seq(Seq(X))
  BY <1>1, PreMore
<1>3. b \in Seq(Seq(X))
  <2>1. m + 1 \in Nat /\ m + 1 >= 1 /\ e \in Int /\ e <= Len(M)
    BY <1>1
  <2> QED
    BY <1>1, <2>1, PartType DEF Cut
<1>4. Pre(M, e) = a \o b
  <2>1. 1 \in 1 .. Len(M) + 1 /\ m \in 1 - 1 .. Len(M) /\ e \in m .. Len(M)
    BY <1>1
  <2> QED
    BY <1>1, <2>1, ConcatAdjacentSubSeq DEF Pre
<1>7. FlattenSeq(lines) = FlattenSeq(a) /\ FlattenSeq(b) = line
  BY DEF M
<1> HIDE DEF a, b
<1>5. FlattenSeq(a \o b) = FlattenSeq(a) \o FlattenSeq(b)
  BY <1>2, <1>3, FlattenCat
<1>6. FlattenSeq(Append(lines, line)) = FlattenSeq(lines) \o line
  BY FlattenMore
<1>8. FlattenSeq(Append(lines, line)) = FlattenSeq(Pre(M, e))
  BY <1>4, <1>5, <1>6, <1>7
<1>9. Append(lines, line) \in Seq(Seq(X)) /\ Append(lines, line) # <<>>
  BY AppendProperties
<1> QED
  BY <1>8, <1>9 DEF M

\* The front of a rest.
LEMMA FrontOfRest ==
  ASSUME NEW X, NEW x \in Seq(X), NEW m \in 0 .. Len(x), NEW k \in 0 .. Len(x) - m
  PROVE  SubSeq(Rest(x, m), 1, k) = SubSeq(x, m + 1, m + k)
<1> DEFINE r == Rest(x, m)
           a == SubSeq(r, 1, k)
           b == SubSeq(x, m + 1, m + k)
<1>0. Len(x) \in Nat /\ m \in Nat /\ k \in Nat /\ m + k \in Nat /\ m <= m + k /\ m + k <= Len(x)
  OBVIOUS
<1>1. /\ r \in Seq(X) /\ Len(r) = Len(x) - m
      /\ \A i \in 1 .. Len(x) - m : r[i] = x[m + i]
  BY RestIs, Zenon
<1> HIDE DEF r
<1>2. a \in Seq(X) /\ Len(a) = k /\ \A i \in 1 .. k : a[i] = r[i]
  <2>1. PICK z \in Nat : z = 0
    OBVIOUS
  <2>2. k \in Nat /\ z <= k /\ k <= Len(r) /\ r \in Seq(X)
    BY <1>0, <1>1, <2>1
  <2>3. /\ SubSeq(r, z + 1, k) \in Seq(X) /\ Len(SubSeq(r, z + 1, k)) = k - z
        /\ \A i \in 1 .. k - z : SubSeq(r, z + 1, k)[i] = r[z + i]
    BY <2>2, PartIs
  <2>4. z + 1 = 1 /\ k - z = k /\ \A i \in 1 .. k : z + i = i
    BY <1>0, <2>1
  <2>5. \A i \in 1 .. k : a[i] = r[z + i]
    BY <2>3, <2>4, Zenon
  <2>6. \A i \in 1 .. k : a[i] = r[i]
    BY <2>4, <2>5, Zenon
  <2> QED
    BY <2>3, <2>4, <2>6, Zenon
<1>3. b \in Seq(X) /\ Len(b) = (m + k) - m /\ \A i \in 1 .. (m + k) - m : b[i] = x[m + i]
  BY <1>0, PartIs, ZenonT(60)
<1>4. a = SubSeq(r, 1, k)
  OBVIOUS
<1> HIDE DEF a, b
<1>5. Len(a) = Len(b) /\ \A i \in 1 .. Len(a) : a[i] = b[i]
  <2>1. (m + k) - m = k /\ \A i \in 1 .. k : i \in 1 .. Len(x) - m
    BY <1>0
  <2>2. \A i \in 1 .. k : b[i] = x[m + i] /\ r[i] = x[m + i]
    BY <1>1, <1>3, <2>1, Zenon
  <2>3. Len(a) = k /\ Len(b) = k
    BY <1>2, <1>3, <2>1
  <2>4. \A i \in 1 .. k : a[i] = b[i]
    BY <1>2, <2>2, Zenon
  <2> QED
    BY <2>3, <2>4, Zenon
<1>6. a = b
  BY <1>2, <1>3, <1>5, SeqEqual
<1> QED
  BY <1>4, <1>6 DEF r, b

\* One step of the iterator keeps it.
LEMMA SplitKeeps ==
  ASSUME NEW X, NEW x \in Seq(X), NEW n \in Nat, NEW m \in 0 .. Len(x), NEW s \in SplitStates(X)
  PROVE  SplitUpTo(x, n, m, s) =>
           /\ Page!SplitStep(s) \in SplitStates(X)
           /\ \E e \in 0 .. Len(x) : SplitUpTo(x, n + 1, e, Page!SplitStep(s))
<1> DEFINE r == Page!SplitStep(s)
<1>0. SUFFICES ASSUME SplitUpTo(x, n, m, s)
               PROVE  r \in SplitStates(X) /\ \E e \in 0 .. Len(x) : SplitUpTo(x, n + 1, e, r)
  OBVIOUS
<1> HIDE DEF r
<1>1. s.lines \in Seq(Seq(X)) /\ s.done \in BOOLEAN
  BY DEF SplitStates
<1>2. s.str = Rest(x, m) /\ FlattenSeq(s.lines) = FlattenSeq(Pre(Marks(x), m))
  BY <1>0 DEF SplitUpTo
<1>3. Len(x) \in Nat /\ m \in Nat /\ m <= Len(x)
  OBVIOUS
<1>4. Rest(x, m) \in Seq(X) /\ Len(Rest(x, m)) = Len(x) - m
  BY RestIs, Zenon
<1>5. CASE s.done
  <2>1. r = s
    BY <1>5 DEF r, Page!SplitStep
  <2>2. SplitUpTo(x, n + 1, m, s)
    BY <1>0, <1>5 DEF SplitUpTo
  <2> QED
    BY <2>1, <2>2
<1>6. CASE ~s.done /\ Page!LineFeeds(s.str) = {}
  <2> DEFINE line == Rest(x, m)
             lines == Append(s.lines, line)
  <2>1. r = [str |-> <<>>, lines |-> lines, done |-> TRUE]
    BY <1>2, <1>6 DEF r, Page!SplitStep
  <2>2. \A i \in m + 1 .. Len(x) : ~LineEnd(x, i)
    BY <1>2, <1>6, NoFeed
  <2>3. FlattenSeq(SubSeq(Marks(x), m + 1, Len(x))) = line
    BY <1>3, <2>2, MarksKeep DEF Rest
  <2>4. /\ lines \in Seq(Seq(X)) /\ lines # <<>>
        /\ FlattenSeq(lines) = FlattenSeq(Pre(Marks(x), Len(x)))
    <3> HIDE DEF line
    <3>1. Len(x) \in m .. Len(x) /\ line \in Seq(X)
      BY <1>3, <1>4 DEF line
    <3> QED
      BY <1>1, <1>2, <2>3, <3>1, LineMore
  <2> HIDE DEF lines, line
  <2>5. Rest(x, Len(x)) = <<>>
    BY <1>3, SubSeqEmpty DEF Rest
  <2>6. r \in SplitStates(X)
    BY <2>1, <2>4 DEF SplitStates
  <2>7. r.str = <<>> /\ r.lines = lines /\ r.done
    BY <2>1
  <2>8. SplitUpTo(x, n + 1, Len(x), r)
    BY <2>4, <2>5, <2>7 DEF SplitUpTo
  <2>9. Len(x) \in 0 .. Len(x)
    BY <1>3
  <2> QED
    BY <2>6, <2>8, <2>9
<1>7. CASE ~s.done /\ Page!LineFeeds(s.str) # {}
  <2> DEFINE q == Page!Least(Page!LineFeeds(Rest(x, m)))
             p == Page!MatchBegin(Rest(x, m), q)
             line == SubSeq(Rest(x, m), 1, p - 1)
             lines == Append(s.lines, line)
             rest == SubSeq(Rest(x, m), q + 1, Len(Rest(x, m)))
             e == m + q
  <2>1. r = [str |-> rest, done |-> rest = <<>>, lines |-> lines]
    BY <1>2, <1>7 DEF r, Page!SplitStep
  <2>2. /\ q \in 1 .. Len(x) - m /\ p \in 1 .. q
        /\ \A i \in m + 1 .. m + p - 1 : ~LineEnd(x, i)
        /\ \A i \in m + p .. m + q : LineEnd(x, i)
    BY <1>2, <1>7, FirstFeed
  <2> HIDE DEF q, p
  <2>3. /\ q \in Nat /\ p \in Nat /\ e \in m .. Len(x) /\ e \in 0 .. Len(x) /\ e >= m + 1
        /\ m + p - 1 \in Nat /\ m <= m + p - 1 /\ m + p - 1 <= e /\ (m + p - 1) + 1 = m + p
        /\ m + p - 1 <= Len(x) /\ e \in Nat /\ p - 1 \in 0 .. Len(x) - m /\ m + (p - 1) = m + p - 1
    BY <1>3, <2>2
  <2>4. rest = Rest(x, e)
    <3>1. q \in 0 .. Len(x) - m
      BY <2>2
    <3> QED
      BY <3>1, RestOfRest
  <2>5. line = SubSeq(x, m + 1, m + p - 1) /\ line \in Seq(X)
    <3>1. line = SubSeq(x, m + 1, m + (p - 1))
      BY <2>3, FrontOfRest
    <3>2. SubSeq(x, m + 1, m + p - 1) \in Seq(X)
      BY <1>3, <2>3, PartIs
    <3> QED
      BY <2>3, <3>1, <3>2
  <2> HIDE DEF line, rest, e
  <2>6. FlattenSeq(SubSeq(Marks(x), m + 1, e)) = line
    <3> DEFINE M == Marks(x)
               k == m + p - 1
               a == SubSeq(M, m + 1, k)
               b == SubSeq(M, k + 1, e)
    <3>1. M \in Seq(Seq(X)) /\ Len(M) = Len(x)
      BY MarksType
    <3>2. FlattenSeq(a) = line
      BY ZenonT(60), <1>3, <2>2, <2>3, <2>5, MarksKeep
    <3>3. \A i \in k + 1 .. e : LineEnd(x, i)
      BY <2>2, <2>3 DEF e
    <3>9. k \in Nat /\ e \in Nat /\ k <= e /\ e <= Len(x) /\ m <= k /\ k <= Len(x)
      BY <2>3
    <3> HIDE DEF M, k
    <3>4. FlattenSeq(b) = <<>>
      BY <3>3, <3>9, MarksDrop DEF M
    <3>5. a \in Seq(Seq(X)) /\ b \in Seq(Seq(X))
      BY <1>3, <3>1, <3>9, PartIs
    <3>6. a \o b = SubSeq(M, m + 1, e)
      <4>1. m + 1 \in 1 .. Len(M) + 1 /\ k \in (m + 1) - 1 .. Len(M) /\ e \in k .. Len(M)
        BY <1>3, <3>1, <3>9
      <4> QED
        BY <3>1, <4>1, ConcatAdjacentSubSeq
    <3> HIDE DEF a, b
    <3>7. FlattenSeq(a \o b) = FlattenSeq(a) \o FlattenSeq(b)
      BY <3>5, FlattenCat
    <3>8. line \o <<>> = line
      BY <2>5, ConcatEmptySeq
    <3>10. FlattenSeq(a \o b) = line
      BY <3>2, <3>4, <3>7, <3>8
    <3> QED
      BY <3>6, <3>10 DEF M
  <2>7. /\ lines \in Seq(Seq(X)) /\ lines # <<>>
        /\ FlattenSeq(lines) = FlattenSeq(Pre(Marks(x), e))
    <3>1. e \in m .. Len(x) /\ line \in Seq(X)
      BY <2>3, <2>5
    <3> QED
      BY <1>1, <1>2, <2>6, <3>1, LineMore
  <2> HIDE DEF lines
  <2>8. Rest(x, e) \in Seq(X) /\ (Rest(x, e) = <<>> => e = Len(x))
    <3>1. Rest(x, e) \in Seq(X) /\ Len(Rest(x, e)) = Len(x) - e
      BY <2>3, RestIs, Zenon
    <3> QED
      BY <1>3, <2>3, <3>1
  <2>9. r \in SplitStates(X) /\ r.str = rest /\ r.lines = lines /\ r.done = (rest = <<>>)
    BY <2>1, <2>4, <2>7, <2>8 DEF SplitStates
  <2>10. m >= n
    BY <1>0, <1>7 DEF SplitUpTo
  <2>11. e >= n + 1
    BY <1>3, <2>3, <2>10
  <2>12. SplitUpTo(x, n + 1, e, r)
    BY <2>4, <2>7, <2>8, <2>9, <2>11 DEF SplitUpTo
  <2> QED
    BY <2>3, <2>9, <2>12
<1> QED
  BY <1>1, <1>5, <1>6, <1>7

\* The iterator is somewhere in the text.
Splits(x, n, s) == \E m \in 0 .. Len(x) : SplitUpTo(x, n, m, s)

\* It begins at the start.
LEMMA SplitStarts ==
  ASSUME NEW X, NEW x \in Seq(X), NEW s, s = [str |-> x, lines |-> <<>>, done |-> FALSE]
  PROVE  s \in SplitStates(X) /\ Splits(x, 0, s)
<1>1. s \in SplitStates(X) /\ s.str = x /\ s.lines = <<>> /\ ~s.done
  BY DEF SplitStates
<1>2. Rest(x, 0) = x
  BY SubSeqFull DEF Rest
<1>3. Pre(Marks(x), 0) = <<>>
  BY MarksType, PreMore
<1>4. 0 \in 0 .. Len(x)
  OBVIOUS
<1>5. SplitUpTo(x, 0, 0, s)
  BY <1>1, <1>2, <1>3 DEF SplitUpTo
<1> QED
  BY <1>1, <1>4, <1>5 DEF Splits

\* SplitStringToLines keeps every character but those of the line ends, and gives
\* at least one line.
LEMMA SplitIs ==
  ASSUME NEW X, NEW x \in Seq(X)
  PROVE  /\ Page!SplitStringToLines(x) \in Seq(Seq(X)) /\ Page!SplitStringToLines(x) # <<>>
         /\ FlattenSeq(Page!SplitStringToLines(x)) = FlattenSeq(Marks(x))
<1> DEFINE N == Len(x) + 1
           T == {s \in SplitStates(X) : \E n \in Nat : Splits(x, n, s)}
           S == [n \in 0 .. N |-> {s \in T : Splits(x, n, s)}]
           init == [str |-> x, lines |-> <<>>, done |-> FALSE]
           iter == [n \in 1 .. N |-> [s \in T |-> Page!SplitStep(s)]]
           Is(f) == f = [n \in 0 .. N |->
                      IF n = 0 THEN init ELSE Page!SplitStep(f[n - 1])]
           g == CHOOSE f : Is(f)
<1>1. N \in Nat
  OBVIOUS
<1>2. Splits(x, 0, init) /\ init \in SplitStates(X)
  BY SplitStarts
<1>10. Page!SplitStringToLines(x) = g[N].lines
  BY DEF Page!SplitStringToLines
<1> HIDE DEF init
<1>3. init \in T
  BY <1>2
<1>9. ASSUME NEW s \in SplitStates(X), NEW n \in Nat, Splits(x, n, s)
      PROVE  Page!SplitStep(s) \in SplitStates(X) /\ Splits(x, n + 1, Page!SplitStep(s))
  <2>1. PICK m \in 0 .. Len(x) : SplitUpTo(x, n, m, s)
    BY <1>9 DEF Splits
  <2> QED
    BY <2>1, SplitKeeps DEF Splits
<1>4. ASSUME NEW s \in T PROVE Page!SplitStep(s) \in T
  BY <1>9
<1>5. g = [n \in 0 .. N |-> IF n = 0 THEN init ELSE Page!SplitStep(g[n - 1])]
  <2> HIDE DEF T, g, N
  <2>1. iter \in Loops(N, T)
    BY <1>4 DEF Loops
  <2>2. PICK f : Runs(f, N, T, init, iter)
    <3> HIDE DEF iter
    <3> QED
      BY <1>1, <1>3, <2>1, LoopExists
  <2>3. /\ f = [n \in 0 .. N |-> f[n]] /\ f[0] = init
        /\ \A n \in 1 .. N : f[n - 1] \in T /\ f[n] = iter[n][f[n - 1]]
    BY <1>1, <2>2 DEF Runs
  <2>4. ASSUME NEW n \in 0 .. N
        PROVE  f[n] = IF n = 0 THEN init ELSE Page!SplitStep(f[n - 1])
    BY SMTT(30), <1>1, <2>3
  <2>5. Is(f)
    BY <2>3, <2>4
  <2>6. Is(g)
    BY <2>5 DEF g
  <2> QED
    BY <2>6
<1> HIDE DEF g, N
<1>6. \A n \in 0 .. N : g[n] \in S[n]
  <2>1. g[0] \in S[0]
    <3> HIDE DEF T
    <3> QED
      BY <1>1, <1>2, <1>3, <1>5
  <2>2. ASSUME NEW n \in 1 .. N, g[n - 1] \in S[n - 1] PROVE g[n] \in S[n]
    <3>1. n - 1 \in 0 .. N /\ n \in 0 .. N /\ n # 0 /\ n - 1 \in Nat /\ (n - 1) + 1 = n
      BY <1>1
    <3>2. g[n - 1] \in T /\ Splits(x, n - 1, g[n - 1])
      <4> HIDE DEF T
      <4> QED
        BY <2>2, <3>1
    <3>3. g[n - 1] \in SplitStates(X)
      BY <3>2
    <3>4. g[n] = Page!SplitStep(g[n - 1])
      <4> HIDE DEF T
      <4> QED
        BY <1>5, <3>1
    <3>5. Splits(x, (n - 1) + 1, Page!SplitStep(g[n - 1]))
      <4> HIDE DEF T
      <4> QED
        BY <1>9, <3>1, <3>2, <3>3
    <3>6. Page!SplitStep(g[n - 1]) \in T
      BY <1>4, <3>2
    <3> HIDE DEF T
    <3> QED
      BY <3>1, <3>4, <3>5, <3>6
  <2> HIDE DEF S
  <2> QED
    BY <1>1, <2>1, <2>2, LoopInvariant
<1>7. g[N] \in SplitStates(X) /\ Splits(x, N, g[N])
  <2>1. N \in 0 .. N
    BY <1>1
  <2> QED
    BY <1>6, <2>1
<1>8. PICK m \in 0 .. Len(x) : SplitUpTo(x, N, m, g[N])
  BY <1>7 DEF Splits
<1>11. g[N].done
  <2>1. g[N].done \/ m >= N
    BY <1>8 DEF SplitUpTo
  <2>2. ~(m >= N)
    BY DEF N
  <2> QED
    BY <2>1, <2>2
<1>12. m = Len(x) /\ g[N].lines # <<>> /\ FlattenSeq(g[N].lines) = FlattenSeq(Pre(Marks(x), m))
  BY <1>8, <1>11 DEF SplitUpTo
<1>13. Pre(Marks(x), Len(x)) = Marks(x)
  <2>1. Marks(x) \in Seq(Seq(X)) /\ Len(Marks(x)) = Len(x)
    BY MarksType
  <2>2. Pre(Marks(x), Len(Marks(x))) = Marks(x)
    BY <2>1, PreMore
  <2> QED
    BY <2>1, <2>2
<1>14. g[N].lines \in Seq(Seq(X))
  BY <1>7 DEF SplitStates
<1> QED
  BY <1>10, <1>12, <1>13, <1>14

-----------------------------------------------------------------------------
(* Texts that another one replaces character by character.                 *)

\* What stands for each character.
Substitutions(X, Y) == [X -> Seq(Y)]

Replaced(x, f) == [i \in DOMAIN x |-> f[x[i]]]

\* Each character of x as f has it.
Each(x, f) == FlattenSeq(Replaced(x, f))

\* They are texts.
LEMMA ReplacedType ==
  ASSUME NEW X, NEW Y, NEW x \in Seq(X), NEW f \in Substitutions(X, Y)
  PROVE  /\ Replaced(x, f) \in Seq(Seq(Y)) /\ Len(Replaced(x, f)) = Len(x)
         /\ \A i \in 1 .. Len(x) : Replaced(x, f)[i] = f[x[i]]
<1>1. DOMAIN x = 1 .. Len(x) /\ Len(x) \in Nat /\ \A i \in 1 .. Len(x) : x[i] \in X
  OBVIOUS
<1>2. Replaced(x, f) \in [1 .. Len(x) -> Seq(Y)]
  BY <1>1 DEF Replaced, Substitutions
<1>3. \A i \in 1 .. Len(x) : Replaced(x, f)[i] = f[x[i]]
  BY <1>1 DEF Replaced
<1> QED
  BY <1>1, <1>2, <1>3, FunctionIsSeq

\* One character more is one more of them.
LEMMA ReplacedMore ==
  ASSUME NEW X, NEW Y, NEW x \in Seq(X), NEW c \in X, NEW f \in Substitutions(X, Y)
  PROVE  Replaced(Append(x, c), f) = Append(Replaced(x, f), f[c])
<1> DEFINE y == Append(x, c)
           a == Replaced(y, f)
           r == Replaced(x, f)
           d == f[c]
           b == Append(r, d)
<1>1. /\ y \in Seq(X) /\ Len(y) = Len(x) + 1 /\ y[Len(x) + 1] = c
      /\ \A i \in 1 .. Len(x) : y[i] = x[i]
  BY AppendProperties
<1>2. /\ r \in Seq(Seq(Y)) /\ Len(r) = Len(x) /\ \A i \in 1 .. Len(x) : r[i] = f[x[i]]
  BY ReplacedType
<1> HIDE DEF r, y
<1>3. /\ a \in Seq(Seq(Y)) /\ Len(a) = Len(y) /\ \A i \in 1 .. Len(y) : a[i] = f[y[i]]
  BY <1>1, ReplacedType
<1>4. d \in Seq(Y) /\ Len(x) \in Nat
  BY DEF Substitutions
<1> HIDE DEF d, a
<1>5. /\ b \in Seq(Seq(Y)) /\ Len(b) = Len(r) + 1 /\ b[Len(r) + 1] = d
      /\ \A i \in 1 .. Len(r) : b[i] = r[i]
  BY <1>2, <1>4, AppendProperties
<1> HIDE DEF b
<1>6. Len(a) = Len(b)
  BY <1>1, <1>2, <1>3, <1>5
<1>7. ASSUME NEW i \in 1 .. Len(a) PROVE a[i] = b[i]
  <2>1. i \in 1 .. Len(y) /\ (i = Len(x) + 1 \/ i \in 1 .. Len(x))
    BY <1>1, <1>3, <1>4
  <2>2. a[i] = f[y[i]]
    BY <1>3, <2>1
  <2>3. CASE i = Len(x) + 1
    BY <1>1, <1>2, <1>5, <2>2, <2>3 DEF d
  <2>4. CASE i \in 1 .. Len(x)
    BY <1>1, <1>2, <1>5, <2>2, <2>4
  <2> QED
    BY <2>1, <2>3, <2>4
<1>8. a = b
  BY <1>3, <1>5, <1>6, <1>7, SeqEqual
<1> QED
  BY <1>8 DEF a, b, r, d, y

\* The replacement of a text grows with it.
LEMMA EachMore ==
  ASSUME NEW X, NEW Y, NEW x \in Seq(X), NEW f \in Substitutions(X, Y)
  PROVE  /\ Each(<<>>, f) = <<>> /\ Each(x, f) \in Seq(Y)
         /\ \A c \in X : Each(Append(x, c), f) = Each(x, f) \o f[c]
<1>1. Each(x, f) \in Seq(Y)
  BY ReplacedType, FlattenType DEF Each
<1>2. Each(<<>>, f) = <<>>
  <2> DEFINE e == <<>>
  <2>1. e = <<>> /\ e \in Seq(X) /\ Len(e) = 0
    OBVIOUS
  <2> HIDE DEF e
  <2>2. Replaced(e, f) \in Seq(Seq(Y)) /\ Len(Replaced(e, f)) = Len(e)
    BY ZenonT(60), <2>1, ReplacedType
  <2>3. Replaced(<<>>, f) = <<>>
    <3> DEFINE r == Replaced(e, f)
    <3> HIDE DEF r
    <3>1. r \in Seq(Seq(Y)) /\ Len(r) = 0
      BY <2>1, <2>2 DEF r
    <3>2. r = <<>>
      BY <3>1
    <3> QED
      BY <2>1, <3>2 DEF r
  <2>4. FlattenSeq(<<>>) = <<>>
    BY DEF FlattenSeq
  <2> QED
    BY <2>3, <2>4 DEF Each
<1>3. ASSUME NEW c \in X PROVE Each(Append(x, c), f) = Each(x, f) \o f[c]
  <2>1. Replaced(Append(x, c), f) = Append(Replaced(x, f), f[c])
    BY ReplacedMore
  <2>2. Replaced(x, f) \in Seq(Seq(Y)) /\ f[c] \in Seq(Y)
    BY ReplacedType DEF Substitutions
  <2>3. FlattenSeq(Append(Replaced(x, f), f[c])) = FlattenSeq(Replaced(x, f)) \o f[c]
    BY <2>2, FlattenMore
  <2> QED
    BY <2>1, <2>3 DEF Each
<1> QED
  BY <1>1, <1>2, <1>3

\* Two texts are replaced one after the other.
LEMMA EachCat ==
  ASSUME NEW X, NEW Y, NEW x \in Seq(X), NEW z \in Seq(X), NEW f \in Substitutions(X, Y)
  PROVE  Each(Cat(x, z), f) = Cat(Each(x, f), Each(z, f))
<1> DEFINE Is(n) == Each(x \o Pre(z, n), f) = Cat(Each(x, f), Each(Pre(z, n), f))
           S == {n \in Nat : n <= Len(z) => Is(n)}
<1>0. Each(x, f) \in Seq(Y)
  BY EachMore
<1>1. 0 \in S
  <2>1. Pre(z, 0) = <<>> /\ Each(<<>>, f) = <<>>
    BY PreMore, EachMore
  <2>2. x \o <<>> = x
    BY ConcatEmptySeq
  <2>3. Each(x, f) \o <<>> = Each(x, f)
    BY <1>0, ConcatEmptySeq
  <2> QED
    BY <2>1, <2>2, <2>3 DEF Cat
<1>2. ASSUME NEW n \in Nat, n \in S PROVE n + 1 \in S
  <2> SUFFICES ASSUME n + 1 <= Len(z) PROVE Is(n + 1)
    OBVIOUS
  <2> DEFINE u == Pre(z, n)
             c == z[n + 1]
             d == f[c]
  <2>1. n \in 0 .. Len(z) - 1 /\ n \in 0 .. Len(z)
    OBVIOUS
  <2>2. u \in Seq(X) /\ c \in X /\ Pre(z, n + 1) = Append(u, c)
    BY <2>1, PreMore
  <2>3. Each(x \o u, f) = Cat(Each(x, f), Each(u, f))
    BY <1>2, <2>1
  <2> HIDE DEF u, c
  <2>4. x \o u \in Seq(X) /\ x \o Append(u, c) = Append(x \o u, c)
    <3>1. /\ x \o u \in Seq(X) /\ <<c>> \in Seq(X)
          /\ Append(u, c) = u \o <<c>>
      BY <2>2, AppendIsConcat, ConcatProperties
    <3>2. Append(x \o u, c) = (x \o u) \o <<c>>
      BY <2>2, <3>1, AppendIsConcat
    <3>3. x \o (u \o <<c>>) = (x \o u) \o <<c>>
      <4> DEFINE e == <<c>>
      <4>1. e \in Seq(X)
        BY <3>1
      <4> HIDE DEF e
      <4>2. Cat(Cat(x, u), e) = Cat(x, Cat(u, e))
        BY <2>2, <4>1, CatAssociative
      <4> QED
        BY <4>2 DEF e, Cat
    <3> QED
      BY <3>1, <3>2, <3>3
  <2>5. /\ Each(Append(u, c), f) = Cat(Each(u, f), d)
        /\ Each(Append(x \o u, c), f) = Cat(Each(x \o u, f), d)
    <3> DEFINE w == x \o u
    <3> HIDE DEF w
    <3>1. w \in Seq(X)
      BY <2>4 DEF w
    <3>2. Each(Append(u, c), f) = Each(u, f) \o d
      BY <2>2, EachMore
    <3>3. Each(Append(w, c), f) = Each(w, f) \o d
      BY SMTT(30), <2>2, <3>1, EachMore
    <3> QED
      BY <3>2, <3>3 DEF Cat, w
  <2>6. Each(u, f) \in Seq(Y) /\ d \in Seq(Y)
    <3>1. d \in Seq(Y)
      BY <2>2 DEF Substitutions
    <3> QED
      BY <2>2, <3>1, EachMore
  <2> HIDE DEF d
  <2>7. Cat(Cat(Each(x, f), Each(u, f)), d) = Cat(Each(x, f), Cat(Each(u, f), d))
    BY <1>0, <2>6, CatAssociative
  <2> QED
    BY <2>2, <2>3, <2>4, <2>5, <2>7
<1>3. Len(z) \in S
  <2> HIDE DEF S
  <2>1. Nat \subseteq S
    BY <1>1, <1>2, Induction, Zenon
  <2>2. Len(z) \in Nat
    OBVIOUS
  <2> QED
    BY <2>1, <2>2
<1>4. Is(Len(z)) /\ Pre(z, Len(z)) = z
  BY <1>3, PreMore
<1> QED
  BY <1>4 DEF Cat

-----------------------------------------------------------------------------
(* Pages: the placeholders.                                                *)

\* The loop goes through states that it keeps.
LEMMA ReplaceRuns ==
  ASSUME NEW x, Len(x) \in Nat, NEW from, NEW to, NEW S,
         [ss |-> <<>>, str |-> x] \in S[0],
         \A n \in Nat : \A s \in S[n] : Page!ReplaceStep(from, to, s) \in S[n + 1]
  PROVE  \E s \in S[Len(x)] : Page!ReplaceAllSubstring(x, from, to) = s.ss
<1> DEFINE N == Len(x)
           T == UNION {S[n] : n \in Nat}
           init == [ss |-> <<>>, str |-> x]
           iter == [n \in 1 .. N |-> [s \in T |-> Page!ReplaceStep(from, to, s)]]
           Is(f) == f = [n \in 0 .. N |->
                      IF n = 0 THEN init ELSE Page!ReplaceStep(from, to, f[n - 1])]
           g == CHOOSE f : Is(f)
<1>1. N \in Nat
  OBVIOUS
<1>2. Page!ReplaceAllSubstring(x, from, to) = g[N].ss
  BY DEF Page!ReplaceAllSubstring
<1> HIDE DEF init, N
<1>3. init \in S[0]
  BY DEF init
<1>4. init \in T /\ \A s \in T : Page!ReplaceStep(from, to, s) \in T
  BY <1>3
<1>5. g = [n \in 0 .. N |-> IF n = 0 THEN init ELSE Page!ReplaceStep(from, to, g[n - 1])]
  <2> HIDE DEF T, g
  <2>1. iter \in Loops(N, T)
    BY <1>4 DEF Loops
  <2>2. PICK f : Runs(f, N, T, init, iter)
    <3> HIDE DEF iter
    <3> QED
      BY <1>1, <1>4, <2>1, LoopExists
  <2>3. /\ f = [n \in 0 .. N |-> f[n]] /\ f[0] = init
        /\ \A n \in 1 .. N : f[n - 1] \in T /\ f[n] = iter[n][f[n - 1]]
    BY <1>1, <2>2 DEF Runs
  <2>4. ASSUME NEW n \in 0 .. N
        PROVE  f[n] = IF n = 0 THEN init ELSE Page!ReplaceStep(from, to, f[n - 1])
    <3>1. CASE n = 0
      BY <2>3, <3>1
    <3>2. CASE n # 0
      <4>1. n \in 1 .. N
        BY <1>1, <3>2
      <4>2. f[n - 1] \in T /\ f[n] = iter[n][f[n - 1]]
        BY <2>3, <4>1
      <4>3. iter[n] = [s \in T |-> Page!ReplaceStep(from, to, s)]
        BY <4>1
      <4>4. f[n] = Page!ReplaceStep(from, to, f[n - 1])
        BY <4>2, <4>3, Zenon
      <4> QED
        BY <3>2, <4>4
    <3> QED
      BY <3>1, <3>2
  <2>5. Is(f)
    BY <2>3, <2>4
  <2>6. Is(g)
    BY <2>5 DEF g
  <2> QED
    BY <2>6
<1> HIDE DEF g, T
<1>6. \A n \in 0 .. N : g[n] \in S[n]
  <2>1. g[0] \in S[0]
    BY <1>1, <1>3, <1>5
  <2>2. ASSUME NEW n \in 1 .. N, g[n - 1] \in S[n - 1] PROVE g[n] \in S[n]
    <3>1. n \in 0 .. N /\ n # 0 /\ n - 1 \in Nat /\ (n - 1) + 1 = n
      BY <1>1
    <3>2. g[n] = Page!ReplaceStep(from, to, g[n - 1])
      BY <1>5, <3>1
    <3>3. Page!ReplaceStep(from, to, g[n - 1]) \in S[(n - 1) + 1]
      BY <2>2, <3>1
    <3> QED
      BY <3>1, <3>2, <3>3
  <2> QED
    BY <1>1, <2>1, <2>2, LoopInvariant
<1>7. g[N] \in S[N]
  BY <1>1, <1>6
<1> QED
  BY <1>2, <1>7 DEF N

\* A sequence of one.
LEMMA ShortText ==
  ASSUME NEW X, NEW t \in Seq(X), Len(t) = 1
  PROVE  t = <<t[1]>>
<1> DEFINE u == <<t[1]>>
<1>1. t[1] \in X
  <2>1. 1 \in 1 .. Len(t)
    OBVIOUS
  <2> QED
    BY <2>1, ElementOfSeq
<1>2. u \in Seq(X) /\ Len(u) = 1 /\ u[1] = t[1]
  BY <1>1
<1> HIDE DEF u
<1>3. \A i \in 1 .. Len(t) : t[i] = u[i]
  BY <1>2
<1>4. t = u
  BY <1>2, <1>3, SeqEqual
<1> QED
  BY <1>4 DEF u

\* What ReplaceAllSubstring keeps.
ReplaceStates(X) == [ss : Seq(X), str : Seq(X)]

\* The first sign of a placeholder is not its second, nor a later one.
Distinct(from) == Len(from) >= 1 /\ \A k \in 2 .. Len(from) : from[k] # from[1]

\* An occurrence, character by character.
LEMMA OccursIs ==
  ASSUME NEW X, NEW x \in Seq(X), NEW from \in Seq(X), Len(from) >= 1, NEW i
  PROVE  i \in Page!Occurrences(x, from) <=>
           /\ i \in 1 .. Len(x) - Len(from) + 1
           /\ \A k \in 1 .. Len(from) : x[i + k - 1] = from[k]
<1> DEFINE n == Len(from)
<1>1. n \in Nat /\ n >= 1 /\ Len(x) \in Nat
  OBVIOUS
<1> HIDE DEF n
<1>2. i \in Page!Occurrences(x, from) <=>
        i \in 1 .. Len(x) - n + 1 /\ SubSeq(x, i, i + n - 1) = from
  BY DEF Page!Occurrences, n
<1>3. ASSUME i \in 1 .. Len(x) - n + 1
      PROVE  SubSeq(x, i, i + n - 1) = from <=> \A k \in 1 .. n : x[i + k - 1] = from[k]
  <2> DEFINE a == i - 1
             b == i + n - 1
             t == SubSeq(x, a + 1, b)
  <2>1. /\ a \in Nat /\ b \in Nat /\ a <= b /\ b <= Len(x) /\ b - a = n /\ a + 1 = i
        /\ \A k \in 1 .. n : a + k = i + k - 1
    BY <1>1, <1>3
  <2> HIDE DEF a, b
  <2>2. t \in Seq(X) /\ Len(t) = b - a /\ \A k \in 1 .. b - a : t[k] = x[a + k]
    BY ZenonT(60), <2>1, PartIs
  <2>3. t = SubSeq(x, i, i + n - 1)
    BY <2>1 DEF b
  <2> HIDE DEF t
  <2>4. Len(t) = n /\ \A k \in 1 .. n : t[k] = x[i + k - 1]
    BY <2>1, <2>2
  <2>5. t = from <=> \A k \in 1 .. n : t[k] = from[k]
    <3>1. (\A k \in 1 .. n : t[k] = from[k]) => t = from
      BY <2>2, <2>4, SeqEqual DEF n
    <3> QED
      BY <3>1
  <2> QED
    BY <2>3, <2>4, <2>5
<1> QED
  BY <1>2, <1>3 DEF n

\* Occurrences of a placeholder do not overlap.
LEMMA OccursApart ==
  ASSUME NEW X, NEW x \in Seq(X), NEW from \in Seq(X), Distinct(from),
         NEW a \in Page!Occurrences(x, from), NEW b \in Page!Occurrences(x, from), a < b
  PROVE  a + Len(from) <= b
<1>1. Len(from) \in Nat /\ Len(from) >= 1 /\ Len(x) \in Nat
  BY DEF Distinct
<1>2. /\ a \in 1 .. Len(x) - Len(from) + 1 /\ \A k \in 1 .. Len(from) : x[a + k - 1] = from[k]
      /\ b \in 1 .. Len(x) - Len(from) + 1 /\ \A k \in 1 .. Len(from) : x[b + k - 1] = from[k]
  BY <1>1, OccursIs
<1> SUFFICES ASSUME b < a + Len(from) PROVE FALSE
  BY <1>1, <1>2
<1>3. b - a + 1 \in 2 .. Len(from) /\ a + (b - a + 1) - 1 = b /\ b + 1 - 1 = b
  BY <1>1, <1>2
<1>4. x[b] = from[b - a + 1]
  <2>1. b - a + 1 \in 1 .. Len(from)
    BY <1>3
  <2> QED
    BY <1>2, <1>3, <2>1
<1>5. x[b] = from[1]
  <2>1. 1 \in 1 .. Len(from)
    BY <1>1
  <2> QED
    BY <1>2, <1>3, <2>1
<1> QED
  BY <1>3, <1>4, <1>5 DEF Distinct

\* The occurrences in a rest.
LEMMA OccursRest ==
  ASSUME NEW X, NEW x \in Seq(X), NEW from \in Seq(X), Len(from) >= 1, NEW m \in 0 .. Len(x)
  PROVE  /\ \A i \in Page!Occurrences(Rest(x, m), from) :
              i \in Nat /\ i >= 1 /\ m + i \in Page!Occurrences(x, from)
         /\ \A c \in Page!Occurrences(x, from) :
              c > m => c - m \in Page!Occurrences(Rest(x, m), from)
<1> DEFINE r == Rest(x, m)
           n == Len(from)
<1>1. n \in Nat /\ n >= 1 /\ Len(x) \in Nat /\ m \in Nat /\ m <= Len(x)
  OBVIOUS
<1>2. /\ r \in Seq(X) /\ Len(r) = Len(x) - m
      /\ \A k \in 1 .. Len(x) - m : r[k] = x[m + k]
  BY RestIs
<1> HIDE DEF r
<1>3. ASSUME NEW i \in Page!Occurrences(r, from)
      PROVE  i \in Nat /\ i >= 1 /\ m + i \in Page!Occurrences(x, from)
  <2>1. i \in 1 .. Len(r) - n + 1 /\ \A k \in 1 .. n : r[i + k - 1] = from[k]
    BY <1>2, <1>3, OccursIs
  <2> HIDE DEF n
  <2>2. i \in Nat /\ i >= 1 /\ m + i \in 1 .. Len(x) - n + 1
    BY <1>1, <1>2, <2>1
  <2>3. ASSUME NEW k \in 1 .. n PROVE x[m + i + k - 1] = from[k]
    <3>1. i + k - 1 \in 1 .. Len(x) - m /\ m + (i + k - 1) = m + i + k - 1
      BY <1>1, <1>2, <2>1
    <3> QED
      BY <1>2, <2>1, <3>1
  <2>4. m + i \in Page!Occurrences(x, from)
    BY <2>2, <2>3, OccursIs DEF n
  <2> QED
    BY <2>2, <2>4
<1>4. ASSUME NEW c \in Page!Occurrences(x, from), c > m
      PROVE  c - m \in Page!Occurrences(r, from)
  <2>1. c \in 1 .. Len(x) - n + 1 /\ \A k \in 1 .. n : x[c + k - 1] = from[k]
    BY <1>4, OccursIs
  <2> HIDE DEF n
  <2>2. c - m \in 1 .. Len(r) - n + 1
    BY <1>1, <1>2, <1>4, <2>1
  <2>3. ASSUME NEW k \in 1 .. n PROVE r[c - m + k - 1] = from[k]
    <3>1. c - m + k - 1 \in 1 .. Len(x) - m /\ m + (c - m + k - 1) = c + k - 1
      BY <1>1, <1>2, <1>4, <2>1
    <3> QED
      BY <1>2, <2>1, <3>1
  <2> QED
    BY <1>2, <2>2, <2>3, OccursIs DEF n
<1> QED
  BY <1>3, <1>4 DEF r

\* A text with what every character becomes.
Covers(x, from, i) == \E b \in Page!Occurrences(x, from) : i \in b .. b + Len(from) - 1
Sub(x, from, to) == [i \in DOMAIN x |-> IF i \in Page!Occurrences(x, from) THEN to
                                       ELSE IF Covers(x, from, i) THEN <<>> ELSE <<x[i]>>]

\* They are texts.
LEMMA SubType ==
  ASSUME NEW X, NEW x \in Seq(X), NEW from, NEW to \in Seq(X)
  PROVE  /\ Sub(x, from, to) \in Seq(Seq(X)) /\ Len(Sub(x, from, to)) = Len(x)
         /\ \A i \in 1 .. Len(x) :
              Sub(x, from, to)[i] = IF i \in Page!Occurrences(x, from) THEN to
                                    ELSE IF Covers(x, from, i) THEN <<>> ELSE <<x[i]>>
<1>1. DOMAIN x = 1 .. Len(x) /\ Len(x) \in Nat
  OBVIOUS
<1>2. \A i \in 1 .. Len(x) : <<>> \in Seq(X) /\ <<x[i]>> \in Seq(X)
  OBVIOUS
<1>3. Sub(x, from, to) \in [1 .. Len(x) -> Seq(X)]
  BY <1>1, <1>2 DEF Sub
<1>4. \A i \in 1 .. Len(x) :
        Sub(x, from, to)[i] = IF i \in Page!Occurrences(x, from) THEN to
                              ELSE IF Covers(x, from, i) THEN <<>> ELSE <<x[i]>>
  BY <1>1 DEF Sub
<1> QED
  BY <1>1, <1>3, <1>4, FunctionIsSeq

\* After n iterations the text is substituted up to m, where no occurrence is cut,
\* and the rest is left.
SubUpTo(x, from, to, n, m, s) ==
  /\ s.str = Rest(x, m) /\ s.ss = FlattenSeq(Pre(Sub(x, from, to), m))
  /\ \A b \in Page!Occurrences(x, from) : b <= m => b + Len(from) - 1 <= m
  /\ s.str = <<>> \/ m >= n

\* The part up to the next occurrence is kept, the occurrence is replaced.
LEMMA SubMore ==
  ASSUME NEW X, NEW x \in Seq(X), NEW from \in Seq(X), Distinct(from), NEW to \in Seq(X),
         NEW m \in 0 .. Len(x), NEW c \in Page!Occurrences(x, from), m < c,
         \A b \in Page!Occurrences(x, from) :
           (b <= m => b + Len(from) - 1 <= m) /\ (b > m => b >= c)
  PROVE  /\ c + Len(from) - 1 \in m + 1 .. Len(x)
         /\ FlattenSeq(Pre(Sub(x, from, to), c + Len(from) - 1)) =
              Cat(Cat(FlattenSeq(Pre(Sub(x, from, to), m)), SubSeq(x, m + 1, c - 1)), to)
         /\ \A b \in Page!Occurrences(x, from) :
              b <= c + Len(from) - 1 => b + Len(from) - 1 <= c + Len(from) - 1
<1> DEFINE O == Page!Occurrences(x, from)
           M == Sub(x, from, to)
           n == Len(from)
           h == c - 1
           e == c + n - 1
<1>1. n \in Nat /\ n >= 1 /\ Len(x) \in Nat /\ m \in Nat /\ m <= Len(x)
  BY DEF Distinct
<1>2. \A b \in O : b \in Nat /\ b >= 1 /\ b + n - 1 <= Len(x)
  <2>1. O \subseteq 1 .. Len(x) - n + 1
    BY DEF Page!Occurrences
  <2> HIDE DEF O, n
  <2> QED
    BY <1>1, <2>1
<1>3. /\ M \in Seq(Seq(X)) /\ Len(M) = Len(x)
      /\ \A i \in 1 .. Len(x) : M[i] = IF i \in O THEN to
                                      ELSE IF Covers(x, from, i) THEN <<>> ELSE <<x[i]>>
  BY SubType
<1>4. \A b \in O : \A d \in O : b < d => b + n <= d
  BY OccursApart
<1>5. c \in O /\ \A b \in O : (b <= m => b + n - 1 <= m) /\ (b > m => b >= c)
  OBVIOUS
<1>13. \A i : Covers(x, from, i) <=> \E b \in O : i \in b .. b + n - 1
  BY DEF Covers
<1>12. Pre(M, m) = SubSeq(M, 0 + 1, m) /\ Pre(M, e) = SubSeq(M, 0 + 1, e)
  BY DEF Pre
<1> HIDE DEF O, M, n
<1>6. /\ c \in Nat /\ h \in Nat /\ e \in Nat /\ m <= h /\ h <= c /\ c <= e /\ e <= Len(x)
      /\ h + 1 = c /\ e \in m + 1 .. Len(x) /\ c \in 1 .. Len(x)
      /\ c - h = 1 /\ h <= Len(x) /\ h <= Len(M) /\ c <= Len(M) /\ e <= Len(M)
  <2>1. c \in Nat /\ c >= 1 /\ c + n - 1 <= Len(x) /\ Len(M) = Len(x)
    BY <1>2, <1>3, <1>5
  <2> QED
    BY <1>1, <2>1
<1> HIDE DEF h, e
<1>7. FlattenSeq(SubSeq(M, m + 1, h)) = SubSeq(x, m + 1, h) /\ SubSeq(x, m + 1, h) \in Seq(X)
  <2>1. ASSUME NEW i \in m + 1 .. h PROVE M[i] = <<x[i]>>
    <3>1. i \in 1 .. Len(x) /\ i > m /\ i < c
      BY <1>1, <1>6
    <3>2. ASSUME NEW b \in O, i \in b .. b + n - 1 PROVE FALSE
      <4>1. /\ b \in Nat /\ (b <= m => b + n - 1 <= m) /\ (b > m => b >= c)
        BY <1>2, <1>5
      <4> QED
        BY <1>1, <1>6, <3>1, <3>2, <4>1
    <3>3. i \in O => i \in i .. i + n - 1
      BY <1>1, <3>1
    <3>4. i \notin O /\ ~Covers(x, from, i)
      BY <1>13, <3>2, <3>3
    <3> QED
      BY <1>3, <3>1, <3>4
  <2>2. M \in Seq(Seq(X)) /\ Len(M) = Len(x) /\ m \in Nat /\ h \in Nat /\ m <= h /\ h <= Len(x)
    BY <1>1, <1>3, <1>6
  <2>3. FlattenSeq(SubSeq(M, m + 1, h)) = SubSeq(x, m + 1, h)
    BY ZenonT(60), <2>1, <2>2, PartKept
  <2>4. SubSeq(x, m + 1, h) \in Seq(X)
    BY ZenonT(60), <2>2, PartIs
  <2> QED
    BY <2>3, <2>4
<1>8. FlattenSeq(SubSeq(M, h + 1, c)) = to
  <2>1. SubSeq(M, h + 1, c) = <<M[c]>>
    <3> DEFINE t == SubSeq(M, h + 1, c)
    <3>1. t \in Seq(Seq(X)) /\ Len(t) = c - h /\ \A i \in 1 .. c - h : t[i] = M[h + i]
      <4>1. M \in Seq(Seq(X)) /\ h \in Nat /\ c \in Nat /\ h <= c /\ c <= Len(M)
        BY <1>3, <1>6
      <4> QED
        BY ZenonT(60), <4>1, PartIs
    <3> HIDE DEF t
    <3>2. Len(t) = 1 /\ t[1] = M[c]
      <4>1. c - h = 1 /\ h + 1 = c /\ 1 \in 1 .. 1
        BY <1>6
      <4> QED
        BY <3>1, <4>1
    <3>3. t = <<t[1]>>
      BY <3>1, <3>2, ShortText
    <3> QED
      BY <3>2, <3>3 DEF t
  <2>2. M[c] = to
    BY <1>3, <1>5, <1>6
  <2>3. FlattenSeq(Append(<<>>, to)) = FlattenSeq(<<>>) \o to /\ FlattenSeq(<<>>) = <<>>
    <3>1. <<>> \in Seq(Seq(X))
      OBVIOUS
    <3> QED
      BY <3>1, FlattenMore DEF FlattenSeq
  <2>4. Append(<<>>, to) = <<to>> /\ <<>> \o to = to
    BY ConcatEmptySeq
  <2> QED
    BY <2>1, <2>2, <2>3, <2>4
<1>9. FlattenSeq(SubSeq(M, c + 1, e)) = <<>>
  <2>1. ASSUME NEW i \in c + 1 .. e PROVE M[i] = <<>>
    <3>1. i \in 1 .. Len(x) /\ i \in c .. c + n - 1 /\ i > c /\ i < c + n
      BY <1>1, <1>6 DEF e
    <3>2. i \notin O
      BY <1>1, <1>4, <1>5, <1>6, <3>1
    <3> QED
      BY <1>3, <1>5, <1>13, <3>1, <3>2
  <2> QED
    BY <1>3, <1>6, <2>1, PartDropped
<1>10. FlattenSeq(Pre(M, e)) = Cat(Cat(FlattenSeq(Pre(M, m)), SubSeq(x, m + 1, h)), to)
  <2> DEFINE A == FlattenSeq(SubSeq(M, 0 + 1, m))
             B == FlattenSeq(SubSeq(M, 0 + 1, h))
             C == FlattenSeq(SubSeq(M, 0 + 1, c))
             D == FlattenSeq(SubSeq(M, 0 + 1, e))
  <2>7. /\ M \in Seq(Seq(X)) /\ 0 \in Nat /\ 0 <= m /\ 0 <= h /\ 0 <= c
        /\ m \in Nat /\ h \in Nat /\ c \in Nat /\ e \in Nat
        /\ m <= h /\ h <= c /\ c <= e /\ h <= Len(M) /\ c <= Len(M) /\ e <= Len(M)
    BY <1>1, <1>3, <1>6
  <2>1. B = Cat(A, SubSeq(x, m + 1, h))
    <3>1. B = Cat(A, FlattenSeq(SubSeq(M, m + 1, h)))
      BY ZenonT(60), <2>7, PartMore
    <3> QED
      BY <1>7, <3>1
  <2>2. C = Cat(B, to)
    <3>1. C = Cat(B, FlattenSeq(SubSeq(M, h + 1, c)))
      BY ZenonT(60), <2>7, PartMore
    <3> QED
      BY <1>8, <3>1
  <2>3. D = Cat(C, <<>>)
    <3>1. D = Cat(C, FlattenSeq(SubSeq(M, c + 1, e)))
      BY ZenonT(60), <2>7, PartMore
    <3> QED
      BY <1>9, <3>1
  <2>4. C \in Seq(X)
    <3>1. c <= Len(M) /\ 0 \in Nat /\ 0 <= c
      BY <1>3, <1>6
    <3>2. SubSeq(M, 0 + 1, c) \in Seq(Seq(X))
      BY <1>3, <1>6, <3>1, PartIs
    <3> QED
      BY <3>2, FlattenType
  <2>5. Cat(C, <<>>) = C
    BY <2>4, ConcatEmptySeq DEF Cat
  <2> HIDE DEF A, B, C, D
  <2>6. D = Cat(Cat(A, SubSeq(x, m + 1, h)), to)
    BY <2>1, <2>2, <2>3, <2>5
  <2> QED
    BY <1>12, <2>6 DEF A, D
<1>11. \A b \in O : b <= e => b + n - 1 <= e
  BY <1>1, <1>2, <1>4, <1>5, <1>6 DEF e
<1> QED
  BY <1>6, <1>10, <1>11 DEF O, M, n, h, e

\* Without a further occurrence the rest is kept.
LEMMA SubEnds ==
  ASSUME NEW X, NEW x \in Seq(X), NEW from \in Seq(X), Distinct(from), NEW to \in Seq(X),
         NEW m \in 0 .. Len(x),
         \A b \in Page!Occurrences(x, from) : b <= m /\ b + Len(from) - 1 <= m
  PROVE  FlattenSeq(Pre(Sub(x, from, to), Len(x))) =
           Cat(FlattenSeq(Pre(Sub(x, from, to), m)), Rest(x, m))
<1> DEFINE O == Page!Occurrences(x, from)
           M == Sub(x, from, to)
<1>1. Len(x) \in Nat /\ m \in Nat /\ m <= Len(x) /\ 0 \in Nat /\ 0 <= m /\ Len(from) \in Nat
  OBVIOUS
<1>2. /\ M \in Seq(Seq(X)) /\ Len(M) = Len(x)
      /\ \A i \in 1 .. Len(x) : i \notin O /\ ~Covers(x, from, i) => M[i] = <<x[i]>>
  <2> DEFINE S == Sub(x, from, to)
  <2> HIDE DEF S
  <2>1. /\ S \in Seq(Seq(X)) /\ Len(S) = Len(x)
        /\ \A i \in 1 .. Len(x) :
             S[i] = IF i \in Page!Occurrences(x, from) THEN to
                    ELSE IF Covers(x, from, i) THEN <<>> ELSE <<x[i]>>
    BY SMTT(30), SubType DEF S
  <2> QED
    BY <2>1 DEF S
<1>3. ASSUME NEW i \in m + 1 .. Len(x) PROVE M[i] = <<x[i]>>
  <2>1. i \in 1 .. Len(x) /\ i > m /\ i \in Nat
    BY <1>1
  <2>2. O \subseteq Int
    <3>1. O \subseteq 1 .. Len(x) - Len(from) + 1
      BY DEF Page!Occurrences
    <3> QED
      BY <1>1, <3>1
  <2>3. \A b \in O : b \in Int /\ b <= m /\ b + Len(from) - 1 <= m
    BY <2>2
  <2> HIDE DEF O, M
  <2>4. i \notin O
    BY <1>1, <2>1, <2>3
  <2>5. \A b \in O : i \notin b .. b + Len(from) - 1
    BY <1>1, <2>1, <2>3
  <2>6. ~Covers(x, from, i)
    BY <2>5 DEF Covers, O
  <2> QED
    BY <1>2, <2>1, <2>4, <2>6
<1> HIDE DEF M
<1>6. Len(x) <= Len(x) /\ Len(x) <= Len(M)
  BY <1>1, <1>2
<1>4. FlattenSeq(SubSeq(M, m + 1, Len(x))) = SubSeq(x, m + 1, Len(x))
  BY ZenonT(60), <1>1, <1>2, <1>3, <1>6, PartKept
<1>5. FlattenSeq(SubSeq(M, 0 + 1, Len(x))) =
        Cat(FlattenSeq(SubSeq(M, 0 + 1, m)), FlattenSeq(SubSeq(M, m + 1, Len(x))))
  BY ZenonT(60), <1>1, <1>2, <1>6, PartMore
<1>7. /\ Pre(M, Len(x)) = SubSeq(M, 0 + 1, Len(x)) /\ Pre(M, m) = SubSeq(M, 0 + 1, m)
      /\ Rest(x, m) = SubSeq(x, m + 1, Len(x))
  BY DEF Pre, Rest
<1> QED
  BY <1>4, <1>5, <1>7 DEF M

\* One iteration keeps it.
LEMMA SubStep ==
  ASSUME NEW X, NEW x \in Seq(X), NEW from \in Seq(X), Distinct(from), NEW to \in Seq(X),
         NEW n \in Nat, NEW m \in 0 .. Len(x), NEW s \in ReplaceStates(X),
         SubUpTo(x, from, to, n, m, s)
  PROVE  /\ Page!ReplaceStep(from, to, s) \in ReplaceStates(X)
         /\ \E e \in 0 .. Len(x) : SubUpTo(x, from, to, n + 1, e, Page!ReplaceStep(from, to, s))
<1> DEFINE r == Page!ReplaceStep(from, to, s)
           O == Page!Occurrences(x, from)
           F == Page!Occurrences(Rest(x, m), from)
           W == FlattenSeq(Pre(Sub(x, from, to), m))
<1>1. Len(x) \in Nat /\ m \in Nat /\ m <= Len(x) /\ Len(from) \in Nat /\ Len(from) >= 1
  BY DEF Distinct
<1>2. /\ s.str = Rest(x, m) /\ s.ss = W /\ (s.str = <<>> \/ m >= n)
      /\ \A b \in O : b <= m => b + Len(from) - 1 <= m
  BY DEF SubUpTo
<1>3. s.ss \in Seq(X) /\ s.str \in Seq(X)
  BY DEF ReplaceStates
<1>4. /\ \A i \in F : i \in Nat /\ i >= 1 /\ m + i \in O
      /\ \A c \in O : c > m => c - m \in F
  BY <1>1, OccursRest
<1>5. \A b \in O : b \in Nat /\ b >= 1 /\ b + Len(from) - 1 <= Len(x)
  <2>1. O \subseteq 1 .. Len(x) - Len(from) + 1
    BY DEF Page!Occurrences
  <2> QED
    BY <1>1, <2>1
<1>6. CASE s.str = <<>>
  <2>1. r = s
    BY <1>6 DEF Page!ReplaceStep
  <2>2. SubUpTo(x, from, to, n + 1, m, s)
    BY <1>6 DEF SubUpTo
  <2> QED
    BY <2>1, <2>2
<1>7. CASE s.str # <<>> /\ F = {}
  <2>1. r = [ss |-> s.ss \o s.str, str |-> <<>>]
    BY <1>2, <1>7 DEF Page!ReplaceStep
  <2> HIDE DEF r
  <2>2. r \in ReplaceStates(X) /\ r.ss = Cat(s.ss, s.str) /\ r.str = <<>>
    <3>1. s.ss \o s.str \in Seq(X) /\ <<>> \in Seq(X)
      BY <1>3
    <3> QED
      BY <2>1, <3>1 DEF ReplaceStates, Cat
  <2>3. \A b \in O : b <= m /\ b + Len(from) - 1 <= m
    BY <1>1, <1>2, <1>4, <1>5, <1>7
  <2>4. FlattenSeq(Pre(Sub(x, from, to), Len(x))) = Cat(W, Rest(x, m))
    BY <2>3, SubEnds
  <2>5. Rest(x, Len(x)) = <<>>
    BY <1>1, SubSeqEmpty DEF Rest
  <2>6. Len(x) \in 0 .. Len(x)
    BY <1>1
  <2>7. SubUpTo(x, from, to, n + 1, Len(x), r)
    BY <1>2, <1>5, <2>2, <2>4, <2>5 DEF SubUpTo
  <2> QED
    BY <2>2, <2>6, <2>7 DEF r
<1>8. CASE s.str # <<>> /\ F # {}
  <2> DEFINE b == Page!Least(F)
             c == m + b
             e == c + Len(from) - 1
             head == SubSeq(Rest(x, m), 1, b - 1)
             rest == SubSeq(Rest(x, m), b + Len(from), Len(Rest(x, m)))
  <2>1. r = [ss |-> s.ss \o head \o to, str |-> rest]
    BY <1>2, <1>8 DEF Page!ReplaceStep
  <2>2. b \in F /\ \A i \in F : b <= i
    <3>1. F \in SUBSET Nat
      BY <1>4
    <3> HIDE DEF F
    <3> QED
      BY <1>8, <3>1, LeastIs
  <2> HIDE DEF b, r, F
  <2>3. b \in Nat /\ b >= 1 /\ c \in O /\ m < c
    BY <1>1, <1>4, <2>2
  <2>4. \A a \in O : (a <= m => a + Len(from) - 1 <= m) /\ (a > m => a >= c)
    <3>1. ASSUME NEW a \in O, a > m PROVE a >= c
      <4>1. a - m \in F /\ a \in Nat
        BY <1>4, <1>5, <3>1
      <4>2. b <= a - m
        BY <2>2, <4>1
      <4> QED
        BY <1>1, <2>3, <4>1, <4>2
    <3> QED
      BY <1>2, <3>1
  <2> HIDE DEF c
  <2>5. /\ e \in m + 1 .. Len(x)
        /\ FlattenSeq(Pre(Sub(x, from, to), e)) = Cat(Cat(W, SubSeq(x, m + 1, c - 1)), to)
        /\ \A a \in O : a <= e => a + Len(from) - 1 <= e
    BY ZenonT(60), <2>3, <2>4, SubMore
  <2>6. head = SubSeq(x, m + 1, c - 1) /\ head \in Seq(X)
    <3>1. b - 1 \in 0 .. Len(x) - m /\ m + (b - 1) = c - 1 /\ c - 1 \in Nat /\ m <= c - 1
          /\ c - 1 <= Len(x)
      BY <1>1, <1>5, <2>3 DEF c
    <3>2. head = SubSeq(x, m + 1, m + (b - 1))
      BY <3>1, FrontOfRest
    <3>3. SubSeq(x, m + 1, c - 1) \in Seq(X)
      <4> DEFINE k == c - 1
      <4> HIDE DEF k
      <4>1. k \in Nat /\ m <= k /\ k <= Len(x)
        BY <3>1 DEF k
      <4>2. SubSeq(x, m + 1, k) \in Seq(X)
        BY <1>1, <4>1, PartIs
      <4> QED
        BY <4>2 DEF k
    <3> QED
      BY <3>1, <3>2, <3>3
  <2>7. rest = Rest(x, e)
    <3>1. /\ b + Len(from) - 1 \in 0 .. Len(x) - m /\ m + (b + Len(from) - 1) = e
          /\ (b + Len(from) - 1) + 1 = b + Len(from)
      BY <1>1, <1>5, <2>3 DEF c
    <3> QED
      BY <3>1, RestOfRest
  <2>8. e \in 0 .. Len(x) /\ e >= m + 1
    BY <1>1, <2>5
  <2> HIDE DEF head, rest, e
  <2>9. Rest(x, e) \in Seq(X)
    BY <2>8, RestIs, Zenon
  <2>10. r \in ReplaceStates(X) /\ r.ss = Cat(Cat(s.ss, head), to) /\ r.str = Rest(x, e)
    <3>1. (s.ss \o head) \o to \in Seq(X)
      BY <1>3, <2>6
    <3> QED
      BY <2>1, <2>7, <2>9, <3>1 DEF ReplaceStates, Cat
  <2>11. e >= n + 1
    BY <1>1, <1>2, <1>8, <2>8
  <2>12. SubUpTo(x, from, to, n + 1, e, r)
    BY <1>2, <2>5, <2>6, <2>10, <2>11 DEF SubUpTo
  <2> QED
    BY <2>8, <2>10, <2>12 DEF r
<1> QED
  BY <1>6, <1>7, <1>8

\* ReplaceAllSubstring replaces every occurrence and nothing else.
LEMMA SubstitutedIs ==
  ASSUME NEW X, NEW x \in Seq(X), NEW from \in Seq(X), Distinct(from), NEW to \in Seq(X)
  PROVE  /\ Page!ReplaceAllSubstring(x, from, to) = Substituted(x, from, to)
         /\ Substituted(x, from, to) \in Seq(X)
<1> DEFINE y == Page!ReplaceAllSubstring(x, from, to)
           M == Sub(x, from, to)
           Keeps(n, s) == \E m \in 0 .. Len(x) : SubUpTo(x, from, to, n, m, s)
           S == [n \in Nat |-> {s \in ReplaceStates(X) : Keeps(n, s)}]
           init == [ss |-> <<>>, str |-> x]
<1>0. Len(x) \in Nat
  OBVIOUS
<1>1. Substituted(x, from, to) = FlattenSeq(M)
  BY DEF Substituted, Sub, Covers
<1>2. M \in Seq(Seq(X)) /\ Len(M) = Len(x)
  BY SubType
<1>3. FlattenSeq(M) \in Seq(X)
  BY <1>2, FlattenType
<1>4. init \in S[0]
  <2>1. init \in ReplaceStates(X) /\ init.ss = <<>> /\ init.str = x
    BY DEF ReplaceStates
  <2> HIDE DEF init
  <2>2. Rest(x, 0) = x
    BY SubSeqFull DEF Rest
  <2>3. Pre(M, 0) = <<>> /\ FlattenSeq(<<>>) = <<>>
    BY <1>2, PreMore DEF FlattenSeq
  <2>4. \A b \in Page!Occurrences(x, from) : ~(b <= 0)
    <3>1. Page!Occurrences(x, from) \subseteq 1 .. Len(x) - Len(from) + 1
      BY DEF Page!Occurrences
    <3> QED
      BY <1>0, <3>1
  <2>5. SubUpTo(x, from, to, 0, 0, init)
    BY <2>1, <2>2, <2>3, <2>4 DEF SubUpTo
  <2>6. 0 \in 0 .. Len(x)
    BY <1>0
  <2> QED
    BY <2>1, <2>5, <2>6
<1>5. ASSUME NEW n \in Nat, NEW s \in S[n] PROVE Page!ReplaceStep(from, to, s) \in S[n + 1]
  <2>1. PICK m \in 0 .. Len(x) : SubUpTo(x, from, to, n, m, s)
    OBVIOUS
  <2>2. s \in ReplaceStates(X) /\ n + 1 \in Nat
    OBVIOUS
  <2>3. Page!ReplaceStep(from, to, s) \in ReplaceStates(X) /\ Keeps(n + 1, Page!ReplaceStep(from, to, s))
    BY <2>1, <2>2, SubStep
  <2> QED
    BY <2>2, <2>3
<1>6. PICK s \in S[Len(x)] : y = s.ss
  <2> HIDE DEF S
  <2> QED
    BY <1>0, <1>4, <1>5, ReplaceRuns
<1>7. PICK m \in 0 .. Len(x) : SubUpTo(x, from, to, Len(x), m, s)
  BY <1>0, <1>6
<1>8. m = Len(x)
  <2>1. Rest(x, m) = <<>> => Len(x) - m = 0
    BY RestIs
  <2> QED
    BY <1>0, <1>7, <2>1 DEF SubUpTo
<1>9. s.ss = FlattenSeq(Pre(M, Len(x)))
  BY <1>7, <1>8 DEF SubUpTo
<1>10. Pre(M, Len(x)) = M
  BY <1>2, PreMore
<1> QED
  BY <1>1, <1>3, <1>6, <1>9, <1>10

\* The parameters of a page.
PageParams(X) == [key : X \ {Page!Open}, val : Seq(X)]

\* PutParamIntoHTML substitutes every parameter in turn.
LEMMA FilledIs ==
  ASSUME NEW X, Page!Open \in X, Page!Close \in X, NEW x \in Seq(X),
         NEW params \in Seq(PageParams(X))
  PROVE  /\ Page!PutParamIntoHTML(x, params) = Filled(x, params)
         /\ Filled(x, params) \in Seq(X)
<1> DEFINE N == Len(params)
           T == Seq(X)
           From(n) == Page!HTMLPlaceholder(params[n].key)
           Rep(n, t) == Page!ReplaceAllSubstring(t, From(n), params[n].val)
           Ref(n, t) == Substituted(t, From(n), params[n].val)
           Put(f) == f = [n \in 0 .. N |-> IF n = 0 THEN x ELSE Rep(n, f[n - 1])]
           Fill(f) == f = [n \in 0 .. N |-> IF n = 0 THEN x ELSE Ref(n, f[n - 1])]
           p == CHOOSE f : Put(f)
           g == CHOOSE f : Fill(f)
           iter == [n \in 1 .. N |-> [t \in T |-> Ref(n, t)]]
<1>1. N \in Nat
  OBVIOUS
<1>2. Page!PutParamIntoHTML(x, params) = p[N] /\ Filled(x, params) = g[N]
  BY DEF Page!PutParamIntoHTML, Filled
<1>3. ASSUME NEW n \in 1 .. N, NEW t \in T PROVE Rep(n, t) = Ref(n, t) /\ Ref(n, t) \in T
  <2>1. params[n] \in PageParams(X)
    OBVIOUS
  <2>2. params[n].key \in X /\ params[n].key # Page!Open /\ params[n].val \in Seq(X)
    BY <2>1 DEF PageParams
  <2> DEFINE from == Page!HTMLPlaceholder(params[n].key)
  <2>3. from = <<Page!Open, params[n].key, Page!Close>>
    BY DEF Page!HTMLPlaceholder
  <2> HIDE DEF from
  <2>4. from \in Seq(X) /\ Len(from) = 3
    BY <2>2, <2>3
  <2>5. Page!Close # Page!Open
    BY DEF Page!Close, Page!Open
  <2>6. Distinct(from)
    <3>1. from[1] = Page!Open /\ from[2] = params[n].key /\ from[3] = Page!Close
      BY <2>3
    <3>2. \A k \in 2 .. 3 : k = 2 \/ k = 3
      OBVIOUS
    <3> QED
      BY <2>2, <2>4, <2>5, <3>1, <3>2 DEF Distinct
  <2>7. /\ Page!ReplaceAllSubstring(t, from, params[n].val) = Substituted(t, from, params[n].val)
        /\ Substituted(t, from, params[n].val) \in Seq(X)
    BY <2>2, <2>4, <2>6, SubstitutedIs
  <2> QED
    BY <2>7 DEF from
<1> HIDE DEF N, T, Rep, Ref
<1>4. PICK f : Runs(f, N, T, x, iter)
  <2>1. iter \in Loops(N, T) /\ x \in T
    BY <1>3 DEF Loops, T
  <2> HIDE DEF iter
  <2> QED
    BY <1>1, <2>1, LoopExists
<1>5. /\ f = [n \in 0 .. N |-> f[n]] /\ f[0] = x
      /\ \A n \in 1 .. N : f[n - 1] \in T /\ f[n] = iter[n][f[n - 1]]
  <2> HIDE DEF iter
  <2> QED
    BY <1>1, <1>4, RunsAre
<1>6. ASSUME NEW n \in 0 .. N
      PROVE  /\ f[n] = IF n = 0 THEN x ELSE Ref(n, f[n - 1])
             /\ f[n] = IF n = 0 THEN x ELSE Rep(n, f[n - 1])
  <2>1. CASE n = 0
    BY <1>5, <2>1
  <2>2. CASE n # 0
    <3>1. n \in 1 .. N
      BY <1>1, <2>2
    <3>2. f[n - 1] \in T /\ f[n] = iter[n][f[n - 1]]
      BY <1>5, <3>1
    <3>3. iter[n] = [t \in T |-> Ref(n, t)]
      BY <3>1
    <3>4. f[n] = Ref(n, f[n - 1])
      BY <3>2, <3>3, Zenon
    <3> QED
      BY <1>3, <2>2, <3>1, <3>2, <3>4
  <2> QED
    BY <2>1, <2>2
<1>7. Put(f) /\ Fill(f)
  BY <1>5, <1>6
<1>8. Put(p) /\ Fill(g)
  BY <1>7
<1> HIDE DEF p, g, iter
<1>9. \A n \in 0 .. N : f[n] \in T /\ p[n] = f[n] /\ g[n] = f[n]
  <2> DEFINE Q == {k \in Nat : k <= N => f[k] \in T /\ p[k] = f[k] /\ g[k] = f[k]}
  <2>1. 0 \in Q
    <3>1. 0 \in 0 .. N /\ p[0] = x /\ g[0] = x
      BY <1>1, <1>8
    <3> QED
      BY <1>5, <3>1 DEF T
  <2>2. ASSUME NEW k \in Nat, k \in Q PROVE k + 1 \in Q
    <3> SUFFICES ASSUME k + 1 <= N
                 PROVE  f[k + 1] \in T /\ p[k + 1] = f[k + 1] /\ g[k + 1] = f[k + 1]
      OBVIOUS
    <3>1. k + 1 \in 0 .. N /\ k + 1 \in 1 .. N /\ (k + 1) - 1 = k /\ k + 1 # 0
      BY <1>1
    <3>2. f[k] \in T /\ p[k] = f[k] /\ g[k] = f[k]
      BY <1>1, <2>2
    <3>3. p[k + 1] = Rep(k + 1, p[k]) /\ g[k + 1] = Ref(k + 1, g[k])
      BY <1>8, <3>1
    <3>4. f[k + 1] = Ref(k + 1, f[k])
      BY <1>6, <3>1
    <3>5. Rep(k + 1, f[k]) = Ref(k + 1, f[k]) /\ Ref(k + 1, f[k]) \in T
      BY <1>3, <3>1, <3>2
    <3> QED
      BY <3>2, <3>3, <3>4, <3>5
  <2> HIDE DEF Q
  <2>3. Nat \subseteq Q
    BY <2>1, <2>2, Induction
  <2> QED
    BY <1>1, <2>3 DEF Q
<1> QED
  BY <1>1, <1>2, <1>9 DEF T

\* For any characters, parameters and values: a generated page has every placeholder
\* replaced and nothing else changed, its lines keep every character but the line
\* ends, and the length in its head is right.
THEOREM PagesAreWhole == TextSpec => []PageIsWhole
<1>1. TextTypeOK => PageIsWhole
  <2> SUFFICES ASSUME kind = "page", text \in Seq(PageChars), NEW params \in Params
               PROVE  LET filled == Page!PutParamIntoHTML(text, params)
                          lines  == Page!SplitStringToLines(filled)
                      IN  /\ filled = Filled(text, params)
                          /\ lines # <<>>
                          /\ FlattenSeq(lines) = FlattenSeq(Marks(filled))
                          /\ Page!ContentLength(lines) = Len(Page!Content(lines))
    BY Zenon DEF TextTypeOK, PageIsWhole, Marks
  <2> DEFINE X == PageChars \cup {Page!Open, Page!Close, Page!CR, Page!LF}
             filled == Page!PutParamIntoHTML(text, params)
             lines == Page!SplitStringToLines(filled)
  <2>1. Page!Open \in X /\ Page!Close \in X /\ Page!CR \in X /\ Page!LF \in X
    OBVIOUS
  <2>2. text \in Seq(X)
    BY SeqMonotonic
  <2>3. params \in Seq(PageParams(X))
    <3>1. PageParams(PageChars) \subseteq PageParams(X)
      <4>1. Seq(PageChars) \subseteq Seq(X)
        BY SeqMonotonic
      <4> QED
        BY <4>1 DEF PageParams
    <3>2. params \in Seq(PageParams(PageChars))
      BY PageAssumption DEF PageParams
    <3> QED
      BY <3>1, <3>2, SeqMonotonic
  <2> HIDE DEF X
  <2>4. filled = Filled(text, params) /\ filled \in Seq(X)
    BY <2>1, <2>2, <2>3, FilledIs
  <2> HIDE DEF filled
  <2>5. /\ lines \in Seq(Seq(X)) /\ lines # <<>>
        /\ FlattenSeq(lines) = FlattenSeq(Marks(filled))
    BY <2>4, SplitIs
  <2> HIDE DEF lines
  <2>6. Page!ContentLength(lines) = Len(Page!Content(lines))
    BY <2>1, <2>5, LengthIsRight
  <2> QED
    BY <2>4, <2>5, <2>6, Zenon DEF filled, lines
<1> QED
  BY <1>1, TextTypes, PTL

-----------------------------------------------------------------------------
(* Forms: decoding.                                                        *)

\* Where the replacement of one character is.
LEMMA EachAt ==
  ASSUME NEW X, NEW Y, NEW x \in Seq(X), NEW f \in Substitutions(X, Y),
         NEW m \in 0 .. Len(x) - 1
  PROVE  LET d == f[x[m + 1]]
             p == Len(Each(Pre(x, m), f))
         IN  /\ d \in Seq(Y) /\ p \in Nat
             /\ Len(Each(Pre(x, m + 1), f)) = p + Len(d)
             /\ p + Len(d) <= Len(Each(x, f))
             /\ \A k \in 1 .. Len(d) : Each(x, f)[p + k] = d[k]
<1> DEFINE c == x[m + 1]
           d == f[c]
           a == Pre(x, m)
           b == Pre(x, m + 1)
           z == Rest(x, m + 1)
           ea == Each(a, f)
           eb == Each(b, f)
           ez == Each(z, f)
           e == Each(x, f)
<1>0. Len(x) \in Nat /\ m \in Nat /\ m \in 0 .. Len(x) /\ m + 1 \in 0 .. Len(x)
  OBVIOUS
<1>1. a \in Seq(X) /\ c \in X /\ b \in Seq(X) /\ b = Append(a, c)
  BY <1>0, PreMore
<1>2. z \in Seq(X)
  BY SMTT(30), <1>0, RestIs
<1>3. x = Cat(b, z)
  <2>1. 1 \in 1 .. Len(x) + 1 /\ m + 1 \in 1 - 1 .. Len(x) /\ Len(x) \in m + 1 .. Len(x)
    BY <1>0
  <2>2. SubSeq(x, 1, Len(x)) = SubSeq(x, 1, m + 1) \o SubSeq(x, (m + 1) + 1, Len(x))
    BY <2>1, ConcatAdjacentSubSeq
  <2>3. SubSeq(x, 1, Len(x)) = x
    BY SubSeqFull
  <2> QED
    BY ZenonT(60), <2>2, <2>3 DEF Cat, Pre, Rest
<1> HIDE DEF a, b, c, z
<1>4. d \in Seq(Y)
  BY <1>1 DEF Substitutions
<1>5. ea \in Seq(Y) /\ eb \in Seq(Y) /\ ez \in Seq(Y)
  BY <1>1, <1>2, EachMore
<1>6. eb = ea \o d
  BY <1>1, EachMore
<1>7. Each(Cat(b, z), f) = Cat(eb, ez)
  <2>1. b \in Seq(X) /\ z \in Seq(X)
    BY <1>1, <1>2
  <2> QED
    BY <2>1, EachCat
<1>8. e = eb \o ez
  BY <1>3, <1>7 DEF Cat
<1> HIDE DEF ea, eb, ez, e, d
<1>9. /\ Len(eb) = Len(ea) + Len(d)
      /\ \A i \in 1 .. Len(ea) + Len(d) : eb[i] = IF i <= Len(ea) THEN ea[i] ELSE d[i - Len(ea)]
  BY <1>4, <1>5, <1>6, ConcatProperties
<1>10. /\ Len(e) = Len(eb) + Len(ez)
       /\ \A i \in 1 .. Len(eb) + Len(ez) : e[i] = IF i <= Len(eb) THEN eb[i] ELSE ez[i - Len(eb)]
  BY <1>5, <1>8, ConcatProperties
<1>11. Len(ea) \in Nat /\ Len(d) \in Nat /\ Len(ez) \in Nat
  BY <1>4, <1>5
<1>12. Len(ea) + Len(d) <= Len(e)
  BY <1>9, <1>10, <1>11
<1>13. ASSUME NEW k \in 1 .. Len(d) PROVE e[Len(ea) + k] = d[k]
  <2> DEFINE i == Len(ea) + k
  <2>1. /\ i \in 1 .. Len(ea) + Len(d) /\ i \in 1 .. Len(eb) + Len(ez) /\ i <= Len(eb)
        /\ ~(i <= Len(ea)) /\ i - Len(ea) = k
    BY <1>9, <1>11
  <2> HIDE DEF i
  <2>2. e[i] = eb[i]
    BY <1>10, <2>1
  <2>3. eb[i] = d[i - Len(ea)]
    BY <1>9, <2>1
  <2> QED
    BY <2>1, <2>2, <2>3 DEF i
<1>14. /\ d \in Seq(Y) /\ Len(ea) \in Nat /\ Len(eb) = Len(ea) + Len(d)
       /\ Len(ea) + Len(d) <= Len(e) /\ \A k \in 1 .. Len(d) : e[Len(ea) + k] = d[k]
  BY <1>4, <1>9, <1>11, <1>12, <1>13
<1> QED
  BY <1>14, Zenon DEF e, ea, eb, d, a, b, c

\* A text is not longer than its replacement if no character has an empty one.
LEMMA EachLonger ==
  ASSUME NEW X, NEW Y, NEW x \in Seq(X), NEW f \in Substitutions(X, Y),
         \A c \in X : Len(f[c]) >= 1
  PROVE  Len(Each(x, f)) >= Len(x)
<1> DEFINE L(n) == Len(Each(Pre(x, n), f))
           S == {n \in Nat : n <= Len(x) => L(n) >= n}
<1>0. 0 \in S
  <2>1. Pre(x, 0) = <<>> /\ Each(<<>>, f) = <<>> /\ Len(<<>>) = 0
    BY PreMore, EachMore
  <2>2. L(0) = 0
    BY <2>1
  <2> QED
    BY <2>2
<1>1. ASSUME NEW n \in Nat, n \in S PROVE n + 1 \in S
  <2> SUFFICES ASSUME n + 1 <= Len(x) PROVE L(n + 1) >= n + 1
    OBVIOUS
  <2> DEFINE d == f[x[n + 1]]
  <2>1. n \in 0 .. Len(x) - 1 /\ n <= Len(x) /\ n + 1 \in 1 .. Len(x)
    OBVIOUS
  <2>2. d \in Seq(Y) /\ L(n) \in Nat /\ L(n + 1) = L(n) + Len(d)
    BY <2>1, EachAt
  <2>3. L(n) >= n
    BY <1>1, <2>1
  <2>4. Len(d) >= 1 /\ Len(d) \in Nat
    <3>1. x[n + 1] \in X
      BY <2>1, ElementOfSeq
    <3> QED
      BY <2>2, <3>1
  <2> HIDE DEF L, d
  <2> QED
    BY <2>2, <2>3, <2>4
<1> HIDE DEF S
<1>2. Len(x) \in S
  <2>1. Nat \subseteq S
    BY <1>0, <1>1, Induction, Zenon
  <2>2. Len(x) \in Nat
    OBVIOUS
  <2> QED
    BY <2>1, <2>2
<1>3. Pre(x, Len(x)) = x
  BY PreMore
<1>4. L(Len(x)) >= Len(x)
  BY <1>2 DEF S
<1> QED
  BY <1>3, <1>4

\* Two hexadecimal digits are a byte.
LEMMA HexIs ==
  ASSUME NEW c \in 0 .. 255
  PROVE  LET h == HexDigit(c \div 16)
             l == HexDigit(c % 16)
         IN  /\ h \in 0 .. 255 /\ l \in 0 .. 255
             /\ ~Form!StoiThrows(h, l) /\ Form!DecodeURLEncodedCharacter(h, l) = c
<1> DEFINE a == c \div 16
           b == c % 16
<1>1. a \in 0 .. 15 /\ b \in 0 .. 15 /\ 16 * a + b = c
  OBVIOUS
<1> HIDE DEF a, b
<1>2. ASSUME NEW d \in 0 .. 15
      PROVE  /\ HexDigit(d) \in 0 .. 255 /\ HexDigit(d) \in Form!HexDigits
             /\ Form!HexValue(HexDigit(d)) = d
  <2>1. CASE d < 10
    <3>1. HexDigit(d) = 48 + d /\ 48 + d \in 48 .. 57
      BY <2>1 DEF HexDigit
    <3>2. Form!HexValue(48 + d) = (48 + d) - 48
      BY <3>1 DEF Form!HexValue
    <3> QED
      BY <3>1, <3>2 DEF Form!HexDigits
  <2>2. CASE ~(d < 10)
    <3>1. HexDigit(d) = 55 + d /\ 55 + d \in 65 .. 70
      BY <2>2 DEF HexDigit
    <3>2. Form!HexValue(55 + d) = (55 + d) - 55
      BY <3>1 DEF Form!HexValue
    <3> QED
      BY <3>1, <3>2 DEF Form!HexDigits
  <2> QED
    BY <2>1, <2>2
<1> DEFINE h == HexDigit(a)
           l == HexDigit(b)
<1>3. /\ h \in 0 .. 255 /\ h \in Form!HexDigits /\ Form!HexValue(h) = a
      /\ l \in 0 .. 255 /\ l \in Form!HexDigits /\ Form!HexValue(l) = b
  BY <1>1, <1>2
<1> HIDE DEF h, l
<1>4. ~Form!StoiThrows(h, l)
  BY <1>3 DEF Form!StoiThrows
<1>5. Form!Stoi(h, l) = 16 * a + b
  <2>1. h \notin Form!White \cup {Form!Plus} /\ h # Form!Minus
    BY <1>3 DEF Form!White, Form!Space, Form!Plus, Form!Minus, Form!HexDigits
  <2>2. Form!Stoi(h, l) = 16 * Form!HexValue(h) + Form!HexValue(l)
    BY <1>3, <2>1 DEF Form!Stoi
  <2> QED
    BY <1>3, <2>2
<1>6. Form!DecodeURLEncodedCharacter(h, l) = c % 256
  BY <1>1, <1>5 DEF Form!DecodeURLEncodedCharacter
<1>7. c % 256 = c
  OBVIOUS
<1> QED
  BY <1>3, <1>4, <1>6, <1>7 DEF h, l, a, b

\* The characters, and what a client sends for each.
Octets == 0 .. 255
CodeOf(chars) ==
  [c \in Octets |-> IF c \in chars
                    THEN <<Form!Percent, HexDigit(c \div 16), HexDigit(c % 16)>>
                    ELSE <<c>>]

\* It sends at least one character.
LEMMA CodeIs ==
  ASSUME NEW chars
  PROVE  /\ CodeOf(chars) \in Substitutions(Octets, Octets)
         /\ \A c \in Octets : Len(CodeOf(chars)[c]) >= 1
<1>1. ASSUME NEW c \in Octets
      PROVE  <<Form!Percent, HexDigit(c \div 16), HexDigit(c % 16)>> \in Seq(Octets) /\ <<c>> \in Seq(Octets)
  <2> DEFINE h == HexDigit(c \div 16)
             l == HexDigit(c % 16)
  <2>1. h \in Octets /\ l \in Octets
    BY ZenonT(60), HexIs DEF Octets
  <2> HIDE DEF h, l
  <2>2. Form!Percent \in Octets
    BY DEF Form!Percent, Octets
  <2>3. <<Form!Percent, h, l>> \in Seq(Octets) /\ <<c>> \in Seq(Octets)
    BY <2>1, <2>2
  <2> QED
    BY SMTT(30), <2>3 DEF h, l
<1>2. CodeOf(chars) \in [Octets -> Seq(Octets)]
  BY <1>1 DEF CodeOf
<1>3. ASSUME NEW c \in Octets PROVE Len(CodeOf(chars)[c]) >= 1
  <2>1. CASE c \in chars
    <3>1. CodeOf(chars)[c] = <<Form!Percent, HexDigit(c \div 16), HexDigit(c % 16)>>
      BY <2>1 DEF CodeOf
    <3> QED
      BY <3>1
  <2>2. CASE c \notin chars
    <3>1. CodeOf(chars)[c] = <<c>>
      BY <2>2 DEF CodeOf
    <3> QED
      BY <3>1
  <2> QED
    BY <2>1, <2>2
<1> QED
  BY <1>2, <1>3 DEF Substitutions

\* What it sends for a text.
LEMMA EncodedIs ==
  ASSUME NEW t \in Seq(Octets), NEW chars
  PROVE  Encoded(t, chars) = Each(t, CodeOf(chars))
<1> DEFINE a == [i \in DOMAIN t |->
                   IF t[i] \in chars
                   THEN <<Form!Percent, HexDigit(t[i] \div 16), HexDigit(t[i] % 16)>>
                   ELSE <<t[i]>>]
<1>1. ASSUME NEW i \in DOMAIN t
      PROVE  CodeOf(chars)[t[i]] = IF t[i] \in chars
                   THEN <<Form!Percent, HexDigit(t[i] \div 16), HexDigit(t[i] % 16)>>
                   ELSE <<t[i]>>
  <2>1. t[i] \in Octets
    OBVIOUS
  <2> QED
    BY <2>1, Zenon DEF CodeOf
<1>2. a = Replaced(t, CodeOf(chars))
  BY <1>1, Zenon DEF Replaced
<1> QED
  BY <1>2, Zenon DEF Encoded, Each

\* The loop goes through states that it keeps.
LEMMA DecodeRuns ==
  ASSUME NEW str, Len(str) \in Nat, NEW S,
         [i |-> 1, out |-> <<>>, thrown |-> FALSE] \in S[0],
         \A n \in Nat : \A s \in S[n] : Form!DecodeStep(str, s) \in S[n + 1]
  PROVE  Form!DecodeURLEncodedString(str) \in S[Len(str)]
<1> DEFINE N == Len(str)
           T == UNION {S[n] : n \in Nat}
           init == [i |-> 1, out |-> <<>>, thrown |-> FALSE]
           iter == [n \in 1 .. N |-> [s \in T |-> Form!DecodeStep(str, s)]]
           Is(f) == f = [n \in 0 .. N |->
                      IF n = 0 THEN init ELSE Form!DecodeStep(str, f[n - 1])]
           g == CHOOSE f : Is(f)
<1>1. N \in Nat
  OBVIOUS
<1>2. Form!DecodeURLEncodedString(str) = g[N]
  BY DEF Form!DecodeURLEncodedString
<1> HIDE DEF init, N
<1>3. init \in S[0]
  BY DEF init
<1>4. init \in T /\ \A s \in T : Form!DecodeStep(str, s) \in T
  BY <1>3
<1>5. g = [n \in 0 .. N |-> IF n = 0 THEN init ELSE Form!DecodeStep(str, g[n - 1])]
  <2> HIDE DEF T, g
  <2>1. iter \in Loops(N, T)
    BY <1>4 DEF Loops
  <2>2. PICK f : Runs(f, N, T, init, iter)
    <3> HIDE DEF iter
    <3> QED
      BY <1>1, <1>4, <2>1, LoopExists
  <2>3. /\ f = [n \in 0 .. N |-> f[n]] /\ f[0] = init
        /\ \A n \in 1 .. N : f[n - 1] \in T /\ f[n] = iter[n][f[n - 1]]
    BY <1>1, <2>2 DEF Runs
  <2>4. ASSUME NEW n \in 0 .. N
        PROVE  f[n] = IF n = 0 THEN init ELSE Form!DecodeStep(str, f[n - 1])
    <3>1. CASE n = 0
      BY <2>3, <3>1
    <3>2. CASE n # 0
      <4>1. n \in 1 .. N
        BY <1>1, <3>2
      <4>2. f[n - 1] \in T /\ f[n] = iter[n][f[n - 1]]
        BY <2>3, <4>1
      <4>3. iter[n] = [s \in T |-> Form!DecodeStep(str, s)]
        BY <4>1
      <4>4. f[n] = Form!DecodeStep(str, f[n - 1])
        BY <4>2, <4>3, Zenon
      <4> QED
        BY <3>2, <4>4
    <3> QED
      BY <3>1, <3>2
  <2>5. Is(f)
    BY <2>3, <2>4
  <2>6. Is(g)
    BY <2>5 DEF g
  <2> QED
    BY <2>6
<1> HIDE DEF g, T
<1>6. \A n \in 0 .. N : g[n] \in S[n]
  <2>1. g[0] \in S[0]
    BY <1>1, <1>3, <1>5
  <2>2. ASSUME NEW n \in 1 .. N, g[n - 1] \in S[n - 1] PROVE g[n] \in S[n]
    <3>1. n \in 0 .. N /\ n # 0 /\ n - 1 \in Nat /\ (n - 1) + 1 = n
      BY <1>1
    <3>2. g[n] = Form!DecodeStep(str, g[n - 1])
      BY <1>5, <3>1
    <3>3. Form!DecodeStep(str, g[n - 1]) \in S[(n - 1) + 1]
      BY <2>2, <3>1
    <3> QED
      BY <3>1, <3>2, <3>3
  <2> QED
    BY <1>1, <2>1, <2>2, LoopInvariant
<1>7. g[N] \in S[N]
  BY <1>1, <1>6
<1> QED
  BY <1>2, <1>7 DEF N

\* The state of the loop when the first m characters of t are decoded.
Decoded(t, f, m) == [i |-> 1 + Len(Each(Pre(t, m), f)), out |-> Pre(t, m), thrown |-> FALSE]

\* One more character is decoded in every iteration until the last one is.
LEMMA DecodeOne ==
  ASSUME NEW t \in Seq(Octets), NEW chars, Form!Percent \in chars, NEW m \in 0 .. Len(t)
  PROVE  LET f == CodeOf(chars)
         IN  Form!DecodeStep(Each(t, f), Decoded(t, f, m)) =
               Decoded(t, f, IF m = Len(t) THEN m ELSE m + 1)
<1> DEFINE f == CodeOf(chars)
           str == Each(t, f)
           s == Decoded(t, f, m)
           p == Len(Each(Pre(t, m), f))
<1>0. f \in Substitutions(Octets, Octets) /\ str \in Seq(Octets) /\ Len(str) \in Nat
  <2>1. f \in Substitutions(Octets, Octets)
    BY CodeIs
  <2>2. str \in Seq(Octets)
    BY <2>1, EachMore
  <2> QED
    BY <2>1, <2>2
<1>1. s.i = 1 + p /\ s.out = Pre(t, m) /\ ~s.thrown
  BY DEF Decoded
<1>2. CASE m = Len(t)
  <2>1. p = Len(str)
    BY <1>2, PreMore
  <2> HIDE DEF p, str, s
  <2>2. s.i > Len(str)
    BY <1>0, <1>1, <2>1
  <2>3. Form!DecodeStep(str, s) = s
    BY <2>2 DEF Form!DecodeStep
  <2> QED
    BY <1>2, <2>3 DEF s, str
<1>3. CASE m # Len(t)
  <2> DEFINE c == t[m + 1]
             d == f[c]
             q == Len(Each(Pre(t, m + 1), f))
             r == Decoded(t, f, m + 1)
  <2>0. m \in 0 .. Len(t) - 1
    BY <1>3
  <2>1. d \in Seq(Octets) /\ p \in Nat /\ q = p + Len(d) /\ p + Len(d) <= Len(str)
        /\ \A k \in 1 .. Len(d) : str[p + k] = d[k]
    BY SMTT(30), <1>0, <2>0, EachAt
  <2>2. c \in Octets /\ Pre(t, m + 1) = Append(Pre(t, m), c)
    BY <2>0, PreMore
  <2>3. r = [i |-> 1 + q, out |-> Append(Pre(t, m), c), thrown |-> FALSE]
    BY <2>2 DEF Decoded
  <2>9. /\ c \in chars => d = <<Form!Percent, HexDigit(c \div 16), HexDigit(c % 16)>>
        /\ c \notin chars => d = <<c>>
    BY <2>2 DEF CodeOf
  <2> HIDE DEF f, str, s, p, q, r, c, d
  <2>4. CASE c \in chars
    <3> DEFINE h == HexDigit(c \div 16)
               l == HexDigit(c % 16)
    <3>1. d = <<Form!Percent, h, l>>
      BY <2>4, <2>9
    <3>2. ~Form!StoiThrows(h, l) /\ Form!DecodeURLEncodedCharacter(h, l) = c
      BY ZenonT(60), <2>2, HexIs DEF Octets
    <3> HIDE DEF h, l
    <3>3. Len(d) = 3 /\ d[1] = Form!Percent /\ d[2] = h /\ d[3] = l
      BY <3>1
    <3>4. 1 \in 1 .. Len(d) /\ 2 \in 1 .. Len(d) /\ 3 \in 1 .. Len(d)
      BY <3>3
    <3>5. /\ str[p + 1] = Form!Percent /\ str[p + 2] = h /\ str[p + 3] = l
      BY <2>1, <3>3, <3>4
    <3>6. /\ s.i + 1 = p + 2 /\ s.i + 2 = p + 3 /\ s.i = p + 1 /\ ~(s.i > Len(str))
          /\ ~(s.i + 2 > Len(str)) /\ s.i + 3 = 1 + q
      BY <1>0, <1>1, <2>1, <3>3
    <3>7. /\ str[s.i] = Form!Percent /\ str[s.i + 1] = h /\ str[s.i + 2] = l
      BY <3>5, <3>6
    <3>8. Form!DecodeStep(str, s) = [i |-> s.i + 3, thrown |-> FALSE,
                                     out |-> Append(s.out, Form!DecodeURLEncodedCharacter(h, l))]
      BY <1>1, <3>2, <3>6, <3>7 DEF Form!DecodeStep
    <3>9. Form!DecodeStep(str, s) = r
      BY <1>1, <2>3, <3>2, <3>6, <3>8
    <3> QED
      BY <1>3, <3>9 DEF s, str, r, f
  <2>5. CASE c \notin chars
    <3>1. c # Form!Percent
      BY <2>5
    <3>2. Len(d) = 1 /\ d[1] = c
      BY <2>5, <2>9
    <3>3. str[p + 1] = c
      <4>1. 1 \in 1 .. Len(d)
        BY <3>2
      <4> QED
        BY <2>1, <3>2, <4>1
    <3>4. s.i = p + 1 /\ ~(s.i > Len(str)) /\ s.i + 1 = 1 + q
      BY <1>0, <1>1, <2>1, <3>2
    <3>5. str[s.i] = c
      BY <3>3, <3>4
    <3>6. Form!DecodeStep(str, s) = [i |-> s.i + 1, out |-> Append(s.out, c), thrown |-> FALSE]
      BY <1>1, <3>1, <3>4, <3>5 DEF Form!DecodeStep
    <3>7. Form!DecodeStep(str, s) = r
      BY <1>1, <2>3, <3>4, <3>6
    <3> QED
      BY <1>3, <3>7 DEF s, str, r, f
  <2> QED
    BY <2>4, <2>5
<1> QED
  BY <1>2, <1>3

\* Decoding takes back what the client did, whichever characters it encoded.
LEMMA DecodedIs ==
  ASSUME NEW t \in Seq(Octets), NEW chars, Form!Percent \in chars
  PROVE  LET d == Form!DecodeURLEncodedString(Encoded(t, chars))
         IN  d.out = t /\ ~d.thrown
<1> DEFINE f == CodeOf(chars)
           str == Each(t, f)
           In(n, m) == m = Len(t) \/ m >= n
           S == [n \in Nat |-> {Decoded(t, f, m) : m \in {k \in 0 .. Len(t) : In(n, k)}}]
           d == Form!DecodeURLEncodedString(str)
<1>1. f \in Substitutions(Octets, Octets) /\ \A c \in Octets : Len(f[c]) >= 1
  BY CodeIs
<1>2. Len(str) \in Nat /\ Len(str) >= Len(t) /\ Len(t) \in Nat
  <2>1. Len(str) >= Len(t)
    BY <1>1, EachLonger
  <2>2. str \in Seq(Octets)
    BY <1>1, EachMore
  <2> QED
    BY <2>1, <2>2
<1>3. [i |-> 1, out |-> <<>>, thrown |-> FALSE] \in S[0]
  <2>1. Pre(t, 0) = <<>> /\ Each(<<>>, f) = <<>>
    BY <1>1, PreMore, EachMore
  <2>2. 1 + Len(<<>>) = 1
    OBVIOUS
  <2>3. Decoded(t, f, 0) = [i |-> 1, out |-> <<>>, thrown |-> FALSE]
    BY <2>1, <2>2 DEF Decoded
  <2>4. 0 \in {k \in 0 .. Len(t) : In(0, k)} /\ 0 \in Nat
    BY <1>2
  <2> HIDE DEF In, f
  <2> QED
    BY <2>3, <2>4
<1> HIDE DEF str
<1>4. ASSUME NEW n \in Nat, NEW s \in S[n] PROVE Form!DecodeStep(str, s) \in S[n + 1]
  <2>1. PICK m \in 0 .. Len(t) : In(n, m) /\ s = Decoded(t, f, m)
    <3> HIDE DEF In, f
    <3> QED
      OBVIOUS
  <2> DEFINE e == IF m = Len(t) THEN m ELSE m + 1
  <2>2. Form!DecodeStep(str, s) = Decoded(t, f, e)
    BY <2>1, DecodeOne DEF str
  <2>3. e \in 0 .. Len(t) /\ In(n + 1, e) /\ n + 1 \in Nat
    BY <1>2, <2>1
  <2> HIDE DEF In, f, e
  <2> QED
    BY <2>2, <2>3
<1>5. d \in S[Len(str)]
  <2> HIDE DEF S
  <2> QED
    BY <1>2, <1>3, <1>4, DecodeRuns
<1>6. PICK m \in 0 .. Len(t) : In(Len(str), m) /\ d = Decoded(t, f, m)
  <2> HIDE DEF In, f, d
  <2> QED
    BY <1>2, <1>5
<1>7. m = Len(t)
  BY <1>2, <1>6
<1>8. d.out = t /\ ~d.thrown
  <2>1. Pre(t, Len(t)) = t
    BY PreMore
  <2> HIDE DEF d, f
  <2> QED
    BY <1>6, <1>7, <2>1 DEF Decoded
<1> QED
  BY <1>8, EncodedIs DEF str

-----------------------------------------------------------------------------
(* Forms: the grammar by positions.                                        *)

\* A bounded set of numbers has a greatest one.
LEMMA MaxIs ==
  ASSUME NEW S \in SUBSET Nat, S # {}, NEW K \in Nat, \A i \in S : i <= K
  PROVE  Form!Max(S) \in S /\ \A j \in S : j <= Form!Max(S)
<1> DEFINE D == {K - i : i \in S}
           d == Page!Least(D)
<1>1. D \in SUBSET Nat /\ D # {}
  <2>1. \A i \in S : K - i \in Nat
    OBVIOUS
  <2> QED
    BY <2>1, Zenon
<1>2. d \in D /\ \A j \in D : d <= j
  <2> HIDE DEF D
  <2> QED
    BY <1>1, LeastIs
<1>3. PICK e \in S : d = K - e
  <2> HIDE DEF d
  <2> QED
    BY <1>2
<1>4. \A j \in S : j <= e
  <2> SUFFICES ASSUME NEW j \in S PROVE j <= e
    OBVIOUS
  <2>1. K - j \in D
    OBVIOUS
  <2> HIDE DEF D, d
  <2>2. K - e <= K - j
    BY <1>2, <1>3, <2>1
  <2>3. j \in Nat /\ e \in Nat
    OBVIOUS
  <2> QED
    BY <2>2, <2>3
<1>5. \E x \in S : \A y \in S : x >= y
  BY <1>4
<1>6. Form!Max(S) \in S /\ \A y \in S : Form!Max(S) >= y
  BY <1>5 DEF Form!Max
<1> QED
  BY <1>6

\* The signs that begin a part.
Separator(t, i) == t[i] \in {Form!Equals, Form!Ampersand}

\* The mark before a position is the last one.
LEMMA MarkIs ==
  ASSUME NEW t \in Seq(Octets), NEW b \in 1 .. Len(t) + 1
  PROVE  LET e == Form!MarkBefore(t, b)
         IN  /\ e \in Nat /\ e < b /\ e <= Len(t)
             /\ e # 0 => Separator(t, e)
             /\ \A i \in 1 .. b - 1 : Separator(t, i) => i <= e
<1> DEFINE S == {0} \cup {i \in DOMAIN t : i < b /\ Separator(t, i)}
           e == Form!MarkBefore(t, b)
<1>0. Len(t) \in Nat /\ DOMAIN t = 1 .. Len(t) /\ b \in Nat
  OBVIOUS
<1>1. e = Form!Max(S)
  BY DEF Form!MarkBefore, Separator
<1>2. S \in SUBSET Nat /\ S # {} /\ \A i \in S : i <= Len(t)
  BY <1>0
<1>3. e \in S /\ \A j \in S : j <= e
  <2> HIDE DEF S, e
  <2> QED
    BY <1>0, <1>1, <1>2, MaxIs
<1> HIDE DEF e
<1>4. \A i \in 1 .. b - 1 : Separator(t, i) => i \in S
  BY <1>0
<1>5. e \in Nat /\ e < b /\ e <= Len(t) /\ (e # 0 => Separator(t, e))
  BY <1>0, <1>3
<1> HIDE DEF S
<1>6. \A i \in 1 .. b - 1 : Separator(t, i) => i <= e
  BY <1>3, <1>4
<1> QED
  BY <1>5, <1>6 DEF e

\* One character further it is that character, or where it was.
LEMMA MarkStep ==
  ASSUME NEW t \in Seq(Octets), NEW n \in 1 .. Len(t)
  PROVE  Form!MarkBefore(t, n + 1) = IF Separator(t, n) THEN n ELSE Form!MarkBefore(t, n)
<1> DEFINE a == Form!MarkBefore(t, n)
           b == Form!MarkBefore(t, n + 1)
<1>0. Len(t) \in Nat /\ n \in Nat /\ n >= 1 /\ n <= Len(t) /\ n \in 1 .. Len(t) + 1
      /\ n + 1 \in 1 .. Len(t) + 1
  OBVIOUS
<1>1. /\ a \in Nat /\ a < n /\ (a # 0 => Separator(t, a))
      /\ \A i \in 1 .. n - 1 : Separator(t, i) => i <= a
  BY <1>0, MarkIs
<1>2. /\ b \in Nat /\ b < n + 1 /\ (b # 0 => Separator(t, b))
      /\ \A i \in 1 .. (n + 1) - 1 : Separator(t, i) => i <= b
  BY <1>0, MarkIs
<1> HIDE DEF a, b
<1>3. CASE Separator(t, n)
  <2>1. n \in 1 .. (n + 1) - 1
    BY <1>0
  <2>2. n <= b
    BY <1>2, <1>3, <2>1
  <2>3. b = n
    BY <1>0, <1>2, <2>2
  <2> QED
    BY <1>3, <2>3 DEF b
<1>4. CASE ~Separator(t, n)
  <2>1. b # n
    BY <1>0, <1>2, <1>4
  <2>2. b <= a
    <3>1. CASE b = 0
      BY <1>1, <3>1
    <3>2. CASE b # 0
      <4>1. b \in 1 .. n - 1
        BY <1>0, <1>2, <2>1, <3>2
      <4> QED
        BY <1>1, <1>2, <3>2, <4>1
    <3> QED
      BY <3>1, <3>2
  <2>3. a <= b
    <3>1. CASE a = 0
      BY <1>2, <3>1
    <3>2. CASE a # 0
      <4>1. a \in 1 .. (n + 1) - 1
        BY <1>0, <1>1, <3>2
      <4> QED
        BY <1>1, <1>2, <3>2, <4>1
    <3> QED
      BY <3>1, <3>2
  <2>4. a = b
    BY <1>1, <1>2, <2>2, <2>3
  <2> QED
    BY <1>4, <2>4 DEF a, b
<1> QED
  BY <1>3, <1>4

\* The view when the loop is behind the first m characters: the plus signs among
\* them are spaces.
Seen(t, m, v) ==
  /\ v \in Seq(Octets) /\ Len(v) = Len(t)
  /\ \A k \in 1 .. Len(t) : v[k] = IF k <= m /\ t[k] = Form!Plus THEN Form!Space ELSE t[k]

\* A part of it that ends there.
LEMMA PartSeen ==
  ASSUME NEW t \in Seq(Octets), NEW m \in 0 .. Len(t), NEW v, Seen(t, m, v),
         NEW i \in 1 .. m + 1
  PROVE  SubSeq(v, i, m) = Form!Spaced(t, i, m)
<1> DEFINE a == i - 1
           x == SubSeq(v, a + 1, m)
           y == Form!Spaced(t, i, m)
<1>0. /\ Len(t) \in Nat /\ m \in Nat /\ m <= Len(t) /\ a \in Nat /\ a <= m /\ a + 1 = i
      /\ m - i + 1 = m - a /\ m - a \in Nat
  OBVIOUS
<1>1. /\ v \in Seq(Octets) /\ Len(v) = Len(t)
      /\ \A k \in 1 .. Len(t) : v[k] = IF k <= m /\ t[k] = Form!Plus THEN Form!Space ELSE t[k]
  BY DEF Seen
<1> HIDE DEF a
<1>2. x \in Seq(Octets) /\ Len(x) = m - a /\ \A k \in 1 .. m - a : x[k] = v[a + k]
  <2>1. m <= Len(v) /\ v \in Seq(Octets) /\ a \in Nat /\ m \in Nat /\ a <= m
    BY <1>0, <1>1
  <2> QED
    BY <2>1, PartIs
<1>3. y = [k \in 1 .. m - a |-> IF t[i + k - 1] = Form!Plus THEN Form!Space ELSE t[i + k - 1]]
  BY <1>0, Zenon DEF Form!Spaced
<1> HIDE DEF x, y
<1>4. x = [k \in 1 .. m - a |-> x[k]]
  BY <1>0, <1>2
<1>5. ASSUME NEW k \in 1 .. m - a
      PROVE  x[k] = IF t[i + k - 1] = Form!Plus THEN Form!Space ELSE t[i + k - 1]
  <2>1. a + k = i + k - 1 /\ a + k \in 1 .. Len(t) /\ a + k <= m
    BY <1>0
  <2>2. x[k] = v[a + k]
    BY <1>2
  <2>3. v[a + k] = IF t[a + k] = Form!Plus THEN Form!Space ELSE t[a + k]
    BY <1>1, <2>1, Zenon
  <2> QED
    BY <2>1, <2>2, <2>3
<1>6. x = y
  BY <1>3, <1>4, <1>5, Zenon
<1> QED
  BY <1>0, <1>6 DEF x, y

\* The pairs of the segments that end before b.
Pairs(t, b) ==
  {<<Form!Key(t, e), Form!Value(t, e)>> : e \in {a \in Form!Amps(t) : a < b /\ Form!First(t, a)}}

\* A segment that ends before b is refused.
Refuses(t, kept, b) == \E a \in Form!Amps(t) : a < b /\ ~Form!Allowed(t, a, kept)

\* The key of the segment that ends at a is still there before b.
Carried(t, kept, a, b) == kept /\ a \in Form!Amps(t) /\ a < b /\ Form!Left(t, a, b - 1)

\* What the key is before b.
KeyIs(t, kept, b, k) ==
  /\ Form!HasEquals(t, b) => k = Form!Key(t, b)
  /\ ~Form!HasEquals(t, b) =>
       \/ k = <<>> /\ \A a \in Form!Amps(t) : ~Carried(t, kept, a, b)
       \/ \E a \in Form!Amps(t) : Carried(t, kept, a, b) /\ k = Form!Key(t, a)

\* A key is in the map if an earlier segment has it.
LEMMA KeyKnown ==
  ASSUME NEW t \in Seq(Octets), NEW b \in 1 .. Len(t) + 1, Form!Key(t, b) # <<>>
  PROVE  Form!HasKey(Pairs(t, b), Form!Key(t, b)) <=> Form!Repeated(t, b)
<1>0. Len(t) \in Nat /\ DOMAIN t = 1 .. Len(t) /\ b \in Nat /\ b <= Len(t) + 1
  OBVIOUS
<1>1. Form!Amps(t) \subseteq 1 .. Len(t) /\ Form!Ends(t) = Form!Amps(t) \cup {Len(t) + 1}
  BY <1>0 DEF Form!Amps, Form!Ends
<1>2. ASSUME Form!HasKey(Pairs(t, b), Form!Key(t, b)) PROVE Form!Repeated(t, b)
  <2>1. PICK p \in Pairs(t, b) : p[1] = Form!Key(t, b)
    BY <1>2 DEF Form!HasKey
  <2>2. PICK e \in Form!Amps(t) : e < b /\ p = <<Form!Key(t, e), Form!Value(t, e)>>
    BY <2>1 DEF Pairs
  <2>3. Form!Key(t, e) = Form!Key(t, b)
    BY <2>1, <2>2
  <2> QED
    BY <1>1, <2>2, <2>3 DEF Form!Repeated
<1>3. ASSUME Form!Repeated(t, b) PROVE Form!HasKey(Pairs(t, b), Form!Key(t, b))
  <2> DEFINE E == {a \in Form!Ends(t) : a < b /\ Form!Key(t, a) = Form!Key(t, b)}
             e == Page!Least(E)
  <2>1. E \in SUBSET Nat /\ E # {}
    BY <1>0, <1>1, <1>3 DEF Form!Repeated
  <2>2. e \in E /\ \A j \in E : e <= j
    <3> HIDE DEF E
    <3> QED
      BY <2>1, LeastIs
  <2> HIDE DEF e
  <2>3. e \in Form!Ends(t) /\ e < b /\ Form!Key(t, e) = Form!Key(t, b) /\ e \in Nat
    BY <2>1, <2>2
  <2>4. e \in Form!Amps(t)
    BY <1>0, <1>1, <2>3
  <2>5. ~Form!Repeated(t, e)
    <3> SUFFICES ASSUME NEW a \in Form!Ends(t), a < e, Form!Key(t, a) = Form!Key(t, e)
                 PROVE  FALSE
      BY DEF Form!Repeated
    <3>1. a \in Nat /\ a < b
      BY <1>0, <1>1, <2>3
    <3>2. a \in E
      BY <2>3, <3>1
    <3> QED
      BY <2>2, <2>3, <3>1, <3>2
  <2>6. Form!First(t, e)
    BY <2>3, <2>5 DEF Form!First
  <2>7. <<Form!Key(t, e), Form!Value(t, e)>> \in Pairs(t, b)
    BY <2>3, <2>4, <2>6 DEF Pairs
  <2>8. <<Form!Key(t, e), Form!Value(t, e)>>[1] = Form!Key(t, b)
    BY <2>3
  <2> QED
    BY <2>7, <2>8 DEF Form!HasKey
<1> QED
  BY <1>2, <1>3

\* It stays there.
LEMMA KnownStays ==
  ASSUME NEW t \in Seq(Octets), NEW a \in Nat, NEW b \in Nat, a <= b, NEW k,
         Form!HasKey(Pairs(t, a), k)
  PROVE  Form!HasKey(Pairs(t, b), k)
<1>1. PICK p \in Pairs(t, a) : p[1] = k
  BY DEF Form!HasKey
<1>2. Form!Amps(t) \subseteq Nat
  BY DEF Form!Amps
<1>3. \A e \in Form!Amps(t) : e < a => e < b
  BY <1>2
<1>4. p \in Pairs(t, b)
  BY <1>1, <1>3 DEF Pairs
<1> QED
  BY <1>1, <1>4 DEF Form!HasKey

\* Behind an equals sign no earlier key is left.
LEMMA NothingCarried ==
  ASSUME NEW t \in Seq(Octets), NEW kept, NEW b \in 1 .. Len(t) + 1, Form!HasEquals(t, b),
         NEW a \in Form!Amps(t), a < b
  PROVE  /\ ~Form!Left(t, a, b - 1) /\ \A i \in Nat : i >= b => ~Form!Left(t, a, i)
<1> DEFINE e == Form!MarkBefore(t, b)
<1>0. Len(t) \in Nat /\ b \in Nat /\ a \in 1 .. Len(t) /\ t[a] = Form!Ampersand
  BY DEF Form!Amps
<1>1. e \in Nat /\ e < b /\ \A i \in 1 .. b - 1 : Separator(t, i) => i <= e
  BY MarkIs
<1>2. t[e] = Form!Equals
  BY DEF Form!HasEquals
<1> HIDE DEF e
<1>3. a \in 1 .. b - 1 /\ Separator(t, a)
  BY <1>0 DEF Separator
<1>4. a <= e
  BY <1>1, <1>3
<1>5. a # e
  BY <1>0, <1>2 DEF Form!Equals, Form!Ampersand
<1>6. e \in a + 1 .. b - 1 /\ \A i \in Nat : i >= b => e \in a + 1 .. i
  BY <1>0, <1>1, <1>4, <1>5
<1> QED
  BY <1>2, <1>6 DEF Form!Left

\* What one character adds to the pairs and to the refused segments.
LEMMA PairsStep ==
  ASSUME NEW t \in Seq(Octets), NEW kept, NEW b \in 1 .. Len(t)
  PROVE  /\ t[b] # Form!Ampersand \/ ~Form!First(t, b) => Pairs(t, b + 1) = Pairs(t, b)
         /\ t[b] = Form!Ampersand /\ Form!First(t, b) =>
              Pairs(t, b + 1) = Pairs(t, b) \cup {<<Form!Key(t, b), Form!Value(t, b)>>}
         /\ Refuses(t, kept, b + 1) <=>
              Refuses(t, kept, b) \/ (t[b] = Form!Ampersand /\ ~Form!Allowed(t, b, kept))
<1>0. Form!Amps(t) \subseteq Nat /\ b \in Nat /\ (b \in Form!Amps(t) <=> t[b] = Form!Ampersand)
  BY DEF Form!Amps
<1>1. \A a \in Form!Amps(t) : a < b + 1 <=> (a < b \/ a = b)
  BY <1>0
<1> DEFINE A(n) == {a \in Form!Amps(t) : a < n /\ Form!First(t, a)}
           P(e) == <<Form!Key(t, e), Form!Value(t, e)>>
<1>2. /\ t[b] # Form!Ampersand \/ ~Form!First(t, b) => A(b + 1) = A(b)
      /\ t[b] = Form!Ampersand /\ Form!First(t, b) => A(b + 1) = A(b) \cup {b}
  BY <1>0, <1>1, Zenon
<1>3. \A n : Pairs(t, n) = {P(e) : e \in A(n)}
  BY Zenon DEF Pairs
<1> HIDE DEF A, P
<1>4. /\ t[b] # Form!Ampersand \/ ~Form!First(t, b) => Pairs(t, b + 1) = Pairs(t, b)
      /\ t[b] = Form!Ampersand /\ Form!First(t, b) => Pairs(t, b + 1) = Pairs(t, b) \cup {P(b)}
  <2>1. ASSUME t[b] # Form!Ampersand \/ ~Form!First(t, b)
        PROVE  Pairs(t, b + 1) = Pairs(t, b)
    BY <1>2, <1>3, <2>1, Zenon
  <2>2. ASSUME t[b] = Form!Ampersand, Form!First(t, b)
        PROVE  Pairs(t, b + 1) = Pairs(t, b) \cup {P(b)}
    <3>1. A(b + 1) = A(b) \cup {b}
      BY <1>2, <2>2
    <3>2. Pairs(t, b + 1) = {P(e) : e \in A(b) \cup {b}} /\ Pairs(t, b) = {P(e) : e \in A(b)}
      BY <1>3, <3>1, Zenon
    <3> QED
      BY <3>2, Zenon
  <2> QED
    BY <2>1, <2>2
<1>5. Refuses(t, kept, b + 1) <=>
              Refuses(t, kept, b) \/ (t[b] = Form!Ampersand /\ ~Form!Allowed(t, b, kept))
  BY <1>0, <1>1, Zenon DEF Refuses
<1>6. P(b) = <<Form!Key(t, b), Form!Value(t, b)>>
  BY DEF P
<1> QED
  BY <1>4, <1>5, <1>6, Zenon

\* Another character keeps the key.
LEMMA KeyStep ==
  ASSUME NEW t \in Seq(Octets), NEW kept, NEW b \in 1 .. Len(t), ~Separator(t, b), NEW k,
         KeyIs(t, kept, b, k)
  PROVE  KeyIs(t, kept, b + 1, k)
<1>0. b \in Nat /\ Len(t) \in Nat /\ (b + 1) - 1 = b
  OBVIOUS
<1>1. Form!MarkBefore(t, b + 1) = Form!MarkBefore(t, b)
  BY MarkStep
<1>2. /\ Form!HasEquals(t, b + 1) <=> Form!HasEquals(t, b)
      /\ Form!Key(t, b + 1) = Form!Key(t, b)
  BY <1>1 DEF Form!HasEquals, Form!Key
<1>3. ASSUME NEW a \in Form!Amps(t) PROVE Carried(t, kept, a, b + 1) <=> Carried(t, kept, a, b)
  <2>1. a \in 1 .. Len(t) /\ t[a] = Form!Ampersand
    BY DEF Form!Amps
  <2>2. a # b /\ t[b] # Form!Equals
    BY <2>1 DEF Separator
  <2>3. a < b + 1 <=> a < b
    BY <1>0, <2>1, <2>2
  <2>4. a < b => (Form!Left(t, a, b) <=> Form!Left(t, a, b - 1))
    <3>1. a < b => \A i \in a + 1 .. b : i = b \/ i \in a + 1 .. b - 1
      BY <1>0, <2>1
    <3>2. \A i \in a + 1 .. b - 1 : i \in a + 1 .. b
      BY <1>0, <2>1
    <3> QED
      BY <2>2, <3>1, <3>2 DEF Form!Left
  <2> QED
    BY <1>0, <2>3, <2>4 DEF Carried
<1> QED
  BY <1>2, <1>3 DEF KeyIs

\* A segment is allowed if there is a key where it ends.
LEMMA AllowedIs ==
  ASSUME NEW t \in Seq(Octets), NEW kept \in BOOLEAN, NEW b \in 1 .. Len(t), NEW k,
         KeyIs(t, kept, b, k)
  PROVE  Form!Allowed(t, b, kept) <=> k # <<>>
<1>0. Len(t) \in Nat /\ b \in Nat /\ b <= Len(t) /\ b \in 1 .. Len(t) + 1
  OBVIOUS
<1>1. Form!Allowed(t, b, kept) <=> Form!Key(t, b) # <<>> \/ \E a \in Form!Amps(t) : Carried(t, kept, a, b)
  BY <1>0, Zenon DEF Form!Allowed, Carried
<1>2. CASE Form!HasEquals(t, b)
  <2>1. \A a \in Form!Amps(t) : ~Carried(t, kept, a, b)
    BY <1>0, <1>2, NothingCarried DEF Carried
  <2>2. k = Form!Key(t, b)
    BY <1>2 DEF KeyIs
  <2> QED
    BY <1>1, <2>1, <2>2
<1>3. CASE ~Form!HasEquals(t, b)
  <2>1. Form!Key(t, b) = <<>>
    BY <1>3 DEF Form!Key
  <2>2. \A a \in Form!Amps(t) : Carried(t, kept, a, b) => Form!Key(t, a) # <<>>
    BY DEF Carried, Form!Left
  <2> QED
    BY <1>1, <1>3, <2>1, <2>2 DEF KeyIs
<1> QED
  BY <1>2, <1>3

\* An ampersand adds the pair of the segment that it ends, or leaves the map alone.
LEMMA AtAmpersand ==
  ASSUME NEW t \in Seq(Octets), NEW kept \in BOOLEAN, NEW b \in 1 .. Len(t), NEW k,
         KeyIs(t, kept, b, k), k # <<>>, t[b] = Form!Ampersand
  PROVE  /\ Form!Emplace(Pairs(t, b), k, Form!Value(t, b)) = Pairs(t, b + 1)
         /\ KeyIs(t, kept, b + 1, IF kept /\ Form!HasKey(Pairs(t, b), k) THEN k ELSE <<>>)
<1> DEFINE P == Pairs(t, b)
           moved == IF kept /\ Form!HasKey(P, k) THEN k ELSE <<>>
<1>0. /\ Len(t) \in Nat /\ b \in Nat /\ b <= Len(t) /\ b \in 1 .. Len(t) + 1
      /\ (b + 1) - 1 = b /\ b < b + 1 /\ b >= b
  OBVIOUS
<1>1. b \in Form!Amps(t) /\ Form!Amps(t) \subseteq 1 .. Len(t)
  BY DEF Form!Amps
<1>2. Form!MarkBefore(t, b + 1) = b
  BY MarkStep DEF Separator
<1>3. ~Form!HasEquals(t, b + 1)
  BY <1>2 DEF Form!HasEquals, Form!Equals, Form!Ampersand
<1>4. \A a \in Form!Amps(t) : a < b + 1 <=> (a < b \/ a = b)
  BY <1>0, <1>1
<1>5. CASE Form!HasEquals(t, b)
  <2>1. k = Form!Key(t, b)
    BY <1>5 DEF KeyIs
  <2>2. Form!HasKey(P, k) <=> Form!Repeated(t, b)
    BY <1>0, <2>1, KeyKnown
  <2>3. Form!First(t, b) <=> ~Form!Repeated(t, b)
    BY <2>1 DEF Form!First
  <2>4. Form!Emplace(P, k, Form!Value(t, b)) = Pairs(t, b + 1)
    <3>1. CASE Form!Repeated(t, b)
      <4>1. Pairs(t, b + 1) = P
        BY <2>3, <3>1, PairsStep
      <4> QED
        BY <2>2, <3>1, <4>1 DEF Form!Emplace
    <3>2. CASE ~Form!Repeated(t, b)
      <4>1. Pairs(t, b + 1) = P \cup {<<Form!Key(t, b), Form!Value(t, b)>>}
        BY <2>3, <3>2, PairsStep
      <4> HIDE DEF P
      <4> QED
        BY <2>1, <2>2, <3>2, <4>1, Zenon DEF Form!Emplace
    <3> QED
      BY <3>1, <3>2
  <2>5. \A a \in Form!Amps(t) : a < b => ~Form!Left(t, a, b)
    BY <1>0, <1>5, NothingCarried
  <2>6. Form!Left(t, b, b) <=> Form!Repeated(t, b)
    <3>1. b + 1 .. b = {}
      BY <1>0
    <3> QED
      BY <2>1, <3>1 DEF Form!Left
  <2>7. \A a \in Form!Amps(t) : Carried(t, kept, a, b + 1) <=> a = b /\ kept /\ Form!Repeated(t, b)
    BY <1>0, <1>1, <1>4, <2>5, <2>6 DEF Carried
  <2> HIDE DEF P
  <2>8. KeyIs(t, kept, b + 1, moved)
    <3>1. CASE kept /\ Form!Repeated(t, b)
      BY <1>1, <1>3, <2>1, <2>2, <2>7, <3>1 DEF KeyIs
    <3>2. CASE ~(kept /\ Form!Repeated(t, b))
      BY <1>3, <2>2, <2>7, <3>2 DEF KeyIs
    <3> QED
      BY <3>1, <3>2
  <2> QED
    BY <2>4, <2>8 DEF P
<1>6. CASE ~Form!HasEquals(t, b)
  <2>1. PICK a \in Form!Amps(t) : Carried(t, kept, a, b) /\ k = Form!Key(t, a)
    BY <1>6 DEF KeyIs
  <2>2. kept /\ a < b /\ Form!Left(t, a, b - 1) /\ Form!Repeated(t, a) /\ Form!Key(t, a) # <<>>
    BY <2>1 DEF Carried, Form!Left
  <2>3. a \in Nat /\ a <= b /\ a \in 1 .. Len(t) + 1
    BY <1>0, <1>1, <2>2
  <2>4. Form!HasKey(P, k)
    <3>1. Form!HasKey(Pairs(t, a), k)
      BY <2>1, <2>2, <2>3, KeyKnown
    <3> QED
      BY <1>0, <2>3, <3>1, KnownStays
  <2>5. Form!Key(t, b) = <<>>
    BY <1>6 DEF Form!Key
  <2>6. Pairs(t, b + 1) = P
    BY <2>5, PairsStep DEF Form!First
  <2>7. Form!Emplace(P, k, Form!Value(t, b)) = Pairs(t, b + 1)
    BY <2>4, <2>6 DEF Form!Emplace
  <2>8. Form!Left(t, a, b)
    <3>1. \A i \in a + 1 .. b : i = b \/ i \in a + 1 .. b - 1
      BY <1>0, <2>3
    <3>2. t[b] # Form!Equals
      BY DEF Form!Equals, Form!Ampersand
    <3> QED
      BY <2>2, <3>1, <3>2 DEF Form!Left
  <2>9. Carried(t, kept, a, b + 1)
    BY <1>0, <1>4, <2>2, <2>8 DEF Carried
  <2> HIDE DEF P
  <2>10. KeyIs(t, kept, b + 1, moved)
    BY <1>3, <2>1, <2>2, <2>4, <2>9 DEF KeyIs
  <2> QED
    BY <2>7, <2>10 DEF P
<1> QED
  BY <1>5, <1>6

\* The loop over the characters, before it reads the one at b.
FormInv(t, kept, b, s) ==
  /\ s.thrown <=> Refuses(t, kept, b)
  /\ ~s.thrown => /\ Seen(t, b - 1, s.view) /\ s.begin = Form!MarkBefore(t, b) + 1
                  /\ KeyIs(t, kept, b, s.key) /\ s.post = Pairs(t, b)

\* The part that it would cut there is what the grammar has for a value.
LEMMA PartRead ==
  ASSUME NEW t \in Seq(Octets), NEW kept, NEW b \in 1 .. Len(t) + 1, NEW s,
         FormInv(t, kept, b, s), ~s.thrown
  PROVE  Form!Part(s, b) = Form!Value(t, b)
<1> DEFINE m == b - 1
           i == Form!MarkBefore(t, b) + 1
<1>1. Seen(t, m, s.view) /\ s.begin = i
  BY DEF FormInv
<1>2. m \in 0 .. Len(t) /\ i \in 1 .. m + 1
  <2>1. Form!MarkBefore(t, b) \in Nat /\ Form!MarkBefore(t, b) < b
    BY MarkIs
  <2>2. Len(t) \in Nat /\ b \in Nat /\ b >= 1 /\ b <= Len(t) + 1
    OBVIOUS
  <2> QED
    BY <2>1, <2>2
<1>3. SubSeq(s.view, i, m) = Form!Spaced(t, i, m)
  <2> HIDE DEF m, i
  <2> QED
    BY <1>1, <1>2, PartSeen
<1> QED
  BY <1>1, <1>3 DEF Form!Part, Form!Value

\* The view, one character further.
LEMMA SeenStep ==
  ASSUME NEW t \in Seq(Octets), NEW b \in 1 .. Len(t), NEW v, Seen(t, b - 1, v)
  PROVE  /\ v[b] = t[b]
         /\ t[b] # Form!Plus => Seen(t, b, v)
         /\ t[b] = Form!Plus => Seen(t, b, [v EXCEPT ![b] = Form!Space])
<1>0. Len(t) \in Nat /\ b \in Nat
  OBVIOUS
<1>1. /\ v \in Seq(Octets) /\ Len(v) = Len(t) /\ DOMAIN v = 1 .. Len(t)
  BY DEF Seen
<1>2. \A k \in 1 .. Len(t) : v[k] = IF k <= b - 1 /\ t[k] = Form!Plus THEN Form!Space ELSE t[k]
  BY DEF Seen
<1>3. ~(b <= b - 1) /\ \A k \in 1 .. Len(t) : k <= b <=> (k <= b - 1 \/ k = b)
  BY <1>0
<1>4. v[b] = t[b]
  BY <1>2, <1>3, Zenon
<1>5. ASSUME t[b] # Form!Plus PROVE Seen(t, b, v)
  BY <1>1, <1>2, <1>3, <1>5, Zenon DEF Seen
<1>6. ASSUME t[b] = Form!Plus PROVE Seen(t, b, [v EXCEPT ![b] = Form!Space])
  <2> DEFINE w == [v EXCEPT ![b] = Form!Space]
  <2>1. Form!Space \in Octets
    BY DEF Form!Space, Octets
  <2>2. w \in Seq(Octets) /\ Len(w) = Len(t)
    BY <1>1, <2>1
  <2>3. \A k \in 1 .. Len(t) : w[k] = IF k = b THEN Form!Space ELSE v[k]
    BY <1>1
  <2> HIDE DEF w
  <2>4. \A k \in 1 .. Len(t) : w[k] = IF k <= b /\ t[k] = Form!Plus THEN Form!Space ELSE t[k]
    BY <1>2, <1>3, <1>6, <2>3
  <2>5. Seen(t, b, w)
    BY <2>2, <2>4 DEF Seen
  <2> QED
    BY <2>5 DEF w
<1> QED
  BY <1>4, <1>5, <1>6

\* What the loop keeps.
PostStates == [view : Seq(Octets), begin : Nat, key : Seq(Octets),
               post : SUBSET (Seq(Octets) \X Seq(Octets)), thrown : BOOLEAN]

\* A part with its spaces is a text.
LEMMA SpacedType ==
  ASSUME NEW t \in Seq(Octets), NEW e \in Nat, NEW b \in Nat, e < b, b <= Len(t) + 1
  PROVE  Form!Spaced(t, e + 1, b - 1) \in Seq(Octets)
<1> DEFINE n == (b - 1) - (e + 1) + 1
           At(k) == (e + 1) + k - 1
           f == [k \in 1 .. n |-> IF t[At(k)] = Form!Plus THEN Form!Space ELSE t[At(k)]]
<1>1. n \in Nat /\ \A k \in 1 .. n : At(k) \in 1 .. Len(t)
  OBVIOUS
<1>2. Form!Space \in Octets
  BY DEF Form!Space, Octets
<1>3. Form!Spaced(t, e + 1, b - 1) = f
  BY Zenon DEF Form!Spaced
<1>4. \A k \in 1 .. n : t[At(k)] \in Octets
  <2> HIDE DEF n, At
  <2> QED
    BY <1>1, ElementOfSeq
<1>5. f \in [1 .. n -> Octets]
  <2> HIDE DEF n, At
  <2> QED
    BY <1>2, <1>4
<1> HIDE DEF n, f
<1>6. f \in Seq(Octets)
  BY <1>1, <1>5, FunctionIsSeq
<1> QED
  BY <1>3, <1>6

\* Keys and values are texts.
LEMMA KeyType ==
  ASSUME NEW t \in Seq(Octets), NEW b \in 1 .. Len(t) + 1
  PROVE  Form!Key(t, b) \in Seq(Octets) /\ Form!Value(t, b) \in Seq(Octets)
<1> DEFINE e == Form!MarkBefore(t, b)
           a == Form!MarkBefore(t, e)
<1>0. Len(t) \in Nat /\ b \in Nat /\ b <= Len(t) + 1
  OBVIOUS
<1>1. e \in Nat /\ e < b /\ e <= Len(t)
  BY MarkIs
<1>2. Form!Value(t, b) \in Seq(Octets)
  BY <1>0, <1>1, SpacedType DEF Form!Value
<1>3. CASE Form!HasEquals(t, b)
  <2>1. e # 0
    BY <1>3 DEF Form!HasEquals
  <2>2. e \in 1 .. Len(t) + 1 /\ e <= Len(t) + 1
    BY <1>0, <1>1, <2>1
  <2>3. a \in Nat /\ a < e
    BY <2>2, MarkIs
  <2>4. Form!Spaced(t, a + 1, e - 1) \in Seq(Octets)
    BY <1>1, <2>2, <2>3, SpacedType
  <2> QED
    BY <1>2, <1>3, <2>4 DEF Form!Key
<1>4. CASE ~Form!HasEquals(t, b)
  <2>1. Form!Key(t, b) = <<>>
    BY <1>4 DEF Form!Key
  <2> QED
    BY <1>2, <2>1
<1> QED
  BY <1>3, <1>4

\* And so are the pairs.
LEMMA PairsType ==
  ASSUME NEW t \in Seq(Octets), NEW b
  PROVE  Pairs(t, b) \in SUBSET (Seq(Octets) \X Seq(Octets))
<1>1. \A a \in Form!Amps(t) : a \in 1 .. Len(t) + 1
  BY DEF Form!Amps
<1>2. \A a \in Form!Amps(t) : Form!Key(t, a) \in Seq(Octets) /\ Form!Value(t, a) \in Seq(Octets)
  BY <1>1, KeyType
<1>3. ASSUME NEW p \in Pairs(t, b) PROVE p \in Seq(Octets) \X Seq(Octets)
  <2>1. PICK a \in Form!Amps(t) : p = <<Form!Key(t, a), Form!Value(t, a)>>
    BY DEF Pairs
  <2> QED
    BY <1>2, <2>1
<1> QED
  BY <1>3

\* One iteration keeps the invariant.
LEMMA FormStep ==
  ASSUME NEW t \in Seq(Octets), NEW kept \in BOOLEAN, NEW b \in 1 .. Len(t),
         NEW s \in PostStates
  PROVE  FormInv(t, kept, b, s) => /\ Form!ParseStep(s, b, kept) \in PostStates
                                   /\ FormInv(t, kept, b + 1, Form!ParseStep(s, b, kept))
<1> DEFINE r == Form!ParseStep(s, b, kept)
           v == s.view
           P == Pairs(t, b)
<1>0. SUFFICES ASSUME FormInv(t, kept, b, s) PROVE r \in PostStates /\ FormInv(t, kept, b + 1, r)
  OBVIOUS
<1>1. s.thrown \in BOOLEAN /\ (s.thrown <=> Refuses(t, kept, b))
  BY <1>0 DEF FormInv, PostStates
<1>2. Refuses(t, kept, b + 1) <=>
        Refuses(t, kept, b) \/ (t[b] = Form!Ampersand /\ ~Form!Allowed(t, b, kept))
  BY PairsStep
<1>3. b \in Nat /\ b + 1 \in Nat /\ (b + 1) - 1 = b /\ b \in 1 .. Len(t) + 1
  OBVIOUS
<1>4. CASE s.thrown
  <2>1. r = s
    BY <1>4 DEF Form!ParseStep
  <2>2. FormInv(t, kept, b + 1, s)
    BY <1>1, <1>2, <1>4 DEF FormInv
  <2> QED
    BY <2>1, <2>2
<1>5. CASE ~s.thrown
  <2>1. /\ Seen(t, b - 1, v) /\ s.begin = Form!MarkBefore(t, b) + 1
        /\ KeyIs(t, kept, b, s.key) /\ s.post = P
    BY <1>0, <1>5 DEF FormInv
  <2>2. ~Refuses(t, kept, b)
    BY <1>1, <1>5
  <2>3. /\ v[b] = t[b] /\ (t[b] # Form!Plus => Seen(t, b, v))
        /\ t[b] = Form!Plus => Seen(t, b, [v EXCEPT ![b] = Form!Space])
    BY <2>1, SeenStep
  <2>4. r = Form!AtCharacter(s, b, kept)
    BY <1>5 DEF Form!ParseStep
  <2>5. Form!Part(s, b) = Form!Value(t, b) /\ Form!Value(t, b) \in Seq(Octets)
    BY <1>0, <1>3, <1>5, PartRead, KeyType
  <2>6. Form!MarkBefore(t, b + 1) = IF Separator(t, b) THEN b ELSE Form!MarkBefore(t, b)
    BY MarkStep
  <2>7. /\ Form!Equals # Form!Plus /\ Form!Equals # Form!Ampersand /\ Form!Plus # Form!Ampersand
    BY DEF Form!Equals, Form!Plus, Form!Ampersand
  <2> HIDE DEF v, P, r
  <2>8. CASE t[b] = Form!Equals
    <3> DEFINE k == Form!Value(t, b)
    <3>1. r = [s EXCEPT !.key = k, !.begin = b + 1]
      <4>1. r = [s EXCEPT !.key = Form!Part(s, b), !.begin = b + 1]
        BY <2>3, <2>4, <2>7, <2>8 DEF Form!AtCharacter, v
      <4> QED
        BY <2>5, <4>1
    <3>8. k \in Seq(Octets)
      BY <2>5
    <3> HIDE DEF k
    <3>9. /\ r \in PostStates /\ r.view = v /\ r.begin = b + 1 /\ r.key = k /\ r.post = s.post
          /\ r.thrown = s.thrown
      BY <1>3, <3>1, <3>8 DEF PostStates, v
    <3>2. Separator(t, b) /\ Form!MarkBefore(t, b + 1) = b
      BY <2>6, <2>8 DEF Separator
    <3>3. Form!HasEquals(t, b + 1) /\ Form!Key(t, b + 1) = k
      <4>1. Form!HasEquals(t, b + 1)
        BY <1>3, <2>8, <3>2 DEF Form!HasEquals
      <4> QED
        BY <3>2, <4>1 DEF Form!Key, Form!Value, k
    <3>4. KeyIs(t, kept, b + 1, k)
      BY <3>3 DEF KeyIs
    <3>5. Pairs(t, b + 1) = P
      BY <2>7, <2>8, PairsStep DEF P
    <3>6. ~Refuses(t, kept, b + 1)
      BY <1>2, <2>2, <2>7, <2>8
    <3>7. Seen(t, (b + 1) - 1, v)
      BY <1>3, <2>3, <2>7, <2>8
    <3> QED
      BY <1>5, <2>1, <3>9, <3>2, <3>4, <3>5, <3>6, <3>7 DEF FormInv
  <2>9. CASE t[b] # Form!Equals /\ t[b] # Form!Ampersand
    <3>1. /\ r \in PostStates /\ Seen(t, b, r.view) /\ r.begin = s.begin /\ r.key = s.key
          /\ r.post = s.post /\ r.thrown = s.thrown
      <4>1. CASE t[b] = Form!Plus
        <5> DEFINE w == [v EXCEPT ![b] = Form!Space]
        <5>1. r = [s EXCEPT !.view[b] = Form!Space]
          BY <2>3, <2>4, <2>7, <4>1 DEF Form!AtCharacter, v
        <5>2. r = [s EXCEPT !.view = w]
          BY <5>1 DEF v
        <5>3. Seen(t, b, w)
          BY <2>3, <4>1
        <5> HIDE DEF w
        <5>4. w \in Seq(Octets)
          BY <5>3 DEF Seen
        <5>5. /\ r \in PostStates /\ r.view = w /\ r.begin = s.begin /\ r.key = s.key
              /\ r.post = s.post /\ r.thrown = s.thrown
          BY <5>2, <5>4 DEF PostStates
        <5> QED
          BY <5>3, <5>5
      <4>2. CASE t[b] # Form!Plus
        <5>1. r = s
          BY <2>3, <2>4, <2>9, <4>2 DEF Form!AtCharacter, v
        <5> QED
          BY <2>3, <4>2, <5>1 DEF v
      <4> QED
        BY <4>1, <4>2
    <3>2. ~Separator(t, b) /\ Form!MarkBefore(t, b + 1) = Form!MarkBefore(t, b)
      BY <2>6, <2>9 DEF Separator
    <3>3. KeyIs(t, kept, b + 1, s.key)
      BY <2>1, <3>2, KeyStep
    <3>4. Pairs(t, b + 1) = P
      BY <2>9, PairsStep DEF P
    <3>5. ~Refuses(t, kept, b + 1)
      BY <1>2, <2>2, <2>9
    <3>6. Seen(t, (b + 1) - 1, r.view)
      BY <1>3, <3>1
    <3> QED
      BY <1>5, <2>1, <3>1, <3>2, <3>3, <3>4, <3>5, <3>6 DEF FormInv
  <2>10. CASE t[b] = Form!Ampersand
    <3>1. Form!Allowed(t, b, kept) <=> s.key # <<>>
      BY <2>1, AllowedIs
    <3>2. r = IF s.key = <<>> THEN [s EXCEPT !.thrown = TRUE]
              ELSE [s EXCEPT !.begin = b + 1, !.key = Form!MovedFrom(s, kept),
                             !.post = Form!Emplace(@, s.key, Form!Part(s, b))]
      BY <2>3, <2>4, <2>7, <2>10 DEF Form!AtCharacter, v
    <3>3. CASE s.key = <<>>
      <4>1. r = [s EXCEPT !.thrown = TRUE]
        BY <3>2, <3>3
      <4>2. r \in PostStates /\ r.thrown
        BY <4>1 DEF PostStates
      <4>3. Refuses(t, kept, b + 1)
        BY <1>2, <2>10, <3>1, <3>3
      <4> QED
        BY <4>2, <4>3 DEF FormInv
    <3>4. CASE s.key # <<>>
      <4> DEFINE k == Form!MovedFrom(s, kept)
                 p == Form!Emplace(P, s.key, Form!Value(t, b))
      <4>1. r = [s EXCEPT !.begin = b + 1, !.key = k, !.post = p]
        BY <2>1, <2>5, <3>2, <3>4
      <4>2. k = IF kept /\ Form!HasKey(P, s.key) THEN s.key ELSE <<>>
        BY <2>1 DEF Form!MovedFrom
      <4>3. p = Pairs(t, b + 1) /\ KeyIs(t, kept, b + 1, k)
        BY <2>1, <2>10, <3>4, <4>2, AtAmpersand DEF P
      <4> HIDE DEF k, p
      <4>7. k \in Seq(Octets)
        BY <4>2 DEF PostStates
      <4>8. p \in SUBSET (Seq(Octets) \X Seq(Octets))
        BY <4>3, PairsType
      <4>9. /\ r \in PostStates /\ r.view = v /\ r.begin = b + 1 /\ r.key = k /\ r.post = p
            /\ r.thrown = s.thrown
        BY <1>3, <4>1, <4>7, <4>8 DEF PostStates, v
      <4>4. Form!MarkBefore(t, b + 1) = b
        BY <2>6, <2>10 DEF Separator
      <4>5. ~Refuses(t, kept, b + 1)
        BY <1>2, <2>2, <3>1, <3>4
      <4>6. Seen(t, (b + 1) - 1, v)
        BY <1>3, <2>3, <2>7, <2>10
      <4> QED
        BY <1>5, <4>9, <4>3, <4>4, <4>5, <4>6 DEF FormInv
    <3> QED
      BY <3>3, <3>4
  <2> QED
    BY <2>8, <2>9, <2>10 DEF r
<1> QED
  BY <1>1, <1>4, <1>5

\* The loop over the characters goes through states that it keeps.
LEMMA ParseRuns ==
  ASSUME NEW body, Len(body) \in Nat, NEW kept, NEW S, Form!Start(body) \in S[0],
         \A n \in 1 .. Len(body) : \A s \in S[n - 1] : Form!ParseStep(s, n, kept) \in S[n]
  PROVE  \E s \in S[Len(body)] : Form!ParseDecoded(body, kept) = Form!AtEnd(s)
<1> DEFINE N == Len(body)
           T == UNION {S[n] : n \in 0 .. N}
           init == Form!Start(body)
           iter == [n \in 1 .. N |-> [s \in T |-> IF s \in S[n - 1]
                                                  THEN Form!ParseStep(s, n, kept) ELSE s]]
           Is(f) == f = [n \in 0 .. N |->
                      IF n = 0 THEN init ELSE Form!ParseStep(f[n - 1], n, kept)]
           g == CHOOSE f : Is(f)
<1>1. N \in Nat /\ 0 \in 0 .. N /\ N \in 0 .. N
  OBVIOUS
<1>2. Form!ParseDecoded(body, kept) = Form!AtEnd(g[N])
  BY DEF Form!ParseDecoded
<1>8. \A n \in 1 .. N : \A s \in S[n - 1] : Form!ParseStep(s, n, kept) \in S[n]
  OBVIOUS
<1> HIDE DEF init, N
<1>3. init \in S[0] /\ init \in T
  BY <1>1 DEF init
<1>4. iter \in Loops(N, T)
  <2>1. \A n \in 1 .. N : n \in 0 .. N
    BY <1>1
  <2>2. ASSUME NEW n \in 1 .. N, NEW s \in T
        PROVE  (IF s \in S[n - 1] THEN Form!ParseStep(s, n, kept) ELSE s) \in T
    <3>1. CASE s \in S[n - 1]
      BY <1>8, <2>1, <3>1
    <3> QED
      BY <3>1
  <2> HIDE DEF T
  <2> QED
    BY <2>2 DEF Loops
<1>5. PICK f : Runs(f, N, T, init, iter)
  <2> HIDE DEF iter, T
  <2> QED
    BY <1>1, <1>3, <1>4, LoopExists
<1>6. /\ f = [n \in 0 .. N |-> f[n]] /\ f[0] = init
      /\ \A n \in 1 .. N : f[n - 1] \in T /\ f[n] = iter[n][f[n - 1]]
  <2> HIDE DEF iter, T
  <2> QED
    BY <1>1, <1>5, RunsAre
<1>7. ASSUME NEW n \in 1 .. N, f[n - 1] \in S[n - 1]
      PROVE  f[n] = Form!ParseStep(f[n - 1], n, kept) /\ f[n] \in S[n]
  <2> HIDE DEF T
  <2>1. f[n - 1] \in T /\ f[n] = iter[n][f[n - 1]]
    BY <1>6
  <2>2. iter[n][f[n - 1]] = IF f[n - 1] \in S[n - 1] THEN Form!ParseStep(f[n - 1], n, kept)
                            ELSE f[n - 1]
    BY <2>1, Zenon
  <2>3. f[n] = Form!ParseStep(f[n - 1], n, kept)
    BY <1>7, <2>1, <2>2
  <2> QED
    BY <1>7, <1>8, <2>3
<1> HIDE DEF iter, T
<1>9. \A n \in 0 .. N : f[n] \in S[n]
  BY <1>1, <1>3, <1>6, <1>7, LoopInvariant
<1>10. ASSUME NEW n \in 0 .. N
       PROVE  f[n] = IF n = 0 THEN init ELSE Form!ParseStep(f[n - 1], n, kept)
  <2>1. CASE n = 0
    BY <1>6, <2>1
  <2>2. CASE n # 0
    <3>1. n \in 1 .. N /\ n - 1 \in 0 .. N
      BY <1>1, <2>2
    <3>2. f[n] = Form!ParseStep(f[n - 1], n, kept)
      BY <1>7, <1>9, <3>1
    <3> QED
      BY <2>2, <3>2
  <2> QED
    BY <2>1, <2>2
<1>11. Is(f)
  BY <1>6, <1>10, Zenon
<1>12. Is(g)
  BY <1>11
<1> HIDE DEF g
<1>13. g[0] = init /\ \A n \in 1 .. N : g[n] = Form!ParseStep(g[n - 1], n, kept)
  <2>1. ASSUME NEW n \in 0 .. N
        PROVE  g[n] = IF n = 0 THEN init ELSE Form!ParseStep(g[n - 1], n, kept)
    BY <1>12
  <2>2. \A n \in 1 .. N : n \in 0 .. N /\ n # 0
    BY <1>1
  <2> QED
    BY <1>1, <2>1, <2>2
<1>14. \A n \in 1 .. N : g[n - 1] \in S[n - 1] => g[n] \in S[n]
  BY <1>8, <1>13
<1>15. \A n \in 0 .. N : g[n] \in S[n]
  BY <1>1, <1>3, <1>13, <1>14, LoopInvariant
<1> QED
  BY <1>1, <1>2, <1>15 DEF N

\* Behind the last character the loop's state gives what the grammar gives.
LEMMA EndRead ==
  ASSUME NEW t \in Seq(Octets), NEW kept \in BOOLEAN, NEW s \in PostStates,
         FormInv(t, kept, Len(t) + 1, s)
  PROVE  Form!AtEnd(s) = Form!Form(t, kept)
<1> DEFINE b == Len(t) + 1
           A == Form!Amps(t)
           E == Form!Ends(t)
           K == Form!Key(t, b)
           V == Form!Value(t, b)
<1>0. Len(t) \in Nat /\ b \in Nat /\ b \in 1 .. Len(t) + 1 /\ ~(b <= Len(t))
  OBVIOUS
<1>1. A \subseteq 1 .. Len(t) /\ E = A \cup {b} /\ b \in E
  BY DEF Form!Amps, Form!Ends
<1>2. \A a \in A : a < b /\ a \in E
  BY <1>0, <1>1
<1>3. s.thrown <=> \E a \in A : ~Form!Allowed(t, a, kept)
  BY <1>2 DEF FormInv, Refuses
<1>4. Form!Allowed(t, b, kept) <=> K # <<>>
  BY <1>0 DEF Form!Allowed
<1>20. /\ Form!Form(t, kept) = IF /\ \A a \in E : Form!Allowed(t, a, kept)
                                 /\ Form!First(t, b) /\ V # <<>>
                              THEN {<<Form!Key(t, e), Form!Value(t, e)>> : e \in {a \in E : Form!First(t, a)}}
                              ELSE Refused
  BY Zenon DEF Form!Form
<1>5. CASE s.thrown
  <2>1. Form!AtEnd(s) = Refused
    BY <1>5 DEF Form!AtEnd
  <2>2. ~\A a \in E : Form!Allowed(t, a, kept)
    BY <1>1, <1>3, <1>5
  <2> QED
    BY <1>20, <2>1, <2>2, Zenon
<1>6. CASE ~s.thrown
  <2>1. /\ s.begin = Form!MarkBefore(t, b) + 1 /\ KeyIs(t, kept, b, s.key) /\ s.post = Pairs(t, b)
        /\ Len(s.view) = Len(t)
    BY <1>6 DEF FormInv, Seen
  <2>2. Form!Part(s, Len(s.view) + 1) = V
    BY <1>0, <1>6, <2>1, PartRead
  <2>3. \A a \in A : Form!Allowed(t, a, kept)
    BY <1>3, <1>6
  <2>4. Form!AtEnd(s) = IF s.key # <<>> /\ ~Form!HasKey(s.post, s.key) /\ V # <<>>
                        THEN Form!Emplace(s.post, s.key, V) ELSE Refused
    BY <1>6, <2>2 DEF Form!AtEnd
  <2> HIDE DEF V, b, A, E
  <2>5. CASE Form!HasEquals(t, b)
    <3>1. s.key = K
      BY <2>1, <2>5 DEF KeyIs
    <3>2. K # <<>> => (Form!HasKey(Pairs(t, b), K) <=> Form!Repeated(t, b))
      BY <1>0, KeyKnown
    <3>3. Form!First(t, b) <=> K # <<>> /\ ~Form!HasKey(s.post, s.key)
      BY <2>1, <3>1, <3>2 DEF Form!First
    <3>4. CASE Form!First(t, b) /\ V # <<>>
      <4>1. \A a \in E : Form!Allowed(t, a, kept)
        BY <1>1, <1>4, <2>3, <3>3, <3>4
      <4>2. Form!Form(t, kept) = {<<Form!Key(t, e), Form!Value(t, e)>> : e \in {a \in E : Form!First(t, a)}}
        BY <1>20, <3>4, <4>1, Zenon
      <4>3. {a \in E : Form!First(t, a)} = {a \in A : a < b /\ Form!First(t, a)} \cup {b}
        BY <1>1, <1>2, <3>4, Zenon
      <4>4. Form!Form(t, kept) = Pairs(t, b) \cup {<<K, V>>}
        BY <4>2, <4>3, Zenon DEF Pairs, A, V
      <4>5. Form!AtEnd(s) = s.post \cup {<<s.key, V>>}
        BY <2>4, <3>1, <3>3, <3>4 DEF Form!Emplace
      <4> QED
        BY <2>1, <3>1, <4>4, <4>5
    <3>5. CASE ~(Form!First(t, b) /\ V # <<>>)
      BY <1>20, <2>4, <3>1, <3>3, <3>5, Zenon
    <3> QED
      BY <3>4, <3>5
  <2>6. CASE ~Form!HasEquals(t, b)
    <3>1. K = <<>>
      BY <2>6 DEF Form!Key
    <3>2. Form!Form(t, kept) = Refused
      BY <1>20, <3>1, Zenon DEF Form!First
    <3>3. s.key = <<>> \/ Form!HasKey(s.post, s.key)
      <4>1. CASE \E a \in Form!Amps(t) : Carried(t, kept, a, b) /\ s.key = Form!Key(t, a)
        <5>1. PICK a \in Form!Amps(t) : Carried(t, kept, a, b) /\ s.key = Form!Key(t, a)
          BY <4>1
        <5>2. a < b /\ Form!Repeated(t, a) /\ Form!Key(t, a) # <<>>
          BY <5>1 DEF Carried, Form!Left
        <5>3. a \in Nat /\ a <= b /\ a \in 1 .. Len(t) + 1
          BY <1>0, <1>1, <5>2 DEF A
        <5>4. Form!HasKey(Pairs(t, a), s.key)
          BY <5>1, <5>2, <5>3, KeyKnown
        <5> QED
          BY <1>0, <2>1, <5>3, <5>4, KnownStays
      <4> QED
        BY <2>1, <2>6, <4>1 DEF KeyIs
    <3> QED
      BY <2>4, <3>2, <3>3, Zenon
  <2> QED
    BY <2>5, <2>6
<1> QED
  BY <1>5, <1>6

\* The decoded text is read as the grammar says.
LEMMA ParsedIs ==
  ASSUME NEW t \in Seq(Octets), NEW kept \in BOOLEAN
  PROVE  Form!ParseDecoded(t, kept) = Form!Form(t, kept)
<1> DEFINE S == [n \in 0 .. Len(t) |-> {s \in PostStates : FormInv(t, kept, n + 1, s)}]
           init == Form!Start(t)
<1>0. Len(t) \in Nat /\ 1 \in 1 .. Len(t) + 1
  OBVIOUS
<1>1. Form!Start(t) \in S[0]
  <2>1. init \in PostStates /\ init.view = t /\ init.begin = 1 /\ init.key = <<>> /\ init.post = {} /\ ~init.thrown
    BY DEF Form!Start, PostStates
  <2> HIDE DEF init
  <2>2. \A a \in Form!Amps(t) : ~(a < 1)
    BY DEF Form!Amps
  <2>3. Pairs(t, 1) = {} /\ ~Refuses(t, kept, 1)
    BY <2>2, Zenon DEF Pairs, Refuses
  <2>4. Form!MarkBefore(t, 1) = 0
    <3>1. Form!MarkBefore(t, 1) \in Nat /\ Form!MarkBefore(t, 1) < 1
      BY <1>0, MarkIs
    <3> QED
      BY <3>1
  <2>5. KeyIs(t, kept, 1, <<>>)
    <3>1. ~Form!HasEquals(t, 1)
      BY <2>4 DEF Form!HasEquals
    <3> QED
      BY <2>2, <3>1 DEF KeyIs, Carried
  <2>6. Seen(t, 1 - 1, t)
    <3>1. \A k \in 1 .. Len(t) : ~(k <= 1 - 1)
      BY <1>0
    <3> QED
      BY <3>1, Zenon DEF Seen
  <2>7. FormInv(t, kept, 1, init)
    BY <2>1, <2>3, <2>4, <2>5, <2>6 DEF FormInv
  <2>8. 0 \in 0 .. Len(t) /\ 0 + 1 = 1
    BY <1>0
  <2>9. init \in S[0]
    BY <2>1, <2>7, <2>8
  <2> QED
    BY <2>9 DEF init
<1>2. ASSUME NEW n \in 1 .. Len(t), NEW s \in S[n - 1] PROVE Form!ParseStep(s, n, kept) \in S[n]
  <2>1. n - 1 \in 0 .. Len(t) /\ n \in 0 .. Len(t) /\ (n - 1) + 1 = n
    BY <1>0
  <2>2. s \in PostStates /\ FormInv(t, kept, n, s)
    BY <2>1
  <2>3. /\ Form!ParseStep(s, n, kept) \in PostStates
        /\ FormInv(t, kept, n + 1, Form!ParseStep(s, n, kept))
    BY <2>2, FormStep
  <2> QED
    BY <2>1, <2>3
<1>3. PICK s \in S[Len(t)] : Form!ParseDecoded(t, kept) = Form!AtEnd(s)
  <2> HIDE DEF S
  <2> QED
    BY <1>0, <1>1, <1>2, ParseRuns
<1>4. s \in PostStates /\ FormInv(t, kept, Len(t) + 1, s)
  <2>1. Len(t) \in 0 .. Len(t)
    BY <1>0
  <2> QED
    BY <1>3, <2>1
<1> QED
  BY <1>3, <1>4, EndRead

\* For any bytes: ParseURLEncodedPost reads of a form what the grammar says, whichever
\* characters the client has encoded.
THEOREM FormsAreRead == TextSpec => []FormIsRead
<1>1. TextTypeOK => FormIsRead
  <2> SUFFICES ASSUME text \in Seq(FormChars \cup CoreChars), NEW kept \in BOOLEAN,
                      NEW chars \in {{Form!Percent}, FormChars}
               PROVE  Form!ParseURLEncodedPost(Encoded(text, chars), kept) = Form!Form(text, kept)
    BY DEF TextTypeOK, FormIsRead
  <2>1. text \in Seq(Octets)
    <3>1. FormChars \cup CoreChars \subseteq Octets
      BY FormAssumption DEF Octets
    <3> QED
      BY <3>1, SeqMonotonic
  <2>2. Form!Percent \in chars
    BY FormAssumption
  <2>3. /\ Form!DecodeURLEncodedString(Encoded(text, chars)).out = text
        /\ ~Form!DecodeURLEncodedString(Encoded(text, chars)).thrown
    BY <2>1, <2>2, DecodedIs
  <2>4. Form!ParseURLEncodedPost(Encoded(text, chars), kept) = Form!ParseDecoded(text, kept)
    BY <2>3 DEF Form!ParseURLEncodedPost
  <2> QED
    BY <2>1, <2>4, ParsedIs
<1> QED
  BY <1>1, TextTypes, PTL
=============================================================================
