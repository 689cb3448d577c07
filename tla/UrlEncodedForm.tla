--------------------------- MODULE UrlEncodedForm ---------------------------
(***************************************************************************)
(* The URL-encoded form of a POST request: DecodeURLEncodedString of       *)
(* src/http/http.cpp and ParseURLEncodedPost of src/http/request.cpp,      *)
(* iteration by iteration as in the code, and the grammar they implement.  *)
(* Characters are their ASCII codes; Thrown is an exception.               *)
(***************************************************************************)
EXTENDS Integers, Sequences, FiniteSetsExt

CONSTANT Thrown

Space     == 32
Percent   == 37
Ampersand == 38
Plus      == 43
Minus     == 45
Equals    == 61

-----------------------------------------------------------------------------
(* Decoding.                                                               *)

HexDigits == (48 .. 57) \cup (65 .. 70) \cup (97 .. 102)

HexValue(c) == CASE c \in 48 .. 57 -> c - 48
                 [] c \in 65 .. 70 -> c - 55
                 [] c \in 97 .. 102 -> c - 87

\* std::stoi of two characters in base 16: it skips white space and takes a
\* sign, reads as many digits as there are and throws when there is none.
White == {Space} \cup 9 .. 13

StoiThrows(c, d) ==
    ~(c \in HexDigits \/ (c \in White \cup {Plus, Minus} /\ d \in HexDigits))

Stoi(c, d) ==
    CASE c \in HexDigits /\ d \in HexDigits -> 16 * HexValue(c) + HexValue(d)
      [] c \in HexDigits /\ d \notin HexDigits -> HexValue(c)
      [] c \in White \cup {Plus} -> HexValue(d)
      [] c = Minus -> - HexValue(d)

DecodeURLEncodedCharacter(c, d) == Stoi(c, d) % 256

\* One iteration; s is the position, what is decoded, and whether it has thrown.
DecodeStep(str, s) ==
    IF s.thrown \/ s.i > Len(str) THEN s
    ELSE IF str[s.i] # Percent
    THEN [i |-> s.i + 1, out |-> Append(s.out, str[s.i]), thrown |-> FALSE]
    ELSE IF s.i + 2 > Len(str) \/ StoiThrows(str[s.i + 1], str[s.i + 2])
    THEN [s EXCEPT !.thrown = TRUE]
    ELSE [i |-> s.i + 3, thrown |-> FALSE,
          out |-> Append(s.out, DecodeURLEncodedCharacter(str[s.i + 1], str[s.i + 2]))]

DecodeURLEncodedString(str) ==
    LET decode[n \in 0 .. Len(str)] ==
            IF n = 0 THEN [i |-> 1, out |-> <<>>, thrown |-> FALSE]
            ELSE DecodeStep(str, decode[n - 1])
    IN  decode[Len(str)]

-----------------------------------------------------------------------------
(* Splitting.                                                              *)

\* What the loop over the characters keeps: the decoded body, in which a plus
\* becomes a space, the start of the current part, the key, the pairs of the
\* map, and whether it has thrown.
Start(body) ==
    [view |-> body, begin |-> 1, key |-> <<>>, post |-> {}, thrown |-> FALSE]

Part(s, end) == SubSeq(s.view, s.begin, end - 1)

HasKey(post, key) == \E p \in post : p[1] = key

\* Defect: a pair overwrites an earlier one.
EmplaceOver(post, key, val) ==
    {p \in post : p[1] # key} \cup {<<key, val>>}

\* emplace keeps the first value of a key.
Emplace(post, key, val) ==
    IF HasKey(post, key) THEN post ELSE post \cup {<<key, val>>}

\* A key that has been moved into the map is empty.  When the map has the key
\* already, libraries differ: kept says that emplace leaves it alone.
MovedFrom(s, kept) == IF kept /\ HasKey(s.post, s.key) THEN s.key ELSE <<>>

AtCharacter(s, end, kept) ==
    CASE s.view[end] = Equals ->
           [s EXCEPT !.key = Part(s, end), !.begin = end + 1]
      [] s.view[end] = Plus ->
           [s EXCEPT !.view[end] = Space]
      [] s.view[end] = Ampersand ->
           IF s.key = <<>> THEN [s EXCEPT !.thrown = TRUE]
           ELSE [s EXCEPT !.begin = end + 1, !.key = MovedFrom(s, kept),
                          !.post = Emplace(@, s.key, Part(s, end))]
      [] OTHER -> s

AtEnd(s) ==
    LET val == Part(s, Len(s.view) + 1)
    IN  IF ~s.thrown /\ s.key # <<>> /\ ~HasKey(s.post, s.key) /\ val # <<>>
        THEN Emplace(s.post, s.key, val) ELSE Thrown

\* One iteration of the loop over the characters.
ParseStep(s, end, kept) == IF s.thrown THEN s ELSE AtCharacter(s, end, kept)

ParseDecoded(body, kept) ==
    LET parse[n \in 0 .. Len(body)] ==
            IF n = 0 THEN Start(body) ELSE ParseStep(parse[n - 1], n, kept)
    IN  AtEnd(parse[Len(body)])

ParseURLEncodedPost(body, kept) ==
    LET decoded == DecodeURLEncodedString(body)
    IN  IF decoded.thrown THEN Thrown ELSE ParseDecoded(decoded.out, kept)

-----------------------------------------------------------------------------
(* The grammar, on the decoded body s.                                     *)

Amps(s) == {i \in DOMAIN s : s[i] = Ampersand}

\* Segments are separated by ampersands, and known by where they end.
Ends(s) == Amps(s) \cup {Len(s) + 1}

\* The last equals sign or ampersand before b, 0 if there is none.
MarkBefore(s, b) ==
    Max({0} \cup {i \in DOMAIN s : i < b /\ s[i] \in {Equals, Ampersand}})

Spaced(s, i, j) == [k \in 1 .. j - i + 1 |->
                       IF s[i + k - 1] = Plus THEN Space ELSE s[i + k - 1]]

\* The value of the segment that ends at b follows its last equals sign, and
\* its key lies between that and the mark before it.
Value(s, b) == Spaced(s, MarkBefore(s, b) + 1, b - 1)

HasEquals(s, b) == MarkBefore(s, b) # 0 /\ s[MarkBefore(s, b)] = Equals

Key(s, b) ==
    LET e == MarkBefore(s, b)
    IN  IF HasEquals(s, b) THEN Spaced(s, MarkBefore(s, e) + 1, e - 1) ELSE <<>>

Repeated(s, b) == \E a \in Ends(s) : a < b /\ Key(s, a) = Key(s, b)

\* Whether the key of an earlier segment is still there at i: it was in the map
\* already, and no equals sign has come since.
Left(s, a, i) ==
    /\ Key(s, a) # <<>> /\ Repeated(s, a)
    /\ \A k \in a + 1 .. i : s[k] # Equals

\* A segment without a key is refused, unless a key is left.
Allowed(s, b, kept) ==
    \/ Key(s, b) # <<>>
    \/ kept /\ b <= Len(s) /\ \E a \in Amps(s) : a < b /\ Left(s, a, b - 1)

First(s, b) == Key(s, b) # <<>> /\ ~Repeated(s, b)

Form(s, kept) ==
    IF /\ \A b \in Ends(s) : Allowed(s, b, kept)
       /\ First(s, Len(s) + 1) /\ Value(s, Len(s) + 1) # <<>>
    THEN {<<Key(s, b), Value(s, b)>> : b \in {e \in Ends(s) : First(s, e)}}
    ELSE Thrown
=============================================================================
