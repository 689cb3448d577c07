----------------------------- MODULE LogPattern -----------------------------
(***************************************************************************)
(* The patterns of log formatters: ParsePattern and                        *)
(* RawFieldsToFormatFields of src/log/field.cpp, iteration by iteration.   *)
(* Patterns are sequences of characters.                                   *)
(***************************************************************************)
EXTENDS Integers, Sequences

CONSTANTS
    Letters,    \* characters that std::isalpha accepts
    Tags,       \* types of fields that are supported
    Invalid     \* std::invalid_argument

LeftBrace  == "{"
RightBrace == "}"

RawField(content)   == [raw |-> TRUE, content |-> content, format |-> <<>>]
TypedField(type, f) == [raw |-> FALSE, content |-> type, format |-> f]

\* A character that belongs to a raw string: no percent sign, or one that
\* another one follows.
RawAt(p, i) == p[i] # "%" \/ (i + 1 <= Len(p) /\ p[i + 1] = "%")

\* What the loop over the characters of a field keeps; the percent sign is at i.
NewField(i) == [j |-> i + 1, type |-> <<>>, format |-> <<>>, processing |-> FALSE,
                begin |-> 0, done |-> FALSE]

\* One iteration.
FieldStep(p, i, s) ==
    IF s.done \/ s.j > Len(p) THEN s
    ELSE IF ~s.processing /\ p[s.j] \notin Letters \cup {LeftBrace, RightBrace}
    THEN [s EXCEPT !.type = SubSeq(p, i + 1, s.j - 1), !.done = TRUE]
    ELSE IF ~s.processing /\ p[s.j] = LeftBrace
    THEN [s EXCEPT !.type = SubSeq(p, i + 1, s.j - 1), !.processing = TRUE,
                   !.begin = s.j, !.j = @ + 1]
    ELSE IF s.processing /\ p[s.j] = RightBrace
    THEN [s EXCEPT !.format = SubSeq(p, s.begin + 1, s.j - 1), !.processing = FALSE,
                   !.j = @ + 1, !.done = TRUE]
    ELSE [s EXCEPT !.type = IF s.j = Len(p) /\ @ = <<>> THEN SubSeq(p, i + 1, Len(p)) ELSE @,
                   !.j = @ + 1]

FieldAt(p, i) ==
    LET field[n \in 0 .. Len(p)] ==
            IF n = 0 THEN NewField(i) ELSE FieldStep(p, i, field[n - 1])
    IN  field[Len(p)]

Flush(raw, fields) == IF raw = <<>> THEN fields ELSE Append(fields, RawField(raw))

\* Defect: the character behind a field is skipped.
SkipBehind(j) == j + 1

\* Where the loop over the pattern goes on: at the end of the field.
Behind(j) == j

\* One iteration of the loop over the pattern.
ParseStep(p, s) ==
    IF s.invalid \/ s.i > Len(p) THEN s
    ELSE IF RawAt(p, s.i) THEN [s EXCEPT !.i = @ + 1, !.raw = Append(@, p[s.i])]
    ELSE LET f == FieldAt(p, s.i)
         IN  [i |-> Behind(f.j), raw |-> <<>>, invalid |-> f.processing,
              fields |-> Append(Flush(s.raw, s.fields), TypedField(f.type, f.format))]

ParsePattern(p) ==
    LET parse[n \in 0 .. Len(p)] ==
            IF n = 0 THEN [i |-> 1, raw |-> <<>>, fields |-> <<>>, invalid |-> FALSE]
            ELSE ParseStep(p, parse[n - 1])
        last == parse[Len(p)]
    IN  IF last.invalid THEN Invalid ELSE Flush(last.raw, last.fields)

\* The constructor of Formatter accepts fields of supported types.
Accepts(p) ==
    LET fields == ParsePattern(p)
    IN  /\ fields # Invalid
        /\ \A i \in DOMAIN fields : fields[i].raw \/ fields[i].content \in Tags
=============================================================================
