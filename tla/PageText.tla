------------------------------ MODULE PageText ------------------------------
(***************************************************************************)
(* The text of a generated page: ReplaceAllSubstring and                   *)
(* SplitStringToLines of src/util/util.cpp, the loop that puts parameters  *)
(* into a page with the first (PutParamIntoHTML of src/http/http.cpp), and *)
(* the lengths that AddParamContent of src/http/response.cpp computes with *)
(* the second.  A symbol of a text is a character, a key, or the sign that *)
(* begins or ends a placeholder.                                           *)
(***************************************************************************)
EXTENDS Integers, SequencesExt

CR == "CR"
LF == "LF"
Open  == "<$"
Close == "$>"

Least(S) == CHOOSE i \in S : \A j \in S : i <= j

Occurrences(str, from) ==
    {i \in 1 .. Len(str) - Len(from) + 1 :
        SubSeq(str, i, i + Len(from) - 1) = from}

\* One iteration: what is before the first occurrence is written, and then the
\* new text; the search goes on behind the occurrence.
ReplaceStep(from, to, s) ==
    LET found == Occurrences(s.str, from)
        begin == Least(found)
    IN  IF s.str = <<>> THEN s
        ELSE IF found = {} THEN [ss |-> s.ss \o s.str, str |-> <<>>]
        ELSE [ss  |-> s.ss \o SubSeq(s.str, 1, begin - 1) \o to,
              str |-> SubSeq(s.str, begin + Len(from), Len(s.str))]

ReplaceAllSubstring(str, from, to) ==
    LET replace[n \in 0 .. Len(str)] ==
            IF n = 0 THEN [ss |-> <<>>, str |-> str]
            ELSE ReplaceStep(from, to, replace[n - 1])
    IN  replace[Len(str)].ss

HTMLPlaceholder(key) == <<Open, key, Close>>

\* One parameter after another, in the order of the unordered map: params is the
\* sequence of its pairs in that order.  What a value brings in is searched, too.
PutParamIntoHTML(html, params) ==
    LET put[n \in 0 .. Len(params)] ==
            IF n = 0 THEN html
            ELSE ReplaceAllSubstring(put[n - 1], HTMLPlaceholder(params[n].key), params[n].val)
    IN  put[Len(params)]

LineFeeds(str) == {q \in DOMAIN str : str[q] = LF}

\* Where a match of "\r*\n" that ends at the line feed at q begins.
MatchBegin(str, q) ==
    Least({p \in 1 .. q : \A i \in p .. q - 1 : str[i] = CR})

\* One step of the iterator: the text before the next match, or the rest.  An
\* empty text behind the last match is not returned, an empty text as a whole
\* is.
SplitStep(s) ==
    LET q    == Least(LineFeeds(s.str))
        rest == SubSeq(s.str, q + 1, Len(s.str))
    IN  IF s.done THEN s
        ELSE IF LineFeeds(s.str) = {}
        THEN [str |-> <<>>, lines |-> Append(s.lines, s.str), done |-> TRUE]
        ELSE [str |-> rest, done |-> rest = <<>>,
              lines |-> Append(s.lines, SubSeq(s.str, 1, MatchBegin(s.str, q) - 1))]

SplitStringToLines(str) ==
    LET split[n \in 0 .. Len(str) + 1] ==
            IF n = 0 THEN [str |-> str, lines |-> <<>>, done |-> FALSE]
            ELSE SplitStep(split[n - 1])
    IN  split[Len(str) + 1].lines

\* Defect: the last line is counted with a line end as well.
LineEndOfEach(n) == 2 * n

\* The line ends between n lines; for no lines at all it would be an unsigned
\* number below zero.
LineEnds(n) == 2 * (n - 1)

\* The value of the header Content-length.
ContentLength(lines) ==
    LET length[i \in 0 .. Len(lines)] ==
            IF i = 0 THEN LineEnds(Len(lines)) ELSE length[i - 1] + Len(lines[i])
    IN  length[Len(lines)]

\* The bytes appended to the buffer: every line but the last has its CRLF.
Content(lines) ==
    FlattenSeq([i \in DOMAIN lines |->
                   IF i # Len(lines) THEN lines[i] \o <<CR, LF>> ELSE lines[i]])
=============================================================================
