------------------------------ MODULE MCText ------------------------------
(***************************************************************************)
(* Every short input of the text algorithms: a text of one of four kinds   *)
(* grows character by character, and the algorithms are compared with what *)
(* they are for in every state.                                            *)
(***************************************************************************)
EXTENDS Integers, SequencesExt

CONSTANTS
    FormChars, MaxForm,         \* characters and length of forms,
    CoreChars, MaxCore,         \* of longer ones with fewer characters,
    PatternChars, MaxPattern,   \* of log patterns
    PageChars, MaxPage,         \* and of pages
    Params,                     \* what is put into them
    Refused,                    \* an exception
    Letters, Tags, Invalid

VARIABLES kind, text

\* The one field of the patterns: the message.
MCTags == {<<"m">>}

Form    == INSTANCE UrlEncodedForm WITH Thrown <- Refused
Pattern == INSTANCE LogPattern
Page    == INSTANCE PageText

\* The index page: a name and a message, in the orders a map may have them.  A
\* value is what the client has posted: nothing, line ends, a placeholder or a
\* part of one.
MCUser(val) == [key |-> "user", val |-> val]
MCMsg(val)  == [key |-> "msg", val |-> val]
MCUsers     == {<<"LF">>, <<"<$", "msg", "$>">>}
MCMsgs      == {<<>>, <<"user", "$>">>, <<"CR", "LF", "<$">>}
MCParams    ==
    UNION {{<<MCUser(u), MCMsg(m)>>, <<MCMsg(m), MCUser(u)>>} : u \in MCUsers, m \in MCMsgs}

\* Characters are bytes, and clients encode a percent sign.
ASSUME FormAssumption    == /\ FormChars \subseteq 0 .. 255 /\ CoreChars \subseteq 0 .. 255
                            /\ Form!Percent \in FormChars
\* std::isalpha; every field has a name.
ASSUME PatternAssumption == /\ {"%", Pattern!LeftBrace, Pattern!RightBrace} \cap Letters = {}
                            /\ <<>> \notin Tags
\* Values are any texts, and no key begins a placeholder.
ASSUME PageAssumption    ==
    Params \subseteq Seq([key : PageChars \ {Page!Open}, val : Seq(PageChars)])

TextInit == kind \in {"form", "long", "pattern", "page"} /\ text = <<>>

Grow(k, chars, max) ==
    /\ kind = k /\ Len(text) < max
    /\ \E c \in chars : text' = Append(text, c)
    /\ UNCHANGED kind

TextNext ==
    \/ Grow("form", FormChars, MaxForm)
    \/ Grow("long", CoreChars, MaxCore)
    \/ Grow("pattern", PatternChars, MaxPattern)
    \/ Grow("page", PageChars, MaxPage)

TextSpec == TextInit /\ [][TextNext]_<<kind, text>>

-----------------------------------------------------------------------------
(* Properties.                                                             *)

HexDigit(d) == IF d < 10 THEN 48 + d ELSE 55 + d

\* The text as a client sends it when it encodes these characters.
Encoded(s, chars) ==
    FlattenSeq([i \in DOMAIN s |->
        IF s[i] \in chars
        THEN <<Form!Percent, HexDigit(s[i] \div 16), HexDigit(s[i] % 16)>>
        ELSE <<s[i]>>])

\* ParseURLEncodedPost reads of a form what the grammar says of its decoded
\* text, and refuses what the grammar refuses, whichever characters the
\* client has encoded and whatever emplace does to a key it does not take.
FormIsRead ==
    kind \in {"form", "long"} =>
        \A kept \in BOOLEAN, chars \in {{Form!Percent}, FormChars} :
            Form!ParseURLEncodedPost(Encoded(text, chars), kept) = Form!Form(text, kept)

\* The texts that a field stands for; an empty format may be left out.
Printed(f) ==
    IF f.raw THEN {f.content}
    ELSE {<<"%">> \o f.content \o <<Pattern!LeftBrace>> \o f.format \o <<Pattern!RightBrace>>}
         \cup (IF f.format = <<>> THEN {<<"%">> \o f.content} ELSE {})

Joined(A, B) == {a \o b : a \in A, b \in B}

Printings(fields) ==
    LET print[i \in 0 .. Len(fields)] ==
            IF i = 0 THEN {<<>>} ELSE Joined(print[i - 1], Printed(fields[i]))
    IN  print[Len(fields)]

\* ParsePattern loses, doubles and moves no character: its fields, written one
\* after another, are the pattern.  It merges raw text, and a pattern that
\* the formatter accepts has no field without a type.
PatternIsKept ==
    kind = "pattern" =>
        LET fields == Pattern!ParsePattern(text)
        IN  /\ fields # Invalid => text \in Printings(fields)
            /\ Pattern!Accepts(text) =>
                 \A i \in DOMAIN fields :
                     /\ fields[i].content # <<>>
                     /\ i > 1 => ~(fields[i].raw /\ fields[i - 1].raw)

LineEnd(s, i) ==
    \E q \in i .. Len(s) : s[q] = Page!LF /\ \A k \in i .. q - 1 : s[k] = Page!CR

\* The text with every occurrence of from replaced, position by position.
Substituted(s, from, to) ==
    LET at == Page!Occurrences(s, from)
    IN  FlattenSeq([i \in DOMAIN s |->
            IF i \in at THEN to
            ELSE IF \E b \in at : i \in b .. b + Len(from) - 1 THEN <<>>
            ELSE <<s[i]>>])

\* Every parameter is substituted in what the ones before it have left.
Filled(s, params) ==
    LET fill[n \in 0 .. Len(params)] ==
            IF n = 0 THEN s
            ELSE Substituted(fill[n - 1], Page!HTMLPlaceholder(params[n].key), params[n].val)
    IN  fill[Len(params)]

\* A generated page has every placeholder replaced and nothing else changed,
\* whatever the values are and however many parameters there are.  (What a
\* value brings in is searched for the placeholders of the parameters behind it
\* in the unordered map, so that a posted placeholder may be replaced.)  Its lines
\* keep every character but the line ends; and the length in its head is that
\* of the bytes behind it, for empty pages and final line ends, too.
PageIsWhole ==
    kind = "page" =>
        \A params \in Params :
            LET filled == Page!PutParamIntoHTML(text, params)
                lines  == Page!SplitStringToLines(filled)
            IN  /\ filled = Filled(text, params)
                /\ lines # <<>>
                /\ FlattenSeq(lines) =
                     FlattenSeq([i \in DOMAIN filled |->
                         IF LineEnd(filled, i) THEN <<>> ELSE <<filled[i]>>])
                /\ Page!ContentLength(lines) = Len(Page!Content(lines))
=============================================================================
