----------------------------- MODULE MCConfig -----------------------------
(* A small instance of Config for TLC.                                     *)
EXTENDS Config

MCValues(n) == {0, 1}

MCDefaultOf(n) == 0

MCFromStr(n, text) == ToNumber(text, 1)

\* Files with two members, one of which is no number, with one that is too
\* large, with one that is followed by characters that the converter does not
\* read, and with a blank and a sign; 10 is a character that is none of these.
MCDocuments ==
    {<<<<1>>, <<10>>>>, <<<<10>>, <<1>>>>, <<<<1, 0>>>>, <<<<1, 10, 1>>>>,
     <<<<Blank, Minus, 1>>>>}
=============================================================================
