--------------------------- MODULE MCLogManager ---------------------------
(* A small instance of LogManager for TLC.                                 *)
EXTENDS LogManager

Stdout1 == [type |-> "stdout"]
File1   == [type |-> "file", file |-> "log.txt"]
Own1    == [type |-> "stdout", formatter |-> "%m", formatters |-> "%m"]

\* Nodes of a YAML file: a logger in two configurations, and another one.  The
\* formatter of an appender is read only if "formatters" is there as well.
R1 == [name |-> "root", level |-> "warn", formatter |-> "%m",
       appenders |-> <<Stdout1, File1>>]
R2 == [name |-> "root", level |-> "info", capacity |-> 1,
       appenders |-> <<Own1>>]
A1 == [name |-> "a", level |-> "warn", appenders |-> <<>>]

\* A node that is refused, and one that ends the program.
BadLevel   == [A1 EXCEPT !.level = "loud"]
BadPattern == [name |-> "a", level |-> "info", formatter |-> "%m{", appenders |-> <<>>]

\* Files with these texts are loaded; a program sets the values below.
Texts == {<<R1, A1>>, <<BadLevel>>, <<BadPattern>>}

MCFromStr(n, text) == ToLoggers(text)

MCValues(n) == {{}, ToLoggers(<<R2>>)}

MCDefaultOf(n) == {}

MCDocuments == [{LoggersTag} -> Texts]
=============================================================================
