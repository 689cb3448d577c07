---------------------------- MODULE MCWebServer ----------------------------
(* Small instances of WebServer for TLC.                                   *)
EXTENDS WebServer, TLC

\* Workers and connections are interchangeable in every safety property.
Symmetry == Permutations(Workers) \cup Permutations(Conns) \cup Permutations(Sockets)
=============================================================================
