\* Every task ends within the alive time of its client.
SPECIFICATION FairSpec
CONSTANTS
    Sockets = {s1, s2}
    Conns = {c1, c2}
    Workers = {w1, w2}
    NoConn = NoConn
    NoSocket = NoSocket
    Timely = TRUE
INVARIANTS NoAssertionFails NoNullClient
PROPERTIES MarkedIsClosed StrandedIsClosed
