\* A task that outlives the alive time of its client.
SPECIFICATION Spec
CONSTANTS
    Sockets = {s1}
    Conns = {c1}
    Workers = {w1}
    NoConn = NoConn
    NoSocket = NoSocket
    Timely = FALSE
INVARIANT NoAssertionFails
