\* Tasks may outlive the alive time of their client.
SPECIFICATION Spec
CONSTANTS
    Sockets = {s1, s2}
    Conns = {c1, c2, c3}
    Workers = {w1, w2}
    NoConn = NoConn
    NoSocket = NoSocket
    Timely = FALSE
SYMMETRY Symmetry
INVARIANTS KeysAgree SocketOwnership Exclusive
PROPERTY NeverRevived
