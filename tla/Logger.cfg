SPECIFICATION FairSpec
CONSTANTS
    Threads = {t1, t2}
    Events = {e1, e2, e3, e4}
    Minor = {e3}
    Appenders = {a1, a2}
    MaxAppenders = 2
    Capacity = 2
    Nobody = Nobody
    Writer = Writer
    NoEvent = NoEvent
    Null = Null
INVARIANTS NothingLost
PROPERTIES DestroyEnds LoggedUnlessStuck
\* A full queue may stop every thread, as Log waits for room with the mutex.
CHECK_DEADLOCK FALSE
