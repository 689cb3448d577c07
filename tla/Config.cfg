SPECIFICATION ConfigSpec
CONSTANTS
    Threads = {t1, t2}
    Names = {1, 2}
    Values <- MCValues
    DefaultOf <- MCDefaultOf
    Listeners = {l1, l2}
    Throwing = {l1}
    Documents <- MCDocuments
    FromStr <- MCFromStr
    Malformed = Malformed
    NoName = NoName
    NoValue = NoValue
    MaxVars = 2
    MaxSets = 3
INVARIANTS OneVariablePerName ListenersKnow
\* The program may stop when every call has returned.
CHECK_DEADLOCK FALSE
