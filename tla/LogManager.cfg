SPECIFICATION FairSpec
CONSTANTS
    Threads = {t1, t2}
    Names = {1}
    Values <- MCValues
    DefaultOf <- MCDefaultOf
    Listeners = {manager}
    Throwing = {}
    Documents <- MCDocuments
    FromStr <- MCFromStr
    Malformed = Malformed
    NoName = NoName
    NoValue = NoValue
    MaxVars = 1
    MaxSets = 2
    Users = {t2}
    LoggersTag = 1
    Manager = manager
    LoggerNames = {"root", "a"}
    RootName = "root"
    Levels = {"info", "warn"}
    DefaultLevel = "info"
    StdOut = "stdout"
    File = "file"
    Strings = {"", "%m", "%m{", "log.txt"}
    Empty = ""
    BadPatterns = {"%m{"}
    NoThread = NoThread
    MaxLoggers = 2
INVARIANTS ConfiguredAsWritten
PROPERTIES CompleteIsKept ManagerIsFreed SetValueEnds
\* The program may stop: every call has returned, or threads are stuck.
CHECK_DEADLOCK FALSE
