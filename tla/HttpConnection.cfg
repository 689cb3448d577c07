SPECIFICATION FairSpec
CONSTANTS
    Requests <- MCRequests
    Files = {"index", "file"}
    FileSize = 2
    MaxRequests = 2
    MaxAnswers = 4
INVARIANTS
    WellFramed
PROPERTIES
    AnsweringEnds
    InputIsEchoed
CHECK_DEADLOCK FALSE
