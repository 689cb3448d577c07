SPECIFICATION TextSpec
CONSTANTS
    \* % & + = a 2
    FormChars = {37, 38, 43, 61, 97, 50}
    MaxForm = 6
    CoreChars = {38, 61, 97}
    MaxCore = 11
    PatternChars = {"%", "{", "}", "m", "-"}
    MaxPattern = 7
    PageChars = {"CR", "LF", "<$", "$>", "user", "msg"}
    MaxPage = 6
    Params <- MCParams
    Refused = Refused
    Letters = {"m"}
    Tags <- MCTags
    Invalid = Invalid
INVARIANTS FormIsRead PatternIsKept PageIsWhole
\* Every input has been grown to its full length.
CHECK_DEADLOCK FALSE
