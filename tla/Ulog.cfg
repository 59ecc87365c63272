CONSTANTS
    Threshold = 3
    SockRoom = 2
    NULL = NULL
    RuleGroup = 32
    Arguments <- MCArguments
    StrayOk = {TRUE, FALSE}
    MaxCaptured = 5
    MaxStrays = 1
    MaxHanded = 4
SPECIFICATION UlogFairSpec
INVARIANT UlogTypeOK
INVARIANT Unbroken
INVARIANT CursorInside
INVARIANT OthersUnheard
PROPERTY AllHanded
