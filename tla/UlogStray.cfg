CONSTANTS
    Threshold = 3
    SockRoom = 2
    NULL = NULL
    RuleGroup = 32
    Arguments <- MCArguments
    StrayOk = {FALSE}
    MaxCaptured = 2
    MaxStrays = 1
    MaxHanded = 1
SPECIFICATION UlogSpec
INVARIANT OnlyUlogPackets
