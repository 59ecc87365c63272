CONSTANTS
    a = a
    b = b
    bc = bc
    NoFrame = NoFrame
    NoTap = NoTap
    NULL = NULL
    Mac <- MCMac
    V4Group = {}
    V6Group = {}
    Broadcast = bc
    LowWord <- MCLowWord
    Frames <- MCFrames
    Contents <- MCContents
    FirstFd = 4
    MaxFd = 6
    NDev = 1
    CmdFaults = TRUE
    ForeignOps = {"attach"}
    Threshold = 2
    SockRoom = 2
    RuleGroup = 1
    Arguments = {1}
    StrayOk = {TRUE, FALSE}
    MaxCaptured = 4
    MaxStrays = 1
    MaxHanded = 3
SPECIFICATION PipeFairSpec
INVARIANT PipeTypeOK
INVARIANT TapInOrder
INVARIANT NoGap
PROPERTY PartsKept
PROPERTY ReachesTap
