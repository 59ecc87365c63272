CONSTANTS
    a = a
    b = b
    c = c
    g4 = g4
    g6 = g6
    bc = bc
    Mac <- MCMac
    V4Group <- MCV4Group
    V6Group <- MCV6Group
    Broadcast = bc
    LowWord <- MCLowWord
    NoFrame = NoFrame
    NoTap = NoTap
    FirstFd = 4
    Frames <- TwoStationFrames
    NDev = 1
    MaxFd = 7
    CmdFaults = FALSE
    ForeignOps = {}
SPECIFICATION Spec
INVARIANT GroupNotLearned
