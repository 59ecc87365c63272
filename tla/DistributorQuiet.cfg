CONSTANTS
    a = a
    b = b
    c = c
    g4 = g4
    g6 = g6
    bc = bc
    Mac <- MCMac
    V4Group <- MCV4Group
    V6Group <- MCV6Group
    Broadcast = bc
    LowWord <- MCLowWord
    NoFrame = NoFrame
    NoTap = NoTap
    FirstFd = 4
    Frames <- HairpinFrames
    NDev = 3
    MaxFd = 8
    CmdFaults = FALSE
    ForeignOps = {"attach", "mktun"}
SPECIFICATION Spec
INVARIANT ListedDevicesUp
INVARIANT CopyFate
