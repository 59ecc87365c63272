CONSTANTS
    a = a
    b = b
    c = c
    g4 = g4
    g6 = g6
    bc = bc
    Mac <- MCMac
    V4Group <- MCV4Group
    V6Group <- MCV6Group
    Broadcast = bc
    LowWord <- MCLowWord
    NoFrame = NoFrame
    NoTap = NoTap
    FirstFd = 4
    Frames <- TwoStationFrames
    NDev = 2
    MaxFd = 7
    CmdFaults = TRUE
    ForeignOps = {"attach", "mktun", "rmtun"}
SPECIFICATION FairSpec
INVARIANT TypeOK
INVARIANT TableSound
INVARIANT NumbersBounded
INVARIANT UnicastIsolation
INVARIANT BroadcastComplete
INVARIANT BroadcastNotLearned
PROPERTY ImplementsPromise
PROPERTY FrameDone
