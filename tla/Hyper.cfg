CONSTANTS
    NDev = 2
    MaxFd = 6
    FirstFd = 5
    NoTap = NoTap
    MAX_SIZE = 45
    MAX_PKT = 3
    Sizes <- MCSizes
    SockRoom = 1
SPECIFICATION HyperFairSpec
INVARIANT HyperTypeOK
INVARIANT PacketsWritten
INVARIANT DumpOverrun
INVARIANT Tap0Up
PROPERTY BatchEnds
