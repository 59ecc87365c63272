CONSTANTS
    c1 = c1
    c0 = c0
    other = other
    NoFrame = NoFrame
    NoTap = NoTap
    PcapFrames <- MCFrames
    StationC1 = c1
    Station00 = c0
    NDev = 2
    MaxFd = 5
    FirstFd = 4
SPECIFICATION PcapFairSpec
INVARIANT PcapTypeOK
INVARIANT ThirdRepeatsSecond
INVARIANT CopiesNeverExact
PROPERTY CallbackReturns
