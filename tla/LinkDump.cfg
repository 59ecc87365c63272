CONSTANTS
    Good = 10
    BufLen = 12
    HdrLen = 2
    DoneLen = 1
    Families <- MCFamilies
    Attrs <- MCAttrs
    StatsLen = 16
    MaxAttrs = 2
    MaxLinks = 3
SPECIFICATION LinkDumpFairSpec
INVARIANT LinkDumpTypeOK
INVARIANT PrintedComplete
INVARIANT RestRight
PROPERTY MainEnds
CHECK_DEADLOCK FALSE
