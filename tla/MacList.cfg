CONSTANTS
    Mac = {a, b, c3}
    Node = {n1, n2, n3}
    NULL = NULL
    WILD = WILD
SPECIFICATION ListFairSpec
INVARIANT ListTypeOK
INVARIANT ChainSound
INVARIANT NumbersInOrder
PROPERTY ImplementsList
PROPERTY CallsReturn
