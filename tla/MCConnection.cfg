CONSTANTS
    MaxMessages = 2
SPECIFICATION ConnFairSpec
INVARIANTS
    ConnTypeOK
    InStep
    OkIsEarned
    ClosedUnlessNamed
PROPERTIES
    RequestEnds
