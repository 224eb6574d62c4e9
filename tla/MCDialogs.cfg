CONSTANTS
    Syncs = {s1, s2}
    MaxCalls = 2
    MaxBackdrops = 2
    MaxHiding = 2
SPECIFICATION DialogsFairSpec
INVARIANTS
    DialogsTypeOK
    OneSyncAtATime
    AtRest
    PageWaits
PROPERTIES
    PostedTwiceOnlyWhileFading
    WrittenTextIsKept
    PageComesBack
