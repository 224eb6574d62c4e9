CONSTANTS
    Accounts = {a1}
    Addresses = {ad1, ad2}
    NoAccount = NoAccount
    UIDs = {m1, m2}
    NoUid = NoUid
    Writers = {t1, t2}
    NoWriter = NoWriter
    SyncThreads = {t1, t2}
    Poison = {}
    HeaderOnly = {}
    Faulty = TRUE
    MaxArrivals = 2
SPECIFICATION SyncSpec
SYMMETRY SyncSymmetry
INVARIANTS
    SyncTypeOK
    DuplicatesNeedTwoThreads
    OkMeansListed
    FiledWhereItCameFrom
    CountIsRowsAdded
