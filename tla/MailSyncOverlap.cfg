CONSTANTS
    Accounts = {a1}
    Addresses = {ad1}
    NoAccount = NoAccount
    UIDs = {m1}
    NoUid = NoUid
    Writers = {t1, t2}
    NoWriter = NoWriter
    SyncThreads = {t1, t2}
    Poison = {}
    HeaderOnly = {}
    Faulty = FALSE
    MaxArrivals = 1
SPECIFICATION SyncSpec
INVARIANTS
    StoredOnce
