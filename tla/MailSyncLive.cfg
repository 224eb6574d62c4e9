CONSTANTS
    Accounts = {a1}
    Addresses = {ad1, ad2}
    NoAccount = NoAccount
    UIDs = {m1, m2, m3}
    NoUid = NoUid
    Writers = {t1}
    NoWriter = NoWriter
    SyncThreads = {t1}
    Poison = {m3}
    HeaderOnly = {m2}
    Faulty = FALSE
    MaxArrivals = 3
SPECIFICATION SyncFairSpec
PROPERTIES
    SyncIsAnswered
    SavedUnlessBlocked
