CONSTANTS
    Accounts = {a1}
    Addresses = {ad1, ad2}
    NoAccount = NoAccount
    UIDs = {m1}
    NoUid = NoUid
    Writers = {t1}
    NoWriter = NoWriter
    SyncThreads = {t1}
    Poison = {}
    HeaderOnly = {}
    Faulty = TRUE
    MaxArrivals = 1
    ActThreads = {r1}
    Requests <- SomeRequests
    MaxMail = 1
SPECIFICATION MailboxSpec
PROPERTIES
    WaitingUserSeesAtomicMail
    MailVanishesByClick
