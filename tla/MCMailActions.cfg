CONSTANTS
    Accounts = {a1}
    Addresses = {ad1}
    NoAccount = NoAccount
    UIDs = {m1}
    NoUid = NoUid
    Writers = {}
    NoWriter = NoWriter
    ActThreads = {r1, r2}
    Requests <- SomeRequests
    MaxMail = 2
SPECIFICATION ActSpec
SYMMETRY ActSymmetry
INVARIANTS
    ActTypeOK
    StaleOnlyIfTouched
    OkMeansDone
PROPERTIES
    MailIsKept
