CONSTANTS
    x = x
    y = y
    Accounts = {a1}
    Addresses = {ad1, ad2}
    NoAccount = NoAccount
    UIDs = {}
    NoUid = NoUid
    Writers = {}
    NoWriter = NoWriter
    SendThreads = {s1, s2}
    Recipients = {x, y}
    Letters <- SomeLetters
    MaxSends = 2
SPECIFICATION SendFairSpec
INVARIANTS
    SendTypeOK
    AllOrNobody
    OkMeansSent
    CopyIsOfASentMail
PROPERTIES
    SendIsAnswered
