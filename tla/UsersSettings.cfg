CONSTANTS
    UserThreads = {u1}
    Browsers = {b1}
    LoginIds = {l1}
    Passwords = {p}
    NoPassword = NoPassword
    Mailboxes = {m1}
    BoxedUpTo = 1
    MaxUsers = 1
    MaxAccounts = 2
    MaxStarts = 1
    MaxWraps = 2
SPECIFICATION UsersSpec
INVARIANTS
    MailPasswordIsKept
