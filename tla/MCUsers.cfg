CONSTANTS
    UserThreads = {u1, u2}
    Browsers = {b1}
    LoginIds = {l1, l2}
    Passwords = {p, q}
    NoPassword = NoPassword
    Mailboxes = {m1}
    BoxedUpTo = 1
    MaxUsers = 2
    MaxAccounts = 2
    MaxStarts = 1
    MaxWraps = 2
SPECIFICATION UsersSpec
SYMMETRY UsersSymmetry
INVARIANTS
    UsersTypeOK
    SessionIsOwn
    AccountPerFirstForm
PROPERTIES
    SettingsAreOwn
    WorkingAccountStays
    PasswordChangeIsKnown
