CONSTANTS
    MaxMails = 3
    PageSize = 1
    Slots = {c1}
    Hasty = {}
    NoCall = NoCall
    NoRow = NoRow
SPECIFICATION HomeSpec
INVARIANTS
    EmptiedPageLeadsOn
