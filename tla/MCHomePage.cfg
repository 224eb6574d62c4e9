CONSTANTS
    MaxMails = 2
    PageSize = 1
    Slots = {c1, c2}
    Hasty = {"list"}
    NoCall = NoCall
    NoRow = NoRow
SYMMETRY CallSymmetry
SPECIFICATION HomeSpec
INVARIANTS
    HomeTypeOK
    ListIsTheFolder
PROPERTIES
    TrashFirst
