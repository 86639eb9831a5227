SPECIFICATION Spec
CONSTANTS
    d1 = d1
    d2 = d2
    d3 = d3
    l1 = l1
    l2 = l2
    l3 = l3
    f1 = f1
    f2 = f2
    Ids = {d1, d2, d3}
    Gids = {}
    Locators = {l1, l2, l3}
    Fingerprints = {f1, f2}
    NoId = NoId
    NoGid = NoGid
    NoRow = NoRow
    NoKey = NoKey
    FpOf <- MCFpOf
    Drafts <- MCDrafts
INVARIANTS
    TypeOK
    IndexExact
PROPERTIES
    DeletedStaysDeleted
    ImplementsStore
CHECK_DEADLOCK TRUE
