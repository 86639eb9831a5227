SPECIFICATION Spec
CONSTANTS
    d1 = d1
    d2 = d2
    d3 = d3
    l1 = l1
    l2 = l2
    l3 = l3
    f1 = f1
    f2 = f2
    s1 = s1
    s2 = s2
    s3 = s3
    Ids = {d1, d2, d3}
    Gids = {}
    Locators = {l1, l2, l3}
    Fingerprints = {f1, f2}
    Sessions = {s1, s2, s3}
    NoId = NoId
    NoGid = NoGid
    NoRow = NoRow
    NoKey = NoKey
    FpOf <- MCFpOf
    Drafts <- MCDrafts
SYMMETRY Symmetry
INVARIANTS
    TypeOK
PROPERTIES
    NoLostUpdate
    ImplementsInMem
CHECK_DEADLOCK TRUE
