SPECIFICATION Spec
CONSTANTS
    r1 = r1
    r2 = r2
    d1 = d1
    d2 = d2
    g1 = g1
    g2 = g2
    g3 = g3
    l1 = l1
    l2 = l2
    f1 = f1
    NoId = NoId
    NoGid = NoGid
    NoRow = NoRow
    Loop = Loop
    Poll = Poll
    Polling = FALSE
    FpOf <- EachFp
    Locators = {l1, l2}
    Fingerprints = {l1, l2}
    Reqs = {r1}
    Ids = {d1, d2}
    Gids = {g1, g2, g3}
    Cap = 1
    Faults = {"crash"}
    Magnets = TRUE
    Announced = {"onDownloadComplete", "onDownloadError"}
    Posted = {"Active"}
    Ops = {}
    MaxRequests = 3
SYMMETRY Symmetry
INVARIANTS
    GidsBelong
CHECK_DEADLOCK TRUE
