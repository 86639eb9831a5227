SPECIFICATION Spec
CONSTANTS
    r1 = r1
    r2 = r2
    d1 = d1
    d2 = d2
    g1 = g1
    g2 = g2
    g3 = g3
    l1 = l1
    l2 = l2
    f1 = f1
    NoId = NoId
    NoGid = NoGid
    NoRow = NoRow
    Loop = Loop
    Poll = Poll
    Polling = FALSE
    FpOf <- OneFp
    Locators = {l1}
    Fingerprints = {f1}
    Reqs = {r1, r2}
    Ids = {d1}
    Gids = {g1, g2}
    Cap = 1
    Faults = {"crash"}
    Magnets = TRUE
    Announced = {"onDownloadComplete", "onDownloadStop"}
    Posted = {"Active"}
    Ops = {"Resume", "Paused", "Cancelled"}
    MaxRequests = 3
SYMMETRY Symmetry
INVARIANTS
    CompleteIsTrue
    TrackedOnce
CHECK_DEADLOCK TRUE
