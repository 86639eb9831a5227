SPECIFICATION Spec
CONSTANTS
    r1 = r1
    r2 = r2
    d1 = d1
    d2 = d2
    g1 = g1
    g2 = g2
    g3 = g3
    l1 = l1
    l2 = l2
    f1 = f1
    NoId = NoId
    NoGid = NoGid
    NoRow = NoRow
    Loop = Loop
    Poll = Poll
    Polling = FALSE
    FpOf <- OneFp
    Locators = {l1}
    Fingerprints = {f1}
    Reqs = {r1, r2}
    Ids = {d1}
    Gids = {g1, g2}
    Cap = 2
    Faults = {"refused"}
    Magnets = FALSE
    Announced = {"onDownloadComplete", "onDownloadError", "onDownloadStop"}
    Posted = {"Queued"}
    Ops = {"Active", "Paused", "Cancelled"}
    MaxRequests = 4
SYMMETRY Symmetry
INVARIANTS
    LiveTasksTracked
    StartMeetsNoComplete
CHECK_DEADLOCK TRUE
