SPECIFICATION Spec
CONSTANTS
    a = a
    b = b
    w1 = w1
    w2 = w2
    NoDownload = NoDownload
    Base <- MCBase
    Downloads = {a, b}
    Deleters = {w1, w2}
    Scenes <- MCScenes
    Strip <- MCStrip
    Names <- MCNames
    MaxTries = 2
SYMMETRY Symmetry
INVARIANTS
    StaysUnderBase
    OnlyProven
    DeletedMeansGone
    NoEmptiedFolder
CHECK_DEADLOCK TRUE
