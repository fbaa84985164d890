CONSTANTS
    n = n
    e = e
    a = a
    p = p
    q = q
    Nodes = {n}
    Edges = {e}
    Annotations = {a}
    Texts = {t}
    MinRows = 1
    MaxRows = 2
    Slots <- MCSlots
    Hook <- MCHook
    About <- MCAbout
    Casts <- MCCasts
    MaxGestures = 5
    MaxSends = 2
    MaxLog = 2
SPECIFICATION CanvasSpec
INVARIANTS
    LocksHold
    PaneIsCoherent
    CanvasIsSound
PROPERTIES
    FailedDraftsComeBack
CHECK_DEADLOCK FALSE
