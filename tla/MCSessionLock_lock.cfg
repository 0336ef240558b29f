SPECIFICATION Spec
CONSTANTS
    Output = {o1, o2}
    Pinned = {o2}
    Spot = {left, right}
    Mode = {m1, m2}
    Lock = {l1, l2}
    Surface = {s1, s2}
    NoBox = NoBox
    NoLock = NoLock
    NoSurface = NoSurface
    NoOutput = NoOutput
    Freed = Freed
    KView = KView
SYMMETRY Symmetry
INVARIANTS TypeOK LockCovers KeyboardOnPrompt PointersLive
PROPERTIES StaysCovered

CHECK_DEADLOCK FALSE
