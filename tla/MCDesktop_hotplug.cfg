SPECIFICATION Spec
CONSTANTS
    View = {v1, v2}
    Output = {o1, o2}
    Tag = {t1, t2}
    FirstTag = t1
    NoView = NoView
    NoOutput = NoOutput
    LockSurface = LockSurface
    AnimEnabled = FALSE
    Requests = {"unplug", "move", "monitor", "tags", "reload", "sync"}
SYMMETRY Symmetry
INVARIANTS NoDangling
PROPERTIES UnplugKeepsWindows
