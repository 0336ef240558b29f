SPECIFICATION Spec
CONSTANTS
    View = {v1, v2}
    Output = {o1}
    Tag = {t1}
    FirstTag = t1
    NoView = NoView
    NoOutput = NoOutput
    LockSurface = LockSurface
    AnimEnabled = FALSE
    Requests = {"minimize", "focus", "lock", "reload", "grab", "float"}
SYMMETRY Symmetry
INVARIANTS FocusCoherent SyncFresh LockKeepsKeyboard
PROPERTIES LockKeepsFocus
