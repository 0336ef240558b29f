SPECIFICATION Spec
CONSTANTS
    View = {v1, v2}
    Output = {o1}
    Tag = {t1, t2}
    FirstTag = t1
    NoView = NoView
    NoOutput = NoOutput
    LockSurface = LockSurface
    AnimEnabled = FALSE
    Requests = {"fullscreen", "float", "tags", "tagset"}
SYMMETRY Symmetry
INVARIANTS TypeOK LayoutFresh TiledInSlot ShownIffVisible
