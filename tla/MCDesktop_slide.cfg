SPECIFICATION FairSpec
CONSTANTS
    View = {v1, v2}
    Output = {o1}
    Tag = {t1, t2}
    FirstTag = t1
    NoView = NoView
    NoOutput = NoOutput
    LockSurface = LockSurface
    AnimEnabled = TRUE
    Requests = {"tagset"}
PROPERTIES ScreenConverges
