SPECIFICATION Spec
CONSTANTS
    View = {v1, v2}
    Button = {left}
    Key = {k}
    Bound = {k}
    NoView = NoView
    Mod = Mod
    Width = 3
    MaxWidth = 2
    BarPixels = {2}
    Places <- MCPlaces
    Region <- MCRegion
    Kinds <- MCKinds
    Binds = {"move"}
    Sessions = {{"button", "key"}}
SYMMETRY Symmetry
INVARIANTS ReleaseBalancesPress
