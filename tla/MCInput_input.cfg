SPECIFICATION Spec
CONSTANTS
    View = {v1, v2}
    Button = {left}
    Key = {k}
    Bound = {k}
    NoView = NoView
    Mod = Mod
    Width = 3
    MaxWidth = 2
    BarPixels = {2}
    Places <- MCPlaces
    Region <- MCRegion
    Kinds <- MCKinds
    Binds = {"move", "resize"}
    Sessions <- MCSessions
SYMMETRY Symmetry
INVARIANTS TypeOK ConstraintFollowsPointer NoStuckKey
PROPERTIES ConfinedStaysInside
