SPECIFICATION Spec
CONSTANTS
    View = {v1, v2, v3}
    NoView = NoView
    Nil = Nil
    Area <- MCArea
    Cursor <- MCCursor
    Delta <- MCDelta
    Gap = 1
    PreserveSplit = TRUE
    Commands = {"toggle", "swap", "rotate", "ratio", "root"}
SYMMETRY Symmetry
CONSTRAINT OneAside
INVARIANTS TypeOK WellLinked LeavesTile RotationsCancel MovesToRoot
PROPERTIES OthersStay
