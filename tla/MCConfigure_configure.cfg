SPECIFICATION Spec
CONSTANTS
    Kind = {"xdg", "x11"}
    Slot = {4, 6}
    OutputWidth = 8
    Border = 1
    MinWidth = {0, 3}
    Natural = 3
    Step = 1
    MaxRequests = 4
INVARIANTS TypeOK AskedWhileWrong
PROPERTIES Settles
CHECK_DEADLOCK FALSE
