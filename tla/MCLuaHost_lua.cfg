SPECIFICATION Spec
CONSTANTS
    Key = {1}
    Button = {1}
    Event = {"focus", "manage"}
    Bar = {"b1"}
    Window = {"w1"}
    Visual = {"gap"}
    Behavior = {"focus_follows_mouse"}
    Monitor = {"DP-1"}
    Mode = {"preferred", "other"}
    MaxDepth = 2
    MaxOps = 2
    MaxSlots = 3
    MaxHooks = 3
    MaxTimers = 3
    MaxReloads = 2
    Sessions <- MCSessions
INVARIANTS TypeOK RefsOwned HooksAllTold TimersArmed RulesInForce
PROPERTIES ReloadIsAtomic TimersFireBeforeTheyGo
CHECK_DEADLOCK FALSE
