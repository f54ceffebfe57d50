SPECIFICATION Spec
CONSTANTS
    Params = {u}
    MaxLevels = 7
    MaxHeight = 4
    MaxValue = 6
INVARIANTS
    EqualLevelsMeanTheSame
CHECK_DEADLOCK FALSE
