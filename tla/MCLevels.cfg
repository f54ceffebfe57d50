SPECIFICATION Spec
CONSTANTS
    Params = {u, v}
    MaxLevels = 6
    MaxHeight = 3
    MaxValue = 5
SYMMETRY ParamSymmetry
INVARIANTS
    InstantiateKeepsMeaning
    OwnParametersKeepLevels
    PropIsExact
    LeqIsExactWithoutIMax
CHECK_DEADLOCK FALSE
