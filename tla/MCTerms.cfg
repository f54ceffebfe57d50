\* Words of two bits and lists of two; four nodes, of which two fill the table.
SPECIFICATION Spec
CONSTANTS
    WordBits = 2
    UsedSetCap = 2
    ConstNames = {"c", "S"}
    Universes = {"u", "v"}
    MaxHeight = 8
    MaxIndex = 3
    MaxSize = 5
    MaxArgs = 2
    LevelMaps <- MCLevelMaps
    Pieces <- MCPieces
    MaxDepth = 5
    MaxEntries = 1
    Types <- MCTypes
    Queries <- MCQueries
    Ops <- MCOps
    Arity <- MCArity
    HashOf <- MCHashOf
    InternReset = 2
    CollectStep = 1
    MemoCap = 1
    Extras = {s, t}
    MaxMemo = 1
    MaxNodes = 4
INVARIANTS
    TypeOK
    SummariesAreExact
    SubstitutionIsExact
    KeysStandForMeanings
    IdentityIsEquality
    MemosFit
SYMMETRY Symmetry
CHECK_DEADLOCK FALSE
