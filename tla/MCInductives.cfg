SPECIFICATION Spec
CONSTANTS
    ConstNames <- MCNames
    Universes <- MCUniverses
    MaxHeight = 20
    Prior <- MCPrior
    Blocks <- MCBlocks
    LevelLists <- MCLevelLists
    MaxLevelId = 5
    UniverseLists <- MCUniverseLists
    WordBits = 64
    UsedSetCap = 64
    GiveUps = {FALSE, TRUE}
    IndexTerms <- MCIndexTerms
INVARIANTS
    ReductsAreLeans
    TypeOK
    RecursorsAreLeans
    PositivityIsExact
    SecondLookAgrees
    ComparedByPosition
    QuotientIsTheKernels
CHECK_DEADLOCK FALSE
