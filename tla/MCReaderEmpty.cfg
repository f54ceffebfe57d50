\* One block of up to two types with at most one constructor each.
SPECIFICATION Spec
CONSTANTS
    Parts = {"import"}
    MaxIndex = 0
    MaxLines = 1
    MaxRefs = 1
    t1 = t1
    t2 = t2
    t3 = t3
    Theorems <- MCTheorems
    TooDeep <- MCTooDeep
    BlobCells = 2
    MaxDamage = 1
    GroupBits = 3
    VarintBits = 8
    FieldBits = 6
    LevelDepth = 4
    Leaves <- MCLeaves
    MaxNodes = 3
    NameLines <- MCNameLines
    TypeIds = {1, 2}
    CtorIds = {6, 7}
    RecIds = {3, 4}
    AxiomIds = {1}
    MaxTypes = 2
    MaxCtors = 1
    MaxDecls = 1
INVARIANT HonestBlockHasOwners
CHECK_DEADLOCK FALSE
