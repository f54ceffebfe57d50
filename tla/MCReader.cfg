\* Files of at most four lines over two indices; three theorems, blobs of two
\* cells, one damaged cell; bytes of four bits, three of them for a number; two
\* inductive blocks, the second of which may use what is left of the names.
SPECIFICATION Spec
CONSTANTS
    Parts = {"lifetime", "store", "codec", "import"}
    MaxIndex = 1
    MaxLines = 4
    MaxRefs = 1
    t1 = t1
    t2 = t2
    t3 = t3
    Theorems <- MCTheorems
    TooDeep <- MCTooDeep
    BlobCells = 2
    MaxDamage = 1
    GroupBits = 3
    VarintBits = 8
    FieldBits = 6
    LevelDepth = 4
    Leaves <- MCLeaves
    MaxNodes = 3
    NameLines <- MCNameLines
    TypeIds = {1, 2}
    CtorIds = {6, 7}
    RecIds = {3, 4, 5}
    AxiomIds = {8}
    MaxTypes = 2
    MaxCtors = 1
    MaxDecls = 2
INVARIANTS
    TypeOK
    NothingReleasedTooEarly
    NothingKeptTooLong
    SameProofOrNone
    NoUnfoldingLost
    BlobIsItsTerm
    OneConstantPerName
    BlocksAreWhole
    OwnersAreNamed
SYMMETRY Symmetry
CHECK_DEADLOCK FALSE
