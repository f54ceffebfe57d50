SPECIFICATION Spec
CONSTANTS
    Term <- MCTerm
    Shape <- MCShape
    Hd <- MCHd
    Args <- MCArgs
    Step <- MCStep
    Major <- MCMajor
    Canonical <- MCCanonical
    Rank <- MCRank
    OpaqueHints <- MCOpaqueHints
    HeadStep <- MCHeadStep
    Conv <- MCConv
    Pairs <- MCPairs
    MaxQueries = 2
    ConvDepth = 2
    MaxFallbackTries = 2
    LazyDeltaSteps = 3
    HeadRounds = 3
INVARIANTS
    AbortIsPerWhnfCall
