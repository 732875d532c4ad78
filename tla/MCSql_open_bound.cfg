CONSTANTS
    MaxInt = 7
    Parts = {"query"}
    Schemas <- UntypedSchemas
    Statements <- OpenBound
    Contents <- MCContents
    Params <- MCParams
    Given <- MCGiven
    Added <- MCAdded
    Input <- MCInput
    Change <- MCChange
    MaxStored = 1
    Samples <- MCSamples
    Texts <- MCTexts
SPECIFICATION SqlSpec
INVARIANTS SameResult
CHECK_DEADLOCK FALSE
