CONSTANTS
    MaxInt = 7
    Parts = {"query"}
    Schemas <- MCSchemas
    Statements <- MCStatements
    Contents <- MCContents
    Params <- MCParams
    Given <- MCGiven
    Added <- MCAdded
    Input <- MCInput
    Change <- MCChange
    MaxStored = 1
    Samples <- MCSamples
    Texts <- MCTexts
SPECIFICATION DDLSpec
INVARIANTS SameResult
CHECK_DEADLOCK FALSE
