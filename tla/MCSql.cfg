CONSTANTS
    MaxInt = 7
    Parts = {"query", "schema", "values", "parser"}
    Schemas <- MCSchemas
    Statements <- MCStatements
    Contents <- MCContents
    Params <- MCParams
    Given <- MCGiven
    Added <- MCAdded
    Input <- MCInput
    Change <- MCChange
    MaxStored = 1
    Samples <- MCSamples
    Texts <- MCTexts
SPECIFICATION SqlSpec
INVARIANTS SameResult RowsAreSelected OrderIsKept GroupsPartition Conforms Settled EncodingKeepsOrder OrderIsTotal ArithmeticIsExact ParsesAsGrammar
CHECK_DEADLOCK FALSE
