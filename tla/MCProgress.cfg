SPECIFICATION ProgressSpec
CONSTANTS
    Loop = {"driver", "iterator", "like", "begin"}
    MaxDocs = 3
    Key = {1, 2, 3}
    itBufSize = 2
    InPattern = {97, 37, 92, 95}
    InString = {65, 37}
    MaxPattern = 4
    MaxString = 3
    Proc = {p1, p2, p3}
    Tx = {t1, t2, t3}
    None = None
INVARIANTS
    LoopsTypeOK NoPanic RowsAreDocs OutcomeIsKnown IterationIsExact MatchesPattern
PROPERTIES DriverReturns LoopsReturn BeginReturns
