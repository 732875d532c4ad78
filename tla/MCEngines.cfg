SPECIFICATION EnginesSpec
CONSTANTS
    Name = {s1, s2}
    Key = {k1}
    Val = {v1, v2}
    Tree = {b1, b2, b3, b4}
    Handle = {h1, h2}
    Nil = Nil
    NoStore = NoStore
    NoTree = NoTree
    MaxOps = 4
    MaxWild = 2
    Wild = {FALSE, TRUE}
    DiskName <- MCDiskName
    DiskKey <- MCDiskKey
    DiskVal = {1}
    DiskOps = 3
    DiskNil = Nil
    DiskNoStore = NoStore
    Hidden = Hidden
    Empty = Empty
    NoValue = NoValue
SYMMETRY Sym
INVARIANTS
    EnginesTypeOK NothingLeftBehind ScansAreComplete
PROPERTIES EnginesImplement
