SPECIFICATION Spec
CONSTANTS
    Name = {s1}
    Key = {k1}
    Val = {1, 2}
    Tree = {b1, b2, b3, b4, b5, b6}
    Handle = {h1, h2}
    Nil = Nil
    NoStore = NoStore
    NoTree = NoTree
    MaxOps = 2
    MaxWild = 2
    Wild = {TRUE}
SYMMETRY Sym
PROPERTIES RollbackCancels
