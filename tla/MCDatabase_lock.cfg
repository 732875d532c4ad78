SPECIFICATION Spec
CONSTANTS
    Proc = {p1, p2}
    Tx = {t1, t2}
    None = None
    Val = {0, 1}
    InitVal = 0
    Options <- AnyOption
    MayCancel = TRUE
    MayClose = FALSE
CHECK_DEADLOCK FALSE
INVARIANTS LockHasOwner
