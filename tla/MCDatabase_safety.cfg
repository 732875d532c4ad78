SPECIFICATION Spec
CONSTANTS
    Proc = {p1, p2, p3}
    Tx = {t1, t2, t3}
    None = None
    Val = {0, 1}
    InitVal = 0
    Options <- AnyOption
    MayCancel = TRUE
    MayClose = TRUE
SYMMETRY Sym
CONSTRAINT Unshared
CHECK_DEADLOCK FALSE
INVARIANTS WriterExclusive NoStrayUnlock SnapshotReads BeginsOnCommitted AttachedHoldsLock ClosedAfterAll
