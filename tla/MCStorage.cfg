SPECIFICATION StorageSpec
CONSTANTS
    Nil = Nil
    IntMin <- MinInt6
    IntMax = 31
    Infos <- Kinds
    None = None
    TableName = {ta, tb}
    IndexName = {ix}
    MaxDup = 0
    MaxStore = 3
    MaxStmts = 2
    SeqCache = 2
    NewLists = {"none", "within"}
    Field = {"a", "b"}
INVARIANTS
    StorageTypeOK LeaseCovers GapBounded
    CacheAgrees SchemaClosed SequencesHaveRows StoresDistinct
    IndexAgrees UniqueHolds 
PROPERTY Monotonic
CONSTRAINT Kempt
SYMMETRY Sym
CHECK_DEADLOCK FALSE
