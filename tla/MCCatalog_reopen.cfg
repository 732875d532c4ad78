SPECIFICATION Spec
CONSTANTS
  None = None
  TableName = {ta, tb}
  IndexName = {ix}
  MaxDup = 0
  MaxStore = 2
  MaxStmts = 2
  SeqCache = 2
  NewLists = {"none", "flat", "within", "nested"}
CHECK_DEADLOCK FALSE
INVARIANT CanReopen
