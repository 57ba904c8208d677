CONSTANTS
  Callers = {c1}
  World = World
  Worker = Worker
  MaxOps = 3
  MaxLen = 2
SPECIFICATION FairSpec
INVARIANTS TransactionsWhole ReportedDurable NothingDiscarded
PROPERTIES WritesInOrder Settles
CHECK_DEADLOCK FALSE
