CONSTANTS
  Threads = {t1}
  MaxBytes = 1
  MaxRequests = 2
  AddCanFail = TRUE
SPECIFICATION FairSpec
INVARIANTS NoUseAfterFree NothingStranded
PROPERTIES CloseHonoured StopReturns
CHECK_DEADLOCK FALSE
