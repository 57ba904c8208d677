CONSTANTS
  Thread = {t1, t2, t3}
  Byte = {0, 1}
  MaxBytes = 3
  MaxChunk = 2
SPECIFICATION FairSpec
INVARIANTS NothingStranded
PROPERTIES StableStorage StreamSpec EventuallySent
CHECK_DEADLOCK FALSE
