CONSTANTS
  Workers = {w1, w2}
  Threads = {t1}
  MaxBytes = 1
  Nobody = Nobody
SPECIFICATION Spec
INVARIANTS WorldNeverTouchesFreed
CHECK_DEADLOCK FALSE
