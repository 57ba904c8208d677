CONSTANTS
  Workers = {w1, w2}
  Threads = {t1}
  MaxBytes = 2
  Nobody = Nobody
SPECIFICATION FairSpec
INVARIANTS OutlivesUsers CallbacksSerial CloseActedOn
PROPERTIES StopReturns
CHECK_DEADLOCK FALSE
