CONSTANTS
  Sessions = {s1}
  Sockets = {c1}
  MaxAttempts = 1
  MaxLogins = 2
SPECIFICATION StreamFairSpec
PROPERTIES EveryLossRecovered
CHECK_DEADLOCK FALSE
