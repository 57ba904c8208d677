CONSTANTS
  c1 = c1
  c2 = c2
  c3 = c3
  a1 = a1
  a2 = a2
  Conns = {c1, c2, c3}
  Accounts = {a1, a2}
  None = None
  AccountOf <- MCAccountOf
  Staff = {}
  Limit = 1
  MaxPackets = 2
SPECIFICATION FairSpec
INVARIANTS RegistrySound  NobodyForgotten
PROPERTIES ClosedIsReaped
CHECK_DEADLOCK FALSE
