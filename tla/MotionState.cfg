CONSTANTS
  Flags = {Root}
  Speeds = {RunSpeed}
  Rates = {TurnRate}
  Gaits = {Gait}
  None = None
  MaxOps = 4
  MaxFaults = 1
SPECIFICATION FairSpec
INVARIANTS CountersApart NothingForgotten
PROPERTIES OnlyWhatWasDone Negotiated
CHECK_DEADLOCK FALSE
