CONSTANTS
  Links = {c1, c2, c3}
  Senders = {w1, w2}
  MaxHeld = 1
  MaxPackets = 3
  MaxGeneration = 3
SPECIFICATION Spec
SYMMETRY LinksSymmetry
INVARIANTS Accounted ResumeFirst NewestHolds
CHECK_DEADLOCK FALSE
