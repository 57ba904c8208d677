CONSTANTS
  Sessions = {s1, s2}
  Sockets = {c1, c2}
  First = c1
  Neighbour = s2
  MaxAttempts = 2
  MaxLogins = 2
SPECIFICATION MCSpec
INVARIANTS TicketsSingle StreamIsOurs
PROPERTIES LoginSettles LossRecovered
CHECK_DEADLOCK FALSE
