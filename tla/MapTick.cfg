CONSTANTS
  Workers = {w1, w2}
  World = World
  Shores = {s1, s2}
  Instances = {i1}
  Decks = {d1}
  None = None
  MaxTicks = 2
  MaxPosts = 1
SPECIFICATION FairSpec
INVARIANTS OneOwner EachMapOnce PostsSettled NobodySleepsOverWork
PROPERTIES TickEnds
CHECK_DEADLOCK FALSE
