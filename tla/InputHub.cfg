SPECIFICATION FairSpec
CONSTANTS
  Submitters = {s1, s2}
  Inputs = {g1, g2}
  Slots = {c1, c2}
  NoSlot = NoSlot
  QueueBound = 2
  MaxEvents = 3
  Buttons <- MCButtons
INVARIANTS
  TypeOK
  OneSession
  NothingLost
  DeliveredInOrder
  ReleaseFollowsPress
PROPERTIES
  QueueMoves
  Reconnects
  SessionEnds
