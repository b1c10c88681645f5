SPECIFICATION Spec
CONSTANTS
  Submitters = {s1}
  Inputs = {g1}
  Slots = {c1, c2}
  NoSlot = NoSlot
  QueueBound = 2
  MaxEvents = 2
  Buttons <- MCButtons
INVARIANTS
  DisconnectedQueueIsEmpty
