SPECIFICATION StopSpec
CONSTANTS
  Supervisors = {s1}
  NoOne = NoOne
CHECK_DEADLOCK FALSE
INVARIANTS
  StopIsComplete
  StopSucceeds
