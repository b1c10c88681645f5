SPECIFICATION Spec
CONSTANTS
  Supervisors = {s1}
  NoOne = NoOne
CHECK_DEADLOCK FALSE
INVARIANTS
  StoppedIncludesEverything
