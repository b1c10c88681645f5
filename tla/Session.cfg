SPECIFICATION Spec
CONSTANTS
  Supervisors = {s1, s2}
  NoOne = NoOne
SYMMETRY Symmetry
CHECK_DEADLOCK FALSE
INVARIANTS
  TypeOK
  CleanupIsComplete
  SessionsDoNotOverlap
