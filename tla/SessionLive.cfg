SPECIFICATION FairSpec
CONSTANTS
  Supervisors = {s1}
  NoOne = NoOne
CHECK_DEADLOCK FALSE
PROPERTIES
  CleanupEnds
  QemuEndsSession
