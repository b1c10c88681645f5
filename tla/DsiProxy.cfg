\* Two Java threads; attributes of each kind of answer and one that is not simulated (4), two in a
\* request; store requests of each kind: a registration, a write, reads and one that is unknown.
SPECIFICATION Spec
CONSTANTS
  Callers = {j1, j2}
  Enabled = {"power", "store", "input"}
  Attributes = {1, 4, 6}
  MaxAttributes = 2
  StoreEvents = {0, 1000, 1001, 1023, 1024}
  MaxInputs = 2
\* Callers may stop.
CHECK_DEADLOCK FALSE
INVARIANTS
  ForwardedOrAnswered
  EveryAttributeIsTried
