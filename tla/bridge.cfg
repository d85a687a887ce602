CONSTANTS
  Bridges = {b1, b2}
  Callers = {c1, c2}
  RunLines = 2
SPECIFICATION Spec
INVARIANTS
  ServingIsReachable
PROPERTIES
  CallersAreAnswered
  StaleFileStopsNobody
CHECK_DEADLOCK FALSE
