CONSTANTS
  Bridges = {b1, b2}
  Callers = {c1, c2}
  RunLines = 2
SPECIFICATION Spec
INVARIANTS
  PipeInv
  DoneIsRead
PROPERTIES
  PipeCallersAreAnswered
  InterruptStops
CHECK_DEADLOCK FALSE
