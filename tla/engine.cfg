CONSTANTS
  Keys = {"p", "v"}
  Buttons = {"left"}
  Primary = "p"
  V = "v"
  Programs <- MCAllPrograms
  Options <- MCOptions
SPECIFICATION FairSpec
INVARIANTS
  IInv
  NothingLeftDown
  LinesLeaveOnlyHeld
  ResultsComplete
  ReleasesNameLinesThatSucceeded
PROPERTIES
  StopsPressing
  Terminates
