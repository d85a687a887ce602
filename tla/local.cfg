CONSTANTS
  Keys = {"p", "v"}
  Buttons = {"left"}
  Primary = "p"
  V = "v"
  Programs <- LocalPrograms
  Options <- MCOptions
  MaxLines = 2
  KeysPerLine = 2
SPECIFICATION FairLocalSpec
INVARIANTS
  AtMostOneLineUnread
  ExitLeavesNothingDown
PROPERTIES
  KeepsContract
  ProcessEnds
