CONSTANTS
  MaxLines = 2
  LineStatuses = {"ok", "err", "skip"}
SPECIFICATION FairSpec
INVARIANTS
  AtMostOneLineUnheard
  ExitCodesSpeakForTheBridge
PROPERTIES
  KeepsContract
  BridgeIsFreed
