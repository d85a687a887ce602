CONSTANTS
  MaxLines = 2
  LineKinds = {"input", "qclip"}
  LineStatuses = {"ok", "err", "skip"}
SPECIFICATION FairRemoteSpec
INVARIANTS
  ExitCodesSpeakForTheFarSide
  FilesFollowResults
PROPERTIES
  KeepsContract
  WrapperReturns
