CONSTANTS
  MaxLines = 1
  LineKinds = {"input"}
  LineStatuses = {"ok", "err", "skip"}
SPECIFICATION RemoteSpec
INVARIANT InputFilesAreOnlyRead
