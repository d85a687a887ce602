SPECIFICATION Spec
CONSTANTS
  Cap = 3
  Texts <- MCTexts
INVARIANTS LineSpeaksForTheChild NothingItOwnsIsLeft OutputIsFaithful
PROPERTIES DeadlineEndsTheLine
CHECK_DEADLOCK FALSE
