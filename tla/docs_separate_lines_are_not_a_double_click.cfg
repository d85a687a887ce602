SPECIFICATION Spec
CONSTANTS
  Keys = {"meta", "primary", "volup"}
  Buttons = {"left", "right"}
  Texts <- MCTexts
  Places = {2}
  Steps = {1, 2}
  MaxFaults = 1
  MaxClicks = 2
PROPERTIES SeparateLinesAreNotADoubleClick
CHECK_DEADLOCK FALSE
