SPECIFICATION ScheduleSpec
CONSTANTS
  PollInterval = 2
  Waits = {0, 1, 2, 5}
  Frames = 3
  Interval = 3
  MaxQuery = 1
  MaxShoot = 5
  Slack = 1
INVARIANTS PatientAndPunctual BurstKeepsTime
PROPERTIES LineEnds
CHECK_DEADLOCK FALSE
