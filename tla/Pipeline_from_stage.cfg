CONSTANTS
  hourly = hourly
  nightly = nightly
  a1 = a1
  a2 = a2
  None = None
  Runs = {hourly}
  Alerts = {a1}
  Filters <- MCFilters
  Disabled <- MCAllEnabled
  Starts = {None, "localize", "luminous", "slack_publish"}
  DryRuns = {FALSE}
  Channels = {TRUE}
  MaxClock = 0
  Faults = {}
  MaxFaults = 0
SPECIFICATION Spec
INVARIANTS
  EveryFilterRecorded
CHECK_DEADLOCK FALSE
