CONSTANTS
  hourly = hourly
  nightly = nightly
  a1 = a1
  a2 = a2
  None = None
  Runs = {hourly, nightly}
  Alerts = {a1}
  Filters <- MCTwoFilters
  Disabled <- MCDisabled
  Starts = {None}
  DryRuns = {FALSE}
  Channels = {TRUE}
  MaxClock = 1
  Faults = {}
  MaxFaults = 0
SPECIFICATION Spec
INVARIANTS
  FilesGroupTogether
CHECK_DEADLOCK FALSE
