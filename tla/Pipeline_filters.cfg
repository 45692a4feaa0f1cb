CONSTANTS
  hourly = hourly
  nightly = nightly
  a1 = a1
  a2 = a2
  None = None
  Runs = {hourly}
  Alerts = {a1, a2}
  Filters <- MCFilters
  Disabled <- MCDisabled
  Starts = {None, "crossmatch", "distance", "localize", "luminous", "nearby", "slack_publish"}
  DryRuns = {TRUE, FALSE}
  Channels = {TRUE, FALSE}
  MaxClock = 1
  Faults = {"raise", "slack"}
  MaxFaults = 2
SPECIFICATION Spec
INVARIANTS
  TypeOK
  SiblingsReport
  AnnouncedWasFound
  SkippedForCause
PROPERTIES
  ResultsAreFinal
  ImplementsAnnouncer
CHECK_DEADLOCK FALSE
