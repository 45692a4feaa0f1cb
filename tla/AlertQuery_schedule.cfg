CONSTANTS
  Alerts = {a1, a2}
  NumRuns = 3
  Ticks <- MCTicks
  MaxDrift = 1
  MaxTime = 5
  ConfigFiles <- MCConfigFiles
  None = None
SYMMETRY Symmetric
SPECIFICATION Spec
INVARIANTS
  TypeOK
  NothingBetween
  CutOffForGood
  CompleteBelowLimit
  RepeatedFindsAll
CHECK_DEADLOCK FALSE
