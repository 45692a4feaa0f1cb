CONSTANTS
  early = early
  late = late
  SHOES = SHOES
  Planck18 = Planck18
  None = None
  NumAlerts = 2
  AlertInfo <- MCAlertInfo
  Catalogs <- MCCatalogs
  HostColumns <- MCHostColumns
  min_redshift = 1
  Cosmologies = {SHOES, Planck18}
  Distance <- MCDistance
  Modulus <- MCModulus
  Superevents = {early, late}
  EventRows <- MCEventRows
  window_days = 1
  CutFilters <- MCCutFilters
SPECIFICATION Spec
INVARIANTS
  TypeOK
  HostIsNearestUsable
  OrderOfCatalogsIsImmaterial
  CandidatesAreCoincident
  EveryPairAccounted
  CutsArePositive
CHECK_DEADLOCK FALSE
