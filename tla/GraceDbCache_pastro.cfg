CONSTANTS
  None = None
  r1 = r1
  Runs = {r1}
  MaxMoves = 1
  Skymaps <- OneSkymap
  Pipelines = {"gstlal", "mbta"}
  LastListing <- FirstListing
  Passing <- BothPass
  Faults = {}
  MaxFaults = 1
  Forced = FALSE
  Ages = TRUE
SPECIFICATION Spec
INVARIANTS
  ClassifiedByPreferred
