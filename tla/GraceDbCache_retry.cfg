CONSTANTS
  None = None
  r1 = r1
  Runs = {r1}
  MaxMoves = 1
  Skymaps <- OneSkymap
  Pipelines = {"gstlal"}
  LastListing <- RevisedListing
  Passing <- FirstPasses
  Faults = {"download"}
  MaxFaults = 1
  Forced = FALSE
  Ages = TRUE
SPECIFICATION Spec
INVARIANTS
  RowsHoldListedRevision
