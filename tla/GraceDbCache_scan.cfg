CONSTANTS
  None = None
  r1 = r1
  Runs = {r1}
  MaxMoves = 1
  Skymaps <- TwoSkymaps
  Pipelines = {"gstlal"}
  LastListing <- RevisedListing
  Passing <- FirstPasses
  Faults = {"list", "p_astro", "download", "crash", "damage"}
  MaxFaults = 2
  Forced = TRUE
  Ages = TRUE
SPECIFICATION FairSpec
INVARIANTS
  TypeOK
  RecordedSkymapExists
  RecordedRevisionHeld
  UndisturbedRowsHoldListedRevision
  EntryFollowsListing
PROPERTIES
  CatchesUp
