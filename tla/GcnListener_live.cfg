CONSTANTS
  prelim = prelim
  retraction = retraction
  transient = transient
  flare = flare
  garbage = garbage
  S1 = S1
  None = None
  Body <- MCBody
  NoticeInfo <- MCNoticeInfo
  Malformed <- MCMalformed
  Events <- MCEvents
  Labels <- MCLabels
  Partitions <- MCPartitions
  Feed <- MCFeed
  Notices = {prelim, retraction, garbage}
  Faults = {"crash", "torn", "error", "commit", "broker", "rebalance"}
  MaxFaults = 1
  MaxLog = 2
  CONSUME_BATCH_SIZE = 2
  DRAIN_EMPTY_BATCHES = 2
  OnceModes = {TRUE, FALSE}
  Signals = TRUE
SPECIFICATION FairSpec
INVARIANTS
  CommittedIsKept
PROPERTIES
  EveryMessageRecorded
  StopEnds
  OnceEnds
CHECK_DEADLOCK FALSE
