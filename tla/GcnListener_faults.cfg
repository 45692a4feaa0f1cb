CONSTANTS
  prelim = prelim
  retraction = retraction
  transient = transient
  flare = flare
  garbage = garbage
  S1 = S1
  None = None
  Body <- MCBody
  NoticeInfo <- MCNoticeInfo
  Malformed <- MCMalformed
  Events <- MCEvents
  Labels <- MCLabels
  Partitions <- MCPartitions
  Feed <- MCFeed
  Notices = {prelim, transient, flare, garbage}
  Faults = {"crash", "error", "commit", "rebalance"}
  MaxFaults = 2
  MaxLog = 2
  CONSUME_BATCH_SIZE = 2
  DRAIN_EMPTY_BATCHES = 1
  OnceModes = {FALSE}
  Signals = FALSE
SPECIFICATION Spec
INVARIANTS
  TypeOK
  CommittedIsRecorded
  IndexWithinHistory
PROPERTIES
  ImplementsArchive
