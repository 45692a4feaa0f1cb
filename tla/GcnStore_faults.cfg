CONSTANTS
  prelim = prelim
  update = update
  retraction = retraction
  track = track
  transient = transient
  burst = burst
  S1 = S1
  None = None
  Body <- MCBody
  NoticeInfo <- MCNoticeInfo
  Malformed = {}
  Events <- MCEvents
  Labels <- MCLabels
  Notices = {prelim, update, retraction, track, transient, burst}
  Faults = {"crash", "torn", "error"}
  MaxFaults = 1
SPECIFICATION StoreSpec
INVARIANTS
  StoreTypeOK
  RecordedFilesComplete
  StoreAgrees
  StoredOnce
  LatestIsOfAPrefix
  RetractionWithdraws
  NoRegionLost
PROPERTIES
  NeverDemoted
