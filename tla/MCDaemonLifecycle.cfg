SPECIFICATION FairSpec
CONSTANTS
  Starts = {start1, start2}
  Stops = {stop1, stop2}
  Tasks = {compaction, delivery}
  MaxRequests = 1
  None = None
INVARIANTS
  TypeOK
  MaintenanceNeverOverlaps
  ResourcesClosedOnce
  StopDrains
  StoppedReleasesAll
PROPERTIES
  CallsEnd
CHECK_DEADLOCK FALSE
