\* One point, two workers, every edit, the clean-up and a restart; a queue of one
\* job that is full again and again.
SPECIFICATION FairSpec
CONSTANTS
  NPoint = 1
  Device = {d1}
  Worker = {w1, w2}
  QueueCap = 1
  ListLimit = 2
  MaxTime = 3
  MaxRun = 1
  d1 = d1
  w1 = w1
  w2 = w2
  DeviceOf <- MCDeviceOf
  CollectInterval <- MCCollectInterval
  HistoryInterval <- MCHistoryInterval
INVARIANTS TypeOK HistorySpacing
PROPERTIES ImplementsArchive CleanupOnlyDeleted DeletedStopsWithinScan QueueDrains
