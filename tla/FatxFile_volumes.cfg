\* Two handles on sound and damaged volumes; callers stay inside the file and
\* drop a handle that failed, as those in src/ do.
CONSTANTS
  h1 = h1
  h2 = h2
  Handles <- MCHandles
  Volumes <- AllVolumes
  SeekTargets = {0, 4}
  SeekDeltas <- MCDeltas
  ReadSizes = {1, 3}
  MaySeekPastEof = FALSE
  MayReuseCorrupt = FALSE
  BytesPerCluster = 2
  NumClusters = 5
  FatLen = 6
  ReservedMarker = 8
  DataBytes = 9
  DeviceBytes = 9
  U32 = 32
SPECIFICATION FairSpec
INVARIANT TypeOK
INVARIANT CursorOnChain
INVARIANT MapsPosition
INVARIANT DeliversOwnBytes
PROPERTY ImplementsByteFile
PROPERTY ReadsEnd
CHECK_DEADLOCK FALSE
