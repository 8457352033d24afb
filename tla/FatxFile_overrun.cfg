\* A chain that reaches cluster number num_clusters, a partition amid the device.
CONSTANTS
  h1 = h1
  h2 = h2
  Handles <- MCHandles
  Volumes <- OverrunVolumes
  SeekTargets = {0, 1, 4}
  SeekDeltas <- MCDeltas
  ReadSizes = {1, 3}
  MaySeekPastEof = FALSE
  MayReuseCorrupt = TRUE
  BytesPerCluster = 2
  NumClusters = 5
  FatLen = 6
  ReservedMarker = 8
  DataBytes = 8
  DeviceBytes = 9
  U32 = 32
SPECIFICATION Spec
INVARIANT StaysInPartition
