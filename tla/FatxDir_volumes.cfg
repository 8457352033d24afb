\* Sound volumes: directories of several clusters, a full directory, stale slots
\* behind an end marker.  Damaged ones: broken chains, chains that come back to
\* themselves, directories that begin nowhere, a long name, and a device that fails.
CONSTANTS
  a = a
  b = b
  c = c
  Root = Root
  Up = Up
  Here = Here
  TooLong = TooLong
  BytesPerCluster = 4
  EntryBytes = 2
  NumClusters = 7
  FatLen = 10
  ReservedMarker = 16
  DataBytes = 25
  DeviceBytes = 25
  U32 = 64
  MaxListed = 6
  Names <- MCNames
  Volumes <- AllVolumes
  Requests <- MCRequests
SPECIFICATION FairSpec
INVARIANT TypeOK
INVARIANT NormalizedPath
PROPERTY ImplementsDirTree
PROPERTY ScanEnds
PROPERTY PresentIsAnswered
\* A panic ends the caller.
CHECK_DEADLOCK FALSE
