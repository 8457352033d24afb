\* Images of every length up to 120 bytes.  open_device ends, so does a behaviour.
CONSTANTS
  Sector = 8
  Page = 8
  MaxSectors = 8
  Marker16 = 6
  U32 = 64
  Offsets <- MCOffsets
  Sizes <- MCSizes
  Devices <- MCImages
SPECIFICATION Spec
INVARIANT TypeOK
INVARIANT DataAreaFits
INVARIANT ClustersHaveNames
INVARIANT EntriesExist
CHECK_DEADLOCK FALSE
