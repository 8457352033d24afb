\* Block devices, which report no length.
CONSTANTS
  Sector = 8
  Page = 8
  MaxSectors = 8
  Marker16 = 6
  U32 = 64
  Offsets <- MCOffsets
  Sizes <- MCSizes
  Devices <- MCBlockDevices
SPECIFICATION Spec
INVARIANT BlockDevicesOpen
CHECK_DEADLOCK FALSE
