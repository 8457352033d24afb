\* A batch of two images with the same file stem.
CONSTANTS
  Root = Root
  Up = Up
  Here = Here
  Hdd = Hdd
  Games = Games
  User = User
  LostData <- MCLost
  Names <- MCNames
  Bytes <- MCBytes
  Jobs <- MCJobs
  Sessions <- StemSessions
  Disks <- MCDisks
  Remotes <- MCRemotes
  Content <- MCContent
  Stem <- MCStem
  Base <- MCBase
  LoginDirs <- MCLoginDirs
SPECIFICATION Spec
PROPERTY EachUnpackedWhenDone
CHECK_DEADLOCK FALSE
