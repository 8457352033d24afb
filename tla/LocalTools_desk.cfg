\* Sessions of one job or two, clicked at any time.
CONSTANTS
  Root = Root
  Up = Up
  Here = Here
  Hdd = Hdd
  Games = Games
  User = User
  LostData <- MCLost
  Names <- MCNames
  Bytes <- MCBytes
  Jobs <- MCJobs
  Sessions <- MCSessions
  Disks <- MCDisks
  Remotes <- MCRemotes
  Content <- MCContent
  Stem <- MCStem
  Base <- MCBase
  LoginDirs <- MCLoginDirs
SPECIFICATION FairSpec
INVARIANT TypeOK
INVARIANT ExtractedIsTrue
PROPERTY UnpackedWhenDone
PROPERTY PackedWhenDone
PROPERTY UploadedWhenDone
PROPERTY ExtractionComplete
PROPERTY JobsEnd
\* All jobs of a session end.
CHECK_DEADLOCK FALSE
