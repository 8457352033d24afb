\* Two programs, which list, read and look up in any order.
CONSTANTS
  a = a
  b = b
  c = c
  r1 = r1
  r2 = r2
  Root = Root
  Up = Up
  Here = Here
  Sizes = {0, 1, 2}
  Trees <- MCTrees
  Content <- MCContent
  Readers <- MCReaders
  Names <- MCNames
  Moments <- MCMoments
SPECIFICATION Spec
SYMMETRY ReaderSymmetry
INVARIANT TypeOK
INVARIANT InodesOneToOne
INVARIANT PagesMakeListing
INVARIANT PiecesMakeFile
INVARIANT StampsTold
PROPERTY InodesKept
\* A panic of the session's thread ends all service.
CHECK_DEADLOCK FALSE
