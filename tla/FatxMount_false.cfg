\* The user clicks Mount again while an attempt is under way.
CONSTANTS
  m1 = m1
  m2 = m2
  m3 = m3
  Mounts <- MCMounts
  MaxQueued = 3
SPECIFICATION Spec
INVARIANT MountedIsTrue
CHECK_DEADLOCK FALSE
