\* Any number of clicks, attempts that overlap, sessions that end by themselves.
\* The tab may stop responding (see FatxMount_false.cfg), so deadlock is not checked.
CONSTANTS
  m1 = m1
  m2 = m2
  m3 = m3
  Mounts <- MCMounts
  MaxQueued = 3
SPECIFICATION FairSpec
INVARIANT TypeOK
INVARIANT NoOrphanMount
INVARIANT OneAtATime
PROPERTY MountSettles
CHECK_DEADLOCK FALSE
