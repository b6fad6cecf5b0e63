\* Two tasks that run any program of the node, or three that run those with
\* nested guards.
CONSTANTS
  Task = {t1, t2, t3}
  third = t3
  Lock <- Locks
  Program <- Programs
  Unattended <- Radio
  Rank <- LockRank
SPECIFICATION MCSpec
INVARIANTS
  NoDeadlock
PROPERTIES
  EveryTaskEnds
