\* Two epochs; three statuses per Guard allow a latched one, its repeat and
\* two live ones; a queue of one overflows.
CONSTANTS
  MaxEpoch = 2
  MaxInode = 1
  Tampering = {}
  MaxStatus = 3
  QueueDepth = 1
SPECIFICATION FairHealthSpec
INVARIANTS EpochExclusion PassProvesLife PassIsExclusive
PROPERTIES AllocationResumes
