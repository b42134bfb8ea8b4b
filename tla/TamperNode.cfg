\* The directory is changed behind the lock: two epochs and three lock inodes
\* let the second Guard start while the first still serves.
CONSTANTS
  MaxEpoch = 2
  MaxInode = 3
  Tampering = {"replaceLock", "spoilLock", "spoilFence", "advance"}
SPECIFICATION FairNodeSpec
INVARIANTS FencedPublishesOnce 
PROPERTIES BrokenFenceExits
