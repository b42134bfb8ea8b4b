\* Two changes during a call take the path to another file and back to an
\* inode number used before; a third inode serves while one is held open.
SPECIFICATION ReadSpec
CONSTANTS
  Schema <- MCSchema
  DigestLength = 2
  Limit <- MCLimit
  MaxEpochId = 19
  Expected <- MCExpected
  Inodes = {1, 2, 3}
  Texts <- MCTexts
  CoreStates <- MCCoreStates
  MaxBytes = 9
  Splits <- MCSplits
  Tampering = {"link", "unlink", "chmod", "truncate"}
  MaxChanges = 2
INVARIANTS
  FenceIsCanonical
  CoreIsUnderstood
PROPERTIES
  ImplementsAtomicRead
  CallEnds
