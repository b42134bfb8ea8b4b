\* Values of three bits, so that every limit of the schema lies inside the
\* range of the edits.
CONSTANTS
  Slots <- MCSlots
  Bodies <- MCBodies
  Texts <- MCTexts
  Rewrites <- MCRewrites
  MaxLines = 38
  Uint32Max = 6
  MaxSamples = 5
  MaxPoll = 2
  MinStartup = 5
  MaxStartup = 7
  MaxQueue = 5
  WireResolution = 2
  UnitRate = 2
  UintMax = 7
SPECIFICATION LoadSpec
INVARIANTS AcceptedIsNamed AcceptedIsCanonical TimingReadsPresent AcceptedIsUsable AcceptedFloorIsReal
CHECK_DEADLOCK FALSE
