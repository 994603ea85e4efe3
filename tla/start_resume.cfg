\* Two runs over one file, of which the second may resume the first.
CONSTANTS
  None = None
  SmallFile = 2
  LargeFile = 4
  BothMin = 3
  SizeOf <- Sizes
  Servers <- AnyServer
  RunOptions <- AnyOptions
  SampleChunks = 2
  OldFiles <- Some
  MaxRuns = 2
  MaxRot = 1
SPECIFICATION Spec
INVARIANTS
  CompleteIsWhole
  OneVersion
  SavedIsAccepted
  LayoutPartitions
CHECK_DEADLOCK FALSE
