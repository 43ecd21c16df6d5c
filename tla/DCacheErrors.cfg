SPECIFICATION FairSpec
CONSTANTS
  NumTags = 3
  NumLines = 2
  LineWords = 2
  Data <- DataSet
  Junk = 13
  NoData = NoData
  Unknown = Unknown
  InitMem <- MemoryOf
  Requests <- Faults
  PowerOnTags <- Cleared
  BusErrors = TRUE
INVARIANTS
  ErrorHasOwner
PROPERTIES
  ImplementsCachedMemory
  Answered
