SPECIFICATION Spec
CONSTANTS
  NumTags = 3
  NumLines = 2
  LineWords = 2
  Data <- DataSet
  Junk = 13
  NoData = NoData
  Unknown = Unknown
  InitMem <- MemoryOf
  Requests <- Coherence
  PowerOnTags <- PowerOn
  BusErrors = FALSE
INVARIANTS
  TypeOK
  NoAlias
  Coherent
  CleanIsMemory
  FlushReachesMemory
  WritebackReachesMemory
  BeatsMatch
PROPERTY ImplementsCachedMemory
