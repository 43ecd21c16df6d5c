CONSTANTS
  TxDepth = 2
  MsgLen = 2
  Number_Of_Runs = 2
  LoSize = 3
  MaxTime = 7
  ClocksPerUnit = 2
  Too_Small_Time = 1
  Space = 20
  MaxRegions = 3
  Align = 4
  TcmSize = 8
  SectionAddrs = {0, 3, 5, 8}
  SectionSizes = {0, 5, 9}
  MaxSections = 3
  CycleLimits = {0, 2}
  MaxAddress = 3
  MaxCount = 2
  MaxRecords = 3
  RowBytes = 2
SPECIFICATION SoftwareSpec
INVARIANTS
  MainWordWhole
  LoopCommentsHold TextWhole MtimeWithin
  LoadedImage RunsLoaded WaveClosed
  CoeHoldsHex
PROPERTY TickAnswered
CHECK_DEADLOCK FALSE
