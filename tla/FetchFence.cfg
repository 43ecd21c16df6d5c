CONSTANTS
  PCs <- MCPCs
  Regs <- SmallRegs
  Data <- SmallData
  Programs <- DrainPrograms
  Junk = Junk
  TrapVec = 2
  ResetPC = 0
  LoadBypass = TRUE
  MulBypass = TRUE
  ExtraDecode = TRUE
  Interrupts = TRUE
  MemFaults = TRUE
  NumTags = 3
  NumSets = 1
  LineWords = 2
  Garbage <- MCGarbage
  Texts <- MCTexts
  TrapPC = 0
  Depth = 2
  CodeLine = 0
  CodeVersions = 1
SPECIFICATION CoreSafety
INVARIANTS FenceSeen
