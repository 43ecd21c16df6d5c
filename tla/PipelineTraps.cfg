CONSTANTS
  PCs <- MCPCs
  Regs <- SmallRegs
  Data <- SmallData
  Programs <- TrapPrograms
  Junk = Junk
  TrapVec = 2
  ResetPC = 0
  LoadBypass = TRUE
  MulBypass = TRUE
  ExtraDecode = FALSE
  Interrupts = FALSE
  MemFaults = TRUE
SPECIFICATION Spec
INVARIANTS TrapAlone
PROPERTIES ImplementsSequentialCore
