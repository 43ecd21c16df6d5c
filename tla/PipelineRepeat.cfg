CONSTANTS
  PCs <- MCPCs
  Regs <- SmallRegs
  Data <- SmallData
  Programs <- RepeatPrograms
  Junk = Junk
  TrapVec = 2
  ResetPC = 0
  LoadBypass = TRUE
  MulBypass = TRUE
  ExtraDecode = FALSE
  Interrupts = TRUE
  MemFaults = FALSE
SPECIFICATION Spec
INVARIANTS MemoryNotRepeated
