CONSTANTS
  PCs <- MCPCs
  Regs <- SmallRegs
  Data <- SmallData
  Programs <- HandledPrograms
  Junk = Junk
  TrapVec = 2
  ResetPC = 0
  LoadBypass = FALSE
  MulBypass = FALSE
  ExtraDecode = TRUE
  Interrupts = TRUE
  MemFaults = FALSE
SPECIFICATION Spec
INVARIANTS InterruptEnabled MemoryNotRepeated
PROPERTIES ImplementsSequentialCore
