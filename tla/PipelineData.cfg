CONSTANTS
  PCs <- MCPCs
  Regs <- MCRegs
  Data <- MCData
  Programs <- DataPrograms
  Junk = Junk
  TrapVec = 2
  ResetPC = 0
  LoadBypass = TRUE
  MulBypass = TRUE
  ExtraDecode = FALSE
  Interrupts = FALSE
  MemFaults = FALSE
SPECIFICATION Spec
INVARIANT CsrNotHeld
PROPERTIES ImplementsSequentialCore
