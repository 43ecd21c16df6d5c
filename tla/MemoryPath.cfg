CONSTANTS
  Addrs <- MCAddrs
  Beats = 4
  NoBeat = NoBeat
  WFirst = FALSE
  MaxEvictions = 2
  QueueMax = 3
  BurstType = "incr"
SPECIFICATION PathSpec
INVARIANTS TypeOK AccessedOnce BurstsWhole
  MeetsContract ReadsSeeWrites
PROPERTIES AxiStable FaultCallsBack ImplementsMemoryPort Answered
