SPECIFICATION FairSpec
CONSTANTS
  c1 = c1
  c2 = c2
  Callers <- TwoCallers
  Ops <- LockOps
  MaxFaults = 0
  MaxPmFaults = 0
  MaxSuspends = 2
  LateBuffer = TRUE
  Aborts = FALSE
  BitfieldRace = FALSE
PROPERTIES
  EverybodyFinishes
