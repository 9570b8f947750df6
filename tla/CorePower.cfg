SPECIFICATION Spec
CONSTANTS
  c1 = c1
  c2 = c2
  Callers <- OneCaller
  Ops <- PowerOps
  MaxFaults = 1
  MaxPmFaults = 1
  MaxSuspends = 1
  LateBuffer = TRUE
  Aborts = TRUE
  BitfieldRace = FALSE
INVARIANTS TypeOK AwakeWhileEnabled DmpRunsCompleteImage
PROPERTIES KeepsContract
