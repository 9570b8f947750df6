SPECIFICATION Spec
CONSTANTS
  c1 = c1
  c2 = c2
  Callers <- OneCaller
  Ops <- EventOps
  MaxFaults = 0
  MaxPmFaults = 0
  MaxSuspends = 2
  LateBuffer = TRUE
  Aborts = FALSE
  BitfieldRace = FALSE
INVARIANTS ResumeRestoresEvents QuietWhileAsleep IrqThreadShutOut MemorySettingsKept
