SPECIFICATION Spec
CONSTANTS
  c1 = c1
  c2 = c2
  Callers <- OneCaller
  Ops <- SettingOps
  MaxFaults = 0
  MaxPmFaults = 0
  MaxSuspends = 1
  LateBuffer = FALSE
  Aborts = FALSE
  BitfieldRace = FALSE
INVARIANTS ChipFollowsSettings
