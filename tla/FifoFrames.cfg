CONSTANTS
  accel = accel
  compass = compass
  sixq = sixq
  Normal <- McNormal
  Quaternion <- McQuaternion
  Slaves <- McSlaves
  Selections <- FrameSelections
  HeaderedNormal = 2
  Capacity = 5
  MaxRead = 3
  MaxCells = 6
  MaxFaults = 1
  MaxEmpty = 1
SPECIFICATION Spec
INVARIANTS
  TypeOK
  NoCellTwice
  FramesIntact
  NothingHeldBack
PROPERTIES
  FlushDelivers
CHECK_DEADLOCK FALSE
