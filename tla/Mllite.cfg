SPECIFICATION MCSpec
CONSTANTS
  Features = {"fast", "nine"}
  Priority <- MCPriority
  Required <- MCRequired
  MaxDataCb = 3
  MaxStartCb = 3
  Rates <- MCRates
  Times = {1, 2}
  Raws <- MCRaws
  Biases <- MCBiases
  OtherKeys = {"compassCal"}
  Versions <- MCVersions
  MaxBoxes = 4
  NoFile = NoFile
  MaxMotion = 2
  Parts = {"store", "tables", "compass", "others", "rates", "nine", "gyro", "accel", "field", "results"}
INVARIANTS
  NoOldField
  CalibrationAgrees
  TiedToBestLiveSensor
PROPERTIES
  CallbacksInPlace
  LoadsAllOrNothing
  KeepsAsRegister
