SPECIFICATION MCSpec
CONSTANTS
  Groups <- MCGroups
  Sensors <- MCSensors
  Periods = {5}
  Timeouts = {0, 15}
  Millisecond = 10
  SlowestPeriod = 1000
  NoTimeout = 100000
  CompassMin = 10
INVARIANTS
  MasterFollowsUse
  FeaturesWork
  OneQuaternion
  BatchHoldsNobodyBack
  SensorsDeliver
  BiasReachesDmp
