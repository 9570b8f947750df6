SPECIFICATION MCSpec
CONSTANTS
  Chips = {"ak89xx", "ak09911", "ami", "yas"}
  FilterLen = 3
  FilterNoise = 20
  FilterThresh = 100
  Inputs <- MCInputs
  MaxInputs = 6
  Compasses = {"ak89xx", "ak09911", "ak09912", "mlx90399", "none"}
  FifoRates = {190, 1000}
  SlaveRates = {5, 100}
  Q = 10
  HalfTurn = 4
  Turns <- MCTurns
  Period = 488
  DmpInterval = 500
  MinAdjust = 3
  MinTime = 600000
  MaxDiff = 214748
  Counters = 4400
  Spans = {1100}
  Rates = {50, 200}
  MaxFaults = 1
  Nominal = 120
  TruePeriods = {98}
  EstimateShift = 4
  MaxThreshold = 40
  KfifoSize = 4
  StampTolerance = 1
  FrameBytes = 2
  FooterBytes = 2
  MaxWaiting = 2
  MaxSample = 5
INVARIANTS
  TypesOK
  ReadingsAreSound
  PollNeverStops
  YasRecoversField
  ChannelsServeSensors
  AllFunctionsInvert
  AllConventionsAgree
  StampsFollowSamples
PROPERTIES
  StampsMatchSamples
  IntervalSettles
CHECK_DEADLOCK FALSE
