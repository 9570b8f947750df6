SPECIFICATION MCSpec
CONSTANTS
  Kinds = {"gyroStep", "quat", "overflow"}
  Handles = {"a"}
  Answers = {"END"}
  MaxPipe = 3
  MaxFlush = 2
  Serials = 3
  Count = 3
INVARIANTS
  StreamIntact
  FlushNotForgotten
PROPERTIES
  FlushCompletes
