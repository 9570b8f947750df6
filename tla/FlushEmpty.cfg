SPECIFICATION MCSpec
CONSTANTS
  Kinds = {"gyroStep"}
  Handles = {"a"}
  Answers = {"EMPTY"}
  MaxPipe = 3
  MaxFlush = 1
  Serials = 4
  Count = 4
PROPERTIES
  FlushCompletes
