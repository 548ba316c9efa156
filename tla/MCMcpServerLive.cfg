SPECIFICATION FairSpec
CONSTANTS
  i = i
  j = j
  Ids = {i, j}
  Messages <- MCAllMessages
  MaxLines = 2
  MaxInFlight = 1
  WriterCapacity = 1
PROPERTIES
  EveryLineAnswered
  ShutdownCompletes
