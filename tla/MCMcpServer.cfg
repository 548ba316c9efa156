SPECIFICATION Spec
CONSTANTS
  i = i
  j = j
  Ids = {i, j}
  Messages <- MCMessages
  MaxLines = 3
  MaxInFlight = 2
  WriterCapacity = 1
INVARIANTS
  TypeOK
  RegistryIsExact
  OneEra
  PipelinedHandshake
  CancellationIsExact
  AnsweredOnce
PROPERTIES
  KeepsConversation
