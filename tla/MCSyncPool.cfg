SPECIFICATION Spec
CONSTANTS
  c1 = c1
  c2 = c2
  c3 = c3
  f1 = f1
  f2 = f2
  NoCall = NoCall
  Calls = {c1, c2, c3}
  Flags = {f1, f2}
  OwnedFlags = {f1}
  FlagOf <- MCFlagOf
  Workers = {w1, w2}
  HandlerOutcomes = {"done"}
  QueueCapacity = 1
  GaugeModulus = 8
SYMMETRY MCSymmetry
INVARIANTS
  TypeOK
  OneOwner
  SendNeverBlocks
  GaugeCoversStuckWork
  CancelledHasCause
PROPERTIES
  KeepsContract
