SPECIFICATION FairSpec
CONSTANTS
  c1 = c1
  c2 = c2
  c3 = c3
  p1 = p1
  NoPermit = NoPermit
  NoCall = NoCall
  Calls = {c1, c2, c3}
  Permits = {p1}
INVARIANTS
  TypeOK
  GaugesMatchPhases
  ActiveOwnsPermit
  LifecycleNeverErrs
PROPERTIES
  KeepsContract
  EveryCallAnswered
  PermitsComeBack
