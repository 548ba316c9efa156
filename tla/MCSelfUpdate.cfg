SPECIFICATION FairSpec
CHECK_DEADLOCK FALSE
CONSTANTS
  Updaters = {u1, u2}
  MaxRelease = 2
  Origins <- MCOrigins
  MaxAttempts = 2
  NoFile = NoFile
  Nobody = Nobody
INVARIANTS
  TypeOK
  
  WeakEvidenceOnlyWhenAbsent
  FailedUpdateInstallsNothing
PROPERTIES
  UpdatesSettle
  UpdatesAtomically
