SPECIFICATION RuntimeSpec
CONSTANTS
  None = None
  r1 = r1
  r2 = r2
  Attempts = {a1, a2}
  Releases = {r1, r2}
  SchemaVersion <- MCSchemaVersion
  SchemaMin <- MCSchemaMin
  SchemaMax <- MCSchemaMax
  InitialReleases = {None, r1}
  ApplyActions = {"provision", "upgrade", "rollback"}
  MaxCrashes = 1
  LockMayLapse = FALSE
CHECK_DEADLOCK FALSE
PROPERTY CorrectionConclusive
