\* Provisionings end the same way: InitialReleases = {None}, ApplyActions = {"provision"}.
SPECIFICATION TargetFairSpec
CONSTANTS
  None = None
  r1 = r1
  r2 = r2
  Attempts = {a1, a2}
  Redeploys = {d1}
  Releases = {r1, r2}
  SchemaVersion <- MCSchemaVersion
  SchemaMin <- MCSchemaMin
  SchemaMax <- MCSchemaMax
  InitialReleases = {r1}
  ApplyActions = {"upgrade"}
  MaxCrashes = 1
  LockMayLapse = TRUE
INVARIANT UnblockedApplies
PROPERTY ReleaseOnlyOwnLock
PROPERTY TenantFreed
CHECK_DEADLOCK FALSE
