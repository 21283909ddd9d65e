SPECIFICATION TargetSpec
CONSTANTS
  None = None
  r1 = r1
  r2 = r2
  Attempts = {a1, a2, a3}
  Redeploys = {}
  Releases = {r1, r2}
  SchemaVersion <- MCSchemaVersion
  SchemaMin <- MCSchemaMin
  SchemaMax <- MCSchemaMax
  InitialReleases = {None, r1}
  ApplyActions = {"provision", "upgrade", "rollback"}
  MaxCrashes = 1
  LockMayLapse = FALSE
SYMMETRY Symmetry
INVARIANT TypeOK
INVARIANT MutualExclusion
INVARIANT OneWriter
INVARIANT DeployedMeansRunning
INVARIANT ProvisioningIsIntended
INVARIANT JobDeploysDesired
PROPERTY FailureKeepsRelease
PROPERTY NoSecondApplication
PROPERTY ImplementsContract
CHECK_DEADLOCK FALSE
