\* Statements of the repository that the code does not keep: check one at a time.
SPECIFICATION TargetSpec
CONSTANTS
  None = None
  r1 = r1
  r2 = r2
  Attempts = {a1, a2, a3}
  Redeploys = {d1}
  Releases = {r1, r2}
  SchemaVersion <- MCSchemaVersion
  SchemaMin <- MCSchemaMin
  SchemaMax <- MCSchemaMax
  InitialReleases = {None, r1}
  ApplyActions = {"provision","upgrade"}
  MaxCrashes = 1
  LockMayLapse = FALSE
SYMMETRY Symmetry
PROPERTY StoppedTenantRetries
\* INVARIANT PageForetells
\* INVARIANT OneWriter
\* INVARIANT DeployedMeansRunning
\* INVARIANT SchemaGate
\* INVARIANT StaleRowReconciled
CHECK_DEADLOCK FALSE
