--------------------------- MODULE TenantRuntime ---------------------------
(***************************************************************************)
(* reconcileTenantRuntime (services/releaseOrchestrator.ts) beside the       *)
(* attempts of TenantRelease: it verifies the running application over       *)
(* several awaits and then sets the tenant's row right, without taking the   *)
(* tenant's lock.                                                            *)
(***************************************************************************)
EXTENDS TenantRelease

VARIABLE
  fix   \* in memory: where the reconciliation is, the release it found, the schema read

allVars == <<vars, fix>>

NoFix == [pc |-> "idle", release |-> None, schema |-> NoSchema]

-----------------------------------------------------------------------------
(* reconcileTenantRuntime *)

FixGoes(label) == fix' = [fix EXCEPT !.pc = label]

\* getApplication: the tenant's own, allowed, its container there, its image pinned to
\* a release of the catalogue
FixReadsApplication ==
  /\ fix.pc = "idle"
  /\ app /\ ApplicationAllowed
  /\ main # None
  /\ fix' = [fix EXCEPT !.pc = "application", !.release = image]
  /\ UNCHANGED vars

\* No job of the application is active and no attempt's row is running.
NoDeployment == NoActiveJob /\ \A b \in Attempts : rowStatus[b] # "running"

\* getApplicationStorages (the volume is the tenant's own) and getApplicationDeployments
FixReadsDeployments ==
  /\ fix.pc = "application"
  /\ NoDeployment
  /\ FixGoes("deployments")
  /\ UNCHANGED vars

\* ping, fetchTelemetry and /health: the release's version and revision, on a schema
\* the release supports
FixVerifies ==
  /\ fix.pc = "deployments"
  /\ Answers
  /\ main = fix.release
  /\ Supports(fix.release, dbSchema)
  /\ fix' = [fix EXCEPT !.pc = "verified", !.schema = dbSchema]
  /\ UNCHANGED vars

\* updateTenantReleaseState
FixWrites ==
  /\ fix.pc = "verified"
  /\ last' = fix.release
  /\ desired' = fix.release
  /\ schema' = fix.schema
  /\ deployStatus' = "deployed"
  /\ releaseState' = "healthy"
  /\ fix' = NoFix
  /\ UNCHANGED <<lock, app, managed, mode, history, pc, request, outcome, coolify, crashes>>

\* Any check refuses, any call throws, or the control plane restarts.
FixEnds ==
  /\ fix.pc # "idle"
  /\ fix' = NoFix
  /\ UNCHANGED vars

Fix ==
  \/ FixReadsApplication \/ FixReadsDeployments \/ FixVerifies \/ FixWrites \/ FixEnds

-----------------------------------------------------------------------------
RuntimeInit == Init /\ fix = NoFix

\* A restart ends the reconciliation with the attempts.
RuntimeNext ==
  \/ Next /\ fix' = IF crashes' # crashes THEN NoFix ELSE fix
  \/ Fix

RuntimeSpec == RuntimeInit /\ [][RuntimeNext]_allVars

-----------------------------------------------------------------------------
(* Properties *)

\* "an audited correction of the registry when the running app conclusively matches a
\* registered release": the release the correction writes is the one the tenant runs
\* when it writes it.  An attempt that takes the lock after the checks changes the image
\* between them and the write.
CorrectionConclusive == [][FixWrites => last' = main]_allVars
=============================================================================
