--------------------------- MODULE TenantRelease ---------------------------
(***************************************************************************)
(* Applying shared-image releases to ONE tenant (a store or a head office): *)
(* services/releaseOrchestrator.ts over services/releaseCatalog.ts (the     *)
(* registry rows) and services/coolify.ts (the deployment server).          *)
(*                                                                         *)
(* The control plane is one Node process over a synchronous SQLite         *)
(* registry, so code between two awaits is atomic: an action is one such   *)
(* stretch.  Each call of applyReleaseToTenant is an attempt, used once.   *)
(* Tenants share no row, so one tenant is the whole concurrency of it.     *)
(***************************************************************************)
EXTENDS Integers, Sequences, FiniteSets

CONSTANTS
  Attempts,         \* calls of applyReleaseToTenant, from any route or batch
  Releases,         \* active catalog releases of the tenant's kind
  None,             \* SQL NULL: no release, no attempt, no container
  SchemaVersion,    \* release |-> schema its image migrates a database to
  SchemaMin,        \* release |-> oldest schema its image opens
  SchemaMax,        \* release |-> newest schema its image opens
  InitialReleases,  \* what the tenant may already run; None is unprovisioned
  ApplyActions,     \* actions requested of POST /apply and of batches
  MaxCrashes,       \* bound on control-plane restarts
  LockMayLapse      \* may a lock expire under an attempt still at work?

ASSUME NoneAssumption == None \notin Attempts /\ None \notin Releases

ASSUME SchemaAssumption ==
  /\ SchemaVersion \in [Releases -> Nat \ {0}]
  /\ SchemaMin \in [Releases -> Nat]
  /\ SchemaMax \in [Releases -> Nat]
  /\ \A r \in Releases : SchemaVersion[r] \in SchemaMin[r] .. SchemaMax[r]

ASSUME RequestAssumption ==
  /\ InitialReleases \subseteq Releases \cup {None}
  /\ ApplyActions \subseteq {"provision", "upgrade", "rollback"}
  /\ MaxCrashes \in Nat
  /\ LockMayLapse \in BOOLEAN

VARIABLES
  \* the registry: deployment_locks, the tenant's row, release_deployments
  lock, app, managed, mode, deployStatus, releaseState, desired, last, schema,
  rows, rowStatus, tracked,
  \* the attempts, in the control plane's memory (the request is also in the row)
  pc, release, action, from, seenSchema, inflight, outcome,
  \* Coolify and the tenant's volume
  image, main, next, stopping, job, apps, dbSchema,
  \* bookkeeping of the bound
  crashes

registry == <<lock, app, managed, mode, deployStatus, releaseState, desired,
              last, schema, rows, rowStatus, tracked>>
coolify  == <<image, main, next, stopping, job, apps, dbSchema>>
request  == <<release, action, from, seenSchema, inflight>>
vars     == <<registry, pc, request, outcome, coolify, crashes>>

tenantRow == <<app, managed, mode, deployStatus, releaseState, desired, last, schema>>
history   == <<rows, rowStatus, tracked>>

-----------------------------------------------------------------------------
NoSchema == 0   \* schema_version NULL in the registry; a database not yet created

Actions    == {"provision", "upgrade", "rollback"}
Idle       == {"ready", "done", "crashed"}
Provision  == {"create", "created", "configure"}
Change     == {"reconcile", "preflight", "stop", "waitStopped", "update"}
Rollout    == {"trigger", "triggered", "waitJob", "verify"}
Outcomes   == {"none", "refused", "locked", "already_current", "already_deploying",
               "schema", "busy", "identity", "failed", "complete"}

Live(a) == pc[a] \notin Idle
ActiveJob(a) == job[a] \in {"queued", "running"}
NoActiveJob == \A a \in Attempts : ~ActiveJob(a)

\* releaseSupportsSchema
Supports(r, s) == s \in SchemaMin[r] .. SchemaMax[r]

\* An image starts on an empty database or on a schema it supports.
CanOpen(r, s) == s = NoSchema \/ Supports(r, s)

Larger(x, y) == IF x < y THEN y ELSE x

\* The tenant answers /api/internal/status.
Answers == main # None /\ CanOpen(main, dbSchema)

-----------------------------------------------------------------------------
(* Rows and rollback eligibility *)

\* b's row is the one getRunningReleaseDeployment returns: ORDER BY id DESC LIMIT 1
NewestRunning(b, ids, status) ==
  \E i \in DOMAIN ids :
    /\ ids[i] = b
    /\ status[b] = "running"
    /\ \A j \in DOMAIN ids : j > i => status[ids[j]] # "running"

\* getLastSuccessfulForwardDeployment
LastForwardInto(r) ==
  {i \in DOMAIN rows :
     LET Into(k) == /\ rowStatus[rows[k]] = "complete"
                    /\ action[rows[k]] # "rollback"
                    /\ release[rows[k]] = r
     IN  Into(i) /\ \A j \in DOMAIN rows : j > i => ~Into(j)}

\* getRollbackEligibility: the target, or {} when the tenant is not eligible
RollbackTargets ==
  {t \in {from[rows[i]] : i \in LastForwardInto(last)} :
     /\ mode = "image"
     /\ t # None
     /\ schema # NoSchema
     /\ Supports(t, schema)}

-----------------------------------------------------------------------------
(* The end of an attempt: the row, the tenant's status and the lock by token *)

\* Weakened: DELETE without the token.
ReleaseAnyLock(a) == lock' = None

ReleaseLock(a) == lock' = IF lock = a THEN None ELSE lock

\* Weakened: the tenant's status is left as the attempt last wrote it.
FailWithoutStatus(a, why) ==
  /\ rowStatus' = [rowStatus EXCEPT ![a] = "failed"]
  /\ ReleaseLock(a)
  /\ pc' = [pc EXCEPT ![a] = "done"]
  /\ outcome' = [outcome EXCEPT ![a] = why]
  /\ UNCHANGED <<tenantRow, rows, tracked, request, coolify, crashes>>

\* The catch block and the finally block
FailWith(a, why) ==
  /\ rowStatus' = [rowStatus EXCEPT ![a] = "failed"]
  /\ deployStatus' = "failed"
  /\ releaseState' = "failed"
  /\ ReleaseLock(a)
  /\ pc' = [pc EXCEPT ![a] = "done"]
  /\ outcome' = [outcome EXCEPT ![a] = why]
  /\ UNCHANGED <<app, managed, mode, desired, last, schema, rows, tracked,
                 request, coolify, crashes>>

Goto(a, label) == pc' = [pc EXCEPT ![a] = label]

-----------------------------------------------------------------------------
(* applyReleaseToTenant up to its first await *)

\* acquireDeploymentLock: INSERT OR IGNORE on the tenant's primary key
LockReplaced == TRUE   \* weakened: INSERT OR REPLACE
LockFree     == lock = None

\* Weakened: an existing application does not stop a provisioning.
ValidForMode(act) == act = "provision" \/ (app /\ mode = "image")

\* The checks that throw before the lock is taken
Valid(act) ==
  IF act = "provision" THEN ~app
                       ELSE app /\ mode = "image"

Requested(a, r, act) ==
  /\ pc[a] = "ready"
  /\ release' = [release EXCEPT ![a] = r]
  /\ action' = [action EXCEPT ![a] = act]
  /\ from' = [from EXCEPT ![a] = last]
  /\ seenSchema' = [seenSchema EXCEPT ![a] = schema]

Refused(a, r, act) ==
  /\ ~Valid(act)
  /\ Requested(a, r, act)
  /\ Goto(a, "done")
  /\ outcome' = [outcome EXCEPT ![a] = "refused"]
  /\ UNCHANGED <<registry, inflight, coolify, crashes>>

Locked(a, r, act) ==
  /\ Valid(act)
  /\ ~LockFree
  /\ Requested(a, r, act)
  /\ Goto(a, "done")
  /\ outcome' = [outcome EXCEPT ![a] = "locked"]
  /\ UNCHANGED <<registry, inflight, coolify, crashes>>

\* The idempotent no-ops and the schema gate, all under the lock just taken
IsCurrent(r, act)   == act # "rollback" /\ last = r /\ deployStatus = "deployed"
IsDeploying(r)      == desired = r /\ deployStatus = "provisioning"
SchemaRefuses(r)    == (app \/ last # None) /\ (schema = NoSchema \/ ~Supports(r, schema))

EndAtOnce(a, r, act, status, why) ==
  /\ Valid(act)
  /\ LockFree
  /\ Requested(a, r, act)
  /\ rows' = Append(rows, a)
  /\ rowStatus' = [rowStatus EXCEPT ![a] = status]
  /\ Goto(a, "done")
  /\ outcome' = [outcome EXCEPT ![a] = why]
  /\ UNCHANGED <<lock, app, managed, mode, desired, last, schema, tracked,
                 inflight, coolify, crashes>>

Skip(a, r, act) ==
  /\ \/ IsCurrent(r, act) /\ EndAtOnce(a, r, act, "skipped", "already_current")
     \/ /\ ~IsCurrent(r, act) /\ IsDeploying(r)
        /\ EndAtOnce(a, r, act, "skipped", "already_deploying")
  /\ UNCHANGED <<deployStatus, releaseState>>

RefuseSchema(a, r, act) ==
  /\ ~IsCurrent(r, act) /\ ~IsDeploying(r) /\ SchemaRefuses(r)
  /\ EndAtOnce(a, r, act, "failed", "schema")
  /\ deployStatus' = "failed"
  /\ releaseState' = "failed"

\* The lock is taken and the row created; what follows differs by action.
Admitted(a, r, act) ==
  /\ Valid(act)
  /\ LockFree
  /\ ~IsCurrent(r, act) /\ ~IsDeploying(r) /\ ~SchemaRefuses(r)
  /\ Requested(a, r, act)
  /\ lock' = a
  /\ rows' = Append(rows, a)
  /\ inflight' \in {[inflight EXCEPT ![a] = b] :
                      b \in {c \in Attempts :
                               NewestRunning(c, Append(rows, a),
                                             [rowStatus EXCEPT ![a] = "running"])}}

\* Weakened: the two arguments of markTenantDeployStatus swapped.
QueueSwapped(r) ==
  /\ desired' = r
  /\ deployStatus' = "queued"
  /\ releaseState' = "provisioning"

\* Weakened: setTenantDesiredRelease is forgotten.
QueueUndesired(r) ==
  /\ desired' = desired
  /\ deployStatus' = "provisioning"
  /\ releaseState' = "queued"

\* setTenantDesiredRelease and markTenantDeployStatus(provisioning, queued)
Queue(r) ==
  /\ desired' = r
  /\ deployStatus' = "provisioning"
  /\ releaseState' = "queued"

\* An upgrade or rollback awaits Coolify's deployment list first.
StartChange(a, r, act) ==
  /\ act # "provision"
  /\ Admitted(a, r, act)
  /\ rowStatus' = [rowStatus EXCEPT ![a] = "running"]
  /\ Goto(a, "reconcile")
  /\ UNCHANGED <<tenantRow, tracked, outcome, coolify, crashes>>

\* A tenant without an application has nothing to await before the creation.
StartProvision(a, r, act) ==
  /\ act = "provision"
  /\ Admitted(a, r, act)
  /\ rowStatus' = [[rowStatus EXCEPT ![a] = "running"] EXCEPT ![inflight'[a]] = "failed"]
  /\ Queue(r)
  /\ Goto(a, "create")
  /\ UNCHANGED <<app, managed, mode, last, schema, tracked, outcome, coolify, crashes>>

Apply(a, r, act) ==
  \/ Refused(a, r, act)
  \/ Locked(a, r, act)
  \/ Skip(a, r, act)
  \/ RefuseSchema(a, r, act)
  \/ StartChange(a, r, act)
  \/ StartProvision(a, r, act)

\* rollbackTenant: eligibility is computed and the apply begun with no await between
RollbackTenant(a) == \E t \in RollbackTargets : Apply(a, t, "rollback")

-----------------------------------------------------------------------------
(* reconcileInFlightDeployment and assertTenantPreflight *)

\* A tracked row asks for its own job, an untracked one for the application's.
InFlightActive(b) == IF b \in tracked THEN ActiveJob(b) ELSE ~NoActiveJob

Reconcile(a) ==
  /\ pc[a] = "reconcile"
  /\ ~InFlightActive(inflight[a])
  /\ rowStatus' = [rowStatus EXCEPT ![inflight[a]] = "failed"]
  /\ Goto(a, "preflight")
  /\ UNCHANGED <<lock, tenantRow, rows, tracked, request, outcome, coolify, crashes>>

\* deployment_in_progress: a job is active, or Coolify could not be asked
RefuseBusy(a) ==
  /\ pc[a] = "reconcile"
  /\ FailWith(a, "busy")

\* assertApplicationAllowed: a row registered after verification, or allowlisted.
\* (The names and domains it compares never change in the model.)
ApplicationAllowed == managed

\* Weakened: the tenant is not marked before its container is stopped.
PreflightUnmarked(a) ==
  /\ pc[a] = "preflight"
  /\ ApplicationAllowed
  /\ Answers
  /\ Goto(a, "stop")
  /\ UNCHANGED <<lock, tenantRow, history, request, outcome, coolify, crashes>>

Preflight(a) ==
  /\ pc[a] = "preflight"
  /\ ApplicationAllowed
  /\ Answers
  /\ Queue(release[a])
  /\ Goto(a, "stop")
  /\ UNCHANGED <<lock, app, managed, mode, last, schema, history, request,
                 outcome, coolify, crashes>>

\* The ping of a tenant that does not answer throws: its identity is not proved.
RefuseIdentity(a) ==
  /\ pc[a] = "preflight"
  /\ ~Answers
  /\ FailWith(a, "identity")

-----------------------------------------------------------------------------
(* Upgrade and rollback: stop first, prove it, pin the image *)

\* The stop is accepted now and takes effect later, on the container it found.
StopApplication(a) ==
  /\ pc[a] = "stop"
  /\ stopping' = (main # None)
  /\ Goto(a, "waitStopped")
  /\ UNCHANGED <<registry, request, outcome, image, main, next, job, apps, dbSchema, crashes>>

\* Weakened: the accepted stop is taken for its effect.
StopTrusted(a) ==
  /\ pc[a] = "waitStopped"
  /\ Goto(a, "update")
  /\ UNCHANGED <<registry, request, outcome, coolify, crashes>>

\* container_present === false
WaitForApplicationStopped(a) ==
  /\ pc[a] = "waitStopped"
  /\ main = None /\ next = None
  /\ Goto(a, "update")
  /\ UNCHANGED <<registry, request, outcome, coolify, crashes>>

\* Weakened: the release is recorded as current when its image is pinned.
UpdateImageRecorded(a) ==
  /\ pc[a] = "update"
  /\ image' = release[a]
  /\ last' = release[a]
  /\ Goto(a, "trigger")
  /\ UNCHANGED <<lock, app, managed, mode, deployStatus, releaseState, desired, schema,
                 history, request, outcome, main, next, stopping, job, apps, dbSchema, crashes>>

UpdateApplicationImage(a) ==
  /\ pc[a] = "update"
  /\ image' = release[a]
  /\ Goto(a, "trigger")
  /\ UNCHANGED <<registry, request, outcome, main, next, stopping, job, apps, dbSchema, crashes>>

-----------------------------------------------------------------------------
(* Provisioning: create, persist the application, configure and register it *)

CreateApplication(a) ==
  /\ pc[a] = "create"
  /\ apps' = apps + 1
  /\ Goto(a, "created")
  /\ UNCHANGED <<registry, request, outcome, image, main, next, stopping, job, dbSchema, crashes>>

\* setTenantCoolifyTarget and recordProvisionedRelease
RecordProvisioned(a) ==
  /\ app' = TRUE
  /\ mode' = "image"
  /\ last' = release[a]
  /\ schema' = SchemaVersion[release[a]]
  /\ Queue(release[a])

OnCreated(a) ==
  /\ pc[a] = "created"
  /\ RecordProvisioned(a)
  /\ image' = release[a]
  /\ Goto(a, "configure")
  /\ UNCHANGED <<lock, managed, history, request, outcome, main, next, stopping,
                 job, apps, dbSchema, crashes>>

\* environment, /data storage, read-back and registerManagedApplication
ConfigureApplication(a) ==
  /\ pc[a] = "configure"
  /\ RecordProvisioned(a)
  /\ managed' = TRUE
  /\ Goto(a, "trigger")
  /\ UNCHANGED <<lock, history, request, outcome, coolify, crashes>>

-----------------------------------------------------------------------------
(* The rollout: trigger, wait for the job, verify, record *)

TriggerDeploy(a) ==
  /\ pc[a] = "trigger"
  /\ job' = [job EXCEPT ![a] = "queued"]
  /\ Goto(a, "triggered")
  /\ UNCHANGED <<registry, request, outcome, image, main, next, stopping, apps, dbSchema, crashes>>

\* The reply carries the deployment's id; without one the attempt fails.
TrackDeployment(a) ==
  /\ pc[a] = "triggered"
  /\ tracked' = tracked \cup {a}
  /\ deployStatus' = "provisioning"
  /\ releaseState' = "deploying"
  /\ Goto(a, "waitJob")
  /\ UNCHANGED <<lock, app, managed, mode, desired, last, schema, rows, rowStatus,
                 request, outcome, coolify, crashes>>

WaitForCoolifyDeployment(a) ==
  /\ pc[a] = "waitJob"
  /\ job[a] = "finished"
  /\ deployStatus' = "provisioning"
  /\ releaseState' = "verifying"
  /\ Goto(a, "verify")
  /\ UNCHANGED <<lock, app, managed, mode, desired, last, schema, history,
                 request, outcome, coolify, crashes>>

\* waitForApplicationReady: the pinned image, and /health of the release's version
Ready(a) ==
  /\ image = release[a]
  /\ main = release[a]
  /\ Answers

Complete(a) ==
  /\ pc[a] = "verify"
  /\ Ready(a)
  /\ last' = release[a]
  /\ desired' = release[a]
  /\ schema' = IF action[a] = "rollback"
               THEN seenSchema[a]
               ELSE Larger(seenSchema[a], SchemaVersion[release[a]])
  /\ deployStatus' = "deployed"
  /\ releaseState' = IF action[a] = "rollback" THEN "rolled_back" ELSE "healthy"
  /\ rowStatus' = [rowStatus EXCEPT ![a] = "complete"]
  /\ ReleaseLock(a)
  /\ Goto(a, "done")
  /\ outcome' = [outcome EXCEPT ![a] = "complete"]
  /\ UNCHANGED <<app, managed, mode, rows, tracked, request, coolify, crashes>>

\* Weakened: the wait for the stop has no deadline.
FailUnlessStopping(a) ==
  /\ pc[a] \in (Provision \cup Change \cup Rollout) \ {"reconcile", "waitStopped"}
  /\ FailWith(a, "failed")

\* Any awaited call may throw and any wait may time out.
Fail(a) ==
  /\ pc[a] \in (Provision \cup Change \cup Rollout) \ {"reconcile"}
  /\ FailWith(a, "failed")

Step(a) ==
  \/ Reconcile(a) \/ RefuseBusy(a)
  \/ Preflight(a) \/ RefuseIdentity(a)
  \/ StopApplication(a) \/ WaitForApplicationStopped(a) \/ UpdateApplicationImage(a)
  \/ CreateApplication(a) \/ OnCreated(a) \/ ConfigureApplication(a)
  \/ TriggerDeploy(a) \/ TrackDeployment(a) \/ WaitForCoolifyDeployment(a)
  \/ Complete(a) \/ Fail(a)

-----------------------------------------------------------------------------
(* The control plane's restart, the lock's expiry and the health sweep *)

Crash ==
  /\ crashes < MaxCrashes
  /\ \E a \in Attempts : Live(a)
  /\ crashes' = crashes + 1
  /\ pc' = [a \in Attempts |-> IF Live(a) THEN "crashed" ELSE pc[a]]
  /\ UNCHANGED <<registry, request, outcome, coolify>>

\* acquireDeploymentLock deletes an expired lock: an expired one is no lock.
LockExpires ==
  /\ lock # None
  /\ LockMayLapse \/ ~Live(lock)
  /\ lock' = None
  /\ UNCHANGED <<tenantRow, history, pc, request, outcome, coolify, crashes>>

\* recordTelemetry: the sweep stores the schema the tenant reports.
RecordTelemetry ==
  /\ app
  /\ Answers
  /\ schema' = dbSchema
  /\ UNCHANGED <<lock, app, managed, mode, deployStatus, releaseState, desired, last,
                 history, pc, request, outcome, coolify, crashes>>

-----------------------------------------------------------------------------
(* Coolify, as far as the code relies on it *)

\* A requested stop takes the running container away at some later moment.
RemoveContainer ==
  /\ stopping
  /\ stopping' = FALSE
  /\ main' = None
  /\ UNCHANGED <<registry, pc, request, outcome, image, next, job, apps, dbSchema, crashes>>

\* One job of the application at a time.  The new container starts beside the old
\* one (a rolling update) and migrates the database it can open.
JobStart(a) ==
  /\ job[a] = "queued"
  /\ \A b \in Attempts : job[b] # "running"
  /\ job' = [job EXCEPT ![a] = "running"]
  /\ next' = image
  /\ dbSchema' = IF CanOpen(image, dbSchema)
                 THEN Larger(dbSchema, SchemaVersion[image])
                 ELSE dbSchema
  /\ UNCHANGED <<registry, pc, request, outcome, image, main, stopping, apps, crashes>>

\* The job's health check passes and the new container takes over.
JobFinish(a) ==
  /\ job[a] = "running"
  /\ CanOpen(next, dbSchema)
  /\ job' = [job EXCEPT ![a] = "finished"]
  /\ main' = next
  /\ next' = None
  /\ UNCHANGED <<registry, pc, request, outcome, image, stopping, apps, dbSchema, crashes>>

\* The pull, the start or the health check fails: the new container is removed.
JobFail(a) ==
  /\ ActiveJob(a)
  /\ job' = [job EXCEPT ![a] = "failed"]
  /\ next' = IF job[a] = "running" THEN None ELSE next
  /\ UNCHANGED <<registry, pc, request, outcome, image, main, stopping, apps, dbSchema, crashes>>

CoolifyStep ==
  \/ RemoveContainer
  \/ \E a \in Attempts : JobStart(a) \/ JobFinish(a) \/ JobFail(a)

-----------------------------------------------------------------------------
\* A tenant that onboarding left unprovisioned, or deployed and verified.
Init ==
  /\ lock = None
  /\ rows = <<>>
  /\ rowStatus = [a \in Attempts |-> "none"]
  /\ tracked = {}
  /\ pc = [a \in Attempts |-> "ready"]
  /\ release = [a \in Attempts |-> None]
  /\ action = [a \in Attempts |-> "upgrade"]
  /\ from = [a \in Attempts |-> None]
  /\ seenSchema = [a \in Attempts |-> NoSchema]
  /\ inflight = [a \in Attempts |-> None]
  /\ outcome = [a \in Attempts |-> "none"]
  /\ stopping = FALSE
  /\ next = None
  /\ job = [a \in Attempts |-> "none"]
  /\ crashes = 0
  /\ last \in InitialReleases
  /\ desired = last
  /\ image = last
  /\ main = last
  /\ app = (last # None)
  /\ managed = app
  /\ apps = IF app THEN 1 ELSE 0
  /\ mode \in IF app THEN {"image", "dockerfile", "unprovisioned"} ELSE {"unprovisioned"}
  /\ deployStatus = IF app THEN "deployed" ELSE "not_deployed"
  /\ releaseState = IF app THEN "healthy" ELSE "idle"
  /\ dbSchema = IF app THEN SchemaVersion[last] ELSE NoSchema
  /\ schema \in {NoSchema, dbSchema}

Request(a) ==
  \/ \E r \in Releases, act \in ApplyActions : Apply(a, r, act)
  \/ RollbackTenant(a)

Environment == Crash \/ LockExpires \/ RecordTelemetry \/ CoolifyStep

Next == (\E a \in Attempts : Request(a) \/ Step(a)) \/ Environment

Spec == Init /\ [][Next]_vars

\* Every awaited call returns or throws (the waits by their deadlines, the others
\* by the HTTP client's own), and a lock's expiry is a matter of time.
Fairness ==
  /\ \A a \in Attempts : WF_vars(Step(a))
  /\ WF_vars(LockExpires /\ ~Live(lock))

FairSpec == Spec /\ Fairness

-----------------------------------------------------------------------------
(* Properties *)

Modes == {"unprovisioned", "image", "dockerfile"}
DeployStatuses == {"not_deployed", "provisioning", "deployed", "failed"}
ReleaseStates == {"idle", "queued", "deploying", "verifying", "healthy", "failed", "rolled_back"}
RowStatuses == {"none", "running", "complete", "failed", "skipped"}
JobStatuses == {"none", "queued", "running", "finished", "failed"}

\* Every variable keeps to the values its column, reply or handler step can have.
TypeOK ==
  /\ lock \in Attempts \cup {None}
  /\ app \in BOOLEAN /\ managed \in BOOLEAN
  /\ mode \in Modes
  /\ deployStatus \in DeployStatuses
  /\ releaseState \in ReleaseStates
  /\ desired \in Releases \cup {None}
  /\ last \in Releases \cup {None}
  /\ schema \in Nat
  /\ rows \in Seq(Attempts)
  /\ rowStatus \in [Attempts -> RowStatuses]
  /\ tracked \subseteq Attempts
  /\ pc \in [Attempts -> Idle \cup Provision \cup Change \cup Rollout]
  /\ release \in [Attempts -> Releases \cup {None}]
  /\ action \in [Attempts -> Actions]
  /\ from \in [Attempts -> Releases \cup {None}]
  /\ seenSchema \in [Attempts -> Nat]
  /\ inflight \in [Attempts -> Attempts \cup {None}]
  /\ outcome \in [Attempts -> Outcomes]
  /\ image \in Releases \cup {None}
  /\ main \in Releases \cup {None}
  /\ next \in Releases \cup {None}
  /\ stopping \in BOOLEAN
  /\ job \in [Attempts -> JobStatuses]
  /\ apps \in Nat
  /\ dbSchema \in Nat
  /\ crashes \in 0 .. MaxCrashes

\* Two release operations never work on the tenant together: between a lock's
\* acquisition and its release by token there is one attempt, across restarts too.
MutualExclusion == \A a, b \in Attempts : Live(a) /\ Live(b) => a = b

\* The stop-first order: the volume's SQLite file never has two containers, however
\* stops, jobs, failures, retries and restarts interleave.
OneWriter == main = None \/ next = None

\* A registry that says "deployed" is right: the recorded release is the pinned
\* image and the running container, and no deployment job can still change it.
DeployedMeansRunning ==
  deployStatus = "deployed" =>
    /\ last # None
    /\ image = last
    /\ main = last
    /\ NoActiveJob

\* A tenant is only left "provisioning" by an attempt at work or cut off by a
\* restart, and its desired release is then the one that attempt was asked for.
ProvisioningIsIntended ==
  deployStatus = "provisioning" =>
    \E a \in Attempts : (Live(a) \/ pc[a] = "crashed") /\ desired = release[a]

\* Whatever job Coolify still has to run deploys the release the registry desires:
\* after a lost reply or a restart the intended state is visible.
JobDeploysDesired == ~NoActiveJob => image = desired

\* A failed upgrade or rollback leaves the current release what it was when the
\* attempt began, whatever happened to the tenant's other columns.
FailureKeepsRelease ==
  [][\A a \in Attempts :
       Live(a) /\ pc'[a] = "done" /\ outcome'[a] # "complete" /\ action[a] # "provision"
         => last' = from[a]]_vars

\* Once the tenant's application is persisted no attempt, retry or restart has a
\* second one created.
NoSecondApplication == [][app => apps' = apps]_vars

\* An attempt whose lock lapsed under it does not release its successor's lock.
ReleaseOnlyOwnLock ==
  [][\A a \in Attempts : Live(a) /\ ~Live(a)' /\ lock # a => lock' = lock]_vars

\* However often attempts, failures and restarts take the tenant, it is free again later:
\* every call of applyReleaseToTenant returns and every lock is given back or expires, so
\* no tenant is blocked for good.
TenantFreed == []<>(lock = None /\ \A a \in Attempts : ~Live(a))

\* A stale row of a restarted control plane is marked failed before a later
\* attempt goes on to touch the tenant.
StaleRowReconciled ==
  \A a, b \in Attempts :
    pc[a] \in (Change \cup Rollout) \ {"reconcile"} /\ pc[b] = "crashed"
      => rowStatus[b] # "running"

\* A new container is never started on a database its image cannot open.
SchemaGate == next # None => CanOpen(next, dbSchema)

\* A tenant left stopped by a failed change can be retried: its identity check is
\* not refused because there is no container to answer it.
StoppedTenantRetries ==
  [][\A a \in Attempts : outcome[a] = "none" /\ outcome'[a] = "identity" => main # None]_vars

-----------------------------------------------------------------------------
(* The contract these steps implement *)

Worker == IF \E a \in Attempts : Live(a) THEN CHOOSE a \in Attempts : Live(a) ELSE None
Asked  == IF Worker = None THEN None ELSE release[Worker]

Contract == INSTANCE TenantContract WITH worker <- Worker, asked <- Asked, current <- last

\* Attempts take turns, and the current release only ever becomes what the attempt
\* at work was asked to apply.
ImplementsContract == Contract!Spec
=============================================================================
