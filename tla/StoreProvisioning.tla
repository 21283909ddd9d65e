------------------------- MODULE StoreProvisioning -------------------------
(***************************************************************************)
(* From a store's row to a store that trades: runStoreProvisioning          *)
(* (services/storeProvisioning.ts) creates the Coolify application and its  *)
(* /data volume (services/coolify.ts), proves what was created and          *)
(* registers it (services/applicationGuard.ts), deploys it, waits for it    *)
(* and gives it its first admin.  It runs in the background, without a      *)
(* lock, once per request: creating the store, or redeploying it.           *)
(* The first admin of a store or a Head Office also comes from the retry of *)
(* services/adminProvisioning.ts and from the office's reset-admin.         *)
(* Coolify and the deployments are external.  A call may fail before it     *)
(* arrives, or be carried out and its answer lost.                          *)
(***************************************************************************)
EXTENDS StoreRows

CONSTANTS
  Jobs,            \* executions of runStoreProvisioning
  Apps,            \* the applications Coolify may come to hold
  StagingMode,     \* the control plane is the staging one
  LegacyAllowed,   \* a new store may be built from a Dockerfile
  MaxPasswords

ASSUME AppsAssumption == Apps \subseteq Nat \ {0} /\ IsFiniteSet(Jobs)

VARIABLES
  app,         \* Coolify: its applications
  registered,  \* the managed_applications table
  job,         \* in memory: the executions of runStoreProvisioning
  poll,        \* in memory: the deployments with a scheduled admin retry
  admin,       \* the deployments: the password of their admin, 0 for no admin
  issued,      \* the passwords generated so far
  taken, told, missed,  \* history: the passwords a deployment took, somebody was told,
                        \* and nobody was told because an answer or an email was lost
  stray,       \* history: applications created whose uuid was not recorded
  overlapped   \* history: stores two executions found without an application at once

provVars == <<app, registered, job, poll, admin, issued, taken, told, missed, stray, overlapped>>
adminVars == <<poll, admin, issued, taken, told, missed>>

NoApp == [store |-> None, sound |-> FALSE, env |-> FALSE, data |-> FALSE, up |-> FALSE]

NoJob == [at |-> "idle", store |-> None, path |-> "none", uuid |-> 0]

Paths == {"image", "legacy", "again"}

Made(s) == {a \in Apps : app[a].store = s}

\* Any application of the store that runs answers at the store's URL.  Whether a Head
\* Office runs is up to its own deployment.
Answers(h) == h \in Panels \/ \E a \in Made(h) : app[a].up

At(j, where) == job[j].at = where

Goes(j, where) == job' = [job EXCEPT ![j].at = where]

-----------------------------------------------------------------------------
(* applicationGuard.ts *)

\* assertProvisionedApplication: name, kind, project and domain as asked, and a
\* persistent volume at /data
Proved(a) == app[a].sound /\ app[a].data

\* assertCreatedApplicationScope
CreatedInScope(a) == StagingMode => app[a].sound

\* assertApplicationAllowed, with no allowlist
ApplicationAllowed(a) == a \in registered

-----------------------------------------------------------------------------
(* The end of an execution *)

Deployed(j) ==
  LET s == job[j].store
  IN Set(s, [row[s] EXCEPT !.deploy = "deployed",
                           !.release = IF job[j].path = "image" THEN "healthy" ELSE @])

\* imageRelease is set once the application is known.
Failed(j) ==
  LET s == job[j].store
  IN Set(s, [row[s] EXCEPT !.deploy = "failed",
                           !.release = IF job[j].path = "image" /\ job[j].uuid # 0
                                       THEN "failed" ELSE @])

\* An application of the legacy path is recorded only when it has been built.
Unrecorded(j) == job[j].path = "legacy" /\ job[j].at \in {"env", "storage", "build"}

Ends(j, new) ==
  /\ row' = new
  /\ stray' = IF Unrecorded(j) THEN [stray EXCEPT ![job[j].store] = @ + 1] ELSE stray
  /\ job' = [job EXCEPT ![j] = NoJob]

Fail(j) ==
  /\ job[j].at \notin {"idle", "config"}
  /\ Ends(j, Failed(j))
  /\ UNCHANGED <<app, registered, adminVars, overlapped>>

-----------------------------------------------------------------------------
(* runStoreProvisioning *)

\* Two executions that both found no application.
Overlap(s) == \E i \in Jobs : job[i].store = s /\ job[i].path # "again"

\* release: whether resolveDefaultRelease finds an approved Store release
PathFor(s, release) ==
  CASE row[s].uuid # 0 -> "again"
    [] row[s].uuid = 0 /\ release -> "image"
    [] OTHER -> "legacy"

\* A legacy build is for development and demo stores only.
LegacyRefused(path) == path = "legacy" /\ (StagingMode \/ Production \/ ~LegacyAllowed)

StartProvisioning(j, s, release) ==
  /\ At(j, "idle") /\ row[s].there
  /\ Spends("provision")
  /\ LET path == PathFor(s, release)
     IN /\ row' = Set(s, [row[s] EXCEPT !.deploy = IF LegacyRefused(path) THEN "failed"
                                                  ELSE "provisioning"])
        /\ job' = IF LegacyRefused(path) THEN job
                  ELSE [job EXCEPT ![j] = [at |-> IF path = "again" THEN "trigger" ELSE "create",
                                           store |-> s, path |-> path, uuid |-> row[s].uuid]]
        /\ overlapped' = IF path # "again" /\ Overlap(s) THEN overlapped \cup {s} ELSE overlapped
  /\ UNCHANGED <<app, registered, adminVars, stray, asked, unchecked>>

\* Weakened: the application is recorded when it has been registered.
RecordedLater(s, a) == row

\* onCreated: "persist the UUID first"
Recorded(s, a) == Set(s, [row[s] EXCEPT !.uuid = a, !.release = "deploying"])

\* POST /applications: Coolify makes it as asked or not quite.
Makes(j, a, sound) ==
  /\ At(j, "create")
  /\ app[a] = NoApp /\ \A b \in Apps : b < a => app[b] # NoApp
  /\ app' = [app EXCEPT ![a] = [NoApp EXCEPT !.store = job[j].store, !.sound = sound]]
  /\ UNCHANGED <<registered, adminVars, overlapped>>

Strays(s) == stray' = [stray EXCEPT ![s] = @ + 1]

\* createStoreImageDeployment
CreateImageApplication(j, a, sound) ==
  LET s == job[j].store
  IN /\ job[j].path = "image" /\ Makes(j, a, sound)
     /\ job' = [job EXCEPT ![j].uuid = a, ![j].at = "readback"]
     /\ row' = Recorded(s, a)
     /\ IF row[s].there THEN UNCHANGED stray ELSE Strays(s)

\* createStoreDeployment
CreateLegacyApplication(j, a, sound) ==
  /\ job[j].path = "legacy" /\ Makes(j, a, sound)
  /\ job' = [job EXCEPT ![j].uuid = a, ![j].at = "env"]
  /\ UNCHANGED <<row, stray>>

\* Coolify makes it and its answer is lost.
CreateUnheard(j, a, sound) ==
  /\ Makes(j, a, sound)
  /\ row' = Failed(j)
  /\ job' = [job EXCEPT ![j] = NoJob]
  /\ Strays(job[j].store)

ReadBack(j) ==
  /\ At(j, "readback")
  /\ CreatedInScope(job[j].uuid)
  /\ Goes(j, "env")
  /\ UNCHANGED <<row, app, registered, adminVars, stray, overlapped>>

SetEnvironment(j) ==
  /\ At(j, "env")
  /\ app' = [app EXCEPT ![job[j].uuid].env = TRUE]
  /\ Goes(j, "storage")
  /\ UNCHANGED <<row, registered, adminVars, stray, overlapped>>

\* The host path, or the named volume where Coolify refuses one.  What Coolify answers
\* is not yet what it attached.
AddStorage(j, attached) ==
  /\ At(j, "storage")
  /\ app' = [app EXCEPT ![job[j].uuid].data = attached]
  /\ Goes(j, IF job[j].path = "image" THEN "check" ELSE "build")
  /\ UNCHANGED <<row, registered, adminVars, stray, overlapped>>

\* assertProvisionedApplication, registerManagedApplication, and the row again
Register(j) ==
  LET s == job[j].store
  IN /\ At(j, "check")
     /\ Proved(job[j].uuid)
     /\ registered' = registered \cup {job[j].uuid}
     /\ row' = Set(s, [row[s] EXCEPT !.uuid = job[j].uuid, !.deploy = "provisioning",
                                     !.release = "deploying"])
     /\ Goes(j, "trigger")
     /\ UNCHANGED <<app, adminVars, stray, overlapped>>

\* The legacy path's own deployment, after which its uuid is recorded
Build(j) ==
  LET s == job[j].store
  IN /\ At(j, "build")
     /\ app' = [app EXCEPT ![job[j].uuid].up = TRUE]
     /\ row' = Set(s, [row[s] EXCEPT !.uuid = job[j].uuid, !.deploy = "provisioning"])
     /\ stray' = IF row[s].there THEN stray ELSE [stray EXCEPT ![s] = @ + 1]
     /\ Goes(j, "verify")
     /\ UNCHANGED <<registered, adminVars, overlapped>>

\* triggerDeploy; in staging an existing application must be one it may touch.
TriggerDeploy(j) ==
  /\ At(j, "trigger")
  /\ (StagingMode /\ job[j].path = "again") => ApplicationAllowed(job[j].uuid)
  /\ app' = [app EXCEPT ![job[j].uuid].up = TRUE]
  /\ Goes(j, "verify")
  /\ UNCHANGED <<row, registered, adminVars, stray, overlapped>>

\* verifyImageDeployment: the application itself.  waitForStoreHealth: whatever answers.
Verify(j) ==
  /\ At(j, "verify")
  /\ IF job[j].path = "image" THEN app[job[j].uuid].up ELSE Answers(job[j].store)
  /\ Goes(j, "admin")
  /\ UNCHANGED <<row, app, registered, adminVars, stray, overlapped>>

\* What it pushes just before is Push of BranchPairing and a delivery of LicenceDelivery;
\* their failure changes nothing here.
FinishProvisioning(j) ==
  /\ At(j, "config")
  /\ Ends(j, Deployed(j))
  /\ UNCHANGED <<app, registered, adminVars, overlapped>>

-----------------------------------------------------------------------------
(* The first admin *)

\* POST /api/internal/admin/init answers 201 only when there is no admin.
Bootstrapped(h) == admin[h] = 0

\* Weakened: the answer is taken for granted.
EmailsAnyway(h) == TRUE

\* A login is sent only for an admin the deployment has just created.
Emails(h) == Bootstrapped(h)

Generates == issued < MaxPasswords /\ issued' = issued + 1

\* The deployment h takes the new password if it may; the caller tells somebody if it
\* thinks it did and neither the answer nor the email is lost.
Hands(h, takes, tells, reaches) ==
  /\ admin' = IF takes THEN [admin EXCEPT ![h] = issued'] ELSE admin
  /\ taken' = IF takes THEN [taken EXCEPT ![h] = @ \cup {issued'}] ELSE taken
  /\ told' = IF tells /\ reaches THEN [told EXCEPT ![h] = @ \cup {issued'}] ELSE told
  /\ missed' = IF takes /\ ~reaches THEN [missed EXCEPT ![h] = @ \cup {issued'}] ELSE missed

\* bootstrapStoreAdmin and trySendAdminCredentialsEmail; never fails the execution.
BootstrapAdmin(j, reaches) ==
  LET s == job[j].store
  IN /\ At(j, "admin")
     /\ \/ /\ Generates
           /\ Hands(s, Bootstrapped(s), Emails(s), reaches)
        \/ UNCHANGED <<admin, issued, taken, told, missed>>   \* no address, or no answer
     /\ Goes(j, "config")
     /\ UNCHANGED <<row, app, registered, poll, stray, overlapped>>

\* scheduleAdminProvisioning, from the onboarding job: one loop per deployment
ScheduleAdmin(h) ==
  /\ row[h].there /\ h \notin poll
  /\ Spends("poll")
  /\ poll' = poll \cup {h}
  /\ UNCHANGED <<row, app, registered, job, admin, issued, taken, told, missed, stray,
                 overlapped, asked, unchecked>>

\* attemptAdminProvisioning on a deployment that answers.  A created admin ends the
\* loop; so does a Head Office that says it has one; a store's refusal does not.
AttemptAdmin(h, heard, emailed) ==
  /\ h \in poll /\ row[h].there /\ Answers(h)
  /\ Generates
  /\ Hands(h, Bootstrapped(h), heard /\ Emails(h), heard /\ emailed)
  /\ poll' = IF heard /\ (Bootstrapped(h) \/ h \in Panels) THEN poll \ {h} ELSE poll
  /\ UNCHANGED <<row, app, registered, job, stray, overlapped>>

AdminDeadline(h) ==
  /\ h \in poll
  /\ poll' = poll \ {h}
  /\ UNCHANGED <<row, app, registered, job, admin, issued, taken, told, missed, stray,
                 overlapped>>

\* The answer to the office tells the password, emailed or not.
ResetAdmin(h, takes, tells, heard) ==
  /\ row[h].there /\ row[h].status = "active" /\ Answers(h)
  /\ Spends("reset")
  /\ Generates
  /\ Hands(h, takes, tells, heard)
  /\ UNCHANGED <<row, app, registered, job, poll, stray, overlapped, asked, unchecked>>

\* resetAdmin, or the bootstrap where the store has no admin to reset
ResetStoreAdmin(s, heard) == ResetAdmin(s, TRUE, TRUE, heard)

\* A Head Office is only ever bootstrapped.
ResetPanelAdmin(p, heard) == ResetAdmin(p, Bootstrapped(p), Emails(p), heard)

-----------------------------------------------------------------------------
\* The control plane restarts: nothing resumes an execution or an admin retry.
CrashProvisioning ==
  /\ Spends("crash")
  /\ stray' = [s \in Stores |-> stray[s] + Cardinality({j \in Jobs : job[j].store = s /\ Unrecorded(j)})]
  /\ job' = [j \in Jobs |-> NoJob]
  /\ poll' = {}
  /\ asked' = [r \in Rows |-> Free]
  /\ UNCHANGED <<row, unchecked, app, registered, admin, issued, taken, told, missed, overlapped>>

ProvInit ==
  /\ app = [a \in Apps |-> NoApp]
  /\ registered = {}
  /\ job = [j \in Jobs |-> NoJob]
  /\ poll = {}
  /\ admin = [h \in Rows |-> 0]
  /\ issued = 0
  /\ taken = [h \in Rows |-> {}] /\ told = [h \in Rows |-> {}] /\ missed = [h \in Rows |-> {}]
  /\ stray = [s \in Stores |-> 0]
  /\ overlapped = {}

\* What changes nothing but the execution, its store's row and what it provisions
JobStep(j) ==
  \/ \E a \in Apps, sound \in BOOLEAN :
       \/ CreateImageApplication(j, a, sound)
       \/ CreateLegacyApplication(j, a, sound)
       \/ CreateUnheard(j, a, sound)
  \/ ReadBack(j)
  \/ SetEnvironment(j)
  \/ \E attached \in BOOLEAN : AddStorage(j, attached)
  \/ Register(j)
  \/ Build(j)
  \/ TriggerDeploy(j)
  \/ Verify(j)
  \/ \E reaches \in BOOLEAN : BootstrapAdmin(j, reaches)
  \/ FinishProvisioning(j)
  \/ Fail(j)

ProvNext ==
  \/ \E j \in Jobs, s \in Stores, release \in BOOLEAN : StartProvisioning(j, s, release)
  \/ (\E j \in Jobs : JobStep(j)) /\ UNCHANGED <<asked, unchecked, spend>>
  \/ \E h \in Rows : ScheduleAdmin(h)
  \/ \E h \in Rows, heard, emailed \in BOOLEAN :
       AttemptAdmin(h, heard, emailed) /\ UNCHANGED <<asked, unchecked, spend>>
  \/ \E h \in Rows : AdminDeadline(h) /\ UNCHANGED <<asked, unchecked, spend>>
  \/ \E s \in Stores, heard \in BOOLEAN : ResetStoreAdmin(s, heard)
  \/ \E p \in Panels, heard \in BOOLEAN : ResetPanelAdmin(p, heard)
  \/ CrashProvisioning

-----------------------------------------------------------------------------
(* Properties *)

\* "Persist the UUID first (so a retry cannot create a duplicate)": a store has more
\* than one application only where a create's answer was lost, a legacy build ended
\* before its uuid was recorded, or two executions found none at the same time.
OneApplication ==
  \A s \in Stores \ overlapped : Cardinality(Made(s)) <= 1 + stray[s]

\* "A failed check leaves the app unregistered": what is registered, and so may be
\* modified later, was made as asked, carries its environment and keeps its data.  A
\* store whose release is recorded as healthy runs such an application.
HealthyIsProved ==
  /\ \A a \in registered : app[a].sound /\ app[a].env /\ app[a].data
  /\ \A s \in Stores \ overlapped :
       row[s].release = "healthy" => row[s].uuid \in registered /\ app[row[s].uuid].up

\* One application for each store, and a proved one behind what is recorded as healthy.
AppsSound == OneApplication /\ HealthyIsProved

\* Nobody is told a password the deployment did not take, and the one it has is known
\* to somebody unless an answer or an email was lost.
AdminTold == \A h \in Rows : told[h] = taken[h] \ missed[h]
=============================================================================
