---------------------------- MODULE TenantTarget ----------------------------
(***************************************************************************)
(* A tenant as a target of a promotion: what the promotion page             *)
(* (services/promotion.ts) foretells about applying a release to a tenant,  *)
(* beside what applyReleaseToTenant (TenantRelease) does with it.  The page *)
(* blocks a promotion that could not go through; startPromotion asks again  *)
(* before it dispatches.                                                    *)
(*                                                                         *)
(* Beside the attempts works the tenant's other writer: POST                *)
(* /stores/:id/redeploy runs runStoreProvisioning (services/                *)
(* storeProvisioning.ts) on the store's existing application.  It takes no  *)
(* release lock, writes deploy_status alone and leaves release_state as it  *)
(* was.  (Without an application it creates one: StoreProvisioning.)        *)
(***************************************************************************)
EXTENDS TenantRelease

CONSTANT Redeploys  \* calls of POST /stores/:id/redeploy, each used once

VARIABLES
  redeploy,  \* in memory: where each redeploy is
  rejob      \* Coolify: the deployment job each one asked for, until it has ended

redeploys  == <<redeploy, rejob>>
targetVars == <<vars, redeploys>>

AtWork == {"trigger", "health", "configure"}

Redeploying(d) == redeploy[d] \in AtWork
ActiveRejob == \E d \in Redeploys : rejob[d] # "none"

Busy == {"queued", "deploying", "verifying"}

NeedsUpdate(r) == last # r

\* Weakened: the tenant's release state is not looked at.
UpdateBlockedByLock(r) ==
  \/ schema = NoSchema
  \/ ~Supports(r, schema)
  \/ lock # None

\* The last of buildTarget's checks, for a tenant that needs the update.  An expired
\* lock is no lock.
UpdateBlocked(r) ==
  \/ schema = NoSchema
  \/ ~Supports(r, schema)
  \/ releaseState \in Busy
  \/ lock # None

\* buildTarget, for a tenant that is not paused
Blocker(r) == mode \in {"dockerfile", "unprovisioned"} \/ (NeedsUpdate(r) /\ UpdateBlocked(r))

\* promotionPreview's canPromote and startPromotion's checks of the targets
CanPromote(r) == NeedsUpdate(r) /\ ~Blocker(r)

-----------------------------------------------------------------------------
(* A redeploy of the tenant's application *)

RedeployGoes(d, where) == redeploy' = [redeploy EXCEPT ![d] = where]

\* setStoreDeployStatus
SetStoreDeployStatus(status) ==
  /\ deployStatus' = status
  /\ UNCHANGED <<lock, app, managed, mode, releaseState, desired, last, schema, history,
                 pc, request, outcome, coolify, crashes>>

StartRedeploy(d) ==
  /\ redeploy[d] = "ready" /\ app
  /\ SetStoreDeployStatus("provisioning")
  /\ RedeployGoes(d, "trigger")
  /\ UNCHANGED rejob

TriggerRedeploy(d) ==
  /\ redeploy[d] = "trigger"
  /\ rejob' = [rejob EXCEPT ![d] = "queued"]
  /\ RedeployGoes(d, "health")
  /\ UNCHANGED vars

\* waitForStoreHealth asks whichever container is up, not the job.
WaitForStoreHealth(d) ==
  /\ redeploy[d] = "health"
  /\ Answers
  /\ RedeployGoes(d, "configure")
  /\ UNCHANGED <<vars, rejob>>

\* The admin, the configuration and the licence: what fails is left for the sweeps.
EndRedeploy(d) ==
  /\ redeploy[d] = "configure"
  /\ SetStoreDeployStatus("deployed")
  /\ RedeployGoes(d, "done")
  /\ UNCHANGED rejob

\* Staging refuses the application, Coolify does not answer, or nothing comes up.
FailRedeploy(d) ==
  /\ redeploy[d] \in {"trigger", "health"}
  /\ SetStoreDeployStatus("failed")
  /\ RedeployGoes(d, "done")
  /\ UNCHANGED rejob

RedeployStep(d) ==
  TriggerRedeploy(d) \/ WaitForStoreHealth(d) \/ EndRedeploy(d) \/ FailRedeploy(d)

\* Coolify runs its job as it runs an attempt's.
RejobStart(d) ==
  /\ rejob[d] = "queued"
  /\ \A a \in Attempts : job[a] # "running"
  /\ \A e \in Redeploys : rejob[e] # "running"
  /\ rejob' = [rejob EXCEPT ![d] = "running"]
  /\ next' = image
  /\ dbSchema' = IF CanOpen(image, dbSchema)
                 THEN Larger(dbSchema, SchemaVersion[image])
                 ELSE dbSchema
  /\ UNCHANGED <<registry, pc, request, outcome, image, main, stopping, job, apps, crashes, redeploy>>

RejobFinish(d) ==
  /\ rejob[d] = "running"
  /\ CanOpen(next, dbSchema)
  /\ rejob' = [rejob EXCEPT ![d] = "none"]
  /\ main' = next
  /\ next' = None
  /\ UNCHANGED <<registry, pc, request, outcome, image, stopping, job, apps, dbSchema, crashes,
                 redeploy>>

RejobFail(d) ==
  /\ rejob[d] # "none"
  /\ rejob' = [rejob EXCEPT ![d] = "none"]
  /\ next' = IF rejob[d] = "running" THEN None ELSE next
  /\ UNCHANGED <<registry, pc, request, outcome, image, main, stopping, job, apps, dbSchema, crashes,
                 redeploy>>

-----------------------------------------------------------------------------
(* Attempts and redeploys together *)

\* An attempt that asks Coolify for the application's jobs sees a redeploy's too.
SeesRejob(a) ==
  pc[a] = "reconcile" /\ pc'[a] = "preflight" => inflight[a] \in tracked \/ ~ActiveRejob

AttemptMoves(a) ==
  /\ Request(a) \/ Step(a)
  /\ SeesRejob(a)
  /\ UNCHANGED redeploys

\* One job of the application at a time
Elsewhere ==
  /\ LockExpires \/ RecordTelemetry \/ CoolifyStep
  /\ (\E d \in Redeploys : rejob[d] = "running") => \A a \in Attempts : job'[a] # "running"
  /\ UNCHANGED redeploys

Restart ==
  /\ \/ Crash
     \/ /\ crashes < MaxCrashes
        /\ (\E d \in Redeploys : Redeploying(d)) /\ \A a \in Attempts : ~Live(a)
        /\ crashes' = crashes + 1
        /\ UNCHANGED <<registry, pc, request, outcome, coolify>>
  /\ redeploy' = [d \in Redeploys |-> IF Redeploying(d) THEN "crashed" ELSE redeploy[d]]
  /\ UNCHANGED rejob

TargetInit ==
  /\ Init
  /\ redeploy = [d \in Redeploys |-> "ready"]
  /\ rejob = [d \in Redeploys |-> "none"]

TargetNext ==
  \/ \E a \in Attempts : AttemptMoves(a)
  \/ \E d \in Redeploys : StartRedeploy(d) \/ RedeployStep(d)
  \/ \E d \in Redeploys : RejobStart(d) \/ RejobFinish(d) \/ RejobFail(d)
  \/ Elsewhere
  \/ Restart

TargetSpec == TargetInit /\ [][TargetNext]_targetVars

\* No attempt waits for a redeploy, so nothing is assumed of how long one takes.
TargetFairSpec == TargetSpec /\ Fairness

-----------------------------------------------------------------------------
(* Properties *)

\* The page and the release engine agree on a tenant: one that blocks nothing and needs
\* the release is one applyReleaseToTenant goes to work on, whatever attempts, redeploys
\* and restarts it has been through.  It neither refuses it nor takes the release for
\* current; it skips it as being deployed only beside a redeploy that is at work or that
\* a restart cut off, for the page looks at release_state alone.
UnblockedApplies ==
  \A r \in Releases :
    CanPromote(r) =>
      /\ Valid("upgrade")
      /\ LockFree
      /\ ~IsCurrent(r, "upgrade")
      /\ ~SchemaRefuses(r)
      /\ IsDeploying(r) => \E d \in Redeploys : Redeploying(d) \/ redeploy[d] = "crashed"

\* What the page means to say, and a redeploy falsifies.
PageForetells == \A r \in Releases : CanPromote(r) => ~IsDeploying(r)
=============================================================================
