------------------------ MODULE TenantReleaseProofs ------------------------
(***************************************************************************)
(* Proofs about TenantRelease for any number of attempts, releases and     *)
(* restarts.  What rests on the thirty-minute lock outliving the attempt   *)
(* that holds it says so (~LockMayLapse); under it TenantRelease also      *)
(* implements TenantContract, through the refinement of TenantTarget.      *)
(***************************************************************************)
EXTENDS TenantTarget, TLAPS

\* What the columns' types rest on: releases are only read off live attempts, and
\* a container is only started from an image that was pinned.
Known ==
  /\ \A a \in Attempts : Live(a) => release[a] \in Releases
  /\ \A a \in Attempts : pc[a] \in Rollout \cup {"configure"} => image \in Releases
  /\ \A a \in Attempts : ActiveJob(a) => image \in Releases

TInv == TypeOK /\ Known

\* Every attempt at work holds the tenant's lock.
LockHeld == \A a \in Attempts : Live(a) => lock = a

\* What an attempt knows of itself.
OwnRecords ==
  \A a \in Attempts :
    /\ pc[a] = "ready" => a \notin tracked
    /\ pc[a] = "reconcile" => inflight[a] = a /\ a \notin tracked
    /\ Live(a) /\ action[a] # "provision" => last = from[a]
    /\ pc[a] \in Provision => action[a] = "provision"
    /\ pc[a] = "configure" => last = release[a]

\* At most one job of the tenant's application is active, on a stopped tenant.
Jobs ==
  /\ \A a, b \in Attempts : ActiveJob(a) /\ ActiveJob(b) => a = b
  /\ next # None => \E a \in Attempts : job[a] = "running"
  /\ ~NoActiveJob => main = None /\ image = desired
  /\ stopping => main # None
  /\ ~app => main = None /\ next = None /\ NoActiveJob /\ last = None

\* What has been established by the time an attempt reaches a step.
Phases ==
  \A a \in Attempts :
    /\ pc[a] \in {"create", "created"} => ~app
    /\ pc[a] \in Change \cup Rollout \cup {"configure"} => app
    /\ Live(a) /\ pc[a] \notin {"reconcile", "preflight"} => desired = release[a]
    /\ pc[a] \in Rollout \cup {"configure"} => image = release[a]
    /\ pc[a] \in {"preflight", "stop", "waitStopped", "update", "configure", "trigger",
                  "verify"} => NoActiveJob
    /\ pc[a] \in {"update", "configure", "trigger"} => main = None /\ next = None
    /\ pc[a] \in {"triggered", "waitJob"} => \A b \in Attempts : ActiveJob(b) => b = a
    /\ pc[a] \in Rollout => ~stopping

\* A deployed tenant is not being worked on yet, and nothing pending can change it.
Deployed ==
  deployStatus = "deployed" =>
    /\ last # None
    /\ image = last
    /\ main = last
    /\ NoActiveJob
    /\ ~stopping
    /\ \A a \in Attempts : Live(a) => pc[a] \in {"reconcile", "preflight"}

IInv ==
  /\ TInv
  /\ LockHeld
  /\ OwnRecords
  /\ Jobs
  /\ Phases
  /\ Deployed
  /\ ProvisioningIsIntended

-----------------------------------------------------------------------------
(* Requests *)

\* A rollback target is a release, so every request is an apply of a release.
LEMMA RequestIsApply ==
  ASSUME TypeOK, NEW a \in Attempts, Request(a)
  PROVE  \E r \in Releases, act \in Actions : Apply(a, r, act)
<1>1. CASE \E r \in Releases, act \in ApplyActions : Apply(a, r, act)
  BY <1>1, RequestAssumption DEF Actions
<1>2. CASE RollbackTenant(a)
  <2>1. PICK t \in RollbackTargets : Apply(a, t, "rollback")
    BY <1>2 DEF RollbackTenant
  <2>2. PICK i \in LastForwardInto(last) : t = from[rows[i]]
    BY <2>1 DEF RollbackTargets
  <2>3. t # None
    BY <2>1 DEF RollbackTargets
  <2>4. i \in DOMAIN rows
    BY <2>2 DEF LastForwardInto
  <2>5. rows[i] \in Attempts
    BY <2>4 DEF TypeOK
  <2>6. t \in Releases
    BY <2>2, <2>3, <2>5 DEF TypeOK
  <2> QED
    BY <2>1, <2>6 DEF Actions
<1> QED
  BY <1>1, <1>2 DEF Request

\* getRunningReleaseDeployment, called after createReleaseDeployment, returns the
\* caller's own row.
LEMMA NewestIsOwn ==
  ASSUME TypeOK, NEW a \in Attempts, NEW c \in Attempts,
         NewestRunning(c, Append(rows, a), [rowStatus EXCEPT ![a] = "running"])
  PROVE  c = a
<1> DEFINE ids == Append(rows, a)
<1>1. /\ DOMAIN ids = 1 .. Len(rows) + 1
      /\ ids[Len(rows) + 1] = a
      /\ Len(rows) \in Nat
  BY DEF TypeOK
<1>2. [rowStatus EXCEPT ![a] = "running"][a] = "running"
  BY DEF TypeOK
<1> HIDE DEF ids
<1>3. PICK i \in DOMAIN ids :
        /\ ids[i] = c
        /\ \A j \in DOMAIN ids : j > i => [rowStatus EXCEPT ![a] = "running"][ids[j]] # "running"
  BY DEF NewestRunning, ids
<1>4. ~ (Len(rows) + 1 > i)
  BY <1>1, <1>2, <1>3
<1>5. i = Len(rows) + 1
  BY <1>1, <1>3, <1>4
<1> QED
  BY <1>1, <1>3, <1>5

\* So the row an admitted attempt goes on to reconcile is its own.
LEMMA AdmittedInflight ==
  ASSUME TypeOK, NEW a \in Attempts, NEW r, NEW act, Admitted(a, r, act)
  PROVE  inflight' = [inflight EXCEPT ![a] = a]
  BY NewestIsOwn DEF Admitted

-----------------------------------------------------------------------------
(* Type correctness *)

\* The initial states satisfy the type invariant.
LEMMA TypeInit == Init => TInv
<1> SUFFICES ASSUME Init PROVE TInv
  OBVIOUS
<1> USE NoneAssumption, SchemaAssumption, RequestAssumption
    DEF Init, NoSchema, Modes, DeployStatuses, ReleaseStates, RowStatuses, Outcomes, Idle,
        JobStatuses, Actions
<1>1. /\ lock \in Attempts \cup {None}
      /\ rows \in Seq(Attempts)
      /\ rowStatus \in [Attempts -> RowStatuses]
      /\ tracked \subseteq Attempts
  OBVIOUS
<1>2. /\ pc \in [Attempts -> Idle \cup Provision \cup Change \cup Rollout]
      /\ release \in [Attempts -> Releases \cup {None}]
      /\ action \in [Attempts -> Actions]
      /\ from \in [Attempts -> Releases \cup {None}]
      /\ seenSchema \in [Attempts -> Nat]
      /\ inflight \in [Attempts -> Attempts \cup {None}]
      /\ outcome \in [Attempts -> Outcomes]
  OBVIOUS
<1>3. /\ last \in Releases \cup {None}
      /\ desired \in Releases \cup {None}
      /\ image \in Releases \cup {None}
      /\ main \in Releases \cup {None}
      /\ next \in Releases \cup {None}
  OBVIOUS
<1>4. app \in BOOLEAN /\ managed \in BOOLEAN /\ stopping \in BOOLEAN
  OBVIOUS
<1>5. mode \in Modes /\ deployStatus \in DeployStatuses /\ releaseState \in ReleaseStates
  OBVIOUS
<1>6. dbSchema \in Nat /\ schema \in Nat /\ apps \in Nat /\ crashes \in 0 .. MaxCrashes
  <2>1. app => last \in Releases
    OBVIOUS
  <2>2. app => SchemaVersion[last] \in Nat
    BY <2>1
  <2> QED
    BY <2>2
<1>7. job \in [Attempts -> JobStatuses]
  OBVIOUS
<1>8. Known
  BY DEF Known, Live, ActiveJob, Rollout
<1> QED
  BY <1>1, <1>2, <1>3, <1>4, <1>5, <1>6, <1>7, <1>8 DEF TInv, TypeOK

\* Every request, refused, skipped or admitted, keeps the type invariant.
LEMMA TypeRequest ==
  ASSUME TypeOK, NEW a \in Attempts, NEW r \in Releases, NEW act \in Actions,
         Apply(a, r, act)
  PROVE  TypeOK'
<1>1. Admitted(a, r, act) => inflight' = [inflight EXCEPT ![a] = a]
  BY AdmittedInflight
<1> USE DEF TypeOK, Requested, Goto, registry, tenantRow, history, coolify, Modes,
            DeployStatuses, ReleaseStates, RowStatuses, Outcomes, Idle, Provision, Change,
            Rollout, JobStatuses, Actions
<1>2. rows' = Append(rows, a) => rows' \in Seq(Attempts)
  OBVIOUS
<1>3. CASE Refused(a, r, act)
  BY <1>3 DEF Refused
<1>4. CASE Locked(a, r, act)
  BY <1>4 DEF Locked
<1>5. CASE Skip(a, r, act)
  <2>1. CASE EndAtOnce(a, r, act, "skipped", "already_current")
    BY <1>2, <1>5, <2>1 DEF Skip, EndAtOnce
  <2>2. CASE EndAtOnce(a, r, act, "skipped", "already_deploying")
    BY <1>2, <1>5, <2>2 DEF Skip, EndAtOnce
  <2> QED
    BY <1>5, <2>1, <2>2 DEF Skip
<1>6. CASE RefuseSchema(a, r, act)
  BY <1>2, <1>6 DEF RefuseSchema, EndAtOnce
<1>7. CASE StartChange(a, r, act)
  <2>1. inflight' = [inflight EXCEPT ![a] = a]
    BY <1>1, <1>7 DEF StartChange
  <2> QED
    BY <1>2, <1>7, <2>1 DEF StartChange, Admitted
<1>8. CASE StartProvision(a, r, act)
  <2>1. inflight' = [inflight EXCEPT ![a] = a]
    BY <1>1, <1>8 DEF StartProvision
  <2> QED
    BY <1>2, <1>8, <2>1 DEF StartProvision, Admitted, Queue
<1> QED
  BY <1>3, <1>4, <1>5, <1>6, <1>7, <1>8 DEF Apply


\* Every step of an attempt keeps it.
LEMMA TypeStep ==
  ASSUME TypeOK, Known, NEW a \in Attempts, Step(a)
  PROVE  TypeOK'
<1> USE DEF TypeOK, Goto, registry, tenantRow, history, request, coolify
<1>1. ASSUME NEW why \in Outcomes, FailWith(a, why)
      PROVE  TypeOK'
  BY <1>1 DEF FailWith, ReleaseLock, Idle, RowStatuses, DeployStatuses, ReleaseStates
<1>2. CASE Reconcile(a)
  <2>1. rowStatus' \in [Attempts -> RowStatuses]
    BY <1>2 DEF Reconcile, RowStatuses
  <2> QED
    BY <1>2, <2>1 DEF Reconcile, Change
<1>3. CASE RefuseBusy(a)
  BY <1>1, <1>3 DEF RefuseBusy, Outcomes
<1>4. CASE Preflight(a)
  <2>1. release[a] \in Releases
    BY <1>4 DEF Preflight, Known, Live, Idle
  <2> QED
    BY <1>4, <2>1 DEF Preflight, Queue, Change, DeployStatuses, ReleaseStates
<1>5. CASE RefuseIdentity(a)
  BY <1>1, <1>5 DEF RefuseIdentity, Outcomes
<1>6. CASE StopApplication(a)
  BY <1>6 DEF StopApplication, Change
<1>7. CASE WaitForApplicationStopped(a)
  BY <1>7 DEF WaitForApplicationStopped, Change
<1>8. CASE UpdateApplicationImage(a)
  BY <1>8 DEF UpdateApplicationImage, Change, Rollout, Known, Live, Idle
<1>9. CASE CreateApplication(a)
  BY <1>9 DEF CreateApplication, Provision
<1>10. ASSUME pc[a] \in {"created", "configure"}
       PROVE  /\ release[a] \in Releases
              /\ SchemaVersion[release[a]] \in Nat
  BY <1>10, SchemaAssumption DEF Known, Live, Idle
<1>11. CASE OnCreated(a)
  <2>1. /\ release[a] \in Releases
        /\ SchemaVersion[release[a]] \in Nat
    BY <1>10, <1>11 DEF OnCreated
  <2> QED
    BY <1>11, <2>1 DEF OnCreated, RecordProvisioned, Queue, Provision, Modes,
       DeployStatuses, ReleaseStates
<1>12. CASE ConfigureApplication(a)
  <2>1. /\ release[a] \in Releases
        /\ SchemaVersion[release[a]] \in Nat
    BY <1>10, <1>12 DEF ConfigureApplication
  <2> QED
    BY <1>12, <2>1 DEF ConfigureApplication, RecordProvisioned, Queue, Rollout, Modes,
       DeployStatuses, ReleaseStates
<1>13. CASE TriggerDeploy(a)
  BY <1>13 DEF TriggerDeploy, Rollout, JobStatuses
<1>14. CASE TrackDeployment(a)
  BY <1>14 DEF TrackDeployment, Rollout, DeployStatuses, ReleaseStates
<1>15. CASE WaitForCoolifyDeployment(a)
  BY <1>15 DEF WaitForCoolifyDeployment, Rollout, DeployStatuses, ReleaseStates
<1>16. CASE Complete(a)
  <2>1. /\ release[a] \in Releases
        /\ SchemaVersion[release[a]] \in Nat
    BY <1>16, SchemaAssumption DEF Complete, Known, Live, Idle
  <2> QED
    BY <1>16, <2>1 DEF Complete, ReleaseLock, Larger, Idle, Outcomes, RowStatuses,
       DeployStatuses, ReleaseStates
<1>17. CASE Fail(a)
  BY <1>1, <1>17 DEF Fail, Outcomes
<1> QED
  BY <1>2, <1>3, <1>4, <1>5, <1>6, <1>7, <1>8, <1>9, <1>11, <1>12, <1>13, <1>14,
     <1>15, <1>16, <1>17 DEF Step

\* So does everything around the attempts.
LEMMA TypeEnvironment ==
  ASSUME TypeOK, Known, Environment
  PROVE  TypeOK'
<1> USE DEF TypeOK, registry, tenantRow, history, request, coolify
<1>1. CASE Crash
  BY <1>1, RequestAssumption DEF Crash, Idle
<1>2. CASE LockExpires
  BY <1>2 DEF LockExpires
<1>3. CASE RecordTelemetry
  BY <1>3 DEF RecordTelemetry
<1>4. CASE RemoveContainer
  <2>1. main' \in Releases \cup {None}
    BY <1>4 DEF RemoveContainer
  <2> QED
    BY <1>4, <2>1 DEF RemoveContainer
<1>5. ASSUME NEW a \in Attempts, JobStart(a)
      PROVE  TypeOK'
  <2>1. image \in Releases
    BY <1>5 DEF JobStart, Known, ActiveJob
  <2>2. SchemaVersion[image] \in Nat
    BY <2>1, SchemaAssumption
  <2> QED
    BY <1>5, <2>1, <2>2 DEF JobStart, Larger, JobStatuses
<1>6. ASSUME NEW a \in Attempts, JobFinish(a)
      PROVE  TypeOK'
  <2>1. main' \in Releases \cup {None} /\ next' \in Releases \cup {None}
    BY <1>6 DEF JobFinish
  <2> QED
    BY <1>6, <2>1 DEF JobFinish, JobStatuses
<1>7. ASSUME NEW a \in Attempts, JobFail(a)
      PROVE  TypeOK'
  BY <1>7 DEF JobFail, JobStatuses
<1> QED
  BY <1>1, <1>2, <1>3, <1>4, <1>5, <1>6, <1>7 DEF Environment, CoolifyStep

\* What the types rest on is kept as well: an image is only ever pinned from a request.
LEMMA KnownNext ==
  ASSUME TInv, [Next]_vars
  PROVE  Known'
<1> USE DEF TInv, registry, tenantRow, history, request, coolify, Goto
<1>1. ASSUME NEW a \in Attempts, NEW r \in Releases, NEW act \in Actions, Apply(a, r, act)
      PROVE  Known'
  <2>1. /\ release' = [release EXCEPT ![a] = r]
        /\ pc[a] = "ready"
        /\ UNCHANGED <<image, job>>
        /\ \E l \in {"done", "reconcile", "create"} : pc' = [pc EXCEPT ![a] = l]
    <3>1. Requested(a, r, act) /\ UNCHANGED coolify
      BY <1>1 DEF Apply, Refused, Locked, Skip, RefuseSchema, EndAtOnce, StartChange,
                  StartProvision, Admitted
    <3>2. \E l \in {"done", "reconcile", "create"} : Goto(a, l)
      BY <1>1 DEF Apply, Refused, Locked, Skip, RefuseSchema, EndAtOnce, StartChange,
                  StartProvision
    <3> QED
      BY <3>1, <3>2 DEF Requested
  <2> QED
    BY <2>1 DEF TypeOK, Known, Live, Idle, Rollout, ActiveJob
<1>2. ASSUME NEW a \in Attempts, Step(a)
      PROVE  Known'
  <2>1. CASE UpdateApplicationImage(a) \/ OnCreated(a)
    BY <2>1 DEF UpdateApplicationImage, OnCreated, TypeOK, Known, Live, Idle, ActiveJob
  <2>2. CASE TriggerDeploy(a)
    BY <2>2 DEF TriggerDeploy, TypeOK, Known, Live, Idle, Rollout, ActiveJob
  <2>3. ASSUME UNCHANGED <<image, job, release>>,
               \/ \E l \in {"preflight", "stop", "waitStopped", "update", "created", "done"} :
                    Goto(a, l)
               \/ \E l \in Rollout : Goto(a, l) /\ pc[a] \in Rollout \cup {"configure"},
               Live(a)
        PROVE  Known'
    BY <2>3 DEF TypeOK, Known, Live, Idle, Rollout, ActiveJob
  <2>4. ASSUME NEW why, FailWith(a, why), Live(a)
        PROVE  Known'
    BY <2>4, <2>3 DEF FailWith
  <2>5. CASE RefuseBusy(a) \/ RefuseIdentity(a) \/ Fail(a)
    BY <2>5, <2>4 DEF RefuseBusy, RefuseIdentity, Fail, Live, Idle, Provision, Change, Rollout
  <2>6. CASE Reconcile(a) \/ Preflight(a) \/ StopApplication(a)
             \/ WaitForApplicationStopped(a) \/ CreateApplication(a)
    BY <2>6, <2>3 DEF Reconcile, Preflight, StopApplication, WaitForApplicationStopped,
                      CreateApplication, Live, Idle
  <2>7. CASE ConfigureApplication(a) \/ TrackDeployment(a) \/ WaitForCoolifyDeployment(a)
             \/ Complete(a)
    BY <2>7, <2>3 DEF ConfigureApplication, TrackDeployment, WaitForCoolifyDeployment,
                      Complete, Live, Idle, Rollout
  <2> QED
    BY <1>2, <2>1, <2>2, <2>5, <2>6, <2>7 DEF Step
<1>3. CASE Environment
  <2>1. CASE Crash
    BY <2>1 DEF Crash, Known, Live, Idle, Rollout, ActiveJob
  <2>2. CASE LockExpires \/ RecordTelemetry \/ RemoveContainer
    BY <2>2 DEF LockExpires, RecordTelemetry, RemoveContainer, Known, Live, ActiveJob
  <2>3. ASSUME NEW a \in Attempts, JobStart(a) \/ JobFinish(a) \/ JobFail(a)
        PROVE  Known'
    BY <2>3 DEF JobStart, JobFinish, JobFail, TypeOK, Known, Live, ActiveJob
  <2> QED
    BY <1>3, <2>1, <2>2, <2>3 DEF Environment, CoolifyStep
<1>4. CASE UNCHANGED vars
  BY <1>4 DEF vars, Known, Live, ActiveJob
<1> QED
  BY <1>1, <1>2, <1>3, <1>4, RequestIsApply DEF Next

\* The type invariant, with what it rests on, is inductive.
LEMMA TypeNext == TInv /\ [Next]_vars => TInv'
<1> SUFFICES ASSUME TInv, [Next]_vars PROVE TypeOK'
  BY KnownNext DEF TInv
<1>1. ASSUME NEW a \in Attempts, Request(a)
      PROVE  TypeOK'
  <2>1. PICK r \in Releases, act \in Actions : Apply(a, r, act)
    BY <1>1, RequestIsApply DEF TInv
  <2> QED
    BY <2>1, TypeRequest DEF TInv
<1>2. ASSUME NEW a \in Attempts, Step(a)
      PROVE  TypeOK'
  BY <1>2, TypeStep DEF TInv
<1>3. CASE Environment
  BY <1>3, TypeEnvironment DEF TInv
<1>4. CASE UNCHANGED vars
  BY <1>4 DEF TInv, TypeOK, vars, registry, request, coolify
<1> QED
  BY <1>1, <1>2, <1>3, <1>4 DEF Next

\* In every reachable state each variable keeps to the values its column, reply or
\* handler step can have.
THEOREM TypeCorrect == Spec => []TypeOK
<1>1. Init => TInv
  BY TypeInit
<1>2. TInv /\ [Next]_vars => TInv'
  BY TypeNext
<1>3. TInv => TypeOK
  BY DEF TInv
<1> QED
  BY <1>1, <1>2, <1>3, PTL DEF Spec

-----------------------------------------------------------------------------
(* The inductive invariant *)

Kept == LockHeld' /\ OwnRecords' /\ Jobs' /\ Phases' /\ Deployed' /\ ProvisioningIsIntended'

\* The initial states satisfy it.
LEMMA InvInit == Init => IInv
<1> SUFFICES ASSUME Init PROVE IInv
  OBVIOUS
<1>1. TInv
  BY TypeInit
<1>2. /\ \A a \in Attempts : pc[a] = "ready" /\ ~ActiveJob(a)
      /\ tracked = {}
      /\ next = None
      /\ ~stopping
  BY DEF Init, ActiveJob
<1>3. LockHeld /\ OwnRecords /\ Phases
  BY <1>2 DEF LockHeld, OwnRecords, Phases, Live, Idle, Provision, Change, Rollout
<1>4. Jobs
  BY <1>2 DEF Init, Jobs, NoActiveJob, ActiveJob
<1>5. Deployed
  BY <1>2 DEF Init, Deployed, NoActiveJob, Live, Idle
<1>6. ProvisioningIsIntended
  BY DEF Init, ProvisioningIsIntended
<1> QED
  BY <1>1, <1>3, <1>4, <1>5, <1>6 DEF IInv

\* A refused, locked or skipped request disturbs nothing; a schema refusal only marks
\* the tenant failed.
LEMMA EndedRequestKeeps ==
  ASSUME IInv, NEW a \in Attempts, NEW r \in Releases, NEW act \in Actions,
         Refused(a, r, act) \/ Locked(a, r, act) \/ Skip(a, r, act) \/ RefuseSchema(a, r, act)
  PROVE  Kept
<1>1. /\ pc[a] = "ready"
      /\ pc' = [pc EXCEPT ![a] = "done"]
      /\ release' = [release EXCEPT ![a] = r]
      /\ action' = [action EXCEPT ![a] = act]
      /\ from' = [from EXCEPT ![a] = last]
      /\ UNCHANGED <<lock, app, desired, last, tracked, inflight, image, main, next,
                     stopping, job>>
      /\ deployStatus' \in {deployStatus, "failed"}
  BY DEF Refused, Locked, Skip, RefuseSchema, EndAtOnce, Requested, Goto, registry, coolify
<1> USE <1>1 DEF IInv, TInv, TypeOK, Live, Idle
<1>2. LockHeld'
  BY DEF LockHeld
<1>3. OwnRecords'
  BY DEF OwnRecords, Provision
<1>4. Jobs'
  BY DEF Jobs, NoActiveJob, ActiveJob
<1>5. Phases'
  BY DEF Phases, NoActiveJob, ActiveJob, Change, Rollout
<1>6. Deployed'
  BY DEF Deployed, NoActiveJob, ActiveJob
<1>7. ProvisioningIsIntended'
  BY DEF ProvisioningIsIntended
<1> QED
  BY <1>2, <1>3, <1>4, <1>5, <1>6, <1>7 DEF Kept

\* An admitted request takes a lock nobody holds, so it is alone.
LEMMA AdmittedRequestKeeps ==
  ASSUME IInv, NEW a \in Attempts, NEW r \in Releases, NEW act \in Actions,
         StartChange(a, r, act) \/ StartProvision(a, r, act)
  PROVE  Kept
<1>1. \A b \in Attempts : ~Live(b)
  BY NoneAssumption DEF StartChange, StartProvision, Admitted, LockFree, IInv, LockHeld
<1>2. Admitted(a, r, act)
  BY DEF StartChange, StartProvision
<1>3. /\ pc[a] = "ready"
      /\ release' = [release EXCEPT ![a] = r]
      /\ action' = [action EXCEPT ![a] = act]
      /\ from' = [from EXCEPT ![a] = last]
      /\ lock' = a
      /\ Valid(act)
  BY <1>2 DEF Admitted, Requested
<1>4. inflight' = [inflight EXCEPT ![a] = a]
  BY <1>2, AdmittedInflight DEF IInv, TInv
<1>5. UNCHANGED <<app, last, tracked, image, main, next, stopping, job>>
  BY DEF StartChange, StartProvision, tenantRow, coolify
<1> USE DEF IInv, TInv, TypeOK, Live, Idle
<1>6. CASE StartChange(a, r, act)
  <2>1. /\ pc' = [pc EXCEPT ![a] = "reconcile"]
        /\ UNCHANGED <<desired, deployStatus>>
        /\ app
    BY <1>3, <1>6 DEF StartChange, Goto, tenantRow, Valid
  <2> USE <1>1, <1>3, <1>4, <1>5, <2>1
  <2>2. LockHeld'
    BY DEF LockHeld
  <2>3. OwnRecords'
    BY DEF OwnRecords, Provision
  <2>4. Jobs'
    BY DEF Jobs, NoActiveJob, ActiveJob
  <2>5. Phases'
    BY DEF Phases, NoActiveJob, ActiveJob, Change, Rollout
  <2>6. Deployed'
    BY DEF Deployed, NoActiveJob, ActiveJob
  <2>7. ProvisioningIsIntended'
    BY DEF ProvisioningIsIntended
  <2> QED
    BY <2>2, <2>3, <2>4, <2>5, <2>6, <2>7 DEF Kept
<1>7. CASE StartProvision(a, r, act)
  <2>1. /\ pc' = [pc EXCEPT ![a] = "create"]
        /\ desired' = r
        /\ deployStatus' = "provisioning"
        /\ act = "provision"
        /\ ~app
    BY <1>3, <1>7 DEF StartProvision, Goto, Queue, Valid
  <2> USE <1>1, <1>3, <1>4, <1>5, <2>1
  <2>2. LockHeld'
    BY DEF LockHeld
  <2>3. OwnRecords'
    BY DEF OwnRecords, Provision
  <2>4. Jobs'
    BY DEF Jobs, NoActiveJob, ActiveJob
  <2>5. Phases'
    BY DEF Phases, NoActiveJob, ActiveJob, Change, Rollout
  <2>6. Deployed'
    BY DEF Deployed
  <2>7. ProvisioningIsIntended'
    BY DEF ProvisioningIsIntended
  <2> QED
    BY <2>2, <2>3, <2>4, <2>5, <2>6, <2>7 DEF Kept
<1> QED
  BY <1>6, <1>7

\* The attempt at work is alone.
LEMMA Alone ==
  ASSUME IInv, NEW a \in Attempts, Live(a)
  PROVE  lock = a /\ \A b \in Attempts : Live(b) => b = a
  BY DEF IInv, LockHeld

\* An attempt that fails leaves the application as it is, unlocks the tenant and marks
\* it failed.
LEMMA FailKeeps ==
  ASSUME IInv, NEW a \in Attempts, Live(a), NEW why, FailWith(a, why)
  PROVE  Kept
<1>1. lock = a /\ \A b \in Attempts : Live(b) => b = a
  BY Alone
<1>2. /\ pc' = [pc EXCEPT ![a] = "done"]
      /\ deployStatus' = "failed"
      /\ lock' = None
      /\ UNCHANGED <<app, desired, last, tracked, release, action, from, inflight, image,
                     main, next, stopping, job>>
  BY <1>1 DEF FailWith, ReleaseLock, request, coolify
<1>3. \A b \in Attempts : ~Live(b)'
  BY <1>1, <1>2 DEF Live, Idle, IInv, TInv, TypeOK
<1> USE <1>1, <1>2, <1>3 DEF IInv, TInv, TypeOK
<1>4. LockHeld'
  BY DEF LockHeld
<1>5. OwnRecords'
  BY DEF OwnRecords, Live, Idle, Provision
<1>6. Jobs'
  BY DEF Jobs, NoActiveJob, ActiveJob
<1>7. Phases'
  BY DEF Phases, Live, Idle, Change, Rollout
<1>8. Deployed' /\ ProvisioningIsIntended'
  BY DEF Deployed, ProvisioningIsIntended
<1> QED
  BY <1>4, <1>5, <1>6, <1>7, <1>8 DEF Kept

\* Reconcile proves that no job is active: the row it asks about is its own, untracked.
LEMMA ReconcileKeeps ==
  ASSUME IInv, NEW a \in Attempts, Reconcile(a)
  PROVE  Kept
<1>1. pc[a] = "reconcile" /\ Live(a)
  BY DEF Reconcile, Live, Idle
<1>2. lock = a /\ \A b \in Attempts : Live(b) => b = a
  BY <1>1, Alone
<1>3. /\ pc' = [pc EXCEPT ![a] = "preflight"]
      /\ UNCHANGED <<lock, app, deployStatus, desired, last, tracked, release, action, from, inflight,
                     image, main, next, stopping, job>>
      /\ NoActiveJob
  BY <1>1, <1>2 DEF Reconcile, Goto, tenantRow, request, coolify, InFlightActive, IInv, OwnRecords
<1>4. release[a] \in Releases
  BY <1>1 DEF IInv, TInv, Known
<1> USE <1>1, <1>2, <1>3, <1>4 DEF IInv, TInv, TypeOK, Live, Idle
<1>5. LockHeld'
  BY DEF LockHeld
<1>6. OwnRecords'
  BY DEF OwnRecords, Provision, Phases
<1>7. Jobs'
  BY DEF Jobs, Phases, NoActiveJob, ActiveJob, Change, Rollout
<1>8. Phases'
  BY DEF Phases, Jobs, NoActiveJob, ActiveJob, Change, Rollout
<1>9. Deployed'
  BY NoneAssumption DEF Deployed, Phases, NoActiveJob, ActiveJob, Rollout
<1>10. ProvisioningIsIntended'
  BY DEF ProvisioningIsIntended, Phases
<1> QED
  BY <1>5, <1>6, <1>7, <1>8, <1>9, <1>10 DEF Kept

\* Preflight marks the tenant before anything is touched.
LEMMA PreflightKeeps ==
  ASSUME IInv, NEW a \in Attempts, Preflight(a)
  PROVE  Kept
<1>1. pc[a] = "preflight" /\ Live(a)
  BY DEF Preflight, Live, Idle
<1>2. lock = a /\ \A b \in Attempts : Live(b) => b = a
  BY <1>1, Alone
<1>3. /\ pc' = [pc EXCEPT ![a] = "stop"]
      /\ desired' = release[a]
      /\ deployStatus' = "provisioning"
      /\ UNCHANGED <<lock, app, last, tracked, release, action, from, inflight, image, main, next,
                     stopping, job>>
  BY <1>1, <1>2 DEF Preflight, Queue, Goto, history, request, coolify
<1>4. release[a] \in Releases
  BY <1>1 DEF IInv, TInv, Known
<1> USE <1>1, <1>2, <1>3, <1>4 DEF IInv, TInv, TypeOK, Live, Idle
<1>5. LockHeld'
  BY DEF LockHeld
<1>6. OwnRecords'
  BY DEF OwnRecords, Provision, Phases
<1>7. Jobs'
  BY DEF Jobs, Phases, NoActiveJob, ActiveJob, Change, Rollout
<1>8. Phases'
  BY DEF Phases, Jobs, NoActiveJob, ActiveJob, Change, Rollout
<1>9. Deployed'
  BY NoneAssumption DEF Deployed, Phases, NoActiveJob, ActiveJob, Rollout
<1>10. ProvisioningIsIntended'
  BY DEF ProvisioningIsIntended, Phases
<1> QED
  BY <1>5, <1>6, <1>7, <1>8, <1>9, <1>10 DEF Kept

\* The stop is asked of a running container.
LEMMA StopApplicationKeeps ==
  ASSUME IInv, NEW a \in Attempts, StopApplication(a)
  PROVE  Kept
<1>1. pc[a] = "stop" /\ Live(a)
  BY DEF StopApplication, Live, Idle
<1>2. lock = a /\ \A b \in Attempts : Live(b) => b = a
  BY <1>1, Alone
<1>3. /\ pc' = [pc EXCEPT ![a] = "waitStopped"]
      /\ stopping' = (main # None)
      /\ UNCHANGED <<lock, app, deployStatus, desired, last, tracked, release, action, from, inflight,
                     image, main, next, job>>
  BY <1>1, <1>2 DEF StopApplication, Goto, registry, request
<1>4. release[a] \in Releases
  BY <1>1 DEF IInv, TInv, Known
<1> USE <1>1, <1>2, <1>3, <1>4 DEF IInv, TInv, TypeOK, Live, Idle
<1>5. LockHeld'
  BY DEF LockHeld
<1>6. OwnRecords'
  BY DEF OwnRecords, Provision, Phases
<1>7. Jobs'
  BY DEF Jobs, Phases, NoActiveJob, ActiveJob, Change, Rollout
<1>8. Phases'
  BY DEF Phases, Jobs, NoActiveJob, ActiveJob, Change, Rollout
<1>9. Deployed'
  BY NoneAssumption DEF Deployed, Phases, NoActiveJob, ActiveJob, Rollout
<1>10. ProvisioningIsIntended'
  BY DEF ProvisioningIsIntended, Phases
<1> QED
  BY <1>5, <1>6, <1>7, <1>8, <1>9, <1>10 DEF Kept

\* The wait ends with no container left.
LEMMA WaitForApplicationStoppedKeeps ==
  ASSUME IInv, NEW a \in Attempts, WaitForApplicationStopped(a)
  PROVE  Kept
<1>1. pc[a] = "waitStopped" /\ Live(a)
  BY DEF WaitForApplicationStopped, Live, Idle
<1>2. lock = a /\ \A b \in Attempts : Live(b) => b = a
  BY <1>1, Alone
<1>3. /\ pc' = [pc EXCEPT ![a] = "update"]
      /\ main = None /\ next = None
      /\ UNCHANGED <<lock, app, deployStatus, desired, last, tracked, release, action, from, inflight,
                     image, main, next, stopping, job>>
  BY <1>1, <1>2 DEF WaitForApplicationStopped, Goto, registry, request, coolify
<1>4. release[a] \in Releases
  BY <1>1 DEF IInv, TInv, Known
<1> USE <1>1, <1>2, <1>3, <1>4 DEF IInv, TInv, TypeOK, Live, Idle
<1>5. LockHeld'
  BY DEF LockHeld
<1>6. OwnRecords'
  BY DEF OwnRecords, Provision, Phases
<1>7. Jobs'
  BY DEF Jobs, Phases, NoActiveJob, ActiveJob, Change, Rollout
<1>8. Phases'
  BY DEF Phases, Jobs, NoActiveJob, ActiveJob, Change, Rollout
<1>9. Deployed'
  BY NoneAssumption DEF Deployed, Phases, NoActiveJob, ActiveJob, Rollout
<1>10. ProvisioningIsIntended'
  BY DEF ProvisioningIsIntended, Phases
<1> QED
  BY <1>5, <1>6, <1>7, <1>8, <1>9, <1>10 DEF Kept

\* The image is pinned on a stopped tenant without an active job.
LEMMA UpdateApplicationImageKeeps ==
  ASSUME IInv, NEW a \in Attempts, UpdateApplicationImage(a)
  PROVE  Kept
<1>1. pc[a] = "update" /\ Live(a)
  BY DEF UpdateApplicationImage, Live, Idle
<1>2. lock = a /\ \A b \in Attempts : Live(b) => b = a
  BY <1>1, Alone
<1>3. /\ pc' = [pc EXCEPT ![a] = "trigger"]
      /\ image' = release[a]
      /\ UNCHANGED <<lock, app, deployStatus, desired, last, tracked, release, action, from, inflight,
                     main, next, stopping, job>>
  BY <1>1, <1>2 DEF UpdateApplicationImage, Goto, registry, request
<1>4. release[a] \in Releases
  BY <1>1 DEF IInv, TInv, Known
<1> USE <1>1, <1>2, <1>3, <1>4 DEF IInv, TInv, TypeOK, Live, Idle
<1>5. LockHeld'
  BY DEF LockHeld
<1>6. OwnRecords'
  BY DEF OwnRecords, Provision, Phases
<1>7. Jobs'
  BY DEF Jobs, Phases, NoActiveJob, ActiveJob, Change, Rollout
<1>8. Phases'
  BY DEF Phases, Jobs, NoActiveJob, ActiveJob, Change, Rollout
<1>9. Deployed'
  BY NoneAssumption DEF Deployed, Phases, NoActiveJob, ActiveJob, Rollout
<1>10. ProvisioningIsIntended'
  BY DEF ProvisioningIsIntended, Phases
<1> QED
  BY <1>5, <1>6, <1>7, <1>8, <1>9, <1>10 DEF Kept

\* The creation changes nothing the registry knows yet.
LEMMA CreateApplicationKeeps ==
  ASSUME IInv, NEW a \in Attempts, CreateApplication(a)
  PROVE  Kept
<1>1. pc[a] = "create" /\ Live(a)
  BY DEF CreateApplication, Live, Idle
<1>2. lock = a /\ \A b \in Attempts : Live(b) => b = a
  BY <1>1, Alone
<1>3. /\ pc' = [pc EXCEPT ![a] = "created"]
      /\ UNCHANGED <<lock, app, deployStatus, desired, last, tracked, release, action, from, inflight,
                     image, main, next, stopping, job>>
  BY <1>1, <1>2 DEF CreateApplication, Goto, registry, request
<1>4. release[a] \in Releases
  BY <1>1 DEF IInv, TInv, Known
<1> USE <1>1, <1>2, <1>3, <1>4 DEF IInv, TInv, TypeOK, Live, Idle
<1>5. LockHeld'
  BY DEF LockHeld
<1>6. OwnRecords'
  BY DEF OwnRecords, Provision, Phases
<1>7. Jobs'
  BY DEF Jobs, Phases, NoActiveJob, ActiveJob, Change, Rollout
<1>8. Phases'
  BY DEF Phases, Jobs, NoActiveJob, ActiveJob, Change, Rollout
<1>9. Deployed'
  BY NoneAssumption DEF Deployed, Phases, NoActiveJob, ActiveJob, Rollout
<1>10. ProvisioningIsIntended'
  BY DEF ProvisioningIsIntended, Phases
<1> QED
  BY <1>5, <1>6, <1>7, <1>8, <1>9, <1>10 DEF Kept

\* Persisting the application makes its image the recorded one.
LEMMA OnCreatedKeeps ==
  ASSUME IInv, NEW a \in Attempts, OnCreated(a)
  PROVE  Kept
<1>1. pc[a] = "created" /\ Live(a)
  BY DEF OnCreated, Live, Idle
<1>2. lock = a /\ \A b \in Attempts : Live(b) => b = a
  BY <1>1, Alone
<1>3. /\ pc' = [pc EXCEPT ![a] = "configure"]
      /\ app'
      /\ last' = release[a]
      /\ image' = release[a]
      /\ desired' = release[a]
      /\ deployStatus' = "provisioning"
      /\ UNCHANGED <<lock, tracked, release, action, from, inflight, main, next, stopping, job>>
  BY <1>1, <1>2 DEF OnCreated, RecordProvisioned, Queue, Goto, history, request
<1>4. release[a] \in Releases
  BY <1>1 DEF IInv, TInv, Known
<1> USE <1>1, <1>2, <1>3, <1>4 DEF IInv, TInv, TypeOK, Live, Idle
<1>5. LockHeld'
  BY DEF LockHeld
<1>6. OwnRecords'
  BY DEF OwnRecords, Provision, Phases
<1>7. Jobs'
  BY DEF Jobs, Phases, NoActiveJob, ActiveJob, Change, Rollout
<1>8. Phases'
  BY DEF Phases, Jobs, NoActiveJob, ActiveJob, Change, Rollout
<1>9. Deployed'
  BY NoneAssumption DEF Deployed, Phases, NoActiveJob, ActiveJob, Rollout
<1>10. ProvisioningIsIntended'
  BY DEF ProvisioningIsIntended, Phases
<1> QED
  BY <1>5, <1>6, <1>7, <1>8, <1>9, <1>10 DEF Kept

\* Registration records the same release again.
LEMMA ConfigureApplicationKeeps ==
  ASSUME IInv, NEW a \in Attempts, ConfigureApplication(a)
  PROVE  Kept
<1>1. pc[a] = "configure" /\ Live(a)
  BY DEF ConfigureApplication, Live, Idle
<1>2. lock = a /\ \A b \in Attempts : Live(b) => b = a
  BY <1>1, Alone
<1>3. /\ pc' = [pc EXCEPT ![a] = "trigger"]
      /\ app'
      /\ last' = release[a]
      /\ desired' = release[a]
      /\ deployStatus' = "provisioning"
      /\ UNCHANGED <<lock, tracked, release, action, from, inflight, image, main, next, stopping, job>>
  BY <1>1, <1>2 DEF ConfigureApplication, RecordProvisioned, Queue, Goto, history, request, coolify
<1>4. release[a] \in Releases
  BY <1>1 DEF IInv, TInv, Known
<1> USE <1>1, <1>2, <1>3, <1>4 DEF IInv, TInv, TypeOK, Live, Idle
<1>5. LockHeld'
  BY DEF LockHeld
<1>6. OwnRecords'
  BY DEF OwnRecords, Provision, Phases
<1>7. Jobs'
  BY DEF Jobs, Phases, NoActiveJob, ActiveJob, Change, Rollout
<1>8. Phases'
  BY DEF Phases, Jobs, NoActiveJob, ActiveJob, Change, Rollout
<1>9. Deployed'
  BY NoneAssumption DEF Deployed, Phases, NoActiveJob, ActiveJob, Rollout
<1>10. ProvisioningIsIntended'
  BY DEF ProvisioningIsIntended, Phases
<1> QED
  BY <1>5, <1>6, <1>7, <1>8, <1>9, <1>10 DEF Kept

\* The job is queued on a stopped tenant whose pinned image is the desired release.
LEMMA TriggerDeployKeeps ==
  ASSUME IInv, NEW a \in Attempts, TriggerDeploy(a)
  PROVE  Kept
<1>1. pc[a] = "trigger" /\ Live(a)
  BY DEF TriggerDeploy, Live, Idle
<1>2. lock = a /\ \A b \in Attempts : Live(b) => b = a
  BY <1>1, Alone
<1>3. /\ pc' = [pc EXCEPT ![a] = "triggered"]
      /\ job' = [job EXCEPT ![a] = "queued"]
      /\ UNCHANGED <<lock, app, deployStatus, desired, last, tracked, release, action, from, inflight,
                     image, main, next, stopping>>
  BY <1>1, <1>2 DEF TriggerDeploy, Goto, registry, request
<1>4. release[a] \in Releases
  BY <1>1 DEF IInv, TInv, Known
<1> USE <1>1, <1>2, <1>3, <1>4 DEF IInv, TInv, TypeOK, Live, Idle
<1>5. LockHeld'
  BY DEF LockHeld
<1>6. OwnRecords'
  BY DEF OwnRecords, Provision, Phases
<1>7. Jobs'
  BY DEF Jobs, Phases, NoActiveJob, ActiveJob, Change, Rollout
<1>8. Phases'
  BY DEF Phases, Jobs, NoActiveJob, ActiveJob, Change, Rollout
<1>9. Deployed'
  BY NoneAssumption DEF Deployed, Phases, NoActiveJob, ActiveJob, Rollout
<1>10. ProvisioningIsIntended'
  BY DEF ProvisioningIsIntended, Phases
<1> QED
  BY <1>5, <1>6, <1>7, <1>8, <1>9, <1>10 DEF Kept

\* Tracking writes the row and the tenant's phase.
LEMMA TrackDeploymentKeeps ==
  ASSUME IInv, NEW a \in Attempts, TrackDeployment(a)
  PROVE  Kept
<1>1. pc[a] = "triggered" /\ Live(a)
  BY DEF TrackDeployment, Live, Idle
<1>2. lock = a /\ \A b \in Attempts : Live(b) => b = a
  BY <1>1, Alone
<1>3. /\ pc' = [pc EXCEPT ![a] = "waitJob"]
      /\ tracked' = tracked \cup {a}
      /\ deployStatus' = "provisioning"
      /\ UNCHANGED <<lock, app, desired, last, release, action, from, inflight, image, main, next,
                     stopping, job>>
  BY <1>1, <1>2 DEF TrackDeployment, Goto, request, coolify
<1>4. release[a] \in Releases
  BY <1>1 DEF IInv, TInv, Known
<1> USE <1>1, <1>2, <1>3, <1>4 DEF IInv, TInv, TypeOK, Live, Idle
<1>5. LockHeld'
  BY DEF LockHeld
<1>6. OwnRecords'
  BY DEF OwnRecords, Provision, Phases
<1>7. Jobs'
  BY DEF Jobs, Phases, NoActiveJob, ActiveJob, Change, Rollout
<1>8. Phases'
  BY DEF Phases, Jobs, NoActiveJob, ActiveJob, Change, Rollout
<1>9. Deployed'
  BY NoneAssumption DEF Deployed, Phases, NoActiveJob, ActiveJob, Rollout
<1>10. ProvisioningIsIntended'
  BY DEF ProvisioningIsIntended, Phases
<1> QED
  BY <1>5, <1>6, <1>7, <1>8, <1>9, <1>10 DEF Kept

\* The wait ends with the attempt's own job, the only one, finished.
LEMMA WaitForCoolifyDeploymentKeeps ==
  ASSUME IInv, NEW a \in Attempts, WaitForCoolifyDeployment(a)
  PROVE  Kept
<1>1. pc[a] = "waitJob" /\ Live(a)
  BY DEF WaitForCoolifyDeployment, Live, Idle
<1>2. lock = a /\ \A b \in Attempts : Live(b) => b = a
  BY <1>1, Alone
<1>3. /\ pc' = [pc EXCEPT ![a] = "verify"]
      /\ job[a] = "finished"
      /\ deployStatus' = "provisioning"
      /\ UNCHANGED <<lock, app, desired, last, tracked, release, action, from, inflight, image, main,
                     next, stopping, job>>
  BY <1>1, <1>2 DEF WaitForCoolifyDeployment, Goto, history, request, coolify
<1>4. release[a] \in Releases
  BY <1>1 DEF IInv, TInv, Known
<1> USE <1>1, <1>2, <1>3, <1>4 DEF IInv, TInv, TypeOK, Live, Idle
<1>5. LockHeld'
  BY DEF LockHeld
<1>6. OwnRecords'
  BY DEF OwnRecords, Provision, Phases
<1>7. Jobs'
  BY DEF Jobs, Phases, NoActiveJob, ActiveJob, Change, Rollout
<1>8. Phases'
  BY DEF Phases, Jobs, NoActiveJob, ActiveJob, Change, Rollout
<1>9. Deployed'
  BY NoneAssumption DEF Deployed, Phases, NoActiveJob, ActiveJob, Rollout
<1>10. ProvisioningIsIntended'
  BY DEF ProvisioningIsIntended, Phases
<1> QED
  BY <1>5, <1>6, <1>7, <1>8, <1>9, <1>10 DEF Kept

\* Completion records what is pinned, running and not about to change.
LEMMA CompleteKeeps ==
  ASSUME IInv, NEW a \in Attempts, Complete(a)
  PROVE  Kept
<1>1. pc[a] = "verify" /\ Live(a)
  BY DEF Complete, Live, Idle
<1>2. lock = a /\ \A b \in Attempts : Live(b) => b = a
  BY <1>1, Alone
<1>3. /\ pc' = [pc EXCEPT ![a] = "done"]
      /\ lock' = None
      /\ image = release[a] /\ main = release[a]
      /\ last' = release[a]
      /\ desired' = release[a]
      /\ deployStatus' = "deployed"
      /\ UNCHANGED <<app, tracked, release, action, from, inflight, image, main, next, stopping, job>>
  BY <1>1, <1>2 DEF Complete, ReleaseLock, Ready, Goto, request, coolify
<1>4. release[a] \in Releases
  BY <1>1 DEF IInv, TInv, Known
<1> USE <1>1, <1>2, <1>3, <1>4 DEF IInv, TInv, TypeOK, Live, Idle
<1>5. LockHeld'
  BY DEF LockHeld
<1>6. OwnRecords'
  BY DEF OwnRecords, Provision, Phases
<1>7. Jobs'
  BY DEF Jobs, Phases, NoActiveJob, ActiveJob, Change, Rollout
<1>8. Phases'
  BY DEF Phases, Jobs, NoActiveJob, ActiveJob, Change, Rollout
<1>9. Deployed'
  BY NoneAssumption DEF Deployed, Phases, NoActiveJob, ActiveJob, Rollout
<1>10. ProvisioningIsIntended'
  BY DEF ProvisioningIsIntended, Phases
<1> QED
  BY <1>5, <1>6, <1>7, <1>8, <1>9, <1>10 DEF Kept

\* Every step of an attempt keeps the invariant.
LEMMA StepKeeps ==
  ASSUME IInv, NEW a \in Attempts, Step(a)
  PROVE  Kept
<1>1. CASE RefuseBusy(a) \/ RefuseIdentity(a) \/ Fail(a)
  <2>1. Live(a) /\ \E why \in Outcomes : FailWith(a, why)
    BY <1>1 DEF RefuseBusy, RefuseIdentity, Fail, Live, Idle, Provision, Change, Rollout, Outcomes
  <2> QED
    BY <2>1, FailKeeps
<1> QED
  BY <1>1, ReconcileKeeps, PreflightKeeps, StopApplicationKeeps,
     WaitForApplicationStoppedKeeps, UpdateApplicationImageKeeps, CreateApplicationKeeps,
     OnCreatedKeeps, ConfigureApplicationKeeps, TriggerDeployKeeps, TrackDeploymentKeeps,
     WaitForCoolifyDeploymentKeeps, CompleteKeeps DEF Step

\* So do restarts, an ended attempt's lock expiring, the health sweep and Coolify.
LEMMA EnvironmentKeeps ==
  ASSUME IInv, ~LockMayLapse, Environment
  PROVE  Kept
<1> USE DEF IInv, TInv, TypeOK, Live, Idle, registry, tenantRow, history, request, coolify
<1>1. CASE Crash
  <2>1. /\ \A b \in Attempts : pc'[b] = IF Live(b) THEN "crashed" ELSE pc[b]
        /\ UNCHANGED <<lock, app, deployStatus, desired, last, tracked, release, action, from,
                       inflight, image, main, next, stopping, job>>
    BY <1>1 DEF Crash
  <2>2. \A b \in Attempts : ~Live(b)'
    BY <2>1
  <2>3. LockHeld' /\ OwnRecords' /\ Phases'
    BY <2>1, <2>2 DEF LockHeld, OwnRecords, Phases, Provision, Change, Rollout
  <2>4. Jobs'
    BY <2>1 DEF Jobs, NoActiveJob, ActiveJob
  <2>5. Deployed'
    BY <2>1, <2>2 DEF Deployed, NoActiveJob, ActiveJob
  <2>6. ProvisioningIsIntended'
    BY <2>1 DEF ProvisioningIsIntended
  <2> QED
    BY <2>3, <2>4, <2>5, <2>6 DEF Kept
<1>2. CASE LockExpires
  <2>1. /\ ~Live(lock)
        /\ UNCHANGED <<pc, app, deployStatus, desired, last, tracked, release, action, from,
                       inflight, image, main, next, stopping, job>>
    BY <1>2 DEF LockExpires
  <2>2. \A b \in Attempts : ~Live(b)
    BY <2>1 DEF LockHeld
  <2>3. LockHeld' /\ OwnRecords' /\ Phases'
    BY <2>1, <2>2 DEF LockHeld, OwnRecords, Phases, NoActiveJob, ActiveJob
  <2>4. Jobs' /\ Deployed' /\ ProvisioningIsIntended'
    BY <2>1 DEF Jobs, Deployed, ProvisioningIsIntended, NoActiveJob, ActiveJob
  <2> QED
    BY <2>3, <2>4 DEF Kept
<1>3. CASE RecordTelemetry
  <2>1. UNCHANGED <<lock, pc, app, deployStatus, desired, last, tracked, release, action, from,
                    inflight, image, main, next, stopping, job>>
    BY <1>3 DEF RecordTelemetry
  <2> QED
    BY <2>1 DEF Kept, LockHeld, OwnRecords, Jobs, Phases, Deployed, ProvisioningIsIntended,
                NoActiveJob, ActiveJob
<1>4. CASE RemoveContainer
  <2>1. /\ stopping /\ ~stopping' /\ main' = None
        /\ UNCHANGED <<lock, pc, app, deployStatus, desired, last, tracked, release, action,
                       from, inflight, image, next, job>>
    BY <1>4 DEF RemoveContainer
  <2>2. LockHeld' /\ OwnRecords' /\ ProvisioningIsIntended'
    BY <2>1 DEF LockHeld, OwnRecords, ProvisioningIsIntended
  <2>3. Jobs' /\ Phases' /\ Deployed'
    BY <2>1 DEF Jobs, Phases, Deployed, NoActiveJob, ActiveJob
  <2> QED
    BY <2>2, <2>3 DEF Kept
<1>5. ASSUME NEW a \in Attempts, JobStart(a) \/ JobFinish(a) \/ JobFail(a)
      PROVE  Kept
  <2>1. /\ ActiveJob(a)
        /\ UNCHANGED <<lock, pc, app, deployStatus, desired, last, tracked, release, action,
                       from, inflight, image, stopping>>
        /\ \E status \in {"running", "finished", "failed"} :
             job' = [job EXCEPT ![a] = status]
    BY <1>5 DEF JobStart, JobFinish, JobFail, ActiveJob
  <2>2. \A b \in Attempts : ActiveJob(b)' => b = a
    BY <2>1 DEF Jobs, ActiveJob
  <2>3. main = None /\ image = desired /\ app /\ ~stopping
    BY <2>1 DEF Jobs, NoActiveJob
  <2>4. LockHeld' /\ OwnRecords' /\ ProvisioningIsIntended'
    BY <2>1 DEF LockHeld, OwnRecords, ProvisioningIsIntended
  <2>5. \/ next' # None /\ main' = main /\ job'[a] = "running"
        \/ next' = None /\ job'[a] \in {"finished", "failed"}
        \/ next' = next /\ main' = main /\ job[a] = "queued"
    BY <1>5, NoneAssumption DEF JobStart, JobFinish, JobFail, Known, ActiveJob
  <2>6. Jobs'
    <3>1. CASE JobStart(a)
      BY <3>1, <2>1, <2>2, <2>3 DEF Jobs, JobStart, NoActiveJob, ActiveJob
    <3>2. CASE JobFinish(a)
      BY <3>2, <2>1, <2>2, <2>3 DEF Jobs, JobFinish, NoActiveJob, ActiveJob
    <3>3. CASE JobFail(a)
      BY <3>3, <2>1, <2>2, <2>3 DEF Jobs, JobFail, NoActiveJob, ActiveJob
    <3> QED
      BY <1>5, <3>1, <3>2, <3>3
  <2>7. Phases'
    BY <2>1, <2>2, <2>3 DEF Phases, NoActiveJob, ActiveJob
  <2>8. Deployed'
    BY <2>1 DEF Deployed, NoActiveJob
  <2> QED
    BY <2>4, <2>6, <2>7, <2>8 DEF Kept
<1> QED
  BY <1>1, <1>2, <1>3, <1>4, <1>5 DEF Environment, CoolifyStep

\* The invariant is inductive while locks outlive the attempts that hold them.
LEMMA InvNext ==
  ASSUME ~LockMayLapse
  PROVE  IInv /\ [Next]_vars => IInv'
<1> SUFFICES ASSUME IInv, [Next]_vars PROVE IInv'
  OBVIOUS
<1>1. TInv'
  BY TypeNext DEF IInv
<1>2. ASSUME NEW a \in Attempts, Request(a)
      PROVE  Kept
  <2>1. PICK r \in Releases, act \in Actions : Apply(a, r, act)
    BY <1>2, RequestIsApply DEF IInv, TInv
  <2> QED
    BY <2>1, EndedRequestKeeps, AdmittedRequestKeeps DEF Apply
<1>3. ASSUME NEW a \in Attempts, Step(a)
      PROVE  Kept
  BY <1>3, StepKeeps
<1>4. ASSUME Environment
      PROVE  Kept
  BY <1>4, EnvironmentKeeps
<1>5. ASSUME UNCHANGED vars
      PROVE  Kept
  <2>1. UNCHANGED <<lock, pc, app, deployStatus, desired, last, tracked, release, action, from,
                    inflight, image, main, next, stopping, job>>
    BY <1>5 DEF vars, registry, request, coolify
  <2>2. LockHeld' /\ OwnRecords' /\ Jobs'
    BY <2>1 DEF IInv, LockHeld, OwnRecords, Jobs, NoActiveJob, ActiveJob, Live
  <2>3. Phases' /\ Deployed' /\ ProvisioningIsIntended'
    BY <2>1 DEF IInv, Phases, Deployed, ProvisioningIsIntended, NoActiveJob, ActiveJob, Live
  <2> QED
    BY <2>2, <2>3 DEF Kept
<1>6. Kept
  BY <1>2, <1>3, <1>4, <1>5 DEF Next
<1> QED
  BY <1>1, <1>6 DEF Kept, IInv

\* The inductive invariant holds in every reachable state, for any number of attempts,
\* releases and restarts.
THEOREM Invariance ==
  ASSUME ~LockMayLapse
  PROVE  Spec => []IInv
<1>1. Init => IInv
  BY InvInit
<1>2. IInv /\ [Next]_vars => IInv'
  BY InvNext
<1> QED
  BY <1>1, <1>2, PTL DEF Spec

-----------------------------------------------------------------------------
(* What follows from it *)

\* Two release operations never work on the tenant together.
THEOREM OneAttemptAtATime ==
  ASSUME ~LockMayLapse
  PROVE  Spec => []MutualExclusion
<1>1. IInv => MutualExclusion
  BY DEF IInv, LockHeld, MutualExclusion
<1> QED
  BY <1>1, Invariance, PTL

\* The volume's SQLite file never has two containers.
THEOREM StopFirst ==
  ASSUME ~LockMayLapse
  PROVE  Spec => []OneWriter
<1>1. IInv => OneWriter
  BY DEF IInv, Jobs, OneWriter, NoActiveJob, ActiveJob
<1> QED
  BY <1>1, Invariance, PTL

\* A registry that says "deployed" is right about the pinned and the running image.
THEOREM DeployedIsRunning ==
  ASSUME ~LockMayLapse
  PROVE  Spec => []DeployedMeansRunning
<1>1. IInv => DeployedMeansRunning
  BY DEF IInv, Deployed, DeployedMeansRunning
<1> QED
  BY <1>1, Invariance, PTL

\* A tenant is left "provisioning" only by an attempt at work or cut off, with its intent.
THEOREM IntentIsKept ==
  ASSUME ~LockMayLapse
  PROVE  Spec => []ProvisioningIsIntended
<1>1. IInv => ProvisioningIsIntended
  BY DEF IInv
<1> QED
  BY <1>1, Invariance, PTL

\* Whatever job Coolify still has to run deploys the release the registry desires.
THEOREM IntentIsVisible ==
  ASSUME ~LockMayLapse
  PROVE  Spec => []JobDeploysDesired
<1>1. IInv => JobDeploysDesired
  BY DEF IInv, Jobs, JobDeploysDesired
<1> QED
  BY <1>1, Invariance, PTL

-----------------------------------------------------------------------------
(* What each kind of step does to the attempts and to the recorded release *)

\* A request that ends at once: nobody's work and no release changes.
LEMMA EndedRequestFrame ==
  ASSUME NEW a \in Attempts, NEW r \in Releases, NEW act \in Actions,
         Refused(a, r, act) \/ Locked(a, r, act) \/ Skip(a, r, act) \/ RefuseSchema(a, r, act)
  PROVE  /\ pc[a] = "ready"
         /\ pc' = [pc EXCEPT ![a] = "done"]
         /\ release' = [release EXCEPT ![a] = r]
         /\ UNCHANGED <<lock, last, app, apps>>
  BY DEF Refused, Locked, Skip, RefuseSchema, EndAtOnce, Requested, Goto, registry, coolify

\* A request that is admitted: the attempt starts, and no release changes.
LEMMA AdmittedFrame ==
  ASSUME NEW a \in Attempts, NEW r \in Releases, NEW act \in Actions,
         StartChange(a, r, act) \/ StartProvision(a, r, act)
  PROVE  /\ pc[a] = "ready"
         /\ lock = None
         /\ \E l \in {"reconcile", "create"} : pc' = [pc EXCEPT ![a] = l]
         /\ release' = [release EXCEPT ![a] = r]
         /\ UNCHANGED <<last, app, apps>>
  BY DEF StartChange, StartProvision, Admitted, LockFree, Requested, Goto, tenantRow, coolify

Advances(a) ==
  /\ Live(a)
  /\ \E l \in (Change \cup Provision \cup Rollout) : pc' = [pc EXCEPT ![a] = l]
  /\ UNCHANGED <<lock, release>>
  /\ apps' = apps \/ pc[a] = "create"

Ends(a) ==
  /\ Live(a)
  /\ pc' = [pc EXCEPT ![a] = "done"]
  /\ lock' = IF lock = a THEN None ELSE lock
  /\ UNCHANGED <<release, apps>>
  /\ \/ outcome'[a] # "complete" /\ last' = last
     \/ outcome'[a] = "complete" /\ last' = release[a]

\* A step of an attempt moves it on or ends it, and touches the recorded release only to
\* record what it provisioned or completed.
LEMMA StepFrame ==
  ASSUME TypeOK, NEW a \in Attempts, Step(a)
  PROVE  \/ Ends(a)
         \/ Advances(a) /\ last' = last
         \/ Advances(a) /\ last' = release[a] /\ pc[a] \in {"created", "configure"}
<1> USE DEF request, coolify, Goto
<1>1. ASSUME NEW why \in Outcomes \ {"complete"}, FailWith(a, why), Live(a)
      PROVE  Ends(a)
  BY <1>1 DEF FailWith, ReleaseLock, Ends, TypeOK
<1>2. CASE RefuseBusy(a) \/ RefuseIdentity(a) \/ Fail(a)
  BY <1>1, <1>2 DEF RefuseBusy, RefuseIdentity, Fail, Live, Idle, Provision, Change, Rollout,
                    Outcomes
<1>3. CASE Reconcile(a) \/ Preflight(a) \/ StopApplication(a) \/ WaitForApplicationStopped(a)
           \/ UpdateApplicationImage(a)
  BY <1>3 DEF Reconcile, Preflight, StopApplication, WaitForApplicationStopped,
              UpdateApplicationImage, Advances, Live, Idle, Change, Rollout, registry, tenantRow
<1>4. CASE CreateApplication(a)
  BY <1>4 DEF CreateApplication, Advances, Live, Idle, Provision, registry
<1>5. CASE OnCreated(a) \/ ConfigureApplication(a)
  BY <1>5 DEF OnCreated, ConfigureApplication, RecordProvisioned, Advances, Live, Idle,
              Provision, Rollout
<1>6. CASE TriggerDeploy(a) \/ TrackDeployment(a) \/ WaitForCoolifyDeployment(a)
  BY <1>6 DEF TriggerDeploy, TrackDeployment, WaitForCoolifyDeployment, Advances, Live, Idle,
              Rollout, registry
<1>7. CASE Complete(a)
  BY <1>7 DEF Complete, ReleaseLock, Ends, Live, Idle, TypeOK
<1> QED
  BY <1>2, <1>3, <1>4, <1>5, <1>6, <1>7 DEF Step

\* Around the attempts only a restart ends any, and the recorded release never changes.
LEMMA EnvironmentFrame ==
  ASSUME Environment
  PROVE  /\ UNCHANGED <<last, release, apps>>
         /\ \/ UNCHANGED pc
            \/ /\ pc' = [b \in Attempts |-> IF Live(b) THEN "crashed" ELSE pc[b]]
               /\ UNCHANGED lock
               /\ \E b \in Attempts : Live(b)
  BY DEF Environment, CoolifyStep, Crash, LockExpires, RecordTelemetry, RemoveContainer, JobStart,
         JobFinish, JobFail, registry, tenantRow, request, coolify

-----------------------------------------------------------------------------
(* Action properties *)

\* No step takes the lock of another when an attempt ends.
LEMMA OwnLockStep ==
  ASSUME TInv, [Next]_vars
  PROVE  [\A a \in Attempts : Live(a) /\ ~Live(a)' /\ lock # a => lock' = lock]_vars
<1> DEFINE P == \A a \in Attempts : Live(a) /\ ~Live(a)' /\ lock # a => lock' = lock
<1> SUFFICES ASSUME Next PROVE P
  BY DEF vars
<1> USE DEF TInv, TypeOK, Live, Idle
<1>1. ASSUME NEW a \in Attempts, Request(a)
      PROVE  P
  <2>1. PICK r \in Releases, act \in Actions : Apply(a, r, act)
    BY <1>1, RequestIsApply
  <2> QED
    BY <2>1, EndedRequestFrame, AdmittedFrame DEF Apply
<1>2. ASSUME NEW a \in Attempts, Step(a)
      PROVE  P
  <2>1. Ends(a) \/ Advances(a)
    BY <1>2, StepFrame
  <2> QED
    BY <2>1 DEF Ends, Advances, Change, Provision, Rollout
<1>3. CASE Environment
  BY <1>3, EnvironmentFrame
<1> QED
  BY <1>1, <1>2, <1>3 DEF Next

\* An attempt whose lock lapsed under it does not release its successor's lock: this needs
\* no assumption on the lock's time to live.
THEOREM OwnLockOnly == Spec => ReleaseOnlyOwnLock
<1>1. Init => TInv
  BY TypeInit
<1>2. TInv /\ [Next]_vars => TInv'
  BY TypeNext
<1> QED
  BY <1>1, <1>2, OwnLockStep, PTL DEF Spec, ReleaseOnlyOwnLock

\* A failed upgrade or rollback leaves the current release what it was when it began.
THEOREM FailureKeeps ==
  ASSUME ~LockMayLapse
  PROVE  Spec => FailureKeepsRelease
<1> DEFINE P == \A a \in Attempts :
                  Live(a) /\ pc'[a] = "done" /\ outcome'[a] # "complete" /\ action[a] # "provision"
                    => last' = from[a]
<1>1. IInv /\ [Next]_vars => [P]_vars
  <2> SUFFICES ASSUME IInv, Next, NEW a \in Attempts,
                      Live(a), pc'[a] = "done", outcome'[a] # "complete", action[a] # "provision"
               PROVE  last' = from[a]
    BY DEF vars
  <2>1. last = from[a]
    BY DEF IInv, OwnRecords
  <2> USE DEF IInv, TInv, TypeOK, Live, Idle
  <2>2. ASSUME NEW b \in Attempts, Request(b)
        PROVE  last' = last
    <3>1. PICK r \in Releases, act \in Actions : Apply(b, r, act)
      BY <2>2, RequestIsApply
    <3> QED
      BY <3>1, EndedRequestFrame, AdmittedFrame DEF Apply
  <2>3. ASSUME NEW b \in Attempts, Step(b)
        PROVE  last' = last
    <3>1. b = a
      BY <2>3, StepFrame, Alone DEF Ends, Advances
    <3>2. Ends(b) \/ Advances(b)
      BY <2>3, StepFrame
    <3>3. ~Advances(b)
      BY <3>1 DEF Advances, Change, Provision, Rollout
    <3> QED
      BY <2>3, <3>1, <3>2, <3>3, StepFrame DEF Ends
  <2>4. CASE Environment
    BY <2>4, EnvironmentFrame
  <2> QED
    BY <2>1, <2>2, <2>3, <2>4 DEF Next
<1> QED
  BY <1>1, Invariance, PTL DEF Spec, FailureKeepsRelease

\* Once the tenant's application is persisted no second one is created.
THEOREM OneApplication ==
  ASSUME ~LockMayLapse
  PROVE  Spec => NoSecondApplication
<1>1. IInv /\ [Next]_vars => [app => apps' = apps]_vars
  <2> SUFFICES ASSUME IInv, Next, app PROVE apps' = apps
    BY DEF vars
  <2>1. ASSUME NEW a \in Attempts, Request(a)
        PROVE  apps' = apps
    <3>1. PICK r \in Releases, act \in Actions : Apply(a, r, act)
      BY <2>1, RequestIsApply DEF IInv, TInv
    <3> QED
      BY <3>1, EndedRequestFrame, AdmittedFrame DEF Apply
  <2>2. ASSUME NEW a \in Attempts, Step(a)
        PROVE  apps' = apps
    <3>1. Ends(a) \/ Advances(a)
      BY <2>2, StepFrame DEF IInv, TInv
    <3>2. pc[a] # "create"
      BY DEF IInv, Phases
    <3> QED
      BY <3>1, <3>2 DEF Ends, Advances
  <2>3. CASE Environment
    BY <2>3, EnvironmentFrame
  <2> QED
    BY <2>1, <2>2, <2>3 DEF Next
<1> QED
  BY <1>1, Invariance, PTL DEF Spec, NoSecondApplication

-----------------------------------------------------------------------------
(* The refinement *)

\* The worker of the contract is the attempt that is live, and nobody when none is.
LEMMA WorkerIs ==
  ASSUME NEW a \in Attempts, Live(a), \A b \in Attempts : Live(b) => b = a
  PROVE  Worker = a /\ Asked = release[a]
<1>1. Worker = a
  BY DEF Worker
<1> QED
  BY <1>1, NoneAssumption DEF Asked

LEMMA NoWorker ==
  ASSUME \A b \in Attempts : ~Live(b)
  PROVE  Worker = None /\ Asked = None
  BY DEF Worker, Asked

\* The same of the next state.
LEMMA NextWorkerIs ==
  ASSUME NEW a \in Attempts, Live(a)', \A b \in Attempts : Live(b)' => b = a
  PROVE  Worker' = a /\ Asked' = release'[a]
<1>1. Worker' = a
  BY DEF Worker
<1> QED
  BY <1>1, NoneAssumption DEF Asked

LEMMA NextNoWorker ==
  ASSUME \A b \in Attempts : ~Live(b)'
  PROVE  Worker' = None /\ Asked' = None
  BY DEF Worker, Asked

\* A step that leaves every live attempt live, with its request, is no step of the contract.
LEMMA SameWorker ==
  ASSUME IInv, IInv',
         \A b \in Attempts : Live(b)' = Live(b),
         \A b \in Attempts : Live(b) => release'[b] = release[b]
  PROVE  Worker' = Worker /\ Asked' = Asked
<1>1. CASE \E b \in Attempts : Live(b)
  <2>1. PICK a \in Attempts : Live(a)
    BY <1>1
  <2>2. \A b \in Attempts : Live(b) => b = a
    BY <2>1, Alone
  <2>3. Worker = a /\ Asked = release[a]
    BY <2>1, <2>2, WorkerIs
  <2>4. Worker' = a /\ Asked' = release'[a]
    BY <2>1, <2>2, NextWorkerIs
  <2> QED
    BY <2>1, <2>3, <2>4
<1>2. CASE \A b \in Attempts : ~Live(b)
  BY <1>2, NoWorker, NextNoWorker
<1> QED
  BY <1>1, <1>2

\* An attempt that ends is the contract's worker ending.
LEMMA EndsRefines ==
  ASSUME IInv, NEW a \in Attempts, Live(a), \A b \in Attempts : ~Live(b)',
         last' \in {last, release[a]}
  PROVE  Contract!End
<1>1. Worker = a /\ Asked = release[a]
  BY WorkerIs, Alone
<1>2. Worker' = None /\ Asked' = None
  BY NextNoWorker
<1> QED
  BY <1>1, <1>2, NoneAssumption DEF Contract!End

\* Every request begins work or changes nothing the contract speaks of.
LEMMA RequestRefines ==
  ASSUME IInv, IInv', NEW a \in Attempts, NEW r \in Releases, NEW act \in Actions,
         Apply(a, r, act)
  PROVE  Contract!Next \/ UNCHANGED Contract!state
<1> USE DEF IInv, TInv, TypeOK, Live, Idle
<1>1. CASE Refused(a, r, act) \/ Locked(a, r, act) \/ Skip(a, r, act) \/ RefuseSchema(a, r, act)
  <2>1. /\ \A b \in Attempts : Live(b)' = Live(b)
        /\ \A b \in Attempts : Live(b) => release'[b] = release[b]
        /\ last' = last
    BY <1>1, EndedRequestFrame
  <2>2. Worker' = Worker /\ Asked' = Asked
    BY <2>1, SameWorker
  <2> QED
    BY <2>1, <2>2 DEF Contract!state
<1>2. CASE StartChange(a, r, act) \/ StartProvision(a, r, act)
  <2>0. PICK l \in {"reconcile", "create"} : pc' = [pc EXCEPT ![a] = l]
    BY <1>2, AdmittedFrame
  <2>1. /\ lock = None
        /\ Live(a)' /\ release'[a] = r
        /\ last' = last
    <3>1. lock = None /\ release' = [release EXCEPT ![a] = r] /\ last' = last
      BY <1>2, AdmittedFrame
    <3> QED
      BY <2>0, <3>1
  <2>2. \A b \in Attempts : ~Live(b)
    BY <2>1, NoneAssumption DEF LockHeld
  <2>3. \A b \in Attempts : Live(b)' => b = a
    BY <2>0, <2>2
  <2>4. Worker = None /\ Worker' = a /\ Asked' = r
    BY <2>1, <2>2, <2>3, NoWorker, NextWorkerIs
  <2>5. Contract!Begin(a, r)
    BY <2>1, <2>4 DEF Contract!Begin
  <2> QED
    BY <2>5 DEF Contract!Next
<1> QED
  BY <1>1, <1>2 DEF Apply

\* Every step of an attempt provisions, ends, or changes nothing the contract speaks of.
LEMMA StepRefines ==
  ASSUME IInv, IInv', NEW a \in Attempts, Step(a)
  PROVE  Contract!Next \/ UNCHANGED Contract!state
<1>1. \A b \in Attempts : Live(b) => b = a
  BY StepFrame, Alone DEF IInv, TInv, Ends, Advances
<1> USE DEF IInv, TInv, TypeOK
<1>2. CASE Ends(a)
  <2>1. /\ Live(a)
        /\ \A b \in Attempts : ~Live(b)'
        /\ last' \in {last, release[a]}
    BY <1>1, <1>2 DEF Ends, Live, Idle
  <2> QED
    BY <2>1, EndsRefines DEF Contract!Next
<1>3. CASE Advances(a)
  <2>1. /\ Live(a) /\ release' = release
        /\ \A b \in Attempts : Live(b)' = Live(b)
    BY <1>3 DEF Advances, Live, Idle, Change, Provision, Rollout
  <2>2. Worker' = Worker /\ Asked' = Asked
    BY <2>1, SameWorker
  <2>3. Worker = a /\ Asked = release[a]
    BY <1>1, <2>1, WorkerIs
  <2>4. CASE last' = last
    BY <2>2, <2>4 DEF Contract!state
  <2>5. CASE last' = release[a] /\ pc[a] = "created"
    <3>1. last = None
      BY <2>5 DEF Phases, Jobs
    <3> QED
      BY <2>2, <2>3, <2>5, <3>1, NoneAssumption DEF Contract!Next, Contract!Provision
  <2>6. CASE last' = release[a] /\ pc[a] = "configure"
    <3>1. last = release[a]
      BY <2>6 DEF OwnRecords
    <3> QED
      BY <2>4, <2>6, <3>1
  <2>7. Ends(a) \/ last' = last \/ (last' = release[a] /\ pc[a] \in {"created", "configure"})
    BY StepFrame
  <2> QED
    BY <1>2, <2>4, <2>5, <2>6, <2>7
<1> QED
  BY <1>2, <1>3, StepFrame

\* A restart ends the attempt at work; nothing else around it shows in the contract.
LEMMA EnvironmentRefines ==
  ASSUME IInv, IInv', Environment
  PROVE  Contract!Next \/ UNCHANGED Contract!state
<1>1. UNCHANGED <<last, release>>
  BY EnvironmentFrame
<1>2. CASE UNCHANGED pc
  <2>1. Worker' = Worker /\ Asked' = Asked
    BY <1>1, <1>2, SameWorker DEF Live
  <2> QED
    BY <1>1, <2>1 DEF Contract!state
<1>3. CASE /\ pc' = [b \in Attempts |-> IF Live(b) THEN "crashed" ELSE pc[b]]
           /\ \E b \in Attempts : Live(b)
  <2>1. PICK a \in Attempts : Live(a)
    BY <1>3
  <2>2. \A b \in Attempts : ~Live(b)'
    BY <1>3 DEF Live, Idle
  <2> QED
    BY <1>1, <2>1, <2>2, EndsRefines DEF Contract!Next
<1> QED
  BY <1>2, <1>3, EnvironmentFrame

\* Attempts take turns, and the current release only becomes what the attempt at work was
\* asked to apply.
THEOREM Implementation ==
  ASSUME ~LockMayLapse
  PROVE  Spec => ImplementsContract
<1>1. Init => Contract!Init
  <2> SUFFICES ASSUME Init PROVE Contract!Init
    OBVIOUS
  <2>1. Worker = None /\ Asked = None
    BY NoWorker DEF Init, Live, Idle
  <2>2. last \in Releases \cup {None}
    BY TypeInit DEF TInv, TypeOK
  <2> QED
    BY <2>1, <2>2 DEF Contract!Init
<1>2. IInv /\ IInv' /\ [Next]_vars => [Contract!Next]_(Contract!state)
  <2> SUFFICES ASSUME IInv, IInv', [Next]_vars
               PROVE  Contract!Next \/ UNCHANGED Contract!state
    OBVIOUS
  <2>1. ASSUME NEW a \in Attempts, Request(a)
        PROVE  Contract!Next \/ UNCHANGED Contract!state
    BY <2>1, RequestIsApply, RequestRefines DEF IInv, TInv
  <2>2. CASE UNCHANGED vars
    <3>1. Worker' = Worker /\ Asked' = Asked
      BY <2>2 DEF vars, request, Worker, Asked, Live
    <3> QED
      BY <2>2, <3>1 DEF vars, registry, Contract!state
  <2> QED
    BY <2>1, <2>2, StepRefines, EnvironmentRefines DEF Next
<1> QED
  BY <1>1, <1>2, Invariance, PTL DEF Spec, ImplementsContract, Contract!Spec

-----------------------------------------------------------------------------
(* The promotion page and the release engine, beside redeploys *)

RedeployPlaces == {"ready", "done", "crashed"} \cup AtWork

RedeployTypes ==
  /\ redeploy \in [Redeploys -> RedeployPlaces]
  /\ rejob \in [Redeploys -> {"none", "queued", "running"}]

\* A redeploy is of an application, and one is always pinned to a release.
Applied ==
  /\ app => image \in Releases
  /\ \A d \in Redeploys : Redeploying(d) \/ rejob[d] # "none" => app

\* A redeploy parted the status columns: one that is at work or was cut off.
Parted == \E d \in Redeploys : Redeploying(d) \/ redeploy[d] = "crashed"

\* What the page leaves unasked: only a recorded application runs in the image mode, and
\* but for a redeploy the two status columns are written together.
PageRelies ==
  /\ mode = "image" => app
  /\ deployStatus = "provisioning" => releaseState \in Busy \/ Parted

TargetInv == TInv /\ RedeployTypes /\ Applied /\ PageRelies

\* An attempt's move is a step of TenantRelease, and so is what happens around it.
LEMMA MoveIsNext ==
  ASSUME \/ \E a \in Attempts : AttemptMoves(a)
         \/ Elsewhere
         \/ UNCHANGED targetVars
  PROVE  [Next]_vars /\ UNCHANGED redeploys
BY DEF AttemptMoves, Elsewhere, targetVars, Next, Environment

\* No request parts the two status columns; only a provisioning of a new tenant and the
\* schema gate write them.
LEMMA RequestKeepsPageRelies ==
  ASSUME PageRelies, NEW a \in Attempts, NEW r \in Releases, NEW act \in Actions,
         Apply(a, r, act), Parted => Parted'
  PROVE  PageRelies'
<1> USE DEF PageRelies, Busy
<1>1. CASE Refused(a, r, act) \/ Locked(a, r, act)
  BY <1>1 DEF Refused, Locked, registry
<1>2. CASE Skip(a, r, act)
  BY <1>2 DEF Skip, EndAtOnce
<1>3. CASE RefuseSchema(a, r, act)
  BY <1>3 DEF RefuseSchema, EndAtOnce
<1>4. CASE StartChange(a, r, act)
  BY <1>4 DEF StartChange, tenantRow
<1>5. CASE StartProvision(a, r, act)
  BY <1>5 DEF StartProvision, Queue
<1> QED
  BY <1>1, <1>2, <1>3, <1>4, <1>5 DEF Apply

\* A step of an attempt writes both status columns or neither, whichever way it ends.
LEMMA StepKeepsPageRelies ==
  ASSUME PageRelies, NEW a \in Attempts, Step(a), Parted => Parted'
  PROVE  PageRelies'
<1> USE DEF PageRelies, Busy
<1>1. ASSUME NEW why, FailWith(a, why) PROVE PageRelies'
  BY <1>1 DEF FailWith
<1>2. CASE RefuseBusy(a) \/ RefuseIdentity(a) \/ Fail(a)
  BY <1>1, <1>2 DEF RefuseBusy, RefuseIdentity, Fail
<1>3. CASE Reconcile(a) \/ StopApplication(a) \/ WaitForApplicationStopped(a)
           \/ UpdateApplicationImage(a) \/ CreateApplication(a) \/ TriggerDeploy(a)
  BY <1>3 DEF Reconcile, StopApplication, WaitForApplicationStopped, UpdateApplicationImage,
              CreateApplication, TriggerDeploy, registry, tenantRow
<1>4. CASE Preflight(a)
  BY <1>4 DEF Preflight, Queue
<1>5. CASE OnCreated(a) \/ ConfigureApplication(a)
  BY <1>5 DEF OnCreated, ConfigureApplication, RecordProvisioned, Queue
<1>6. CASE TrackDeployment(a) \/ WaitForCoolifyDeployment(a) \/ Complete(a)
  BY <1>6 DEF TrackDeployment, WaitForCoolifyDeployment, Complete
<1> QED
  BY <1>2, <1>3, <1>4, <1>5, <1>6 DEF Step

\* A restart, an expired lock, the sweep and Coolify leave the status columns alone.
LEMMA EnvironmentKeepsPageRelies ==
  ASSUME PageRelies, Environment, Parted => Parted'
  PROVE  PageRelies'
  BY DEF PageRelies, Environment, CoolifyStep, Crash, LockExpires, RecordTelemetry, RemoveContainer,
         JobStart, JobFinish, JobFail, registry, tenantRow

\* Any step of TenantRelease keeps a recorded application recorded and pinned.
LEMMA NextKeepsApplied ==
  ASSUME TInv, [Next]_vars, Applied, UNCHANGED redeploys
  PROVE  Applied'
<1> SUFFICES /\ app => app'
             /\ app' => image' \in Releases
  BY DEF Applied, Redeploying, redeploys
<1> USE DEF Applied, TInv, Known, registry, tenantRow, coolify
<1>1. ASSUME NEW a \in Attempts, Request(a)
      PROVE  UNCHANGED <<app, image>>
  <2>1. PICK r \in Releases, act \in Actions : Apply(a, r, act)
    BY <1>1, RequestIsApply DEF TInv
  <2> QED
    BY <2>1 DEF Apply, Refused, Locked, Skip, RefuseSchema, EndAtOnce, StartChange, StartProvision
<1>2. ASSUME NEW a \in Attempts, Step(a)
      PROVE  /\ app => app'
             /\ app' => image' \in Releases
  <2>1. CASE UpdateApplicationImage(a)
    BY <2>1 DEF UpdateApplicationImage, Live, Idle
  <2>2. CASE OnCreated(a)
    BY <2>2 DEF OnCreated, RecordProvisioned, Live, Idle
  <2>3. CASE ConfigureApplication(a)
    BY <2>3 DEF ConfigureApplication, RecordProvisioned
  <2>4. CASE RefuseBusy(a) \/ RefuseIdentity(a) \/ Fail(a)
    BY <2>4 DEF RefuseBusy, RefuseIdentity, Fail, FailWith
  <2>5. CASE Reconcile(a) \/ Preflight(a) \/ StopApplication(a) \/ WaitForApplicationStopped(a)
             \/ CreateApplication(a) \/ TriggerDeploy(a) \/ TrackDeployment(a)
             \/ WaitForCoolifyDeployment(a) \/ Complete(a)
    BY <2>5 DEF Reconcile, Preflight, StopApplication, WaitForApplicationStopped, CreateApplication,
                TriggerDeploy, TrackDeployment, WaitForCoolifyDeployment, Complete
  <2> QED
    BY <1>2, <2>1, <2>2, <2>3, <2>4, <2>5 DEF Step
<1>3. CASE Environment
  BY <1>3 DEF Environment, CoolifyStep, Crash, LockExpires, RecordTelemetry, RemoveContainer,
              JobStart, JobFinish, JobFail
<1>4. CASE UNCHANGED vars
  BY <1>4 DEF vars
<1> QED
  BY <1>1, <1>2, <1>3, <1>4 DEF Next

\* A redeploy writes the status column alone, and only while it is at work does that part
\* it from the release's.
LEMMA RedeployKeeps ==
  ASSUME TargetInv, NEW d \in Redeploys, StartRedeploy(d) \/ RedeployStep(d)
  PROVE  TargetInv'
<1> USE DEF TargetInv, TInv, RedeployTypes, RedeployPlaces, AtWork, RedeployGoes
<1>1. ASSUME NEW s \in DeployStatuses, SetStoreDeployStatus(s)
      PROVE  TInv' /\ (app => app') /\ UNCHANGED <<image, mode, app, releaseState>>
  BY <1>1 DEF SetStoreDeployStatus, TypeOK, Known, Live, ActiveJob, history, request, coolify
<1>2. CASE StartRedeploy(d)
  <2>1. SetStoreDeployStatus("provisioning") /\ redeploy' = [redeploy EXCEPT ![d] = "trigger"]
        /\ UNCHANGED rejob /\ app
    BY <1>2 DEF StartRedeploy
  <2>2. TInv' /\ UNCHANGED <<image, mode, app, releaseState>>
    BY <2>1, <1>1 DEF DeployStatuses
  <2> QED
    BY <2>1, <2>2 DEF Applied, PageRelies, Parted, Redeploying
<1>3. CASE TriggerRedeploy(d) \/ WaitForStoreHealth(d)
  <2>1. /\ UNCHANGED vars
        /\ Redeploying(d) /\ redeploy' \in {[redeploy EXCEPT ![d] = l] : l \in AtWork}
        /\ rejob' = rejob \/ rejob' = [rejob EXCEPT ![d] = "queued"]
    BY <1>3 DEF TriggerRedeploy, WaitForStoreHealth, Redeploying
  <2>2. TInv' /\ UNCHANGED <<image, mode, app, releaseState, deployStatus>>
    BY <2>1 DEF TypeOK, Known, Live, ActiveJob, vars, registry, coolify, request
  <2>3. RedeployTypes'
    BY <2>1
  <2>4. Applied'
    BY <2>1, <2>2 DEF Applied, Redeploying
  <2>5. PageRelies'
    BY <2>1, <2>2 DEF PageRelies, Parted, Redeploying
  <2> QED
    BY <2>2, <2>3, <2>4, <2>5
<1>4. CASE EndRedeploy(d) \/ FailRedeploy(d)
  <2>1. PICK s \in {"deployed", "failed"} : SetStoreDeployStatus(s)
    BY <1>4 DEF EndRedeploy, FailRedeploy
  <2>2. redeploy' = [redeploy EXCEPT ![d] = "done"] /\ UNCHANGED rejob
    BY <1>4 DEF EndRedeploy, FailRedeploy
  <2>3. TInv' /\ UNCHANGED <<image, mode, app, releaseState>>
    BY <2>1, <1>1 DEF DeployStatuses
  <2>4. deployStatus' = s
    BY <2>1 DEF SetStoreDeployStatus
  <2>5. Applied'
    BY <2>2, <2>3 DEF Applied, Redeploying
  <2> QED
    BY <2>2, <2>3, <2>4, <2>5 DEF PageRelies
<1> QED
  BY <1>2, <1>3, <1>4 DEF RedeployStep

\* Its job is Coolify's, and writes nothing of the registry.
LEMMA RejobKeeps ==
  ASSUME TargetInv, NEW d \in Redeploys, RejobStart(d) \/ RejobFinish(d) \/ RejobFail(d)
  PROVE  TargetInv'
<1> USE DEF TargetInv, TInv
<1>1. UNCHANGED <<registry, pc, request, outcome, image, job, stopping, apps, crashes, redeploy>>
  BY DEF RejobStart, RejobFinish, RejobFail
<1>2. image \in Releases /\ SchemaVersion[image] \in Nat
  BY SchemaAssumption DEF RejobStart, RejobFinish, RejobFail, Applied, RedeployTypes
<1>3. dbSchema' \in Nat /\ main' \in Releases \cup {None} /\ next' \in Releases \cup {None}
  BY <1>2 DEF RejobStart, RejobFinish, RejobFail, TypeOK, Larger
<1>4. TypeOK'
  BY <1>1, <1>3 DEF TypeOK, registry, request
<1>5. Known'
  BY <1>1 DEF Known, Live, ActiveJob, request
<1>6. RedeployTypes' /\ rejob[d] # "none" /\ \A e \in Redeploys \ {d} : rejob'[e] = rejob[e]
  BY <1>1 DEF RejobStart, RejobFinish, RejobFail, RedeployTypes
<1>7. Applied' /\ PageRelies'
  BY <1>1, <1>6 DEF Applied, PageRelies, Parted, Redeploying, registry
<1> QED
  BY <1>4, <1>5, <1>6, <1>7

\* A restart cuts off the redeploys at work.
LEMMA RestartKeeps ==
  ASSUME TargetInv, Restart
  PROVE  TargetInv'
<1> USE DEF TargetInv, TInv
<1>1. TInv'
  <2>1. CASE Crash
    BY <2>1, TypeNext DEF Next, Environment
  <2>2. CASE crashes < MaxCrashes /\ crashes' = crashes + 1
             /\ UNCHANGED <<registry, pc, request, outcome, coolify>>
    BY <2>2, RequestAssumption DEF TypeOK, Known, Live, ActiveJob, registry, request, coolify
  <2> QED
    BY <2>1, <2>2 DEF Restart
<1>2. UNCHANGED <<registry, image, rejob>>
  BY DEF Restart, Crash, coolify
<1>3. redeploy' = [e \in Redeploys |-> IF Redeploying(e) THEN "crashed" ELSE redeploy[e]]
  BY DEF Restart
<1>4. RedeployTypes'
  BY <1>2, <1>3 DEF RedeployTypes, RedeployPlaces
<1>5. Applied'
  BY <1>2, <1>3 DEF Applied, Redeploying, registry, AtWork
<1>6. PageRelies'
  BY <1>2, <1>3 DEF PageRelies, Parted, registry
<1> QED
  BY <1>1, <1>4, <1>5, <1>6

LEMMA TargetInvariance == TargetSpec => []TargetInv
<1>1. TargetInit => TargetInv
  <2> SUFFICES ASSUME TargetInit PROVE TargetInv
    OBVIOUS
  <2>1. TInv /\ RedeployTypes
    BY TypeInit DEF TargetInit, RedeployTypes, RedeployPlaces
  <2>2. Applied /\ PageRelies
    BY RequestAssumption, NoneAssumption
       DEF TargetInit, Init, Applied, PageRelies, Redeploying, AtWork
  <2> QED
    BY <2>1, <2>2 DEF TargetInv
<1>2. TargetInv /\ [TargetNext]_targetVars => TargetInv'
  <2> SUFFICES ASSUME TargetInv, [TargetNext]_targetVars PROVE TargetInv'
    OBVIOUS
  <2>1. CASE \/ \E a \in Attempts : AttemptMoves(a)
             \/ Elsewhere
             \/ UNCHANGED targetVars
    <3>1. [Next]_vars /\ UNCHANGED redeploys
      BY <2>1, MoveIsNext
    <3>2. TInv' /\ Applied'
      BY <3>1, TypeNext, NextKeepsApplied DEF TargetInv
    <3>3. RedeployTypes' /\ (Parted => Parted')
      BY <3>1 DEF TargetInv, RedeployTypes, Parted, Redeploying, redeploys
    <3>4. ASSUME NEW a \in Attempts, Request(a)
          PROVE  PageRelies'
      BY <3>3, <3>4, RequestIsApply, RequestKeepsPageRelies DEF TargetInv, TInv
    <3>5. ASSUME UNCHANGED vars
          PROVE  PageRelies'
      <4>1. UNCHANGED <<mode, app, deployStatus, releaseState>>
        BY <3>5 DEF vars, registry
      <4> QED
        BY <3>3, <4>1 DEF PageRelies, TargetInv
    <3>6. PageRelies'
      BY <3>1, <3>3, <3>4, <3>5, StepKeepsPageRelies, EnvironmentKeepsPageRelies DEF Next, TargetInv
    <3> QED
      BY <3>2, <3>3, <3>6 DEF TargetInv
  <2> QED
    BY <2>1, RedeployKeeps, RejobKeeps, RestartKeeps DEF TargetNext
<1> QED
  BY <1>1, <1>2, PTL DEF TargetSpec

\* A tenant the page offers is one the engine goes to work on, and skips at most beside a
\* redeploy at work or cut off.  This needs no assumption on the lock's time to live.
THEOREM UnblockedGoesThrough == TargetSpec => []UnblockedApplies
<1>1. TargetInv => UnblockedApplies
  BY DEF TargetInv, TInv, TypeOK, PageRelies, Parted, UnblockedApplies, CanPromote, Blocker,
         NeedsUpdate, UpdateBlocked, Valid, LockFree, IsCurrent, IsDeploying, SchemaRefuses, Modes
<1> QED
  BY <1>1, TargetInvariance, PTL

\* Beside redeploys too, an attempt whose lock lapsed does not release its successor's.
THEOREM OwnLockBesideRedeploys == TargetSpec => ReleaseOnlyOwnLock
<1> DEFINE P == \A a \in Attempts : Live(a) /\ ~Live(a)' /\ lock # a => lock' = lock
<1>1. TargetInv /\ [TargetNext]_targetVars => [P]_vars
  <2> SUFFICES ASSUME TargetInv, [TargetNext]_targetVars PROVE [P]_vars
    OBVIOUS
  <2>1. CASE \/ \E a \in Attempts : AttemptMoves(a)
             \/ Elsewhere
             \/ UNCHANGED targetVars
    BY <2>1, MoveIsNext, OwnLockStep DEF TargetInv
  <2>2. CASE Restart
    BY <2>2, OwnLockStep DEF Restart, Crash, registry
  <2>3. CASE \E d \in Redeploys : \/ StartRedeploy(d) \/ RedeployStep(d)
                                  \/ RejobStart(d) \/ RejobFinish(d) \/ RejobFail(d)
    BY <2>3 DEF StartRedeploy, RedeployStep, TriggerRedeploy, WaitForStoreHealth, EndRedeploy,
                FailRedeploy, SetStoreDeployStatus, RejobStart, RejobFinish, RejobFail, vars, registry
  <2> QED
    BY <2>1, <2>2, <2>3 DEF TargetNext
<1> QED
  BY <1>1, TargetInvariance, PTL DEF TargetSpec, ReleaseOnlyOwnLock
=============================================================================
