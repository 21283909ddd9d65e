---------------------------- MODULE ReleaseBatch ----------------------------
(***************************************************************************)
(* Rolling a release out to many tenants in waves: startReleaseBatch of     *)
(* services/releaseOrchestrator.ts over the batch rows of                   *)
(* services/releaseCatalog.ts.                                              *)
(*                                                                         *)
(* A batch applies the release to its tenants one after another inside one  *)
(* request.  Each application is applyReleaseToTenant, of which this module *)
(* keeps what TenantContract promises: its lock, its release, its outcome.  *)
(* Other batches, operators' single applications, pauses and a restart run  *)
(* beside it.                                                               *)
(***************************************************************************)
EXTENDS Integers, FiniteSets

CONSTANTS
  Batches,          \* rollouts started, each used once
  NumTenants,       \* tenants of the release's kind, in the order of their names
  Releases,         \* releases rolled out
  Current,          \* releases tenants may already run
  Fleets,           \* what the tenants may run at first, None for one not provisioned
  None,             \* SQL NULL
  Other,            \* the holder of a lock that no batch took: a single application
  WaveSizes,        \* wave sizes requested, 1 .. 50 in the code
  TargetSets,       \* the tenants a rollout may select
  Modes,            \* deploy_mode of the tenants that have an application
  MaxDisturbances   \* bound on what operators and restarts do beside the batches

Tenants == 1 .. NumTenants

ASSUME NameAssumption ==
  /\ None \notin Batches \cup Releases \cup Current \cup {Other}
  /\ Other \notin Batches

ASSUME SizeAssumption ==
  /\ NumTenants \in Nat \ {0}
  /\ Fleets \subseteq [Tenants -> Current \cup {None}]
  /\ WaveSizes \subseteq 1 .. 50
  /\ TargetSets \subseteq (SUBSET Tenants) \ {{}}
  /\ Modes \subseteq {"image", "dockerfile", "unprovisioned"}
  /\ MaxDisturbances \in Nat

VARIABLES
  \* the tenants' rows and locks, and in memory what the lock's holder applies
  app, mode, paused, current, desired, deployStatus, lock, asked,
  \* release_batches and release_batch_items
  status, release, stopOnFailure, wave, action, item, succeeded, failed, skipped,
  \* the requests in memory: where each is, its wave, whether that wave failed, the
  \* tenants its listing found paused, and its counters
  pc, waveNo, waveFailed, pausedThen, count,
  \* bookkeeping of the bound
  disturbances

tenants  == <<app, mode, paused, current, desired, deployStatus, lock, asked>>
plan     == <<release, stopOnFailure, wave, action, pausedThen>>
totals   == <<succeeded, failed, skipped>>
vars     == <<tenants, plan, totals, status, item, pc, waveNo, waveFailed, count, disturbances>>

-----------------------------------------------------------------------------
Kinds    == {"complete", "failed", "skipped"}     \* how an item can be settled
Settled(b, t) == item[b][t] \in Kinds
Targets(b)    == {t \in Tenants : wave[b][t] # 0}
InWave(b)     == {t \in Tenants : wave[b][t] = waveNo[b]}
Working       == {"working", "applying"}

\* The items of a wave are tried in the order of the tenants' names.
NextItem(b) ==
  {t \in InWave(b) : item[b][t] = "pending" /\ \A u \in InWave(b) : item[b][u] = "pending" => t <= u}

\* Math.floor(index / waveSize) + 1
WaveOf(S, size, t) == (Cardinality({u \in S : u < t}) \div size) + 1

Settle(b, t, how) ==
  /\ item' = [item EXCEPT ![b][t] = how]
  /\ count' = [count EXCEPT ![b][how] = @ + 1]

-----------------------------------------------------------------------------
(* Creating the batch *)

\* The rows, the action each tenant's row calls for, and the tenants found paused
StartBatch(b, r, S, size, stop, dryRun) ==
  /\ pc[b] = "ready"
  /\ release' = [release EXCEPT ![b] = r]
  /\ stopOnFailure' = [stopOnFailure EXCEPT ![b] = stop]
  /\ wave' = [wave EXCEPT ![b] = [t \in Tenants |-> IF t \in S THEN WaveOf(S, size, t) ELSE 0]]
  /\ action' = [action EXCEPT ![b] = [t \in Tenants |-> IF app[t] THEN "upgrade" ELSE "provision"]]
  /\ item' = [item EXCEPT ![b] = [t \in Tenants |-> IF t \in S THEN "pending" ELSE "none"]]
  /\ pausedThen' = [pausedThen EXCEPT ![b] = {t \in S : paused[t]}]
  /\ status' = [status EXCEPT ![b] = IF dryRun THEN "dry_run" ELSE "running"]
  /\ pc' = [pc EXCEPT ![b] = IF dryRun THEN "done" ELSE "working"]
  /\ UNCHANGED <<tenants, totals, waveNo, waveFailed, count, disturbances>>

-----------------------------------------------------------------------------
(* One item *)

SkipPaused(b, t) ==
  /\ pc[b] = "working"
  /\ t \in NextItem(b) \cap pausedThen[b]
  /\ Settle(b, t, "skipped")
  /\ UNCHANGED <<tenants, plan, totals, status, pc, waveNo, waveFailed, disturbances>>

\* applyReleaseToTenant: the refusals that throw, and the no-ops
Valid(act, t) == IF act = "provision" THEN ~app[t] ELSE app[t] /\ mode[t] = "image"

Skips(b, t) ==
  \/ lock[t] # None
  \/ current[t] = release[b] /\ deployStatus[t] = "deployed"
  \/ desired[t] = release[b] /\ deployStatus[t] = "provisioning"

Trying(b, t) ==
  /\ pc[b] = "working"
  /\ t \in NextItem(b) \ pausedThen[b]

\* Nothing catches the refusal: the request ends with the batch and the item running.
Throws(b, t) ==
  /\ Trying(b, t)
  /\ ~Valid(action[b][t], t)
  /\ item' = [item EXCEPT ![b][t] = "running"]
  /\ pc' = [pc EXCEPT ![b] = "thrown"]
  /\ UNCHANGED <<tenants, plan, totals, status, waveNo, waveFailed, count, disturbances>>

SkipItem(b, t) ==
  /\ Trying(b, t)
  /\ Valid(action[b][t], t)
  /\ Skips(b, t)
  /\ Settle(b, t, "skipped")
  /\ UNCHANGED <<tenants, plan, totals, status, pc, waveNo, waveFailed, disturbances>>

\* The schema gate, which only an existing tenant can fail
RefuseSchema(b, t) ==
  /\ Trying(b, t)
  /\ Valid(action[b][t], t) /\ ~Skips(b, t)
  /\ app[t]
  /\ deployStatus' = [deployStatus EXCEPT ![t] = "failed"]
  /\ Settle(b, t, "failed")
  /\ waveFailed' = [waveFailed EXCEPT ![b] = TRUE]
  /\ UNCHANGED <<app, mode, paused, current, desired, lock, asked,
                 plan, totals, status, pc, waveNo, disturbances>>

BeginItem(b, t) ==
  /\ Trying(b, t)
  /\ Valid(action[b][t], t) /\ ~Skips(b, t)
  /\ lock' = [lock EXCEPT ![t] = b]
  /\ asked' = [asked EXCEPT ![t] = release[b]]
  /\ deployStatus' = [deployStatus EXCEPT ![t] = "provisioning"]
  /\ desired' = [desired EXCEPT ![t] = release[b]]
  /\ item' = [item EXCEPT ![b][t] = "running"]
  /\ pc' = [pc EXCEPT ![b] = "applying"]
  /\ UNCHANGED <<app, mode, paused, current, plan, totals, status, waveNo, waveFailed, count, disturbances>>

\* The application at work on t succeeds: the tenant runs what it was asked to.
Applied(t) ==
  /\ current' = [current EXCEPT ![t] = asked[t]]
  /\ deployStatus' = [deployStatus EXCEPT ![t] = "deployed"]
  /\ app' = [app EXCEPT ![t] = TRUE]
  /\ mode' = [mode EXCEPT ![t] = "image"]

ApplyFailed(t) ==
  /\ deployStatus' = [deployStatus EXCEPT ![t] = "failed"]
  /\ UNCHANGED <<app, mode, current>>

Unlock(t) ==
  /\ lock' = [lock EXCEPT ![t] = None]
  /\ asked' = [asked EXCEPT ![t] = None]

Applying(b, t) == pc[b] = "applying" /\ lock[t] = b /\ item[b][t] = "running"

CompleteItem(b, t) ==
  /\ Applying(b, t)
  /\ Applied(t)
  /\ Unlock(t)
  /\ Settle(b, t, "complete")
  /\ pc' = [pc EXCEPT ![b] = "working"]
  /\ UNCHANGED <<paused, desired, plan, totals, status, waveNo, waveFailed, disturbances>>

\* Weakened: the failure of the item is not counted against its wave.
FailItemUncounted(b, t) ==
  /\ Applying(b, t)
  /\ ApplyFailed(t)
  /\ Unlock(t)
  /\ Settle(b, t, "failed")
  /\ pc' = [pc EXCEPT ![b] = "working"]
  /\ UNCHANGED <<paused, desired, plan, totals, status, waveNo, waveFailed, disturbances>>

FailItem(b, t) ==
  /\ Applying(b, t)
  /\ ApplyFailed(t)
  /\ Unlock(t)
  /\ Settle(b, t, "failed")
  /\ waveFailed' = [waveFailed EXCEPT ![b] = TRUE]
  /\ pc' = [pc EXCEPT ![b] = "working"]
  /\ UNCHANGED <<paused, desired, plan, totals, status, waveNo, disturbances>>

-----------------------------------------------------------------------------
(* The end of a wave and of the batch *)

\* Weakened: a wave is over when nothing of it is being applied.
WaveUntouched(b) == pc[b] = "working" /\ \E t \in InWave(b) : Settled(b, t)

WaveOver(b) == pc[b] = "working" /\ NextItem(b) = {}

Later(b) == {t \in Targets(b) : wave[b][t] > waveNo[b]}

Stops(b) == waveFailed[b] /\ stopOnFailure[b]

NextWave(b) ==
  /\ WaveOver(b)
  /\ ~Stops(b)
  /\ Later(b) # {}
  /\ waveNo' = [waveNo EXCEPT ![b] = @ + 1]
  /\ waveFailed' = [waveFailed EXCEPT ![b] = FALSE]
  /\ UNCHANGED <<tenants, plan, totals, status, item, pc, count, disturbances>>

\* What the counters say of the whole rollout
Verdict(c) ==
  IF c.failed = 0 THEN "complete"
  ELSE IF c.complete + c.skipped > 0 THEN "partial" ELSE "failed"

\* Weakened: the tenants of later waves are skipped without being counted.
SkipLaterUncounted(b) == count[b]

SkipLater(b) ==
  [count[b] EXCEPT !.skipped = @ + (IF Stops(b) THEN Cardinality(Later(b)) ELSE 0)]

\* A failed wave's stop marks every later item; then, or after the last wave, the
\* totals and the verdict are written.
Finish(b) ==
  /\ WaveOver(b)
  /\ Stops(b) \/ Later(b) = {}
  /\ item' = [item EXCEPT ![b] =
       [t \in Tenants |-> IF t \in Later(b) THEN "skipped" ELSE item[b][t]]]
  /\ count' = [count EXCEPT ![b] = SkipLater(b)]
  /\ succeeded' = [succeeded EXCEPT ![b] = count'[b].complete]
  /\ failed' = [failed EXCEPT ![b] = count'[b].failed]
  /\ skipped' = [skipped EXCEPT ![b] = count'[b].skipped]
  /\ status' = [status EXCEPT ![b] = Verdict(count'[b])]
  /\ pc' = [pc EXCEPT ![b] = "done"]
  /\ UNCHANGED <<tenants, plan, waveNo, waveFailed, disturbances>>

Step(b) ==
  \/ \E t \in Tenants :
       \/ SkipPaused(b, t) \/ Throws(b, t) \/ SkipItem(b, t) \/ RefuseSchema(b, t)
       \/ BeginItem(b, t) \/ CompleteItem(b, t) \/ FailItem(b, t)
  \/ NextWave(b)
  \/ Finish(b)

-----------------------------------------------------------------------------
(* What runs beside the batches *)

batches == <<plan, totals, status, item, pc, waveNo, waveFailed, count>>

Disturbs ==
  /\ disturbances < MaxDisturbances
  /\ disturbances' = disturbances + 1

\* An operator's application of one release to one tenant
OtherBegins(t, r) ==
  /\ Disturbs
  /\ lock[t] = None
  /\ app[t] => mode[t] = "image"
  /\ lock' = [lock EXCEPT ![t] = Other]
  /\ asked' = [asked EXCEPT ![t] = r]
  /\ desired' = [desired EXCEPT ![t] = r]
  /\ deployStatus' = [deployStatus EXCEPT ![t] = "provisioning"]
  /\ UNCHANGED <<app, mode, paused, current, batches>>

OtherEnds(t) ==
  /\ lock[t] = Other /\ asked[t] # None
  /\ Applied(t) \/ ApplyFailed(t)
  /\ Unlock(t)
  /\ UNCHANGED <<paused, desired, batches, disturbances>>

\* onCreated: a provisioning has persisted the tenant's new application.
Created(t) ==
  /\ asked[t] # None
  /\ ~app[t]
  /\ app' = [app EXCEPT ![t] = TRUE]
  /\ mode' = [mode EXCEPT ![t] = "image"]
  /\ current' = [current EXCEPT ![t] = asked[t]]
  /\ UNCHANGED <<paused, desired, deployStatus, lock, asked, batches, disturbances>>

SetPaused(t) ==
  /\ Disturbs
  /\ paused' = [paused EXCEPT ![t] = ~@]
  /\ UNCHANGED <<app, mode, current, desired, deployStatus, lock, asked, batches>>

\* Weakened: a lock expires under an application still at work.
LockExpiresLive(t) ==
  /\ lock[t] # None
  /\ lock' = [lock EXCEPT ![t] = None]
  /\ UNCHANGED <<app, mode, paused, current, desired, deployStatus, asked, batches, disturbances>>

LockExpires(t) ==
  /\ lock[t] # None /\ asked[t] = None
  /\ lock' = [lock EXCEPT ![t] = None]
  /\ UNCHANGED <<app, mode, paused, current, desired, deployStatus, asked, batches, disturbances>>

\* A restart loses every request; nothing resumes a batch.
Crash ==
  /\ Disturbs
  /\ pc' = [b \in Batches |-> IF pc[b] \in Working THEN "crashed" ELSE pc[b]]
  /\ asked' = [t \in Tenants |-> None]
  /\ UNCHANGED <<app, mode, paused, current, desired, deployStatus, lock,
                 plan, totals, status, item, waveNo, waveFailed, count>>

Init ==
  /\ current \in Fleets
  /\ desired = current
  /\ app = [t \in Tenants |-> current[t] # None]
  /\ mode \in [Tenants -> Modes \cup {"unprovisioned"}]
  /\ \A t \in Tenants : IF app[t] THEN mode[t] \in Modes ELSE mode[t] = "unprovisioned"
  /\ paused = [t \in Tenants |-> FALSE]
  /\ deployStatus = [t \in Tenants |-> IF app[t] THEN "deployed" ELSE "not_deployed"]
  /\ lock = [t \in Tenants |-> None]
  /\ asked = [t \in Tenants |-> None]
  /\ status = [b \in Batches |-> "planned"]
  /\ release = [b \in Batches |-> None]
  /\ stopOnFailure = [b \in Batches |-> TRUE]
  /\ wave = [b \in Batches |-> [t \in Tenants |-> 0]]
  /\ action = [b \in Batches |-> [t \in Tenants |-> "upgrade"]]
  /\ item = [b \in Batches |-> [t \in Tenants |-> "none"]]
  /\ succeeded = [b \in Batches |-> 0]
  /\ failed = [b \in Batches |-> 0]
  /\ skipped = [b \in Batches |-> 0]
  /\ pc = [b \in Batches |-> "ready"]
  /\ waveNo = [b \in Batches |-> 1]
  /\ waveFailed = [b \in Batches |-> FALSE]
  /\ pausedThen = [b \in Batches |-> {}]
  /\ count = [b \in Batches |-> [complete |-> 0, failed |-> 0, skipped |-> 0]]
  /\ disturbances = 0

Start(b) ==
  \E r \in Releases, S \in TargetSets, size \in WaveSizes, stop, dryRun \in BOOLEAN :
    StartBatch(b, r, S, size, stop, dryRun)

Environment ==
  \/ \E t \in Tenants : \/ \E r \in Releases : OtherBegins(t, r)
                        \/ OtherEnds(t) \/ Created(t) \/ SetPaused(t) \/ LockExpires(t)
  \/ Crash

Next == (\E b \in Batches : Start(b) \/ Step(b)) \/ Environment

Spec == Init /\ [][Next]_vars

-----------------------------------------------------------------------------
(* Properties *)

BatchStatuses == {"planned", "running", "complete", "partial", "failed", "dry_run"}
ItemStatuses  == {"none", "pending", "running"} \cup Kinds

\* Every variable keeps to the values its column or its handler's step can have.
TypeOK ==
  /\ app \in [Tenants -> BOOLEAN]
  /\ mode \in [Tenants -> {"image", "dockerfile", "unprovisioned"}]
  /\ paused \in [Tenants -> BOOLEAN]
  /\ current \in [Tenants -> Releases \cup Current \cup {None}]
  /\ desired \in [Tenants -> Releases \cup Current \cup {None}]
  /\ deployStatus \in [Tenants -> {"not_deployed", "provisioning", "deployed", "failed"}]
  /\ lock \in [Tenants -> Batches \cup {None, Other}]
  /\ asked \in [Tenants -> Releases \cup Current \cup {None}]
  /\ status \in [Batches -> BatchStatuses]
  /\ release \in [Batches -> Releases \cup {None}]
  /\ stopOnFailure \in [Batches -> BOOLEAN]
  /\ wave \in [Batches -> [Tenants -> 0 .. NumTenants]]
  /\ action \in [Batches -> [Tenants -> {"upgrade", "provision"}]]
  /\ item \in [Batches -> [Tenants -> ItemStatuses]]
  /\ succeeded \in [Batches -> Nat]
  /\ failed \in [Batches -> Nat]
  /\ skipped \in [Batches -> Nat]
  /\ pc \in [Batches -> {"ready", "done", "thrown", "crashed"} \cup Working]
  /\ waveNo \in [Batches -> Nat]
  /\ waveFailed \in [Batches -> BOOLEAN]
  /\ pausedThen \in [Batches -> SUBSET Tenants]
  /\ count \in [Batches -> [Kinds -> Nat]]
  /\ disturbances \in 0 .. MaxDisturbances

Finished(b) == status[b] \in {"complete", "partial", "failed"}
ItemsOf(b, how) == {t \in Targets(b) : item[b][t] = how}

\* The totals a finished batch reports are those of its items, each counted once,
\* through pauses, no-ops, failures and the items a stopped rollout never tried.
TotalsAgree ==
  \A b \in Batches : Finished(b) =>
    /\ succeeded[b] = Cardinality(ItemsOf(b, "complete"))
    /\ failed[b] = Cardinality(ItemsOf(b, "failed"))
    /\ skipped[b] = Cardinality(ItemsOf(b, "skipped"))
    /\ succeeded[b] + failed[b] + skipped[b] = Cardinality(Targets(b))

\* What a batch and its items say of each other.
BatchesAddUp == TypeOK /\ TotalsAgree

\* With stop-on-failure a failed wave keeps the release from every later tenant.
FailedWaveStops ==
  \A b \in Batches, t, u \in Tenants :
    /\ stopOnFailure[b]
    /\ wave[b][t] # 0 /\ wave[b][t] < wave[b][u]
    /\ item[b][t] = "failed"
    => item[b][u] \in {"pending", "skipped"}

\* No tenant of a wave is touched while an earlier wave has a tenant unsettled.
WavesInOrder ==
  \A b \in Batches, t, u \in Tenants :
    /\ wave[b][t] # 0 /\ wave[b][t] < wave[b][u]
    /\ item[b][u] # "pending"
    => Settled(b, t)

\* The tenants keep what applying a release promises of each (TenantContract).
Worker(t) == IF asked[t] = None THEN None ELSE lock[t]

Contract(t) ==
  INSTANCE TenantContract WITH
    Attempts <- Batches \cup {Other}, Releases <- Releases \cup Current,
    worker <- Worker(t), asked <- asked[t], current <- current[t]

TenantsKeepContract ==
  /\ \A t \in Tenants : Contract(t)!Init
  /\ [][\A t \in Tenants : Contract(t)!Next \/ UNCHANGED Contract(t)!state]_vars
=============================================================================
