# Verification of the Vula control plane

TLA+ models of `hoosainmadhi/vula-control-plane`, the office server that
registers a fleet of point-of-sale stores and head-office panels, deploys their
images through Coolify, bills their owners and delivers their licences. Each
module is read off the source (`src/src/**`); the documents under `src/docs` are
only quoted, where they say what a property states or where the code does
something else.

## 1. The system

One Node process serves an HTTP interface over one synchronous SQLite database
(the *registry*, `config/registryDb.ts`). Two timers run beside the requests
(`services/scheduler.ts`). Everything else is remote: Coolify (deployments), the
tenants themselves (`/api/internal/*`, `/health`), GitHub (the promotion
workflow), a second control plane for staging, and SMTP. A handler runs alone from
one `await` to the next, so **an action of these modules is one such stretch**, and
the interleavings are those of handlers, timers and remote parties at awaits. A
restart loses every handler in flight and nothing of the registry; no handler is
resumed. The exception is the boot, which has no awaits and no transaction around
it: there an action is one statement or transaction, and the process may end
between any two.

| Component | State it keeps | Operations | What makes it correct | Module |
|---|---|---|---|---|
| Release application (`releaseOrchestrator`, `releaseCatalog`, `coolify`, `applicationGuard`) | `deployment_locks`, tenant release columns, `release_deployments`, Coolify's image, containers and jobs | apply (provision, upgrade, rollback), rollback, reconcile, correct the registry | one attempt per tenant; never two containers on one SQLite volume; "deployed" is true; a failure keeps the current release; every lock is freed; a tenant the page shows as unblocked can be upgraded | `TenantRelease`, `TenantTarget`, `TenantRuntime`, `TenantContract` |
| Release batches | `release_batches`, `release_batch_items` | start a rollout in waves | a failed wave stops the next; totals agree with the items; every item is settled | `ReleaseBatch` |
| Production promotion (`promotion`, `releaseCatalog`) | `release_promotions`, releases, the cached candidate | build, register, verify on demos, approve; start, CI callback, settle, expire | what is approved is what the demos run; one in flight; complete only when both fleets completed | `ReleaseCandidate`, `Promotion` |
| Licence delivery (`licenceDelivery`, `healthSweep`, `billing`) | `licence_sequence`, push status, the tenant's accepted sequence | deliver, reconcile, sweep | the newest entitlement wins and in the end arrives; a client that paid trades | `LicenceDelivery` |
| Billing (`billing`, `subscriptions`, `pricing`) | invoices, subscriptions, plans, company status | issue, settle, cancel, renew, mark overdue, edit | one invoice per period; the once-off charge and the pro-rata once; a paid period moves with one payment | `Billing`, `Pricing` |
| Quotes (`routes/quotes`, `routes/public`) | quote rows | draft, revise, send, record, convert | an accepted quote becomes one client, with the estate it quoted | `Quotes` |
| Terminal allocations (`terminalLicences`) | allocation rows | allocate, move, release | never more than what was bought; a licence follows its store's owner | `TerminalLicences` |
| Onboarding (`clientOrchestrator`) | `deployment_jobs` and steps, tenant rows | run, retry, upgrade to multi-store | a finished job means finished steps, whoever runs it | `Onboarding` |
| Stores and panels (`routes/stores`, `routes/panels`) | their rows | create, edit, pause, delete, over an endpoint probe | one row for each deployment | `StoreRows` |
| Store provisioning (`storeProvisioning`, `storeClient`, `adminProvisioning`) | Coolify's applications, the guard's register, first administrators | provision, redeploy, bootstrap, email, reset | one application a store; what is recorded healthy was proved; a password told is the one in force | `StoreProvisioning` |
| Branch pairing (`topology`) | a branch's credential on three machines, its tills | wire, list, push | branch, Head Office and registry agree | `BranchPairing` |
| Fleet health and error feed (`healthSweep`, `fleetView`, `routes/errors`) | health columns, `error_events` | sweep, check, record, group | the feed accounts for every fault; no red badge without one | `FleetHealth` |
| Registry boot (`registryDb`) | the registry itself | migrate, seed, mark for re-delivery | nothing a client has is lost, nothing is migrated twice | `RegistryBoot` |
| Mail and PDFs, authentication, settings, React screens, scripts | single rows, or none | one synchronous handler each, or pure output | not modelled: see section 8 | |

They interact through the registry's rows (a batch and a promotion through the
rows of the tenants they deploy, billing through the company's status that the
licence reads, a store's row by nearly everything), through direct calls (a batch
calls `applyReleaseToTenant` for each tenant in turn; the CI callback starts two
batches; a quote is billed by `Billing`), and through callbacks (`onCreated` persists
an application, `onBatchCreated` links a batch).

The hard behaviours are listed with their lines in `PROJECT.json` under
`hazards`, with the property that covers each or the reason none does.

## 2. The plan

In the order of importance. All of it is written, checked and, but for liveness and
row 2, proved (✓).

| # | Module | What it composes with | Runs | Theorems |
|---|---|---|---|---|
| 1 ✓ | `TenantRelease`, `TenantTarget` | Coolify and the tenant, as environment actions; `TenantContract` is its abstract specification | `tenant_release`, `tenant_live` | `TenantReleaseProofs` ✓ |
| 2 ✓ | `TenantRuntime` | `TenantRelease`, which it corrects the registry beside | `runtime` (a disagreement) | none: the property fails |
| 3 ✓ | `ReleaseBatch` | each tenant by what `TenantContract` promises | `release_batch` | `ReleaseBatchProofs` ✓ |
| 4 ✓ | `ReleaseCandidate` | nothing; it ends where `Promotion` begins (`Releases` has the names of both) | `candidate` | `PromotionProofs` ✓ |
| 5 ✓ | `Promotion` | batches by their verdicts | `promotion`, `promotion_live` | `PromotionProofs` ✓ |
| 6 ✓ | `LicenceDelivery` | the sweep, payments and edits, a deployment that refuses older sequences | `licences` | `LicenceDeliveryProofs` ✓ |
| 7 ✓ | `Pricing`, `Billing`, `Quotes` | `Quotes` extends `Billing` extends `Pricing` | `office` | `OfficeProofs` ✓ |
| 8 ✓ | `TerminalLicences`, `Onboarding` | `Onboarding` extends `TerminalLicences` | `onboarding` | `OnboardingProofs` ✓ |
| 9 ✓ | `StoreRows`, `StoreProvisioning`, `BranchPairing`, `FleetHealth` | the last three extend the first; `ManagedStores` composes them over its rows | `stores` | `StoresProofs` ✓ |
| 10 ✓ | `RegistryBoot` | nothing: it runs alone | `boot` | `RegistryBootProofs` ✓ |

`TenantContract` is the abstract specification that a batch relies on and that
`TenantRelease` implements. A promotion's life (approved, reached, ended) and a
subscription's periods (each bought once) would be the next ones worth stating.

## 3. The modules

### Releases

**`TenantRelease`** is `applyReleaseToTenant` and `rollbackTenant` for one tenant:
tenants share no row, so one is the whole of its concurrency. Its state is the
tenant's rows (`lock`, `deployStatus`, `desired`, `last`, ... and the history `rows`),
what each attempt holds in memory (`pc`, `release`, `from`, `seenSchema`, `inflight`), and
Coolify (`image` as configured, `main` and `next` for the containers of the rolling
update, `job`, and `stopping` for a stop accepted but not yet done). `Apply` is all the
code before the first await: refusals, lock, history row, no-ops and schema gate.
The labels of `pc` are the awaits after it, in the order of the code:

| `pc` | code | `pc` | code |
|---|---|---|---|
| `reconcile` | `reconcileInFlightDeployment` | `create`, `created`, `configure` | `deployImageFromSpec` and its `onCreated` |
| `preflight` | `assertTenantPreflight` | `trigger`, `triggered` | `triggerDeploy`, its reply |
| `stop`, `waitStopped` | `stopApplication`, `waitForApplicationStopped` | `waitJob` | `waitForCoolifyDeployment` |
| `update` | `updateApplicationImage` | `verify` | `waitForApplicationReady`, then the success writes |

Every step may also throw (`Fail`, to the `catch` and `finally` of the code). Running
beside: `Crash`, `LockExpires`, the sweep's `RecordTelemetry` (written for stores; the
model allows it for panels too, a superset), and Coolify's steps. `dbSchema` is the
schema the tenant's database really has, which the image migrates when it starts.

**`TenantContract`** is the abstract specification: attempts take turns, and the
current release changes only to what the attempt at work was asked for.

**`ReleaseBatch`** is `startReleaseBatch`: the plan made at once (`StartBatch`: wave
numbers, actions, the tenants found paused), one item at a time (`SkipPaused`,
`SkipItem`, `RefuseSchema`, `Throws` up to the await, `BeginItem` to it, `CompleteItem` and
`FailItem` after it), then `NextWave` or `Finish`, which marks the later waves of a stopped
rollout. An application is reduced to its lock, its release and its outcome;
`TenantsKeepContract` checks that this reduction still keeps `TenantContract` for
every tenant. `release_batch_items.status` is `item`, `pc` is where the request is.

**`Promotion`** is `release_promotions` and the three things that write it: the
operator's request (`op`: `StartPromotion`, `PostAccepted` or `PostThrows`, `FindRun`), the
CI callback (`callback`: `AcceptCall` to `StoreBatchEnds` to `HoBatchEnds`, or `RefuseCall`,
`CallThrows`) and the poll of the office page (`PollBegins`, `PollAnswered`,
`PollUnanswered`). GitHub is `run`; a run's callback makes one batch of each kind, so
a linked batch is named by its run and its kind. The two digests of a release are one
value. `UniqueRefuses` is the partial unique index as SQLite applies it: to equal
values of `status`.

**`TenantTarget`** is what the office page and `startPromotion` read of one tenant
(`buildTarget`): whether it needs the release, and what blocks it. It stands beside
`TenantRelease` (an expired lock is no lock), so that `UnblockedApplies` relates the
page's answer to what an attempt then does. Paused tenants are left out: a batch
skips them. It adds the tenant's other writer, `POST /stores/:id/redeploy`
(`runStoreProvisioning` on the application that exists): `redeploy[d]` is the call it awaits,
`rejob[d]` the deployment job it asked of Coolify, and `SetStoreDeployStatus` its only write,
`deploy_status` alone and without the release lock. `TargetSpec` is `TenantRelease`
with redeploys; with `Redeploys = {}` it is `TenantRelease`. `UnblockedApplies` therefore
excepts one answer, the skip as being deployed, and only beside a redeploy at work or cut off
by a restart (section 7). Onboarding's retry triggers without the lock too
(`clientOrchestrator.ts:219-226`, `395-402`); it ends in writing `deployed` alone, on which
`UnblockedApplies` does not depend, and is `Onboarding`'s.

**`TenantRuntime`** extends `TenantRelease` with `reconcileTenantRuntime`: `fix` holds the
three stretches of the correction (the application, its deployments, the tenant's own
answers) and `FixWrites` its last. Version and revision stand for the image's digest;
ping, telemetry and `/health` are one step; the previous release column is left out.

**`ReleaseCandidate`** is how a release comes to be approved: the `catalogue` of staging with
`ensureCiRelease` and the manual publication, its demo tenants (`demo` as recorded, `ran`
as history), GitHub's `manifest`, and production's requests, which hold an answer in
memory or in `candidateCache` over several awaits. Staging, production and GitHub share
nothing; a demo that is down, or a staging control plane that does not answer, is an
empty answer. The rank of a tag is that of its newest row. What becomes of an approved
row is `Promotion`. Inactive releases, channels and schema ranges are left out.

**`Releases`** is what both name: the tags, the digests and the two kinds of image.

### Licences and money

**`LicenceDelivery`** is `services/licenceDelivery.ts` and its callers, for one company:
`row` is what the registry records of each deployment, `held` the licence it has, and
`job` what the sweep and each request are delivering (`at` is the await). `Sign` reads the
entitlements, takes the next sequence and signs in one stretch; the POST may be
refused, lost before or after it was carried out, or arrive late (`late`). A sweep
visits the deployments in the order of the fleet (`InOrder`). Days
count from today, and saturate; sequences count from the one the deployment holds
(`lead`), of which only the order matters. `RestoreOlder` is a registry restored from an older copy;
`Upgrade` the boot that marks every delivery pending.

**`Pricing`** is `services/pricing.ts`, `services/quotePricing.ts` and the lines of an
invoice, without state, in whole cents (`AddsUp`: they sum to its amount). **`Billing`** is the plans, clients and invoices
with everything that moves them: `RaiseInvoice`, `Cancel`, `Pay`, the sweep, plan and
client edits. Handlers without an await are one step; the sweep is one step too,
except where it settles (`BILLING_SIMULATE_RENEWAL_SETTLEMENT`), and keeps the rows it
listed (`sweep[s].todo`). An invoice is of one of three kinds (`Onboarding`, `ProRata`,
`SubscriptionInvoices`) and may carry the once-off charge (`FeeRiding`). Request bodies
are rows of `EditBody`, `NewClientBody` and `InvoiceBody`, where `Kept` is a field that is
not sent; a scenario gives the first registry, whose documents add up and whose books
agree (`BooksAgree`) except for the clients whose charge the office had set by hand (`hand`). `RaiseCutShort` is a request whose process ends between the
invoice and the state of the once-off charge, which are not one transaction.
**`Quotes`** composes the quote desk with it: only mail is awaited (`mail`), and
`CreateFromQuote` is the client that an accepted quote becomes.

**`TerminalLicences`** is a company's tills placed on its stores, each a licence
(`LicencesOf`; `Allocated` counts them); `EditStore` waits for the
probe of a new URL and goes on (`ProbeEnds`) with the row it read. **`Onboarding`** extends
it with the deployment jobs: `worker[w]` is a runner with the steps it read at its start,
`deploy` the two columns that decide what a retry repeats, `coolify` what was made and
triggered there. A head office is known by its company, as is its one panel. A company
may be deleted while a runner works for it (`Edited`): the job's rows go with it, the runner
goes on with `c = None` and writes nothing of them, and the store of its next step fails with its
row created and owned by nobody (`BeginOrphan`). The upgrade is two stretches: `AskUpgrade` reads
the company and its panels, `Upgrade` acts on them after the probes, with the stores and
licences the body lists, or `UpgradeRefused`.

### Stores

**`StoreRows`** is the rows of stores and panels: `AskCreate` and `AskEdit` go as far as the
probe (`asked`), `Created`, `Edited` and `Refused` come after it. `Onboard` is a job's creation of
a row, with no look at the others' URLs (`unchecked`). Row ids are never reused.
Three modules extend it, and **`ManagedStores`** composes them: they share nothing but
the rows, which each reads before it waits and the others write meanwhile. `Starts`
gives the rows that are registered at first, each as it is created (`JustCreated`), and
how much of each thing may happen.

- **`StoreProvisioning`**, `runStoreProvisioning` on its three paths (image, legacy
  Dockerfile, redeploy): `job[j].at` is the call it waits for, `app` what Coolify made,
  `registered` the guard's list, and for administrators `issued`, `taken` (by the
  deployment) and `told`. A call may fail before it arrives, or be carried out and its
  answer lost; Coolify may make the application otherwise than asked.
- **`BranchPairing`**, `services/topology.ts`: `site` is what a branch runs and holds, `office`
  what a head office holds of it, `caller` who is wiring what, from rows read earlier.
- **`FleetHealth`**, the sweep, the check of one deployment and `recordErrorEvent` with its
  grouping: `view` is the last answer, `feed` the events, `suffered` their history. A
  message is a fault and a detail. Whether a licence is due is left open.

Some histories only record what a property must except: `stray` (a create whose answer
was lost), `overlapped` (two provisionings of one store), `crossed` (two callers with one
store in hand), `edited`, `unchecked`. Each names a race that the code has; the property
says that nothing else goes wrong.

### The boot

**`RegistryBoot`** is the migrations that every boot runs, in their order (`Order`), each a
function from a registry to a registry (`Restructured`, `Seeded`, `Split`, ...) with one
action. Tables are reduced to what a migration reads or writes. `Cut` ends the process
anywhere; `lost` records the work that a cut boot leaves to nobody. Between boots the
office edits plans and buys add-ons. A request commits and then delivers licences, one tenant
after another (`pushing`, `Push`); an edit of a plan delivers to its active clients only.
`missed` records the tenants whose entitlements changed and to which no request delivers, until
one does or the sweep. Which clients are active is left open at each edit.

`MC*` modules give the constants that a `.cfg` cannot write. An operator whose
comment begins with "Weakened" is a plausible error in the definition beside it; the
properties are validated against them.

## 4. The runs

| Run | Instance | What it shows |
|---|---|---|
| `tenant_release` | 3 attempts, 2 releases (the second migrates the schema), provisioned or not, 1 restart | type, mutual exclusion, one container on the volume, "deployed" is true, intent is visible, failures keep the release, one application, the contract; nobody redeploys the tenant |
| `tenant_live` | 2 upgrades, 1 redeploy beside them, the lock may lapse, 1 restart | the page agrees with the engine but for a redeploy's status, the tenant is always free again (`TenantFreed`: no attempt at work and no lock), and only its holder releases a lock |
| `release_batch` | 2 rollouts, 3 tenants, waves of 2, 1 disturbance | totals, waves in order, a failed wave stops, the contract for each tenant |
| `candidate` | 2 tags, 2 images, a demo of each kind, a poll and an approval, 1 replaced manifest | what is approved ran on every demo that the answer counts, a tag names one pair of images, staging never goes back |
| `promotion` | 2 promotions, 2 workflow runs, 2 tags, 2 digests | approved digests, both fleets, one release on the fleet, verdicts after an await |
| `promotion_live` | 2 promotions, 1 run, 1 restart | every promotion ends |
| `licences` | 1 store, the timer and 1 request, 1 lost call, 1 restart, 1 change | the deployment never goes back; in the end it holds what was agreed, and a client that paid trades |
| `office` | 2 clients, 2 plans, 1 quote, 5 days with months of 2, eight scenarios | the once-off charge and the pro-rata once, periods bought with one payment, renewals raised, one client for a quote |
| `onboarding` | 2 companies, 2 stores, 2 jobs, 2 runners, four budgets | no step of a job begins before the ones it follows went through; no step but a takeover parts a store from its licence, or but a boot places more than was bought |
| `stores` | 2 stores, 1 head office, 3 applications, 2 callers, 2 checks, twelve budgets | one row a deployment where the office registers one, one proved application, passwords, pairing, the feed |
| `boot` | 2 companies, a store and a panel, registries of three shapes, among them a plan that parts a split pair, a `retail` plan beside an operator's `business`, and a licence out of date; 2 cuts, 3 boots, 1 edit | nothing a client has is lost, a boot after a boot changes nothing but what section 7 lists |
| `runtime` | 2 attempts, 1 restart, a correction | section 7 |

Why the bounds are enough. *Attempts:* a property of one tenant is broken by at most
a finished (or dead) attempt whose leftovers a second meets while a third
arrives. *Releases:* two make every comparison of current, desired, target and schema
come out both ways. *Restarts:* a restart ends every attempt, so a second one meets
only the states that the first left. *Tenants:* three in waves of two give a wave of
more than one, a later wave, and a wave that fails in its first and goes on with
its second; the initial fleets have the tenant without an application in the
first wave or in the last. *Rollouts:* two meet on every tenant; a third adds
another holder of the same locks. *Promotions and runs:* each row of the index
needs one other, and a run may be the first promotion's, the second's or manual.
*Tags and demos:* one tag to approve and one that overtakes it; a demo of each
kind, for an answer counts both. *Licences:* tenants share no row but the company's,
and the two deliveries of one store are the timer's and a request's. *Billing:* with
months of two days, five days see a period paid, ending and renewed twice; one day
of warning and one of grace are the boundaries of their comparisons.
*Runners and callers:* a row is raced for by two. *Redeploys:* one is enough to leave a
status behind, and a second writes what the first may. *Boots:* the second boot is the one
that could migrate twice, a cut boot is completed by the next, and the third sees what the
second's renames have freed.

The other bounds. `MaxDisturbances` bounds what operators and restarts do to rollouts,
not what rollouts do. `Scenarios` (office), `Budgets` (onboarding) and `Starts` (stores) give initial states
with what may happen in each: requests of different parts meet where they share
rows, and are checked apart where they share none, which keeps twelve small searches
instead of a product. `MaxLag`, `MaxChanges`, `MaxRequests`, `MaxFaults`, `MaxCrashes`,
`MaxRepoints`, `Builds`, `ByHand`, `MaxPasswords`, `MaxTokens`, `MaxTills`, `MaxStores`,
`MaxApps`, `MaxCuts`, `MaxBoots`, `MaxEdits`, `Offered`, `Withdrawn`, `Wanted`, `Prices`, `NumTenants`, `WaveSizes`, `MaxPromotions`, `MaxRuns` and
`LastDay` are named where they are declared; `disturbances`, `crashes`, `used`, `left`, `spend`,
`repoints`, `cuts`, `boots` and `edits` count for the bounds only.

Deadlock is checked where something always remains to be done (`licences`,
`boot`). Elsewhere requests are finite in number, and a system that has served
them all rests. Attempts, rollouts, tags, runners, callers, checks and faults are
symmetric where no liveness is checked.

## 5. Fairness and assumptions

- *An awaited call returns or throws* (`WF` of each attempt's step, of a promotion's
  request and of the poll, of each licence job): the waits have deadlines in the code,
  the others those of the HTTP client. Nothing is assumed of what they return.
- *Time passes*: a lock whose holder is gone expires, a promotion in flight grows
  older than its timeout, days follow one another (`SF` of `NewDay`, which waits
  for the jobs under way, as a day is longer than any of them).
- *The timers tick* (`WF` of `TimerTick` and `TickStarts`): `startScheduledTask` repeats for
  as long as the process runs and skips a tick while the last one is at work. The
  first tick comes one interval after a boot, so it assumes that restarts end;
  they are bounded.
- *The office page polls* (`WF_vars(Poll)`): the only code that expires a
  promotion is a poll or the next promotion. Where nobody looks, a row stays in flight.
- Coolify, GitHub, tenants, operators, clients and restarts are not fair; lost calls
  are bounded.
- *A lock outlives its attempt* (`LockMayLapse = FALSE`) for the safety of one tenant.
  The lock lasts 30 minutes; the waits add up to less, but Coolify's requests have no
  timeout of their own. `tenant_live` runs without the assumption.
- A stop acts on the container it found, and one job of an application runs at a
  time: what Coolify does with its queue is outside this code.
- A workflow run calls back before it concludes, at most once.
- A deployment accepts a licence whose sequence is at least the one it holds: its
  code is elsewhere, and `licenceDelivery.ts` is written for that.
- One send of a quote is in flight at a time; one head office for each client.

## 6. What is proved

Eight modules hold the theorems, each for every value of the constants: any number of
tenants, attempts, rollouts, tags, stores, jobs, workers, restarts and lost calls, any fleet,
any plans, amounts and databases. They rest on the named `ASSUME`s of the modules they are
about and, for the boot, on a hypothesis that its theorems state (`Whole`).
The `ASSUME`s say what the constants are: that `None` is no name, that
the fleet is finite and lists each deployment once, what types request bodies have, that a
registry begins with rows of its tables that agree. TLC evaluates them in the runs, and
the hypothesis for the registries of `boot` (`MCWhole`).

The properties that the runs check are seldom inductive. Every module therefore
defines an invariant `IInv` that is, and proves that `Init` establishes it and that each
action keeps it, with a lemma for each action or group of actions; a property follows
from `IInv`, or, where it speaks of steps, from `IInv` and the step. Where two components share
a module of proofs, the names of the second have a prefix (`Candidate`).

| Module | Theorems | State |
|---|---|---|
| `TenantReleaseProofs` | types; under `~LockMayLapse`, mutual exclusion, one container on the volume, deployed means running, intent kept and visible | `TypeOK`, `MutualExclusion`, `OneWriter`, `DeployedMeansRunning`, `ProvisioningIsIntended`, `JobDeploysDesired` |
| | `TenantRelease` implements `TenantContract`; own lock only, beside redeploys too; a failure keeps the release; one application; the page and the engine agree but for a redeploy's status | `ImplementsContract`, `ReleaseOnlyOwnLock`, `FailureKeepsRelease`, `NoSecondApplication`, `UnblockedApplies` |
| `ReleaseBatchProofs` | reports add up, a failed wave stops, waves follow one another, each tenant keeps `TenantContract` | `BatchesAddUp`, `FailedWaveStops`, `WavesInOrder`, `TenantsKeepContract` |
| `PromotionProofs` | what is approved was run by every demo, staging never goes back | `CandidateSound`, `NeverOlder` |
| | batches roll out what was approved, one release on the fleet, no verdict on a promotion that a rollout reached meanwhile | `BatchesApproved`, `OneReleaseOnFleet`, `VerdictSparesRollout` |
| `LicenceDeliveryProofs` | types; a deployment never goes back to older entitlements | `TypeOK`, `NeverBack` |
| `OfficeProofs` | nothing charged twice, a period moves with one payment, one client for a quote, every document and every estate adds up | `ChargedOnce`, `PeriodsSettled`, `LinkedOnce`, `OfficeSound` |
| `OnboardingProofs` | no step of a job before its time, licences follow their stores, no grant past the purchase | `JobsSound`, `LicencesFollowStores`, `GrantsWithinPurchase` |
| `StoresProofs` | one row a deployment where the office registers one, one proved application, passwords, pairing, the feed accounts for every fault and no red badge is without its event | `RowsSound`, `AppsSound`, `AdminTold`, `BranchesAgree`, `FeedSound` |
| `RegistryBootProofs` | what a boot serves is sound, no boot takes anything from a client, a boot after a boot does nothing | `RegistrySound`, `BootSafe` |

**One tenant** (`TenantReleaseProofs`). That two containers never run together needs to know
that a job is active only on a stopped tenant, which needs what each label of an attempt
has established, which holds only of the attempt that owns the lock. The parts of `IInv`:
`TInv` (types, with what they rest on), `LockHeld` (an attempt at work holds the lock; so there
is one), `OwnRecords` (`from` is still `last`), `Jobs` (at most one job is active, on a stopped
tenant, for the desired release), `Phases` (what has been established by each label),
`Deployed` (nothing pending can change a deployed tenant), `ProvisioningIsIntended`. `JobFail`
shows why `Jobs` is needed, and `Crash` why an active job must speak of `desired` and not of
an attempt's memory.

**The contract** (`TenantReleaseProofs`). `Worker` is the live attempt, unique by `LockHeld`:
each step of `TenantRelease` keeps it, ends it or begins one, and so is a step of
`TenantContract` or a stutter. `UnblockedApplies` needs what the page leaves unasked
(`PageRelies`): only a recorded application is in the image mode, and `deploy_status` says
provisioning beside an idle `release_state` only where a redeploy wrote it (`Parted`). It is
proved of `TargetSpec`, for any number of redeploys; it and `OwnLockOnly` hold with lapsing
locks too. The other theorems of this module are about `Spec`, a tenant that nobody redeploys.

**Rollouts** (`ReleaseBatchProofs`). `Planned`, what a rollout not yet started has not touched;
`Locks`, a tenant at work is locked by the batch whose one running item it is; `Waves`,
earlier waves are settled and later ones untouched, except that a stopped rollout skips
them when everything else is settled; `Counted`, the counters are the cardinalities of the
items and a finished row has them. `FailedWaveStops` cannot be kept without the clause of
`Waves` that a stopping rollout has no failure in an earlier wave, and the contract not
without `Locks`.

**Candidates** (`PromotionProofs`). The unique constraints (`Unique`) make a tag one
image of each kind; rows are only appended, so that an answer read long ago is still
in the catalogue when it is approved (`HeldInCatalogue`), and a healthy demo has run the image it
records (`DemosVerified`).

**Promotions** (`PromotionProofs`). The indexes leave in flight the newest row, dispatched and
unreached, and one that is running (`Indexed`). A callback keeps the digest it was checked
against while its promotion keeps its own (`CallsBound`), and a promotion's batches are those
of callbacks bound to it (`LinksBound`), so that what rolls out is what was approved however long
the callback waited for its store batch.

**Licences** (`LicenceDeliveryProofs`). What a deployment accepts is decided by the sequence,
what it must not lose is the agreement, so `OrderInv` ties the two: among the licences under
way to a deployment, and against the one it holds, a higher sequence never carries older
entitlements. `ToldInv` is the delivery that heard the deployment's sequence and signs past
it, even where the registry was set back meanwhile (`RestoreOlder`).

**The books** (`OfficeProofs`). `BooksAgree` has each client's setup charge on one standing
invoice at most, which says how far it has come; it excepts the clients whose charge the
office set by hand, for nothing else writes `waived`. It is stated of values, not of
variables, so that `RaiseKeeps` and `SettleKeeps`, of one invoice, compose to the sweep,
which raises and settles for many clients in one step. `Owned` is needed because a new
client must find no invoice of its own, `PaidOnce` because the invoice that moves a paid
period must not have been paid before.

**The figures** (`OfficeProofs`). That the lines of a document sum to its amount is no
consequence of what `invoiceLineItems` does with the residual alone: a line is left out
where nothing is unexplained, so the amount must cover its priced lines. `FiguresInv` says so
of every row (`SoundRows`), through raising, paying, cancelling and the sweep: at each of the
ways a charge is priced, the stored quantities and rates multiply up to no more than the
amount (`CoversLines`), and then the rest closes the sum (`ResidualAdds`). Beside it stand
what the sweep may have listed (`SweepsTyped`) and the quotations whose stores and tills are
an estate (`QuotesFit`), of which `QuoteStoreSplit` gives every branch a till and sums to what
was bought (`EvenSplit`, of division with remainder). `FiguresInv` and `IInv` are kept
together, as neither the raised rows nor the settled days have types without the books.

**Onboarding** (`OnboardingProofs`). A runner works from the steps it read when it began, while
another run of the same job writes the row. What is true of every runner is that it is
`Behind`: what it holds as complete, or has passed, went through (`done`), for `done` only grows
while the row's own statuses go back and forth. With `JobOK` this makes the order of the steps
hold for any number of runners, and `WorkerOK` also says which of them has a row at Coolify.
`OfficeInv` has every row name companies that are there, probes included, which is what
deletions must keep. A licence follows its store because each edit writes both or neither
(`StoreChanges`, `ApplyEditKeeps`), except where a job takes over a store by its slug
(`TakesOver`). `GrantsWithinPurchase` counts the licences as a set, so that a placement adds
what it adds (`Within`, `Granted`); the list of placements of one request
(`PlaceList`) is followed up to the least position at which it could have gone past the
purchase, of which there is none.

**Stores** (`StoresProofs`). Four invariants, `ProvInv`, `AdminInv`, `PairInv` and `HealthInv`, above
`RowsInv`: each is kept by the steps of its own part and by every step that leaves alone
what the part relies on in the rows (`RowsQuiet`, `ProvLeaves`, `PairLeaves`), which the other
parts' steps are shown to do. `RowsKept` says that a removed row's id is not used again,
without which a job would write the row of another store; `Accounted` counts the
application that exists while its store does not record it yet; `CredentialsKnown` is what a
wiring knows of the credential that it read before it waited.

**The feed** (`StoresProofs`). `FeedInv` relates the events to the history `suffered`: an event
spans the first to the last of the failures it stands for (`Spans`), every failure has its event,
no two events share source, entity and fingerprint, and the counts of a fault's events sum to
its failures (`Total`, the size of a set of numbered occurrences). That the feed's groups also
count the stores struck is a bijection between entities and rows (`StruckCount`), which
`IdAssumption` gives: both tables number their rows, so source and id name one.

**The boot** (`RegistryBootProofs`). A boot may be cut between any two statements, and
the next one begins again on what is there. So the invariant speaks of the database, not of the
boot that made it: `Good` is so at every time, `Phase(reg, n)` once the statements before the
n-th have run in whatever boot, `Memory` what the boot under way knows (`changed`, `had`), and
`ClassesKept` and `LicencesKept` what it has still to write, with the two windows (`lost`) in
which a cut leaves that to nobody; of the tenants in `missed` or `pushing` `LicencesKept` says
nothing. Its theorems assume `Whole`, that the database an earlier build left is intact (its
licences need not be current): the last entry of the table below is one that is not. For
`RebootQuiet`, `Memory` has it that after a boot (`settled`) every plan is priced, sells what it
prices and grants what was split off what it includes, unless a plan is `Parted`; and
the renames are over but for a `retail` plan beside a `business` (`RetailLeft`). The first items
below section 7's table are what a boot does to those.

**Sums and recursion.** The library's induction theorems take an operator, which these provers
cannot instantiate, so sums are not computed by induction. `SumFunctionOnSet` is the value of a
table over the subsets of a finite set (`Totals`), and the table is shown to exist and to be
unique by taking a smallest set for which it would not (`SmallestSet`). From this follows
`SumWithout`, which takes any one member away, and every sum of the proofs. Orders, lists and
the sequence of a boot are treated the same way, by a least counterexample (`LeastMember`).

Only model-checked: liveness (`TenantFreed`, `PromotionEnds`, `DeliverySettles`,
`RenewalRaised`), which is beyond the prover. Every other property of a passing run is a
theorem. The property of `TenantRuntime`, and those of section 7, fail.

## 7. Where the code and its documents disagree

Found by a run of `PROJECT.json`, with the quoted lines under `findings`:

- `runtime` (`CorrectionConclusive`): a correction of the registry verifies a tenant over
  six awaits, without its lock, and writes what it verified over an upgrade begun
  meanwhile. An upgrade closes its own history row, the newest running one, so that the
  correction's question whether a deployment is under way is answered with no; what it
  records as deployed and healthy has no container.

The same kind of statement, quoted from the repository, fails under the other
configurations kept here (`tlc -config X.cfg M`), which name one such statement and hold
the others of the same module as comments. Each is a short trace to read.

| Configuration, module | Property | What the code does |
|---|---|---|
| `MCTenantReleaseDocs`, `MCTenantRelease` | `StaleRowReconciled` | the row reconciled before a deployment is the attempt's own; the one a restart left running stays so (`releaseOrchestrator.ts:398-431`) |
| `MCTenantReleaseDocs`, `MCTenantRelease` | `SchemaGate` | the schema gate trusts a registry schema that a failed upgrade left behind the database's (`:569`) |
| `MCTenantReleaseDocs`, `MCTenantRelease` | `StoppedTenantRetries` | a tenant stopped by a failed change cannot be retried: its identity check asks the stopped container (`:340`) |
| `MCPromotionDocs`, `MCPromotion` | `SecondRefused` | the partial unique index compares equal statuses, so a second promotion is inserted and dispatched beside a running one (`promotion.ts:950`; `registryDb.ts:559-564` says it is refused) |
| `MCPromotionDocs`, `MCPromotion` | `ExpiryFreesUnreached` | the timeout also ends a promotion that its workflow reached (`registryDb.ts:4583`) |
| `MCLicenceDeliveryRetry`, `MCLicenceDelivery` | `OkMeansDelivered` | onboarding's `issue_licences` records no outcome, and store provisioning only a success: a delivery of theirs that is lost leaves the `ok` of the one before it, and the sweep does not retry before half the offline days are gone |
| `MCOfficeDocs`, `MCOffice` | `AgreedPeriodBought` | a settlement advances by the plan's billing period in force, not by the agreed one (`billing.ts:724-728`; `CONTEXT.md:560-565`) |
| `MCOfficeDocs`, `MCOffice` | `QuoteTermsKept` | a quote sent from the form is priced at the list, and becomes a client at its row's rates (`routes/quotes.ts:548-600`, `807-812`) |
| `MCOnboardingRetry`, `MCOnboarding` | `DeployedMeansTriggered` | a retry skips Coolify because the application's UUID is set, and records a deployment nobody triggered (`clientOrchestrator.ts:338-341`, `518-521`) |
| `MCRegistryBootPrice`, `MCRegistryBoot` | `AgreedPriceKept` | a plan that both prices and includes a feature re-prices, at the next boot, the client that had bought it (`registryDb.ts:1736` says that it keeps the price it agreed) |
| `MCRegistryBootInterrupted`, `MCRegistryBoot` | `BootKeeps` | a registry whose `plans` was renamed away by a migration that never finished gets a new table first (`CREATE TABLE IF NOT EXISTS`), so that the plans its clients refer to are lost to them |

Found while modelling and proving, as the case which a property must except:

- A plan that prices `layby` but only includes `customer_credit`, which it was split off:
  `grantSplitFeatureKeys` adds `layby` to what it includes and `moveBundledFeaturesToAddons`
  sells it again, at every boot (`registryDb.ts:1778-1801`, `1714-1752`, whose comment calls it
  idempotent). `PUT /plans/:id` accepts such a plan. `boot` has one; `RebootQuiet` excepts it
  (`Parted`).
- A registry with a `retail` plan and a `business` plan of the operator's own: the first boot
  renames `business` to `vula-grow`, and so frees the code to which the second one renames
  `retail` (`registryDb.ts:1952-1968`). `boot` has one; `RebootQuiet` excepts it too (`RetailLeft`).
- A deployment job that takes a store over from another company reassigns it before it places
  its licences (`clientOrchestrator.ts:370-391`). Where these are refused, or the store is a
  warehouse, it keeps the other company's licence, and does so when the new owner is deleted:
  `LicencesFollowStores` excepts the takeover.
- A deletion of a company under a runner of its job leaves the runner at work, and its next store
  as a row without an owner (`routes/companies.ts:658-690` looks for neither jobs nor runners).
- An upgrade to multi-store looks for a Head Office before it awaits its probes and not after
  (`routes/clients.ts:1137`, `1165-1183`), so that two requests may both go through; and where the
  body sends `allocations` or a new store, the quantity bought becomes what is then placed,
  also where that is less (`1228-1269`). `GrantsWithinPurchase` holds through both.
- A redeploy and the release engine. `POST /stores/:id/redeploy` (`routes/stores.ts:582-589`) writes
  `deploy_status` alone (`registryDb.ts:2115-2143`). After a failed upgrade it leaves `release_state`
  `failed` beside `provisioning`: the page shows the tenant unblocked (`promotion.ts:337-371`),
  and the engine skips it as being deployed (`releaseOrchestrator.ts:559`), for good if a restart cuts the
  redeploy off. `PageForetells` in `MCTenantReleaseDocs` is violated. It also triggers a
  rolling update without a stop, and ends in writing `deployed` whatever an attempt is doing:
  with a redeploy, `OneWriter` and `DeployedMeansRunning` are violated in the same configuration.
- Onboarding and URLs. Only `POST /stores` and `POST /panels` look for the URL among the
  other rows. The jobs of `POST /clients`, of the upgrade and of `POST /quotes/:id/create-client` create
  rows with the URLs they were given (`clientOrchestrator.ts:201-212`, `353-373`; the validators of
  `routes/clients.ts:203-339` probe them and look only at slugs), and `PUT /stores/:id` sets one
  with no look at the others (`routes/stores.ts:665`): two rows may then name one deployment. `RowsSound` excepts rows whose
  URL was set so.
- Licences after an edit of a plan. `PUT /plans/:id` delivers to active clients only, after its commit
  (`routes/companies.ts:502-515`). A suspended client's deployments keep a licence marked `ok`
  that says the terms before it, until the client is reinstated (`companies.ts:879-891` delivers) or half the
  offline days are gone; so do those of an active client when a restart cuts the request off.
  `RegistrySound` excepts exactly these (`missed`, `pushing`).
- A plans table with the older column `pricing_model`. Its DDL contains `pricing_mode`, so that
  `restructurePlans` takes it for a current one (`registryDb.ts:1470`) and its own branch for that
  column (`1473-1486`) is never taken; the next rebuild names `pricing_mode` and throws, so that the
  boot fails. The comment at `1464-1465` says that any intermediate shape migrates cleanly. No
  registry of `boot` has this shape.
- `POST /invoices` accepts an amount below zero (`routes/billing.ts:159`), which is added to the
  setup charge that rides on the invoice (`billing.ts:496`): the document then lists the
  charge and no line for the difference (`billing.ts:429-437`), while the comment at
  `billing.ts:289-291` promises a line for whatever the others do not explain. `InvoiceBody` has
  no such amount.

## 8. What is not modelled

- *Of the release modules:* a promotion scope without stores or without head offices; the
  release fields of the catalogue that nothing decides on.
- *Of licences:* the signature, the token's fields that only the tenant reads, health fields.
- *Of billing and quotes:* VAT, invoice and quote numbers, trial dates, the WhatsApp
  bundle, plan caps on branches, validity dates, amounts below zero (section 7), the documents and the mail's text.
  Dates are whole days and all months are equally long.
- *Of stores and onboarding:* names, notes, support sessions, replacement of the control
  plane's token, reassignment of a store during a wiring, more than one head office for
  a client, an allowlist of hosts.
- *Of the feed:* telemetry, the versions and devices views, the list's limit and the
  truncation of messages. Two overlapping sweeps may write the older answer last; nothing is
  claimed of that.
- *Of the boot:* names, caps, setup fees, warehouse tills, bridge keys.
- Rendering and transport (mail, PDFs), authentication and one-row settings (one
  synchronous handler each: nothing interleaves), the React screens except the forms whose
  bodies decide something (`Quotes`), scripts run by hand.

Hazards known and without a property of their own, beyond those of `PROJECT.json`: the
rollback target is never verified (`releaseOrchestrator.ts:829`); a stop that Coolify
applies late (`coolify.ts:439`); a pause is read once for a whole batch
(`releaseOrchestrator.ts:1049`) and a batch whose tenants were all skipped is complete
(`:1112`); a promotion's timeout races its rollout (`registryDb.ts:4583`); a dispatch
overwrites a terminal status (`promotion.ts:707`); a fleet without a demo of one kind
approves an image that no demo ran (`promotion.ts:173`); two redeploys of one store race
(`storeProvisioning.ts:130`); a
wiring works from a snapshot of the rows (`clientOrchestrator.ts:542`); the desired
configuration's version never advances (`fleetView.ts:84`); `PUT /clients/:id` checks
allocations against the old plan (`routes/clients.ts:805`).
