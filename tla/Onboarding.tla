----------------------------- MODULE Onboarding -----------------------------
(***************************************************************************)
(* Bringing a client up: POST /clients and the upgrade to multi-store of    *)
(* routes/clients.ts, the deployment jobs of services/clientOrchestrator.ts *)
(* with their retry, and the provisioning of a single store                 *)
(* (services/storeProvisioning.ts), beside the edits of TerminalLicences.    *)
(*                                                                         *)
(* A runner works through the steps of a job, read once at its start, and   *)
(* awaits Coolify and the new deployment between them; nothing keeps a      *)
(* second runner from the same job, or the office from deleting its company *)
(* while it has neither store nor Head Office.  A Head Office is known by   *)
(* its company.                                                             *)
(***************************************************************************)
EXTENDS TerminalLicences

CONSTANTS
  Jobs,          \* deployment_jobs rows
  Workers,       \* runners of jobs and provisionings at once
  Wizards,       \* what POST /clients is asked for: type, autoDeploy and stores
  Branches       \* the new store of an upgrade, or None

VARIABLES
  panel,      \* panels: the companies that have a Head Office row
  deploy,     \* stores, panels: deploy_status and coolify_uuid
  job,        \* deployment_jobs and deployment_job_steps
  worker,     \* in memory: the runners and provisionings under way
  coolify,    \* external: how many applications each holder has, and those ever triggered
  done        \* history: the steps of each job that were completed at least once

fleetVars == <<company, store, alloc, edit, left, panel, deploy, job, worker, coolify, done>>
office == <<company, store, alloc, edit>>

Holders == Stores \cup Companies
MaxApps == 3
Fresh == [status |-> "not_deployed", app |-> None]

\* What the wizard says of a store (NestedStore), kept in the metadata of its step.
Entry == [s: Stores, kind: {"store", "warehouse"}, tills: 0 .. MaxTills, licensed: 0 .. MaxTills]
Wizard == [multi: BOOLEAN, auto: BOOLEAN, stores: Seq(Entry)]

ASSUME WizardAssumption ==
  /\ Wizards \subseteq Wizard /\ Branches \subseteq Entry \cup NoOne
  /\ \A e \in UNION {Range(w.stores) : w \in Wizards} \cup (Branches \ NoOne) :
       IF e.kind = "warehouse" THEN e.tills = 0 /\ e.licensed = 0 ELSE e.tills >= 1

JobStepRow == [what: {"head_office", "store", "wire", "licences"}, at: Holders \cup NoOne,
               kind: {"store", "warehouse", None}, tills: 0 .. MaxTills, licensed: 0 .. MaxTills,
               status: {"pending", "running", "failed", "complete"}]
JobRow == [company: Companies, status: {"running", "failed", "complete"}, steps: Seq(JobStepRow)]
DeployRow == [status: {"not_deployed", "provisioning", "deployed", "failed"}, app: 1 .. MaxApps \cup NoOne]

\* A runner of a job, or (no job) the provisioning of a store or an upgrade whose URLs are
\* being validated.  c is None for a provisioning, and once the company is gone.
WorkerRow == [job: Jobs \cup NoOne, c: Companies \cup NoOne, steps: Seq(JobStepRow), i: Nat \ {0},
              plan: Plans \cup NoOne, auto: BOOLEAN,
              at: {"validate", "start", "create", "trigger", "trigger_new", "push"},
              h: Holders \cup NoOne, app: 1 .. MaxApps \cup NoOne, kept: BOOLEAN]

ASSUME JobAssumption == None \notin JobRow /\ None \notin WorkerRow /\ None \notin Jobs

-----------------------------------------------------------------------------
(* Steps *)

Step(what, at, kind, tills, licensed) ==
  [what |-> what, at |-> at, kind |-> kind, tills |-> tills, licensed |-> licensed, status |-> "pending"]

Generic(what) == Step(what, None, None, 0, 0)
StoreStep(e, kind) == Step("store", e.s, kind, e.tills, e.licensed)

\* orchestrateClientDeployment: the metadata of a store step has no kind.
WizardSteps(c, wz) ==
  (IF wz.multi THEN <<Step("head_office", c, None, 0, 0)>> ELSE <<>>)
  \o [i \in DOMAIN wz.stores |-> StoreStep(wz.stores[i], None)]
  \o (IF wz.multi THEN <<Generic("wire")>> ELSE <<>>)
  \o <<Generic("licences")>>

\* orchestrateUpgradeToMultiStore
UpgradeSteps(c, e) ==
  <<Step("head_office", c, None, 0, 0)>>
  \o (IF e = None THEN <<>> ELSE <<StoreStep(e, e.kind)>>)
  \o <<Generic("wire"), Generic("licences")>>

NewJob(c, steps) == [company |-> c, status |-> "running", steps |-> steps]

\* runJobSteps begins: the steps and the company's row are read once.
Runner(j, row, auto) ==
  [job |-> j, c |-> row.company, steps |-> row.steps, i |-> 1, plan |-> company'[row.company].plan,
   auto |-> auto, at |-> "start", h |-> None, app |-> None, kept |-> TRUE]

Runs(w, j, row, auto) == worker' = [worker EXCEPT ![w] = Runner(j, row, auto)]
Starts(w, j, row, auto) == worker[w] = None /\ Runs(w, j, row, auto)

-----------------------------------------------------------------------------
(* Requests *)

Total(entries) == FoldLeft(LAMBDA n, e : n + e.licensed, 0, entries)

\* POST /clients: the estate is checked against the plan, the company and its
\* subscription are one transaction, and the job begins.
CreateClient(c, j, w) ==
  /\ Spend("clients") /\ company[c] = None /\ job[j] = None
  /\ \E wz \in Wizards, p \in Plans \cup NoOne :
       /\ wz.multi => p # None
       /\ p # None => /\ Len(wz.stores) <= StoreCap[p]
                      /\ \A e \in Range(wz.stores) : e.licensed <= Ceiling[p] /\ e.tills <= e.licensed
       /\ Total(wz.stores) \in 0 .. MaxTills
       /\ company' = [company EXCEPT ![c] = [plan |-> p, licensed |-> Total(wz.stores), suspended |-> FALSE]]
       /\ job' = [job EXCEPT ![j] = NewJob(c, WizardSteps(c, wz))]
       /\ Starts(w, j, job'[j], wz.auto)
  /\ UNCHANGED <<store, alloc, edit, panel, deploy, coolify, done>>

\* POST /clients/:id/upgrade-to-multistore: the company's row and its panels are read, and
\* the URLs of the Head Office and of the new store are probed.
AskUpgrade(c, w) ==
  /\ Spend("clients") /\ company[c] # None /\ ~panel[c] /\ worker[w] = None
  /\ worker' = [worker EXCEPT ![w] =
       [job |-> None, c |-> c, steps |-> <<>>, i |-> 1, plan |-> company[c].plan, auto |-> TRUE,
        at |-> "validate", h |-> None, app |-> None, kept |-> TRUE]]
  /\ UNCHANGED <<company, store, alloc, edit, panel, deploy, job, coolify, done>>

Validating(w) == worker[w] # None /\ worker[w].at = "validate"

HeldBy(c) == {s \in Stores : alloc[s] # None /\ alloc[s].owner = c}

\* Each of the list fits once those before it are placed.
AllFit(c, plan, licensed, list) ==
  \A n \in DOMAIN list.order :
    CheckAllocation(PlaceList(alloc, c, plan, licensed, [list EXCEPT !.order = SubSeq(@, 1, n - 1)]),
                    c, plan, licensed, list.order[n], list.count[list.order[n]])

\* The rest of the handler, with the row read before the probes: it neither looks for a
\* panel again nor reads the plan.  The body may list stores (in some) with their
\* licences; what all hold and the new store's become the quantity bought, if either is
\* sent, and one that does not fit refuses the whole.
UpgradeTo(w, j, e, p, listed, some, n, o) ==
  LET c     == worker[w].c
      terms == IF p = None THEN worker[w].plan ELSE p
      list  == [order |-> o,
                count |-> [s \in HeldBy(c) \cup some |-> IF s \in some THEN n[s] ELSE alloc[s].count]]
      total == MapThenSumSet(LAMBDA s : list.count[s], Range(o)) + (IF e = None THEN 0 ELSE e.licensed)
      buys  == listed \/ e # None
  IN  /\ terms # None /\ \A s \in some : n[s] <= Ceiling[terms]
      /\ e # None => /\ e.licensed <= Ceiling[terms] /\ e.tills <= e.licensed
                     /\ Cardinality(OwnedBy(c)) + 1 <= StoreCap[terms]
      /\ buys => total \in 0 .. MaxTills /\ AllFit(c, worker[w].plan, total, list)
      /\ company' = [company EXCEPT ![c].plan = IF p = None THEN @ ELSE p,
                                    ![c].licensed = IF buys THEN total ELSE @]
      /\ alloc' = IF buys THEN PlaceList(alloc, c, worker[w].plan, total, list) ELSE alloc
      /\ job' = [job EXCEPT ![j] = NewJob(c, UpgradeSteps(c, e))]
      /\ Runs(w, j, job'[j], TRUE)
      /\ UNCHANGED <<store, edit, left, panel, deploy, coolify, done>>

Upgrade(w, j) ==
  /\ Validating(w) /\ worker[w].c # None /\ job[j] = None
  /\ \E e \in Branches, p \in Plans \cup NoOne, listed \in BOOLEAN :
     \E some \in SUBSET IF listed THEN OwnedBy(worker[w].c) ELSE {} :
     \E n \in [some -> 0 .. MaxTills], o \in SetToSeqs(HeldBy(worker[w].c) \cup some) :
       UpgradeTo(w, j, e, p, listed, some, n, o)

\* A probe or a check refuses, or the company is gone: nothing is written.
UpgradeRefused(w) ==
  /\ Validating(w)
  /\ worker' = [worker EXCEPT ![w] = None]
  /\ UNCHANGED <<office, left, panel, deploy, job, coolify, done>>

\* retryDeploymentJob: whatever the job's status.
Retry(j, w) ==
  /\ Spend("clients") /\ job[j] # None
  /\ job' = [job EXCEPT ![j].status = "running"]
  /\ UNCHANGED company
  /\ Starts(w, j, job'[j], TRUE)
  /\ UNCHANGED <<store, alloc, edit, panel, deploy, coolify, done>>

\* POST /stores/:id/redeploy: runStoreProvisioning, with the application the row has now.
Provision(s, w) ==
  /\ Spend("clients") /\ store[s] # None /\ worker[w] = None
  /\ deploy' = [deploy EXCEPT ![s].status = "provisioning"]
  /\ worker' = [worker EXCEPT ![w] =
       [job |-> None, c |-> None, steps |-> <<>>, i |-> 1, plan |-> None, auto |-> TRUE,
        at |-> IF deploy[s].app = None THEN "create" ELSE "trigger", h |-> s,
        app |-> deploy[s].app, kept |-> TRUE]]
  /\ UNCHANGED <<company, store, alloc, edit, panel, job, coolify, done>>

-----------------------------------------------------------------------------
(* runJobSteps *)

Now(w) == worker[w].steps[worker[w].i]

\* The rows of a job go with its company: what its runner writes of them then is nothing.
SetStep(w, status) ==
  IF worker[w].c = None THEN job ELSE [job EXCEPT ![worker[w].job].steps[worker[w].i].status = status]
SetJob(w, jobs, status) ==
  IF worker[w].c = None THEN jobs ELSE [jobs EXCEPT ![worker[w].job].status = status]
Goes(w, at) == worker' = [worker EXCEPT ![w].at = at]

\* Weakened: the loop goes on after a failed step.
GoesOn(w) ==
  /\ job' = SetStep(w, "failed")
  /\ worker' = [worker EXCEPT ![w].at = "start", ![w].i = @ + 1, ![w].h = None]

\* The catch of the loop: the step and the job fail, and the steps after it are not tried.
StepFails(w) ==
  /\ job' = SetJob(w, SetStep(w, "failed"), "failed")
  /\ worker' = [worker EXCEPT ![w] = None]

StepCompletes(w) ==
  /\ job' = SetStep(w, "complete")
  /\ done' = IF worker[w].c = None THEN done ELSE [done EXCEPT ![worker[w].job] = @ \cup {worker[w].i}]
  /\ worker' = [worker EXCEPT ![w].at = "start", ![w].i = @ + 1, ![w].h = None]

\* The steps the snapshot shows complete are passed over; after the last one the job is complete.
JobEnds(w) ==
  /\ worker[w] # None /\ worker[w].at = "start" /\ worker[w].i > Len(worker[w].steps)
  /\ job' = SetJob(w, job, "complete")
  /\ worker' = [worker EXCEPT ![w] = None]
  /\ UNCHANGED <<office, left, panel, deploy, coolify, done>>

Passes(w) ==
  /\ worker[w] # None /\ worker[w].at = "start" /\ worker[w].i <= Len(worker[w].steps)
  /\ Now(w).status = "complete"
  /\ worker' = [worker EXCEPT ![w].i = @ + 1]
  /\ UNCHANGED <<office, left, panel, deploy, job, coolify, done>>

Begins(w, what) ==
  /\ worker[w] # None /\ worker[w].at = "start" /\ worker[w].i <= Len(worker[w].steps)
  /\ Now(w).status # "complete" /\ Now(w).what = what
  /\ UNCHANGED <<left, coolify, done, company, edit>>

\* The Coolify part of a deployment step: an application that exists is not created
\* again, and triggered again only after a failure.
CoolifyPart(w, dep) ==
  IF ~worker[w].auto THEN "push"
  ELSE IF dep.app = None THEN "create"
  ELSE IF dep.status = "failed" THEN "trigger" ELSE "push"

\* head_office_deploy
BeginHeadOffice(w) ==
  /\ Begins(w, "head_office") /\ worker[w].c # None
  /\ LET c   == Now(w).at
         dep == IF panel[c] THEN deploy[c] ELSE Fresh
     IN  /\ panel' = [panel EXCEPT ![c] = TRUE]
         /\ deploy' = [deploy EXCEPT ![c] = dep]
         /\ worker' = [worker EXCEPT ![w].at = CoolifyPart(w, dep), ![w].h = c,
                                    ![w].app = dep.app, ![w].kept = TRUE]
  /\ job' = SetStep(w, "running")
  /\ UNCHANGED <<store, alloc>>

\* The row a store step finds by its slug, whoever owns it, or creates.
StepRow(w) ==
  LET st == Now(w)
      kind == IF st.kind = None THEN "store" ELSE st.kind
  IN  IF store[st.at] = None
      THEN NewRow(worker[w].c, kind, IF kind = "warehouse" THEN 0 ELSE IF st.tills = 0 THEN 1 ELSE st.tills)
      ELSE [store[st.at] EXCEPT !.owner = worker[w].c]

\* store_deploy: the store joins the company before its allocation is checked.
BeginStore(w) ==
  /\ Begins(w, "store") /\ worker[w].c # None
  /\ LET s   == Now(w).at
         row == StepRow(w)
         c   == worker[w].c
         dep == IF store[s] = None THEN Fresh ELSE deploy[s]
         licensed == company[c].licensed
     IN  /\ store' = [store EXCEPT ![s] = row]
         /\ IF row.kind = "store" /\ ~CheckAllocation(alloc, c, worker[w].plan, licensed, s, Now(w).licensed)
            THEN StepFails(w) /\ UNCHANGED alloc /\ deploy' = [deploy EXCEPT ![s] = dep]
            ELSE /\ alloc' = IF row.kind = "warehouse" THEN alloc
                             ELSE AllocateTerminals(alloc, c, worker[w].plan, licensed, s, Now(w).licensed)
                 /\ deploy' = [deploy EXCEPT ![s] = dep]
                 /\ job' = SetStep(w, "running")
                 /\ worker' = [worker EXCEPT ![w].at = CoolifyPart(w, dep), ![w].h = s,
                                           ![w].app = dep.app, ![w].kept = TRUE]
  /\ UNCHANGED panel

\* The company is gone, and the row cannot refer to it: a Head Office is not created, a new
\* store stays without an owner.
BeginOrphan(w) ==
  /\ \E what \in {"head_office", "store"} : Begins(w, what)
  /\ worker[w].c = None /\ StepFails(w)
  /\ IF Now(w).what = "store" /\ store[Now(w).at] = None
     THEN /\ store' = [store EXCEPT ![Now(w).at] = [StepRow(w) EXCEPT !.owner = None]]
          /\ deploy' = [deploy EXCEPT ![Now(w).at] = Fresh]
     ELSE UNCHANGED <<store, deploy>>
  /\ UNCHANGED <<alloc, panel>>

\* wire_topology needs a Head Office; issue_licences needs nothing.
BeginGeneric(w) ==
  /\ \E what \in {"wire", "licences"} : Begins(w, what)
  /\ IF Now(w).what = "wire" /\ (worker[w].c = None \/ ~panel[worker[w].c]) THEN StepFails(w)
     ELSE job' = SetStep(w, "running") /\ Goes(w, "push")
  /\ UNCHANGED <<store, alloc, panel, deploy>>

At(w, at) == worker[w] # None /\ worker[w].at = at /\ UNCHANGED <<office, left, panel>>

\* The row a worker writes may be deleted by then.
Writes(w, dep) == IF worker[w].kept THEN [deploy EXCEPT ![worker[w].h] = dep] ELSE deploy
Status(w, status) == [deploy[worker[w].h] EXCEPT !.status = status]

\* The end of a worker on an error: a job's step fails, a provisioning marks the row.
Errs(w) ==
  IF worker[w].job # None THEN StepFails(w)
  ELSE UNCHANGED job /\ worker' = [worker EXCEPT ![w] = None]

Marked(w, dep) == IF worker[w].job # None THEN dep ELSE [dep EXCEPT !.status = "failed"]

AppMade(h) == coolify.apps[h] < MaxApps /\ coolify' = [coolify EXCEPT !.apps[h] = @ + 1]

\* createStoreImageDeployment, createHeadOfficeImageDeployment: onCreated persists the
\* UUID once Coolify's reply is in; a later call may still fail.
Created(w) ==
  /\ At(w, "create") /\ AppMade(worker[w].h)
  /\ LET dep == [status |-> "provisioning", app |-> coolify'.apps[worker[w].h]]
     IN  \/ /\ deploy' = Writes(w, dep)
            /\ worker' = [worker EXCEPT ![w].at = "trigger_new", ![w].app = dep.app]
            /\ UNCHANGED job
         \/ deploy' = Writes(w, Marked(w, dep)) /\ Errs(w)
  /\ UNCHANGED done

\* No release is approved, Coolify refuses, or its reply is lost with the application made.
NotCreated(w) ==
  /\ At(w, "create")
  /\ deploy' = Writes(w, Marked(w, deploy[worker[w].h]))
  /\ AppMade(worker[w].h) \/ UNCHANGED coolify
  /\ Errs(w) /\ UNCHANGED done

Triggers(w) == coolify' = [coolify EXCEPT !.live = @ \cup {<<worker[w].h, worker[w].app>>}]

\* triggerDeploy of an existing application, and in a provisioning the wait for its health
Triggered(w) ==
  /\ At(w, "trigger")
  /\ \/ Triggers(w) /\ Goes(w, "push") /\ UNCHANGED <<job, deploy>>
     \/ /\ deploy' = Writes(w, Marked(w, deploy[worker[w].h])) /\ Errs(w)
        /\ Triggers(w) \/ UNCHANGED coolify
  /\ UNCHANGED done

\* triggerDeploy and verifyImageDeployment of a new application
Verified(w) ==
  /\ At(w, "trigger_new")
  /\ \/ Triggers(w) /\ Goes(w, "push") /\ UNCHANGED <<job, deploy>>
     \/ /\ deploy' = Writes(w, Status(w, "failed")) /\ Errs(w)
        /\ Triggers(w) \/ UNCHANGED coolify
  /\ UNCHANGED done

\* The admin login and the first pushes are best effort: whatever they return the
\* row is deployed and the step complete.
Pushed(w) ==
  /\ At(w, "push") /\ UNCHANGED coolify
  /\ deploy' = IF worker[w].h = None THEN deploy ELSE Writes(w, Status(w, "deployed"))
  /\ IF worker[w].job # None THEN StepCompletes(w)
     ELSE worker' = [worker EXCEPT ![w] = None] /\ UNCHANGED <<job, done>>

\* A branch that cannot be wired fails the step.
WiringFails(w) ==
  /\ At(w, "push") /\ worker[w].h = None /\ Now(w).what = "wire"
  /\ StepFails(w) /\ UNCHANGED <<deploy, coolify, done>>

-----------------------------------------------------------------------------
Init ==
  /\ AdminInit
  /\ panel = [c \in Companies |-> FALSE]
  /\ deploy = [h \in Holders |-> Fresh]
  /\ job = [j \in Jobs |-> None]
  /\ worker = [w \in Workers |-> None]
  /\ coolify = [apps |-> [h \in Holders |-> 0], live |-> {}]
  /\ done = [j \in Jobs |-> {}]

Restart == Boot /\ worker' = [w \in Workers |-> None] /\ UNCHANGED <<panel, deploy, job, coolify, done>>

Work(w) ==
  \/ JobEnds(w) \/ Passes(w) \/ BeginHeadOffice(w) \/ BeginStore(w) \/ BeginOrphan(w)
  \/ BeginGeneric(w)
  \/ Created(w) \/ NotCreated(w) \/ Triggered(w) \/ Verified(w) \/ Pushed(w) \/ WiringFails(w)

Panelled == {c \in Companies : panel[c]}
Gone == {c \in Companies : company[c] # None /\ company'[c] = None}

\* An edit of TerminalLicences: rows that go take their deployment fields and jobs with
\* them, and a runner learns of it when it writes.
Edited ==
  /\ Office
  /\ Gone \cap Panelled = {}
  /\ deploy' = [h \in Holders |-> IF h \in Stores /\ store'[h] = None THEN Fresh ELSE deploy[h]]
  /\ worker' = [w \in Workers |->
       IF worker[w] = None THEN None
       ELSE [worker[w] EXCEPT !.c = IF @ \in Gone THEN None ELSE @,
                              !.kept = @ /\ ~(worker[w].h \in Stores /\ store'[worker[w].h] = None)]]
  /\ job' = [j \in Jobs |-> IF job[j] # None /\ company'[job[j].company] = None THEN None ELSE job[j]]
  /\ done' = [j \in Jobs |-> IF job'[j] = None THEN {} ELSE done[j]]
  /\ UNCHANGED <<panel, coolify>>

Asked ==
  \/ Edited
  \/ \E c \in Companies, j \in Jobs, w \in Workers : CreateClient(c, j, w)
  \/ \E c \in Companies, w \in Workers : AskUpgrade(c, w)
  \/ \E j \in Jobs, w \in Workers : Upgrade(w, j)
  \/ \E w \in Workers : UpgradeRefused(w)
  \/ \E j \in Jobs, w \in Workers : Retry(j, w)
  \/ \E s \in Stores, w \in Workers : Provision(s, w)

\* Between two steps a runner awaits nothing: no request is served until it does.
Running == {w \in Workers : worker[w] # None /\ worker[w].at = "start"}

Next ==
  \/ Running = {} /\ Asked
  \/ \E w \in IF Running = {} THEN Workers ELSE Running : Work(w)
  \/ Restart

Spec == Init /\ [][Next]_fleetVars

-----------------------------------------------------------------------------
(* Properties *)

\* The rows have their fields, and every company a row names is there.
TypeOK ==
  /\ AdminTypeOK
  /\ \A s \in Stores : store[s] # None => store[s].owner = None \/ company[store[s].owner] # None
  /\ \A s \in Stores : alloc[s] # None => store[s] # None /\ company[alloc[s].owner] # None
  /\ panel \in [Companies -> BOOLEAN]
  /\ deploy \in [Holders -> DeployRow]
  /\ job \in [Jobs -> JobRow \cup NoOne]
  /\ \A j \in Jobs : job[j] # None => company[job[j].company] # None
  /\ worker \in [Workers -> WorkerRow \cup NoOne]

\* However many runners, retries and restarts a job sees, a step begins only when every
\* step before it went through: no topology is wired and no licence issued before the
\* deployments they are for.
StepsInOrder ==
  \A j \in Jobs : job[j] # None =>
    \A i \in DOMAIN job[j].steps :
      job[j].steps[i].status \in {"running", "complete"} => 1 .. i - 1 \subseteq done[j]

\* The rows of the jobs and of what they work on agree, whoever runs them.
JobsSound == TypeOK /\ StepsInOrder

\* The stores whose licence is counted against a company that does not own them.
Astray == {s \in Stores : alloc[s] # None /\ store[s] # None /\ store[s].owner # alloc[s].owner}

\* A runner begins the step that deploys store s for its company.
TakesOver(w, s) ==
  /\ worker[w] # None /\ worker[w].at = "start" /\ Now(w).what = "store" /\ Now(w).at = s
  /\ worker'[w] # worker[w]

\* However stores are created, moved, reassigned, made warehouses and deleted and companies
\* deleted while jobs and probes are under way, a store and its licence part company only
\* where a deployment job takes the store over and its licence is not placed again.
LicencesFollowStores ==
  [][\A s \in Astray' \ Astray : \E w \in Workers : TakesOver(w, s)]_fleetVars

\* The orchestrator's comment: a step's Coolify work succeeded before its row says deployed.
DeployedMeansTriggered ==
  \A h \in Holders : deploy[h].status = "deployed" /\ deploy[h].app # None
    => <<h, deploy[h].app>> \in coolify.live
=============================================================================
