--------------------------- MODULE LicenceDelivery ---------------------------
(***************************************************************************)
(* Issuing and delivering signed licences: services/licenceDelivery.ts, its *)
(* callers (the health sweep, the re-push after a payment or an edit, the   *)
(* Push Licence routes, onboarding, store provisioning), and the            *)
(* entitlements a licence carries (services/subscriptions.ts and            *)
(* licenceSigner.ts), for one company's stores and head offices.            *)
(*                                                                         *)
(* A delivery awaits the deployment's answer to a ping, then reads the      *)
(* entitlements, takes the next sequence and signs in one go, then awaits   *)
(* the POST.  Days are counted from today, so that time never runs out, and *)
(* sequences from the one the deployment holds, of which only the order     *)
(* matters to the code.                                                     *)
(***************************************************************************)
EXTENDS Integers, Sequences, FiniteSets, FiniteSetsExt

CONSTANTS
  None,          \* SQL NULL, or no licence
  Stores,        \* stores of the company
  Panels,        \* its head offices
  Fleet,         \* the order in which listStores and then listPanels give them
  Requests,      \* office requests being served at once
  Features,      \* features the company may buy
  Stripped,      \* SUSPENSION_STRIPPED_FEATURES
  PanelOnly,     \* STORE_EXCLUDED_FEATURES
  OfflineDays,   \* LICENCE_OFFLINE_DAYS
  GraceDays,     \* LICENCE_GRACE_DAYS
  Period,        \* days a payment buys
  MaxLag,        \* bound: how far behind the deployment an older registry's counter is
  MaxChanges,    \* bound on changes to the company
  MaxRequests,   \* bound on office requests
  MaxFaults,     \* bound on probes, pings and POSTs that go wrong
  MaxCrashes     \* bound on restarts

ASSUME NameAssumption == Stores \cap Panels = {}

ASSUME SizeAssumption ==
  /\ \A n \in {OfflineDays, GraceDays, Period, MaxLag} : n \in Nat \ {0}
  /\ \A n \in {MaxChanges, MaxRequests, MaxFaults, MaxCrashes} : n \in Nat
  /\ Stripped \subseteq Features /\ PanelOnly \subseteq Features

Holders == Stores \cup Panels

ASSUME FleetAssumption ==
  /\ IsFiniteSet(Holders) /\ Fleet \in Seq(Holders)
  /\ \A h \in Holders : Cardinality({i \in DOMAIN Fleet : Fleet[i] = h}) = 1

Timer   == "timer"                 \* the scheduled sweep, with its in-flight guard
Workers == {Timer} \cup Requests

VARIABLES
  account,    \* companies and company_subscriptions: what the entitlements derive from
  row,        \* stores, panels: status, licence counter, push status, age of the last licence
  held,       \* external: the licence each deployment holds
  job,        \* in memory: what the timer and each request are delivering
  late,       \* external: licences whose POST was given up and may still arrive
  used        \* bookkeeping of the bounds

vars == <<account, row, held, job, late, used>>

-----------------------------------------------------------------------------
(* Rows.  Days run from today: paid = -1 was yesterday. *)

Forever == Period + 1      \* the paid-through date of a once-off plan, 2099-12-31
Days == -(GraceDays + 1) .. Forever
Leads == {n \in Int : n >= -MaxLag}

CompanyRecord ==
  [paid: Days \cup {None}, trial: {-1, 0, None}, status: {"active", "suspended"},
   addons: SUBSET Features, ver: 0 .. MaxChanges]

StoreRecord ==
  [status: {"active", "paused"}, lead: Leads,
   push: {"pending", "ok", "failed"}, age: 0 .. OfflineDays]

\* What the properties tell apart of a licence: its sequence, the state of the
\* company it was signed from, its features, and the days it may be used offline.
LicenceClaims ==
  [lead: Leads, ver: 0 .. MaxChanges, features: SUBSET Features, offline: -1 .. OfflineDays]

ASSUME NoneAssumption == None \notin Int \cup Workers \cup LicenceClaims

Idle == [kind |-> "none", rest |-> <<>>, due |-> {}, at |-> "none", told |-> None, lic |-> None]

Jobs ==
  [kind: {"none", "sweep", "company", "one", "initial", "provision"}, rest: Seq(Holders),
   due: SUBSET Holders, at: {"none", "probe", "ping", "sign", "sent", "ok", "refused", "failed"},
   told: Leads \cup {None}, lic: LicenceClaims \cup {None}]

TypeOK ==
  /\ account \in CompanyRecord
  /\ row \in [Holders -> StoreRecord]
  /\ held \in [Holders -> LicenceClaims]
  /\ job \in [Workers -> Jobs]
  /\ late \in [Holders -> SUBSET LicenceClaims]
  /\ used \in [changes: 0 .. MaxChanges, requests: 0 .. MaxRequests,
               faults: 0 .. MaxFaults, crashes: 0 .. MaxCrashes]

AtLeast(n, low) == IF n < low THEN low ELSE n
AtMost(n, high) == IF n > high THEN high ELSE n

-----------------------------------------------------------------------------
(* Entitlements *)

\* deriveBillingState
BillingState ==
  IF account.status = "suspended" THEN "suspended"
  ELSE IF account.paid # None
       THEN IF account.paid >= 0 THEN "active"
            ELSE IF account.paid >= -GraceDays THEN "past_due" ELSE "suspended"
  ELSE IF account.trial # None /\ account.trial >= 0 THEN "trial"
  ELSE "suspended"

\* entitlementsFor: what a licence signed now says.
Entitlements == [state |-> BillingState, features |-> account.addons, ver |-> account.ver]

\* licenceFeaturesFor
LicenceFeatures(ent, h) ==
  ent.features \ ((IF ent.state = "suspended" THEN Stripped ELSE {})
                  \cup (IF h \in Stores THEN PanelOnly ELSE {}))

\* issueLicence: maxOfflineUntil is the rolling window, cut at the end of grace.
MaxOffline ==
  IF account.paid = None THEN OfflineDays
  ELSE AtLeast(AtMost(account.paid + GraceDays, OfflineDays), -1)

Issue(h, lead) ==
  LET ent == Entitlements
  IN  [lead |-> lead, ver |-> ent.ver, features |-> LicenceFeatures(ent, h), offline |-> MaxOffline]

\* Weakened: the age of the licence is not looked at.
NeedsDeliveryOnFailure(h) == row[h].push # "ok"

\* licenceNeedsDelivery
NeedsDelivery(h) == row[h].push # "ok" \/ 2 * row[h].age >= OfflineDays

-----------------------------------------------------------------------------
(* Jobs.  A job visits its holders in order; Head(rest) is the one at hand. *)

First(kind) == IF kind = "sweep" THEN "probe" ELSE "ping"

NewJob(kind, rest, due) ==
  IF rest = <<>> THEN Idle
  ELSE [kind |-> kind, rest |-> rest, due |-> due, at |-> First(kind), told |-> None, lic |-> None]

Next1(w) == [job EXCEPT ![w] = NewJob(@.kind, Tail(@.rest), @.due)]

At(w, at) == job[w].rest # <<>> /\ job[w].at = at
Here(w)   == Head(job[w].rest)

Fault == /\ used.faults < MaxFaults
         /\ used' = [used EXCEPT !.faults = @ + 1]

\* The sequences of the holders in S in the order of Fleet: there is one.
Before(g, h) == \E i, j \in DOMAIN Fleet : i < j /\ Fleet[i] = g /\ Fleet[j] = h

InOrder(S) ==
  {q \in [1 .. Cardinality(S) -> S] : \A i, j \in DOMAIN q : i < j => Before(q[i], q[j])}

\* runHealthSweep begins: the rows read here decide, at the end, who is due.
SweepJobs ==
  {NewJob("sweep", visits, {h \in Holders : NeedsDelivery(h)}) :
     visits \in InOrder({h \in Holders : row[h].status = "active"})}

\* startScheduledTask: a tick is skipped while the previous run is in flight.
TimerTick ==
  /\ job[Timer] = Idle
  /\ \E sweep \in SweepJobs : job' = [job EXCEPT ![Timer] = sweep]
  /\ UNCHANGED <<account, row, held, late, used>>

\* The office asks for a delivery: a sweep by hand, the licences of the whole
\* company, one licence, an onboarding job's issue_licences, or a store's deployment.
Request(w) ==
  /\ w # Timer /\ job[w] = Idle /\ used.requests < MaxRequests
  /\ used' = [used EXCEPT !.requests = @ + 1]
  /\ \/ \E sweep \in SweepJobs : job' = [job EXCEPT ![w] = sweep]
     \/ job' = [job EXCEPT ![w] = NewJob("initial", Fleet, {})]
     \/ \E h \in Holders : job' = [job EXCEPT ![w] = NewJob("one", <<h>>, {})]
     \/ \E h \in Stores : job' = [job EXCEPT ![w] = NewJob("provision", <<h>>, {})]
  /\ UNCHANGED <<account, row, held, late>>

\* runHealthSweep: the deployment answers, and its licence is delivered when due.
ProbeAnswered(w) ==
  /\ At(w, "probe")
  /\ IF Here(w) \in job[w].due
     THEN job' = [job EXCEPT ![w].at = "ping"]
     ELSE job' = Next1(w)
  /\ UNCHANGED <<account, row, held, late, used>>

ProbeFails(w) ==
  /\ At(w, "probe") /\ Fault
  /\ job' = Next1(w)
  /\ UNCHANGED <<account, row, held, late>>

\* readReportedSequence: the deployment reports what it holds (sequence 0 here),
\* or cannot be read, which does not stop the delivery.
PingAnswered(w) ==
  /\ At(w, "ping")
  /\ job' = [job EXCEPT ![w].at = "sign", ![w].told = 0]
  /\ UNCHANGED <<account, row, held, late, used>>

PingFails(w) ==
  /\ At(w, "ping") /\ Fault
  /\ job' = [job EXCEPT ![w].at = "sign", ![w].told = None]
  /\ UNCHANGED <<account, row, held, late>>

\* raiseLicenceSequenceFloor: never lowers.
Raised(lead, told) == IF told # None /\ told > lead THEN told ELSE lead

\* Weakened: the counter is read but not moved on.
NextSequenceReread(lead) == lead

\* nextLicenceSequence, nextPanelLicenceSequence
NextSequence(lead) == lead + 1

\* deliverStoreLicence, deliverPanelLicence, between their two awaits.
Sign(w) ==
  /\ At(w, "sign")
  /\ LET h   == Here(w)
         seq == NextSequence(Raised(row[h].lead, job[w].told))
     IN  /\ row' = [row EXCEPT ![h].lead = seq, ![h].age = 0]
         /\ job' = [job EXCEPT ![w].at = "sent", ![w].lic = Issue(h, seq)]
  /\ UNCHANGED <<account, held, late, used>>

-----------------------------------------------------------------------------
(* The deployments.  One that takes a licence becomes the new zero from which *)
(* its holder's sequences are counted.                                        *)

Shift(n, by) == AtLeast(n - by, -MaxLag)

Accepts(lic) == lic.lead >= 0

\* Every sequence of holder h, once its deployment holds the licence lic.
Take(h, lic) ==
  /\ held' = [held EXCEPT ![h] = [lic EXCEPT !.lead = 0]]
  /\ row' = [row EXCEPT ![h].lead = Shift(@, lic.lead)]
  /\ late' = [late EXCEPT ![h] =
                {l \in {[m EXCEPT !.lead = Shift(@, lic.lead)] : m \in @ \ {lic}} : Accepts(l)}]

\* What the other jobs hold for h, counted from the licence lic.
Counted(j, by) ==
  [j EXCEPT !.told = IF j.told = None THEN None ELSE Shift(j.told, by),
            !.lic = IF j.lic = None THEN None ELSE [j.lic EXCEPT !.lead = Shift(@, by)]]

Recounted(w, h, lic) ==
  [v \in Workers |->
     IF v = w \/ job[v].rest = <<>> \/ Here(v) # h THEN job[v] ELSE Counted(job[v], lic.lead)]

PostAccepted(w) ==
  /\ At(w, "sent") /\ Accepts(job[w].lic)
  /\ Take(Here(w), job[w].lic)
  /\ job' = [Recounted(w, Here(w), job[w].lic) EXCEPT ![w].at = "ok", ![w].lic = None, ![w].told = None]
  /\ UNCHANGED <<account, used>>

\* The deployment refuses a licence older than the one it holds.
PostRefused(w) ==
  /\ At(w, "sent") /\ ~Accepts(job[w].lic)
  /\ job' = [job EXCEPT ![w].at = "refused", ![w].lic = None, ![w].told = None]
  /\ UNCHANGED <<account, row, held, late, used>>

\* The POST fails or times out.  The licence may have arrived, or arrive later.
PostLost(w) ==
  /\ At(w, "sent") /\ Fault
  /\ late' = [late EXCEPT ![Here(w)] = @ \cup {l \in {job[w].lic} : Accepts(l)}]
  /\ job' = [job EXCEPT ![w].at = "failed", ![w].lic = None, ![w].told = None]
  /\ UNCHANGED <<account, row, held>>

Lands(h) ==
  /\ \E lic \in late[h] : Take(h, lic) /\ job' = Recounted(None, h, lic)
  /\ UNCHANGED <<account, used>>

-----------------------------------------------------------------------------
(* After the POST. *)

\* Which outcomes a caller records with recordLicencePush: issue_licences none,
\* store provisioning only a success.
Records(kind, at) == kind # "initial" /\ (kind # "provision" \/ at = "ok")

\* Weakened: the deployment's answer is recorded in its own words.
RecordedVerbatim(h, kind, at) ==
  IF Records(kind, at) THEN [row EXCEPT ![h].push = at] ELSE row

\* recordLicencePush, recordPanelLicencePush
Recorded(h, kind, at) ==
  IF Records(kind, at)
  THEN [row EXCEPT ![h].push = IF at = "ok" THEN "ok" ELSE "failed"]
  ELSE row

\* The caller's turn after the delivery: it records the outcome and goes on to its next holder.
Answered(w) ==
  /\ job[w].at \in {"ok", "refused", "failed"}
  /\ row' = Recorded(Here(w), job[w].kind, job[w].at)
  /\ job' = Next1(w)
  /\ UNCHANGED <<account, held, late, used>>

-----------------------------------------------------------------------------
(* The company *)

\* pushLicencesForCompany: every store and head office, whatever its status.
CompanyJob == NewJob("company", Fleet, {})

Changes(w) ==
  /\ w # Timer /\ job[w] = Idle /\ used.changes < MaxChanges
  /\ used' = [used EXCEPT !.changes = @ + 1]

\* processPaymentAndRenew: one transaction, then the licences.
Pays(w) ==
  /\ Changes(w)
  /\ account' = [account EXCEPT !.paid = IF @ # None /\ @ >= 0 THEN AtMost(@ + Period, Forever) ELSE Period,
                                !.status = "active", !.ver = @ + 1]
  /\ job' = [job EXCEPT ![w] = CompanyJob]
  /\ UNCHANGED <<row, held, late>>

\* PUT /companies/:id and /clients/:id: the office's edits that change the entitlements.
EditsCompany(w) ==
  /\ Changes(w)
  /\ \/ \E s \in {"active", "suspended"} \ {account.status} : account' = [account EXCEPT !.status = s, !.ver = @ + 1]
     \/ \E f \in SUBSET Features \ {account.addons} : account' = [account EXCEPT !.addons = f, !.ver = @ + 1]
     \/ account.trial # 0 /\ account' = [account EXCEPT !.trial = 0, !.ver = @ + 1]
  /\ job' = [job EXCEPT ![w] = CompanyJob]
  /\ UNCHANGED <<row, held, late>>

\* PUT /plans/:id: licences go out only for the companies whose status is active.
EditsPlan(w) ==
  /\ Changes(w)
  /\ \E f \in SUBSET Features \ {account.addons} : account' = [account EXCEPT !.addons = f, !.ver = @ + 1]
  /\ job' = IF account.status = "active" THEN [job EXCEPT ![w] = CompanyJob] ELSE job
  /\ UNCHANGED <<row, held, late>>

\* PATCH pause and resume
SetStatus(h) ==
  /\ used.requests < MaxRequests
  /\ used' = [used EXCEPT !.requests = @ + 1]
  /\ row' = [row EXCEPT ![h].status = IF @ = "active" THEN "paused" ELSE "active"]
  /\ UNCHANGED <<account, held, job, late>>

\* A day passes, between jobs: a call ends within seconds (STORE_REQUEST_TIMEOUT_MS),
\* and a POST given up arrives within the day or never.
NewDay ==
  /\ \A w \in Workers : job[w] = Idle
  /\ account' = [account EXCEPT !.paid = IF @ \in {None, Forever} THEN @ ELSE AtLeast(@ - 1, -(GraceDays + 1)),
                                !.trial = IF @ = None THEN None ELSE AtLeast(@ - 1, -1)]
  /\ row' = [h \in Holders |-> [row[h] EXCEPT !.age = AtMost(@ + 1, OfflineDays)]]
  /\ held' = [h \in Holders |-> [held[h] EXCEPT !.offline = AtLeast(@ - 1, -1)]]
  /\ late' = [h \in Holders |-> {}]
  /\ UNCHANGED <<job, used>>

-----------------------------------------------------------------------------
(* Restarts.  Deliveries under way end; their licences may still arrive. *)

Posted(h) == {job[w].lic : w \in {v \in Workers : At(v, "sent") /\ Here(v) = h /\ Accepts(job[v].lic)}}

Ends ==
  /\ job' = [w \in Workers |-> Idle]
  /\ late' = [h \in Holders |-> late[h] \cup Posted(h)]
  /\ UNCHANGED held

Crash == Ends /\ used.crashes < MaxCrashes /\ used' = [used EXCEPT !.crashes = @ + 1]

Restart == Crash /\ UNCHANGED <<account, row>>

\* The registry is restored from an older database, after the last request ended:
\* its counters are behind the deployments.
RestoreOlder ==
  /\ \A h \in Holders : late[h] \cup Posted(h) = {}
  /\ Crash
  /\ \E lag \in [Holders -> -MaxLag .. 0] :
       row' = [h \in Holders |-> [row[h] EXCEPT !.lead = IF lag[h] < @ THEN lag[h] ELSE @]]
  /\ UNCHANGED account

\* markLicencesForRedelivery
Redeliver == [h \in Holders |-> [row[h] EXCEPT !.push = "pending"]]

\* A new version's migration rewrites the entitlements, and then marks the
\* licences; it may crash between the two.
Upgrade ==
  /\ Ends /\ used.crashes < MaxCrashes /\ used.changes < MaxChanges
  /\ used' = [used EXCEPT !.crashes = @ + 1, !.changes = @ + 1]
  /\ \E f \in SUBSET Features \ {account.addons} : account' = [account EXCEPT !.addons = f, !.ver = @ + 1]
  /\ row' \in {Redeliver, row}

-----------------------------------------------------------------------------
Init ==
  /\ account \in [paid: {None, Forever}, trial: {None, 0}, status: {"active"}, addons: {{}}, ver: {0}]
  /\ (account.paid = None) = (account.trial # None)
  /\ row = [h \in Holders |-> [status |-> "active", lead |-> 0, push |-> "pending", age |-> 0]]
  /\ held = [h \in Holders |-> [lead |-> 0, ver |-> 0, features |-> {}, offline |-> -1]]
  /\ job = [w \in Workers |-> Idle]
  /\ late = [h \in Holders |-> {}]
  /\ used = [changes |-> 0, requests |-> 0, faults |-> 0, crashes |-> 0]

\* A job goes on as long as its process lives: every call is answered or times out.
Step(w) ==
  \/ ProbeAnswered(w) \/ ProbeFails(w) \/ PingAnswered(w) \/ PingFails(w) \/ Sign(w)
  \/ PostAccepted(w) \/ PostRefused(w) \/ PostLost(w) \/ Answered(w)

Next ==
  \/ TimerTick \/ NewDay
  \/ \E w \in Workers : Step(w)
  \/ \E w \in Requests : Request(w) \/ Pays(w) \/ EditsCompany(w) \/ EditsPlan(w)
  \/ \E h \in Holders : SetStatus(h) \/ Lands(h)
  \/ Restart \/ RestoreOlder \/ Upgrade

Spec == Init /\ [][Next]_vars /\ WF_vars(TimerTick) /\ SF_vars(NewDay) /\ \A w \in Workers : WF_vars(Step(w))

-----------------------------------------------------------------------------
(* Properties *)

\* Whatever the order in which the sweep, the office and late POSTs reach a
\* deployment, it never goes back to the entitlements of an earlier agreement.
NewerTermsStay == [][\A h \in Holders : held'[h].ver >= held[h].ver]_vars

\* A delivery whose ping was answered is refused as stale only when the deployment
\* got, in the meantime, a licence with the same or newer entitlements: after a
\* restore from an older database the first delivery catches up.
RefusedByNewer ==
  [][\A w \in Workers :
       At(w, "sent") /\ job'[w].at = "refused" /\ job[w].told # None
         => held[Here(w)].ver >= job[w].lic.ver]_vars

\* What a deployment holds gives way to newer entitlements only, and nothing else
\* refuses the newest.
NeverBack == NewerTermsStay /\ RefusedByNewer

\* In the end every active deployment holds the company's latest entitlements,
\* whatever was lost, restored or overtaken on the way.
TermsArrive == <>[](\A h \in Holders : row[h].status = "active" => held[h].ver = account.ver)

\* Active, not suspended, and its licence expired offline.
Lapsed(h) == row[h].status = "active" /\ BillingState # "suspended" /\ held[h].offline < 0

\* No deployment of a company in good standing is left with an expired licence.
PaidTrades == \A h \in Holders : Lapsed(h) ~> ~Lapsed(h)

\* What every delivery is for: in the end the deployments hold what was agreed, and
\* those of a paying company trade.
DeliverySettles == TermsArrive /\ PaidTrades

\* A delivery that failed is retried: the push status is ok only when the deployment
\* holds the last licence signed for it, or that licence is still being delivered.
OkMeansDelivered ==
  \A h \in Holders :
    row[h].push = "ok" => row[h].lead <= 0 \/ \E w \in Workers : job[w].rest # <<>> /\ Here(w) = h
=============================================================================
