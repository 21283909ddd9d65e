---------------------------- MODULE RegistryBoot ----------------------------
(***************************************************************************)
(* The registry's boot (src/src/config/registryDb.ts, getRegistryDb): every *)
(* start of the control plane brings whatever database it finds to the      *)
(* shape of this build, one statement or one transaction after another, and *)
(* the process may end between any two of them.  A migration has no journal *)
(* of its own: each decides from the database whether it still has work,    *)
(* so what one boot committed is all the next one knows.                    *)
(*                                                                         *)
(* The tables are abstracted to what the migrations read and write: the     *)
(* stored shape of `plans', its rows, each client's plan, subscription and  *)
(* onboarding flag, one legacy invoice, and each tenant's application, class *)
(* and licence.  Between boots the office edits plans and subscriptions, and *)
(* its requests and the sweep deliver the licences, one tenant after another. *)
(***************************************************************************)
EXTENDS Integers, FiniteSets, FiniteSetsExt, SequencesExt

CONSTANTS
  Companies,    \* the clients
  Tenants,      \* the stores and the panels together
  Panels,       \* the tenants that are panels; the others are stores
  Owner,        \* the client of each tenant
  Registries,   \* the databases a first boot may find
  Offered,      \* bound: the keys whose price the office sets on a plan
  Withdrawn,    \* bound: the keys whose price it takes off a plan
  Wanted,       \* bound: the keys that clients buy
  Prices,       \* bound: the prices it sets, in cents
  MaxCuts,      \* bound: times the process ends while it boots
  MaxBoots,     \* bound: boots that complete
  MaxEdits      \* bound: edits the office makes

VARIABLES
  reg,      \* the database file
  pc,       \* the statement the boot is at, or "serving", or "down"
  had,      \* the tables that had deploy_mode when this boot read them
  changed,  \* splitGranted \/ bundledMoved of this boot
  settled,  \* history: the last boot completed and the office edited nothing since
  edited,   \* history: the plans the office has edited
  lost,     \* history: work a cut boot left to nobody
  pushing,  \* in memory: the tenants that requests have still to deliver to
  missed,   \* history: tenants no request delivers to since an edit changed their licence
  cuts, boots, edits

deliveries == <<pushing, missed>>
vars == <<reg, pc, had, changed, settled, edited, lost, deliveries, cuts, boots, edits>>

None == "none"

-----------------------------------------------------------------------------
(* The vocabulary and the catalogue.                                        *)

Sold == {"customer_credit", "layby", "ai_assistant", "invoice_import", "multi_store",
         "whatsapp_cloud"}
Keys == Sold \cup {"stock_transfers"}

DefaultPrices == [k \in Sold |->
  CASE k = "multi_store" -> 19900
    [] k = "whatsapp_cloud" -> 5000
    [] k \in {"customer_credit", "layby"} -> 4900
    [] OTHER -> 9900]

StoreRate == 19900
TillRate == 4900

NoPrices == [k \in {} |-> 0]

Merged(f, g) == [k \in DOMAIN f \cup DOMAIN g |-> IF k \in DOMAIN g THEN g[k] ELSE f[k]]

SeedCodes == <<"vula-start", "vula-grow">>

SeedRow(code) ==
  [code |-> code, mode |-> "per_store", till |-> TillRate, store |-> StoreRate,
   features |-> {"stock_transfers"}, prices |-> DefaultPrices, flat |-> 0,
   created |-> "boot"]

(* The tables as a build of any age may have left them. *)
PriceList(prices) ==
  /\ DOMAIN prices \subseteq Keys
  /\ prices = [k \in DOMAIN prices |-> prices[k]]
  /\ \A k \in DOMAIN prices : prices[k] \in Nat

RowOK(row) ==
  /\ row \in [code: {row.code}, mode: {None, "per_terminal", "per_store", "custom"}, till: Nat,
              store: Nat, features: SUBSET Keys, prices: {row.prices}, flat: Nat,
              created: {"before", "boot"}]
  /\ PriceList(row.prices)

(* Rows by id; plans.code is UNIQUE. *)
PlansTable(plans) ==
  /\ IsFiniteSet(DOMAIN plans) /\ DOMAIN plans \subseteq Nat \ {0}
  /\ plans = [i \in DOMAIN plans |-> plans[i]]
  /\ \A i \in DOMAIN plans : RowOK(plans[i])
  /\ \A i, j \in DOMAIN plans : plans[i].code = plans[j].code => i = j

SubscriptionRow(sub) ==
  /\ sub \in [bought: SUBSET Keys, agreed: {sub.agreed}, fee: {None, "not_invoiced", "paid"}]
  /\ DOMAIN sub.agreed = sub.bought

TenantRow == [app: {None, "image", "dockerfile"},
              mode: {None, "unprovisioned", "dockerfile", "image"},
              push: {"ok", "failed", "pending"}, held: SUBSET Keys]

InvoiceRow == [legacy: BOOLEAN, onboarding: Nat, setup: Nat, amount: Nat,
               purpose: {None, "initial", "onboarding"}]

(* A client without a plan has plan 0; `spare' is a plans_old table. *)
RegistryOK(r) ==
  /\ r \in [shape: {None, "flat", "two", "three"}, onceOff: BOOLEAN, plans: {r.plans},
            spare: {r.spare}, plansRef: {"plans", "plans_old"}, plan: [Companies -> Nat],
            subs: {r.subs}, charged: [Companies -> BOOLEAN], tenants: [Tenants -> TenantRow],
            columns: SUBSET {"stores", "panels"}, version: Nat,
            settings: {"singleton", "per_company"}, storesCheck: {"tills", "kinds"},
            invoice: InvoiceRow]
  /\ PlansTable(r.plans) /\ PlansTable(r.spare)
  /\ r.subs = [c \in Companies |-> r.subs[c]]
  /\ \A c \in Companies : SubscriptionRow(r.subs[c])

ASSUME BootAssumption ==
  /\ Owner \in [Tenants -> Companies] /\ Panels \subseteq Tenants
  /\ Offered \cup Withdrawn \cup Wanted \subseteq Keys /\ Prices \subseteq Nat
  /\ {MaxCuts, MaxBoots, MaxEdits} \subseteq Nat
  /\ \A r \in Registries : RegistryOK(r)

Retired(code) == CASE code = "starter" -> "vula-start"
                   [] code = "business" -> "vula-grow"
                   [] OTHER -> code

(* The steps of a boot, in the order getRegistryDb runs them; each is one   *)
(* statement or one transaction, and the process may end before any.        *)
Order == <<"ddl", "read", "store_column", "panel_column", "store_class", "panel_class",
           "columns", "restructure", "recover", "widen", "repair", "per_store", "retail",
           "codes", "seed", "refresh", "fold", "drop", "purpose", "subscriptions", "flag",
           "settings", "warehouse", "split", "whatsapp", "version1", "published", "version2",
           "move", "mark_stores", "mark_panels">>

Steps == ToSet(Order)
StepAfter(s) == LET i == CHOOSE j \in DOMAIN Order : Order[j] = s
                IN IF i = Len(Order) THEN "serving" ELSE Order[i + 1]

Booting == pc \in Steps

Codes(plans) == {plans[i].code : i \in DOMAIN plans}
Entitled(r, c) ==
  r.subs[c].bought
    \cup (IF r.plan[c] \in DOMAIN r.plans THEN r.plans[r.plan[c]].features ELSE {})

(* A licence marked delivered says what its client is entitled to. *)
DeliveredIn(r, t) ==
  r.tenants[t].push = "ok" => r.tenants[t].held = Entitled(r, Owner[t])

-----------------------------------------------------------------------------
(* What each migration makes of the database.                               *)

(* CREATE TABLE IF NOT EXISTS plans: the table exists from here on. *)
Created(r) == IF r.shape = None THEN [r EXCEPT !.shape = "three", !.plans = NoPrices] ELSE r

(* The additive columns of invoices and the other tables, with their defaults. *)
Columned(r) ==
  IF r.invoice.purpose = None THEN [r EXCEPT !.invoice.purpose = "initial"] ELSE r

ClassOf(app) == CASE app = "image" -> "image"
                  [] app = "dockerfile" -> "dockerfile"
                  [] OTHER -> "unprovisioned"

WithColumn(r, table, rows) ==
  IF table \in r.columns THEN r
  ELSE [r EXCEPT !.columns = @ \cup {table},
                 !.tenants = [t \in Tenants |->
                   IF t \in rows THEN [@[t] EXCEPT !.mode = "unprovisioned"] ELSE @[t]]]

ClassifiedNow(r, table, rows) ==
  IF table \in r.columns THEN r
  ELSE [r EXCEPT !.tenants = [t \in Tenants |->
          IF t \in rows THEN [@[t] EXCEPT !.mode = ClassOf(r.tenants[t].app)] ELSE @[t]]]

(* The one-time classification, for a table that had no column when it was read. *)
Classified(r, table, rows) ==
  IF table \in had THEN r
  ELSE [r EXCEPT !.tenants = [t \in Tenants |->
          IF t \in rows THEN [@[t] EXCEPT !.mode = ClassOf(r.tenants[t].app)] ELSE @[t]]]

(* rebuildTable: with foreign keys off, dropping the old table fires no     *)
(* ON DELETE SET NULL on companies.plan_id.                                  *)
Rebuilt(r, rows) == [r EXCEPT !.plans = rows, !.shape = "three"]

(* A flat client price is no rate: the plan that carried one becomes custom. *)
ModeOfFlat(row) ==
  IF row.code = "enterprise" \/ row.flat > 0 THEN "custom" ELSE "per_terminal"

Unrated(row) == [row EXCEPT !.mode = ModeOfFlat(row), !.till = 0, !.store = 0]

(* A table with the older column pricing_model is none of these shapes: its   *)
(* DDL contains the guard's "pricing_mode", so its branch here is never      *)
(* taken, and the next rebuild throws for want of the column.                *)
Restructured(r) ==
  IF r.shape # "flat" THEN r
  ELSE Rebuilt(r, [i \in DOMAIN r.plans |-> Unrated(r.plans[i])])

(* `plans' was created at the start if it was missing, so a plans_old table *)
(* is always dropped and the branch that renames it back never runs.        *)
Recovered(r) == [r EXCEPT !.spare = NoPrices]

Widened(r) == IF r.onceOff THEN r ELSE [Rebuilt(r, r.plans) EXCEPT !.onceOff = TRUE]

Repaired(r) == [r EXCEPT !.plansRef = "plans"]

PerStore(r) == IF r.shape = "three" THEN r ELSE Rebuilt(r, r.plans)

RowCoded(row, from, to) == IF row.code = from THEN [row EXCEPT !.code = to] ELSE row
Coded(r, from, to) ==
  IF from \in Codes(r.plans) /\ to \notin Codes(r.plans)
  THEN [r EXCEPT !.plans = [i \in DOMAIN @ |-> RowCoded(@[i], from, to)]]
  ELSE r

RetailRenamed(r) == Coded(r, "retail", "business")
CodesRenamed(r) == Coded(Coded(r, "starter", Retired("starter")),
                         "business", Retired("business"))

SeededWith(r, code) ==
  IF code \in Codes(r.plans) THEN r
  ELSE LET new == Max({0} \cup DOMAIN r.plans) + 1
       IN [r EXCEPT !.plans = [i \in DOMAIN @ \cup {new} |->
                                IF i = new THEN SeedRow(code) ELSE @[i]]]
Seeded(r) == SeededWith(SeededWith(r, SeedCodes[1]), SeedCodes[2])

Unpriced(row) == \/ row.mode = "per_terminal" /\ row.till = 0
                 \/ row.mode = "per_store" /\ row.store = 0

RefreshedRow(row) ==
  IF row.code \in ToSet(SeedCodes) /\ Unpriced(row)
  THEN [row EXCEPT !.mode = "per_store", !.till = TillRate, !.store = StoreRate] ELSE row
Refreshed(r) == [r EXCEPT !.plans = [i \in DOMAIN @ |-> RefreshedRow(@[i])]]

(* migrateInvoiceLines: fold the charge into its new column, then drop the old. *)
Folded(r) ==
  IF r.invoice.legacy /\ r.invoice.setup = 0
  THEN [r EXCEPT !.invoice.setup = r.invoice.onboarding] ELSE r
Dropped(r) == [r EXCEPT !.invoice = [@ EXCEPT !.legacy = FALSE, !.onboarding = 0]]

Purposed(r) ==
  IF r.invoice.setup > 0 /\ r.invoice.amount = r.invoice.setup
  THEN [r EXCEPT !.invoice.purpose = "onboarding"] ELSE r

(* migrateSubscriptions: the flag is read once, for a client that has no row. *)
Subscribed(r) ==
  [r EXCEPT !.subs = [c \in Companies |->
     IF @[c].fee # None THEN @[c]
     ELSE [@[c] EXCEPT !.fee = IF r.charged[c] THEN "paid" ELSE "not_invoiced"]]]
Unflagged(r) == [r EXCEPT !.charged = [c \in Companies |-> FALSE]]

Kinded(r) == [r EXCEPT !.storesCheck = "kinds"]
PerCompany(r) == [r EXCEPT !.settings = "per_company"]

WithChildren(features) ==
  features \cup (IF "customer_credit" \in features THEN {"layby"} ELSE {})
           \cup (IF "ai_assistant" \in features THEN {"invoice_import"} ELSE {})

SplitRow(row) ==
  [row EXCEPT !.features = WithChildren(@),
              !.prices = IF DOMAIN @ = {} THEN DefaultPrices ELSE @]
Split(r) == [r EXCEPT !.plans = [i \in DOMAIN @ |-> SplitRow(@[i])]]
Grants(r) == \E i \in DOMAIN r.plans : WithChildren(r.plans[i].features) # r.plans[i].features

WhatsAppRow(row) ==
  IF "whatsapp_cloud" \in row.features \cup DOMAIN row.prices THEN row
  ELSE [row EXCEPT !.prices = Merged(@, [k \in {"whatsapp_cloud"} |-> DefaultPrices[k]])]
WhatsAppPriced(r) ==
  IF r.version >= 1 THEN r
  ELSE [r EXCEPT !.plans = [i \in DOMAIN @ |-> WhatsAppRow(@[i])]]

Versioned(r, v) == IF r.version >= v THEN r ELSE [r EXCEPT !.version = v]

PublishedRow(row) ==
  LET headOffice == IF "multi_store" \in DOMAIN row.prices /\ row.prices["multi_store"] = 9900
                    THEN [row EXCEPT !.prices["multi_store"] = 19900] ELSE row
      standard == IF row.code = "vula-standard" /\ row.mode # "per_store"
                  THEN [headOffice EXCEPT !.mode = "per_store", !.till = TillRate,
                                          !.store = StoreRate]
                  ELSE headOffice
  IN IF row.code = "vula-standard" /\ "whatsapp_cloud" \in DOMAIN row.prices
          /\ row.prices["whatsapp_cloud"] = 4900
     THEN [standard EXCEPT !.prices["whatsapp_cloud"] = 5000] ELSE standard
Published(r) ==
  IF r.version >= 2 THEN r
  ELSE [r EXCEPT !.plans = [i \in DOMAIN @ |-> PublishedRow(@[i])]]

(* One plan of moveBundledFeaturesToAddons, a transaction of its own: what  *)
(* it includes and prices becomes what each of its clients has bought.      *)
Bundled(row) == row.features \cap DOMAIN row.prices
BoughtInstead(had_, bundled) == bundled

BoughtWith(had_, bundled) == had_ \cup bundled
SoldRow(row) == [row EXCEPT !.features = @ \ Bundled(row)]
SoldTo(sub, row) ==
  [sub EXCEPT !.bought = BoughtWith(@, Bundled(row)),
              !.agreed = Merged(@, [k \in Bundled(row) |-> row.prices[k]])]
Moved(r, i) ==
  [r EXCEPT !.plans[i] = SoldRow(@),
            !.subs = [c \in Companies |->
              IF r.plan[c] # i THEN @[c] ELSE SoldTo(@[c], r.plans[i])]]

Queued(r, rows) ==
  [r EXCEPT !.tenants = [t \in Tenants |->
     IF t \in rows THEN [@[t] EXCEPT !.push = "pending"] ELSE @[t]]]

QueuedOnly(mark) == mark
-----------------------------------------------------------------------------
(* The boot.                                                                *)

Goes(s, r) ==
  /\ pc = s /\ pc' = StepAfter(s) /\ reg' = r
  /\ UNCHANGED <<edited, lost, deliveries, cuts, edits>>

Quiet == UNCHANGED <<had, changed, settled, boots>>

Ddl == Goes("ddl", Created(reg)) /\ Quiet
Read == /\ Goes("read", reg)
        /\ had' = reg.columns
        /\ UNCHANGED <<changed, settled, boots>>
StoreColumn == Goes("store_column", WithColumn(reg, "stores", Tenants \ Panels)) /\ Quiet
PanelColumn == Goes("panel_column", WithColumn(reg, "panels", Panels)) /\ Quiet
StoreClass == Goes("store_class", Classified(reg, "stores", Tenants \ Panels)) /\ Quiet
PanelClass == Goes("panel_class", Classified(reg, "panels", Panels)) /\ Quiet
Columns == Goes("columns", Columned(reg)) /\ Quiet
RestructurePlans == Goes("restructure", Restructured(reg)) /\ Quiet
RecoverPlans == Goes("recover", Recovered(reg)) /\ Quiet
WidenPlanBillingPeriod == Goes("widen", Widened(reg)) /\ Quiet
RepairPlanReferences == Goes("repair", Repaired(reg)) /\ Quiet
MigratePlansPerStore == Goes("per_store", PerStore(reg)) /\ Quiet
RenameRetail == Goes("retail", RetailRenamed(reg)) /\ Quiet
RenameCodes == Goes("codes", CodesRenamed(reg)) /\ Quiet
SeedPlans == Goes("seed", Seeded(reg)) /\ Quiet
RefreshSeeds == Goes("refresh", Refreshed(reg)) /\ Quiet
FoldInvoiceLines == Goes("fold", Folded(reg)) /\ Quiet
DropInvoiceColumns == Goes("drop", Dropped(reg)) /\ Quiet
BackfillPurpose == Goes("purpose", Purposed(reg)) /\ Quiet
MigrateSubscriptions == Goes("subscriptions", Subscribed(reg)) /\ Quiet
DropFlag == Goes("flag", Unflagged(reg)) /\ Quiet
MigrateBillingSettings == Goes("settings", PerCompany(reg)) /\ Quiet
AllowWarehouses == Goes("warehouse", Kinded(reg)) /\ Quiet
GrantSplitKeys == /\ Goes("split", Split(reg))
                  /\ changed' = Grants(reg)
                  /\ UNCHANGED <<had, settled, boots>>
MigrateWhatsAppPrice == Goes("whatsapp", WhatsAppPriced(reg)) /\ Quiet
WhatsAppVersion == Goes("version1", Versioned(reg, 1)) /\ Quiet
MigratePublishedPricing == Goes("published", Published(reg)) /\ Quiet
PublishedVersion == Goes("version2", Versioned(reg, 2)) /\ Quiet

MoveOne ==
  \E i \in DOMAIN reg.plans :
    /\ pc = "move" /\ Bundled(reg.plans[i]) # {}
    /\ reg' = Moved(reg, i) /\ changed' = TRUE
    /\ UNCHANGED <<pc, had, settled, edited, lost, deliveries, cuts, boots, edits>>

MoveDone ==
  /\ \A i \in DOMAIN reg.plans : Bundled(reg.plans[i]) = {}
  /\ Goes("move", reg) /\ Quiet

MarkStores ==
  Goes("mark_stores", IF QueuedOnly(changed) THEN Queued(reg, Tenants \ Panels) ELSE reg)
    /\ Quiet

MarkPanels ==
  /\ Goes("mark_panels", IF QueuedOnly(changed) THEN Queued(reg, Panels) ELSE reg)
  /\ settled' = TRUE /\ boots' = boots + 1 /\ changed' = FALSE
  /\ UNCHANGED had

Boot ==
  \/ Ddl \/ Read \/ StoreColumn \/ PanelColumn \/ StoreClass \/ PanelClass \/ Columns
  \/ RestructurePlans \/ RecoverPlans \/ WidenPlanBillingPeriod \/ RepairPlanReferences
  \/ MigratePlansPerStore \/ RenameRetail \/ RenameCodes \/ SeedPlans \/ RefreshSeeds
  \/ FoldInvoiceLines \/ DropInvoiceColumns \/ BackfillPurpose \/ MigrateSubscriptions
  \/ DropFlag \/ MigrateBillingSettings \/ AllowWarehouses \/ GrantSplitKeys
  \/ MigrateWhatsAppPrice \/ WhatsAppVersion \/ MigratePublishedPricing \/ PublishedVersion
  \/ MoveOne \/ MoveDone \/ MarkStores \/ MarkPanels

(* The process ends while it boots; `lost' records the work no later boot   *)
(* will find to do: a deploy_mode column without its classes, entitlements  *)
(* changed without their licences queued.                                   *)
Unclassed == [stores |-> {"panel_column", "store_class"},
              panels |-> {"store_class", "panel_class"}]
Cut ==
  /\ pc \in Steps /\ cuts < MaxCuts
  /\ cuts' = cuts + 1 /\ pc' = "down" /\ changed' = FALSE
  /\ lost' = lost \cup {table \in reg.columns \ had : pc \in Unclassed[table]}
                  \cup (IF changed THEN {"delivery"} ELSE {})
  /\ UNCHANGED <<reg, had, settled, edited, deliveries, boots, edits>>

(* A serving process restarts: a deployment, a crash.  The deliveries its    *)
(* requests had still to make are forgotten.                                *)
Stop ==
  /\ pc = "serving" /\ boots < MaxBoots /\ pc' = "down"
  /\ pushing' = {} /\ missed' = missed \cup pushing
  /\ UNCHANGED <<reg, had, changed, settled, edited, lost, cuts, boots, edits>>

Start ==
  /\ pc = "down" /\ pc' = "ddl" /\ had' = {}
  /\ UNCHANGED <<reg, changed, settled, edited, lost, deliveries, cuts, boots, edits>>

-----------------------------------------------------------------------------
(* The office and the sweep, while the process serves.                      *)

(* A write that changes entitlements commits, and the request then delivers  *)
(* to the tenants of `clients': the licences of others stay as they are.     *)
Edits(r, clients) ==
  /\ pc = "serving" /\ edits < MaxEdits
  /\ edits' = edits + 1 /\ settled' = FALSE
  /\ reg' = r
  /\ pushing' = pushing \cup {t \in Tenants : Owner[t] \in clients}
  /\ missed' = missed \cup {t \in Tenants : /\ Owner[t] \notin clients
                                          /\ Entitled(r, Owner[t]) # Entitled(reg, Owner[t])}
  /\ UNCHANGED <<pc, had, changed, lost, cuts, boots>>

(* PUT /plans/:id: a plan may price any key, and include any but the sold.   *)
(* It delivers to the clients whose status is active; who is, is left open.  *)
PutPlan(i, row) ==
  \E active \in SUBSET Companies :
    Edits([reg EXCEPT !.plans[i] = row], {c \in active : reg.plan[c] = i})

EditPlan ==
  \E i \in DOMAIN reg.plans :
    LET row == reg.plans[i]
    IN /\ edited' = edited \cup {i}
       /\ \/ \E k \in DOMAIN row.prices \cap Withdrawn :
               PutPlan(i, [row EXCEPT !.prices = [j \in DOMAIN @ \ {k} |-> @[j]]])
          \/ \E k \in Offered, cents \in Prices :
               PutPlan(i, [row EXCEPT !.prices = Merged(@, [j \in {k} |-> cents])])
          \/ \E features \in SUBSET (Keys \ Sold) :
               PutPlan(i, [row EXCEPT !.features = features])

(* PUT /companies/:id: the client buys what its plan prices, at that price. *)
Buying(sub, k, cents) ==
  [sub EXCEPT !.bought = @ \cup {k}, !.agreed = Merged(@, [j \in {k} |-> cents])]

Buy ==
  \E c \in Companies, k \in Wanted :
    /\ reg.plan[c] \in DOMAIN reg.plans
    /\ k \in DOMAIN reg.plans[reg.plan[c]].prices \ Entitled(reg, c)
    /\ Edits([reg EXCEPT !.subs[c] = Buying(@, k, reg.plans[reg.plan[c]].prices[k])], {c})
    /\ UNCHANGED edited

(* A delivery signs what the registry says now, and records how it went.     *)
Deliver(t) ==
  /\ pc = "serving"
  /\ \/ /\ reg' = [reg EXCEPT !.tenants[t] =
                   [@ EXCEPT !.push = "ok", !.held = Entitled(reg, Owner[t])]]
        /\ missed' = missed \ {t}
     \/ /\ reg' = [reg EXCEPT !.tenants[t] = [@ EXCEPT !.push = "failed"]]
        /\ UNCHANGED missed
  /\ UNCHANGED <<pc, had, changed, settled, edited, lost, cuts, boots, edits>>

(* pushLicencesForCompany goes on to its next tenant, a failure or not.      *)
Push == \E t \in pushing : Deliver(t) /\ pushing' = pushing \ {t}

(* The sweep delivers a licence that is not confirmed, or past half its days *)
(* (which are not modelled).                                                 *)
Sweep == \E t \in Tenants : Deliver(t) /\ UNCHANGED pushing

-----------------------------------------------------------------------------
Init ==
  /\ reg \in Registries /\ pc = "ddl" /\ had = {} /\ changed = FALSE /\ settled = FALSE
  /\ edited = {} /\ lost = {} /\ cuts = 0 /\ boots = 0 /\ edits = 0
  /\ pushing = {} /\ missed = {t \in Tenants : ~DeliveredIn(reg, t)}

Next == Boot \/ Cut \/ Stop \/ Start \/ EditPlan \/ Buy \/ Push \/ Sweep

Spec == Init /\ [][Next]_vars


-----------------------------------------------------------------------------
(* Properties.                                                              *)

(* The stored plans, subscriptions, tenants and the boot's own memory have  *)
(* their types, and no two plans share a code (plans.code is UNIQUE).        *)
TypeOK ==
  /\ RegistryOK(reg)
  /\ pc \in Steps \cup {"serving", "down"}
  /\ changed \in BOOLEAN /\ settled \in BOOLEAN /\ boots \in Nat
  /\ had \subseteq {"stores", "panels"} /\ lost \subseteq {"stores", "panels", "delivery"}
  /\ pushing \subseteq Tenants /\ missed \subseteq Tenants

TableOf(t) == IF t \in Panels THEN "panels" ELSE "stores"
ClassedIn(r, t) == r.tenants[t].mode = ClassOf(r.tenants[t].app)
FlatKept(r, rows) ==
  \A i \in rows : r.plans[i].flat > 0 /\ r.shape # "flat" =>
    r.plans[i].mode = "custom" /\ r.plans[i].till = 0 /\ r.plans[i].store = 0

(* A plan that carried a flat client price never bills it, or any other     *)
(* figure, per till or per store until the office prices it (restructurePlans). *)
FlatNotRate == FlatKept(reg, DOMAIN reg.plans \ edited)

(* Once serving, every tenant that has an application is in the class the   *)
(* release controller needs, except in a table whose column was added by a  *)
(* boot that ended before it classified the rows.                           *)
Classed == pc = "serving" => \A t \in Tenants : TableOf(t) \in lost \/ ClassedIn(reg, t)

(* Once serving, a licence marked delivered says what its client is         *)
(* entitled to, or a request is on its way to deliver it -- unless a boot    *)
(* ended between changing entitlements and queueing the licences            *)
(* (registryDb.ts:1297-1306), or an edit of a plan passed the client over    *)
(* (companies.ts:502), or a restart cut its request off.                     *)
Redelivered ==
  pc = "serving" /\ "delivery" \notin lost =>
    \A t \in Tenants \ (missed \cup pushing) : DeliveredIn(reg, t)

(* What a boot leaves to serve: well-typed, no flat price read as a rate,   *)
(* tenants classed, licences queued.                                        *)
RegistrySound == TypeOK /\ FlatNotRate /\ Classed /\ Redelivered

PlanOf(r, c) ==
  CASE r.plan[c] \in DOMAIN r.plans -> r.plans[r.plan[c]].created
    [] r.plan[c] \in DOMAIN r.spare -> r.spare[r.plan[c]].created
    [] OTHER -> None
Charge(r) == IF r.invoice.setup = 0 THEN r.invoice.onboarding ELSE r.invoice.setup
Settled(r, c) == r.charged[c] \/ r.subs[c].fee = "paid"

(* No statement of a boot takes a feature from a client, moves a client off *)
(* its plan, or forgets an onboarding charge that was raised or paid --     *)
(* wherever earlier boots were cut.                                         *)
BootKeeps ==
  [][Booting =>
       /\ Charge(reg') = Charge(reg)
       /\ \A c \in Companies :
            /\ reg'.plan[c] = reg.plan[c] /\ PlanOf(reg', c) = PlanOf(reg, c)
            /\ Entitled(reg, c) \subseteq Entitled(reg', c)
            /\ Settled(reg, c) => Settled(reg', c)]_vars

(* A child key was split off its parent (grantSplitFeatureKeys).  A plan     *)
(* parts them when it includes the parent unpriced and prices the child:     *)
(* each boot grants it the child, and sells the child again.                 *)
ParentOf == [layby |-> "customer_credit", invoice_import |-> "ai_assistant"]
Parted(row) ==
  \E k \in DOMAIN ParentOf :
    ParentOf[k] \in row.features \ DOMAIN row.prices /\ k \in DOMAIN row.prices

(* `retail' waits for `business' to be free, and the rename is not over.     *)
RetailLeft(plans) == "retail" \in Codes(plans) /\ "business" \notin Codes(plans)

(* Booting again changes nothing, in a registry without a parted plan whose  *)
(* renames are over; and in any registry, whatever was edited since, a boot  *)
(* only touches a plan that includes what it prices, prices nothing, lacks a *)
(* child of what it includes or is `retail' still: no one-time correction is *)
(* made twice (user_version).                                                *)
RebootQuiet ==
  [][Booting /\ boots > 0 =>
       /\ settled /\ ~RetailLeft(reg.plans) /\ (\A i \in DOMAIN reg.plans : ~Parted(reg.plans[i]))
            => reg' = reg
       /\ \A i \in DOMAIN reg.plans :
            LET row == reg.plans[i]
            IN \/ reg'.plans[i] = row
               \/ Bundled(row) # {} \/ DOMAIN row.prices = {}
               \/ WithChildren(row.features) # row.features
               \/ row.code = "retail" /\ RetailLeft(reg.plans)]_vars

(* What a boot must not do to a registry in use, cut or whole, first or     *)
(* repeated.                                                                *)
BootSafe == BootKeeps /\ RebootQuiet

(* "A feature the client already bought keeps the price they agreed"        *)
(* (registryDb.ts:1736): no boot changes the price of a bought add-on.      *)
AgreedPriceKept ==
  [][Booting =>
       \A c \in Companies, k \in Keys :
         k \in reg.subs[c].bought => reg'.subs[c].agreed[k] = reg.subs[c].agreed[k]]_vars

-----------------------------------------------------------------------------
(* What the builds before this one left, which the theorems of               *)
(* RegistryBootProofs assume.                                               *)

(* A table made by an earlier boot has its rows, a client's plan exists, no *)
(* charge is written twice, a paid charge has no open subscription; a flat  *)
(* price is not yet a rate, and vula-standard, made for rates                *)
(* (registryDb.ts:1841), has none; what has a class has its own.             *)
Intact(r) ==
  /\ r.spare = NoPrices
  /\ \A c \in Companies : r.plan[c] \in DOMAIN r.plans \cup {0}
  /\ r.shape = None => r.plans = NoPrices
  /\ ~r.invoice.legacy => r.invoice.onboarding = 0
  /\ \A c \in Companies : r.charged[c] => r.subs[c].fee \in {None, "paid"}
  /\ FlatKept(r, DOMAIN r.plans)
  /\ \A i \in DOMAIN r.plans : r.plans[i].flat > 0 => r.plans[i].code # "vula-standard"
  /\ \A t \in Tenants : TableOf(t) \in r.columns => ClassedIn(r, t)

Whole == \A r \in Registries : Intact(r)

=============================================================================
