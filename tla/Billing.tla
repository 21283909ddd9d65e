------------------------------ MODULE Billing ------------------------------
(* Subscriptions, invoices and the renewal sweep: services/billing.ts, the    *)
(* routes over it (routes/billing.ts) and every office edit that moves what a *)
(* client is billed: plans and clients (routes/companies.ts) and the client   *)
(* editor (routes/clients.ts).  The registry's tables are the state; a        *)
(* handler that does not await is one step.  The sweep awaits only when it    *)
(* settles (BILLING_SIMULATE_RENEWAL_SETTLEMENT), so only then do other       *)
(* requests run between two of its clients.  Stores come and go in            *)
(* TerminalLicences; here they are a count.                                   *)
EXTENDS Pricing

CONSTANTS
  Clients, Plans,
  Kept,            \* a field the request does not carry
  PlanEdits,       \* the plan rows an office request writes
  CompanyBodies,   \* bodies of PUT /companies/:id
  ClientBodies,    \* bodies of PUT /clients/:id, the money fields
  NewClients,      \* bodies of POST /companies
  InvoiceBodies,   \* bodies of POST /invoices
  MaxStores, LastDay,
  Warning, DueDays,
  Scenarios        \* initial registries with the bounds on what happens to them

Sweepers == {"tick", "check"}   \* the scheduled tick and POST /renew-check

VARIABLES
  plan,      \* the plans table
  client,    \* companies with their subscription and billing_settings row
  invoice,   \* the invoices table in id order, each with its payments
  sweep,     \* the renewal sweeps running: the company rows still to visit
  today,
  byHand,    \* clients whose setup-fee state did not come from their invoices alone
  left       \* what the scenario still allows, and the simulation flag

billing == <<plan, client, invoice, sweep, today, byHand, left>>

FeeStates == {"not_invoiced", "invoiced", "paid", "waived"}
Purposes == {"initial", "renewal", "manual", "onboarding", "pro_rata"}
Day == Nat

ClientRow ==
  [plan : Plans \cup {None}, status : {"active", "suspended"}, paid : Day \cup {None},
   stores : 0 .. MaxStores, licensed : Nat, fee : FeeStates, setup : Nat \cup {None},
   addons : [Features -> Nat \cup {None, Unpriced}],
   terms : Terms \cup {None}, auto : BOOLEAN]

InvoiceRow ==
  [client : Clients, purpose : Purposes, amount : Nat, fee : Nat \cup {None},
   tills : Nat \cup {None}, tillPrice : Nat \cup {None},
   stores : Nat \cup {None}, storePrice : Nat \cup {None}, addons : [Features -> Nat],
   period : Day \cup {None}, status : {"pending", "paid", "overdue", "cancelled"},
   due : Day, paidOn : Day \cup {None}, payments : Nat]

\* What the office may ask to change of a client, each field kept or given.
EditBody ==
  [plan : Plans \cup {None, Kept}, paid : Day \cup {None, Kept},
   status : {"active", "suspended", Kept}, licensed : Nat \cup {Kept},
   fee : FeeStates \cup {Kept}, setup : Nat \cup {None, Kept},
   addons : (SUBSET Features) \cup {Kept}]

NewClientBody ==
  [plan : Plans \cup {None}, paid : Day \cup {None}, licensed : Nat,
   addons : SUBSET Features, setup : Nat \cup {None, Kept}]

\* What POST /invoices asks for: an amount of the office's own, or none. The route also
\* takes an amount below zero, which no charge of the office is: it is left out here.
InvoiceBody ==
  [amount : Nat \cup {None}, purpose : Purposes \cup {None}, include : BOOLEAN,
   due : Day \cup {None}]

Budget == [simulate : BOOLEAN, office : Nat, plans : Nat, clients : Nat, bills : Nat,
           desk : Nat, crashes : Nat]

ASSUME OfficeAssumption ==
  /\ None \notin ClientRow
  /\ PlanEdits \subseteq PlanRow
  /\ CompanyBodies \cup ClientBodies \subseteq EditBody
  /\ NewClients \subseteq NewClientBody
  /\ InvoiceBodies \subseteq InvoiceBody
  /\ IsFiniteSet(Clients)
  /\ MaxStores \in Nat /\ LastDay \in Nat \ {0} /\ DueDays \in Nat

\* The standing invoices among is that carry the setup charge of c.
Carriers(is, c) ==
  {i \in DOMAIN is : is[i].client = c /\ is[i].status # "cancelled" /\ Or(is[i].fee, 0) > 0}

\* No invoice without its client, none unpaid with a payment on it, no period pro-rated
\* twice; and one carrier of the setup charge at most, which says how far it has come.
Owned(is, cl) == \A i \in DOMAIN is : \A c \in Clients : cl[c] = None => is[i].client # c

PaidOnce(is) == \A i \in DOMAIN is : is[i].status # "paid" => is[i].payments = 0

ProRatedOnce(is) ==
  \A i, j \in DOMAIN is :
    (/\ i # j /\ is[i].client = is[j].client
     /\ is[i].period # None /\ is[i].period = is[j].period)
      => "cancelled" \in {is[i].status, is[j].status}

OneCarrier(is, c, fee) ==
  /\ fee \in {"not_invoiced", "invoiced", "paid"}
  /\ \A i, j \in Carriers(is, c) : i = j
  /\ fee = "not_invoiced" <=> Carriers(is, c) = {}
  /\ fee = "paid" <=> \E i \in Carriers(is, c) : is[i].status = "paid"

\* Books that agree with the clients, but for the setup charge of those in hand.
BooksAgree(is, cl, hand) ==
  /\ Owned(is, cl) /\ PaidOnce(is) /\ ProRatedOnce(is)
  /\ \A c \in Clients \ hand : cl[c] # None => OneCarrier(is, c, cl[c].fee)

\* A registry starts with rows of its tables that agree, documents that add up and dates
\* of what was paid, but for the setup charges the office had set by hand before.
ASSUME ScenarioAssumption ==
  \A s \in Scenarios :
    /\ s.plan \in [Plans -> PlanRow \cup {None}]
    /\ s.client \in [Clients -> ClientRow \cup {None}]
    /\ s.invoice \in Seq(InvoiceRow)
    /\ \A i \in DOMAIN s.invoice :
         AddsUp(s.invoice[i]) /\ (s.invoice[i].status = "paid" => s.invoice[i].paidOn # None)
    /\ s.hand \subseteq Clients
    /\ s.left \in Budget
    /\ BooksAgree(s.invoice, s.client, s.hand)

SweepRow == [todo : Seq([c : Clients, plan : Plans, paid : Day \cup {None}]), awaiting : BOOLEAN]

BillingTypeOK ==
  /\ plan \in [Plans -> PlanRow \cup {None}]
  /\ client \in [Clients -> ClientRow \cup {None}]
  /\ \A i \in DOMAIN invoice : invoice[i] \in InvoiceRow
  /\ \A s \in Sweepers : sweep[s] = None \/ sweep[s] \in SweepRow
  /\ today \in 0 .. LastDay
  /\ byHand \subseteq Clients

BillingInit ==
  \E s \in Scenarios :
    /\ plan = s.plan
    /\ client = s.client
    /\ invoice = s.invoice
    /\ sweep = [w \in Sweepers |-> None]
    /\ today = 1
    /\ byHand = s.hand
    /\ left = s.left

Spend(what) == left[what] > 0 /\ left' = [left EXCEPT ![what] = @ - 1]

\* Nothing else runs between two synchronous stretches of a sweep.
Idle == \A s \in Sweepers : sweep[s] # None => sweep[s].awaiting

-----------------------------------------------------------------------------
(* What the handlers read. *)

PlanOf(c) == IF client[c].plan = None THEN None ELSE plan[client[c].plan]

InvoicesOf(c) == {i \in DOMAIN invoice : invoice[i].client = c}
Standing(c) == {i \in InvoicesOf(c) : invoice[i].status # "cancelled"}
CarryFee(is) == {i \in is : Or(invoice[i].fee, 0) > 0}

\* Weakened: any invoice that stands counts as awaiting settlement.
AwaitingStanding(c) == Standing(c)

Awaiting(c) == {i \in InvoicesOf(c) : invoice[i].status \in {"pending", "overdue"}}

Settled(c) == {i \in InvoicesOf(c) : invoice[i].status = "paid"}

LastSettled(c) ==
  CHOOSE i \in Settled(c) : \A j \in Settled(c) :
    invoice[j].paidOn < invoice[i].paidOn \/ (invoice[j].paidOn = invoice[i].paidOn /\ j <= i)

PaidTerminalsFor(c) == IF Settled(c) = {} THEN None ELSE invoice[LastSettled(c)].tills
PaidStoresFor(c) == IF Settled(c) = {} THEN None ELSE invoice[LastSettled(c)].stores

\* The invoices that already bill an increase within the paid period.
BilledFor(c) == {i \in Standing(c) : invoice[i].period = client[c].paid}

CurrentProRata(c, quote) ==
  ProRataForIncrease(quote, PaidTerminalsFor(c), PaidStoresFor(c), client[c].paid, today)

-----------------------------------------------------------------------------
(* Raising an invoice. *)

QuoteOf(c) == QuoteForSubscription(client[c], PlanOf(c))

PurposeOf(body) == Or(body.purpose, IF body.amount # None THEN "manual" ELSE "initial")

\* The setup charge rides on whichever invoice is raised next while it is due.
FeeRiding(c, body) ==
  IF PurposeOf(body) # "onboarding" /\ body.include THEN QuoteOf(c).setupDue ELSE 0

InvoiceWith(c, body, fee) ==
  [client |-> c, purpose |-> PurposeOf(body), amount |-> fee,
   fee |-> IF fee > 0 THEN fee ELSE None,
   tills |-> None, tillPrice |-> None, stores |-> None, storePrice |-> None,
   addons |-> [k \in Features |-> 0], period |-> None, status |-> "pending",
   due |-> Or(body.due, today + DueDays), paidOn |-> None, payments |-> 0]

\* An amount the office states.
StatedInvoices(c, body) ==
  {[InvoiceWith(c, body, FeeRiding(c, body)) EXCEPT !.amount = @ + body.amount]}

\* The setup charge on its own.
OnboardingInvoices(c, body) ==
  {InvoiceWith(c, body, fee) : fee \in {n \in {QuoteOf(c).setupDue} : n > 0}}

\* The increase for the days left of the paid period, once.
ProRataInvoices(c, body) ==
  LET charge == CurrentProRata(c, QuoteOf(c)) IN
  IF charge = None \/ BilledFor(c) # {} THEN {}
  ELSE {[InvoiceWith(c, body, FeeRiding(c, body)) EXCEPT !.amount = @ + charge, !.period = client[c].paid]}

\* A period of the subscription, at the quantities and rates it itemises.
SubscriptionInvoices(c, body) ==
  LET quote    == QuoteOf(c)
      counted  == quote.terms # None /\ quote.terms.mode # "custom"
      perStore == quote.terms # None /\ quote.terms.mode = "per_store"
  IN IF quote.recurring = None \/ quote.licensed = 0 THEN {}
     ELSE {[InvoiceWith(c, body, FeeRiding(c, body)) EXCEPT
              !.amount = @ + quote.recurring,
              !.tills = IF counted THEN quote.licensed ELSE None,
              !.tillPrice = IF counted THEN quote.terms.till ELSE None,
              !.stores = IF perStore THEN quote.stores ELSE None,
              !.storePrice = IF perStore THEN quote.terms.store ELSE None,
              !.addons = quote.addons]}

\* createInvoiceForCompany: the row it inserts, none when it refuses.
NewInvoices(c, body) ==
  CASE body.amount # None -> StatedInvoices(c, body)
    [] body.amount = None /\ PurposeOf(body) = "onboarding" -> OnboardingInvoices(c, body)
    [] body.amount = None /\ PurposeOf(body) = "pro_rata" -> ProRataInvoices(c, body)
    [] OTHER -> SubscriptionInvoices(c, body)

\* The setup charge is invoiced once an invoice carries it.
FeeInvoiced(c, inv) ==
  [client EXCEPT ![c].fee = IF Or(inv.fee, 0) > 0 THEN "invoiced" ELSE @]

\* POST /invoices.
RaiseInvoice(c, body) ==
  /\ Idle /\ Spend("bills")
  /\ client[c] # None
  /\ \E inv \in NewInvoices(c, body) :
       /\ invoice' = Append(invoice, inv)
       /\ client' = FeeInvoiced(c, inv)
  /\ UNCHANGED <<plan, sweep, today, byHand>>

\* The same, the process ending between the insert and the setup charge's own write.
RaiseCutShort(c, body) ==
  /\ Idle /\ Spend("crashes")
  /\ client[c] # None
  /\ \E inv \in NewInvoices(c, body) :
       /\ Or(inv.fee, 0) > 0
       /\ invoice' = Append(invoice, inv)
  /\ byHand' = byHand \cup {c}
  /\ sweep' = [s \in Sweepers |-> None]
  /\ UNCHANGED <<plan, client, today>>

\* Weakened: released whatever else carries it.
ReleasesAlways(i) ==
  Or(invoice[i].fee, 0) > 0 /\ client[invoice[i].client].fee = "invoiced"

\* The setup charge is released with the last standing invoice that carried it.
Releases(i) ==
  /\ Or(invoice[i].fee, 0) > 0
  /\ CarryFee(Standing(invoice[i].client) \ {i}) = {}
  /\ client[invoice[i].client].fee = "invoiced"

\* POST /invoices/:id/cancel.
Cancel(i) ==
  /\ Idle /\ Spend("bills")
  /\ invoice[i].status # "paid"
  /\ invoice' = [invoice EXCEPT ![i].status = "cancelled"]
  /\ client' = [client EXCEPT ![invoice[i].client].fee = IF Releases(i) THEN "not_invoiced" ELSE @]
  /\ UNCHANGED <<plan, sweep, today, byHand>>

-----------------------------------------------------------------------------
(* Settling one: payment, document, setup charge and paid period together. *)

Payable(inv) == inv.status \notin {"paid", "cancelled"} /\ inv.amount > 0

\* Weakened: every settlement buys a period.
AdvancesAlways(inv) == TRUE

Advances(inv) == inv.purpose \in {"initial", "renewal"}

\* The period a settlement buys is the plan's, monthly without one.
BillingPeriodOf(c) == IF PlanOf(c) = None THEN "monthly" ELSE PlanOf(c).period

SettledInvoice(inv) == [inv EXCEPT !.status = "paid", !.paidOn = today, !.payments = @ + 1]

SettledClient(row, inv, period) ==
  [row EXCEPT
     !.fee = IF Or(inv.fee, 0) > 0 /\ row.fee = "invoiced" THEN "paid" ELSE @,
     !.paid = IF Advances(inv) THEN RenewalDate(row.paid, period, today) ELSE @,
     !.status = IF Advances(inv) THEN "active" ELSE @]

\* POST /invoices/:id/pay.
Pay(i) ==
  LET c == invoice[i].client IN
  /\ Idle
  /\ Payable(invoice[i])
  /\ invoice' = [invoice EXCEPT ![i] = SettledInvoice(@)]
  /\ client' = [client EXCEPT ![c] = SettledClient(@, invoice[i], BillingPeriodOf(c))]
  /\ UNCHANGED <<plan, sweep, today, byHand, left>>

-----------------------------------------------------------------------------
(* The renewal sweep. *)

\* Active companies with a plan, as listed when the sweep starts.
Listed ==
  LET cs == SetToSeq({c \in Clients : client[c] # None /\ client[c].status = "active"
                                      /\ client[c].plan # None})
  IN [n \in DOMAIN cs |-> [c |-> cs[n], plan |-> client[cs[n]].plan, paid |-> client[cs[n]].paid]]

Sweeping(s, todo, awaiting) ==
  sweep' = [sweep EXCEPT ![s] = IF todo = <<>> THEN None
                                ELSE [todo |-> todo, awaiting |-> awaiting]]

MarkOverdue ==
  [i \in DOMAIN invoice |->
     IF invoice[i].status = "pending" /\ invoice[i].due < today
     THEN [invoice[i] EXCEPT !.status = "overdue"] ELSE invoice[i]]

\* The scheduled tick, skipped while the last one still runs.
TickStarts == Idle /\ sweep["tick"] = None /\ Sweeping("tick", Listed, FALSE)

Tick ==
  /\ TickStarts
  /\ invoice' = MarkOverdue
  /\ UNCHANGED <<plan, client, today, byHand, left>>

\* POST /renew-check.
RenewCheck ==
  /\ Idle /\ Spend("bills") /\ sweep["check"] = None
  /\ Sweeping("check", Listed, FALSE)
  /\ UNCHANGED <<plan, client, invoice, today, byHand>>

IsDue(paid) == paid = None \/ today > paid - Warning

\* Priced by a formula, with something to bill.
Billable(c, p) ==
  /\ client[c] # None /\ p # None
  /\ QuoteForSubscription(client[c], p).recurring # None
  /\ client[c].licensed > 0

Renewal(paid) == [amount |-> None, purpose |-> "renewal", include |-> TRUE, due |-> Or(paid, today)]

\* One sweep runs on to its next await or company while no other one does.
SweepMoves(s, settles) ==
  /\ sweep[s] # None
  /\ \A t \in Sweepers \ {s} : sweep[t] # None => sweep[t].awaiting
  /\ Sweeping(s, Tail(sweep[s].todo), settles)

\* The invoice to settle, of the invoices in raised; it is settled at once only in a
\* simulating environment, for a client that renews by itself.
Collects(s, c, targets, raised, billed) ==
  \/ \E i \in targets :
       /\ left.simulate /\ client[c].auto /\ Payable(raised[i])
       /\ invoice' = [raised EXCEPT ![i] = SettledInvoice(@)]
       /\ client' = [billed EXCEPT ![c] = SettledClient(@, raised[i], BillingPeriodOf(c))]
       /\ SweepMoves(s, TRUE)
  \/ /\ \A i \in targets : ~(left.simulate /\ client[c].auto /\ Payable(raised[i]))
     /\ invoice' = raised /\ client' = billed
     /\ SweepMoves(s, FALSE)

\* Visits one company with the row read at the start: finds or raises the invoice.
SweepClient(s) ==
  /\ sweep[s] # None
  /\ LET row == Head(sweep[s].todo)
         c   == row.c
         due == Billable(c, plan[row.plan]) /\ IsDue(row.paid)
         new == IF due /\ Awaiting(c) = {} THEN NewInvoices(c, Renewal(row.paid)) ELSE {}
         newest == {i \in Awaiting(c) : due /\ \A j \in Awaiting(c) : j <= i}
     IN \/ new = {} /\ Collects(s, c, newest, invoice, client)
        \/ \E inv \in new :
             Collects(s, c, {Len(invoice) + 1}, Append(invoice, inv), FeeInvoiced(c, inv))
  /\ UNCHANGED <<plan, today, byHand, left>>

-----------------------------------------------------------------------------
(* The office's edits. *)

\* Plans: POST, PUT and DELETE /plans.  A rate of nothing is refused.
ValidPlan(row) ==
  /\ row.mode = "per_terminal" => row.till > 0
  /\ row.mode = "per_store" => row.store > 0

WritePlan(p, row) ==
  /\ Idle /\ Spend("plans")
  /\ ValidPlan(row) /\ plan[p] # row
  /\ plan' = [plan EXCEPT ![p] = row]
  /\ UNCHANGED <<client, invoice, sweep, today, byHand>>

DeletePlan(p) ==
  /\ Idle /\ Spend("plans")
  /\ plan[p] # None
  /\ \A c \in Clients : client[c] # None => client[c].plan # p
  /\ plan' = [plan EXCEPT ![p] = None]
  /\ UNCHANGED <<client, invoice, sweep, today, byHand>>

Given(field, old) == IF field = Kept THEN old ELSE field

Assignable(old) == {None, Kept, old} \cup {p \in Plans : plan[p] # None /\ plan[p].active}

\* recordAgreedPricing: nothing is agreed without a plan.
Agreed(row, p) ==
  IF p = None THEN row ELSE [row EXCEPT !.terms = TermsFromPlan(p), !.setup = p.setup]

\* A feature kept keeps its price; one newly bought needs a price on the plan.
MayHold(row, p, keys) ==
  \A k \in keys \ Bought(row) : p # None /\ p.prices[k] # None

Holding(row, p, keys) ==
  [k \in Features |-> IF k \notin keys THEN None
                      ELSE IF k \in Bought(row) THEN AddonUnit(k, row, p) ELSE p.prices[k]]

\* PUT /companies/:id: moving to another plan agrees its terms anew.
EditedCompany(row, body) ==
  LET to     == Given(body.plan, row.plan)
      moved  == [row EXCEPT !.plan = to, !.paid = Given(body.paid, @), !.status = Given(body.status, @)]
      priced == IF to = row.plan \/ to = None THEN moved ELSE Agreed(moved, plan[to])
  IN [priced EXCEPT !.licensed = Given(body.licensed, @), !.fee = Given(body.fee, @),
        !.addons = IF body.addons = Kept THEN @
                   ELSE Holding(row, IF to = None THEN None ELSE plan[to], body.addons)]

\* PUT /clients/:id: the plan alone moves no agreed term; stating the setup charge
\* records the plan's terms first when none are on record.
EditedClient(row, body) ==
  LET to     == Given(body.plan, row.plan)
      p      == IF to = None THEN None ELSE plan[to]
      moved  == [row EXCEPT !.plan = to, !.status = Given(body.status, @), !.fee = Given(body.fee, @)]
      priced == IF body.setup # Kept /\ row.terms = None THEN Agreed(moved, p) ELSE moved
  IN [priced EXCEPT !.setup = Given(body.setup, @), !.licensed = Given(body.licensed, @),
        !.addons = IF body.addons = Kept THEN @ ELSE Holding(row, p, body.addons)]

Edit(c, body, edited) ==
  LET to == Given(body.plan, client[c].plan) IN
  /\ Idle /\ Spend("office")
  /\ body.plan \in Assignable(client[c].plan)
  /\ body.addons # Kept => MayHold(client[c], IF to = None THEN None ELSE plan[to], body.addons)
  /\ client' = [client EXCEPT ![c] = edited]
  /\ byHand' = IF body.fee = Kept THEN byHand ELSE byHand \cup {c}
  /\ UNCHANGED <<plan, invoice, sweep, today>>

EditCompany(c) == client[c] # None /\ \E b \in CompanyBodies : Edit(c, b, EditedCompany(client[c], b))
EditClient(c) == client[c] # None /\ \E b \in ClientBodies : Edit(c, b, EditedClient(client[c], b))

\* POST /clients/:id/reprice: the plan's terms in force, explicitly.
Reprice(c) ==
  /\ Idle /\ Spend("plans")
  /\ client[c] # None /\ PlanOf(c) # None
  /\ client' = [client EXCEPT ![c] = Agreed(@, PlanOf(c))]
  /\ UNCHANGED <<plan, invoice, sweep, today, byHand>>

\* PUT /billing/settings/:companyId.
SetAutoRenew(c) ==
  /\ Idle /\ Spend("office")
  /\ client[c] # None
  /\ client' = [client EXCEPT ![c].auto = ~@]
  /\ UNCHANGED <<plan, invoice, sweep, today, byHand>>

BlankClient ==
  [plan |-> None, status |-> "active", paid |-> None, stores |-> 0, licensed |-> 0,
   fee |-> "not_invoiced", setup |-> None, addons |-> [k \in Features |-> None], terms |-> None, auto |-> TRUE]

\* The id a new company gets; which one tells nothing apart.
Fresh == CHOOSE c \in Clients : client[c] = None

\* POST /companies: the plan's terms are what the client agrees to.  Add-ons the plan
\* does not price are refused when the client is already recorded without them.
CreateCompany(c, body) ==
  LET p   == IF body.plan = None THEN None ELSE plan[body.plan]
      row == Agreed([BlankClient EXCEPT !.plan = body.plan, !.paid = body.paid,
                                        !.licensed = body.licensed], p)
  IN /\ Idle /\ Spend("clients")
     /\ client[c] = None /\ c = Fresh
     /\ body.plan # None => p # None /\ p.active
     /\ client' = [client EXCEPT ![c] =
          IF MayHold(BlankClient, p, body.addons)
          THEN [row EXCEPT !.addons = Holding(BlankClient, p, body.addons), !.setup = Given(body.setup, @)]
          ELSE row]
     /\ byHand' = byHand \ {c}
     /\ UNCHANGED <<plan, invoice, sweep, today>>

\* DELETE /companies/:id: never one with stores or any invoice, which would go with it.
Deletable(c) == client[c] # None /\ client[c].stores = 0 /\ InvoicesOf(c) = {}

DeleteCompany(c) ==
  /\ Idle /\ Spend("clients")
  /\ Deletable(c)
  /\ client' = [client EXCEPT ![c] = None]
  /\ UNCHANGED <<plan, invoice, sweep, today, byHand>>

\* A trading store is added, moved or removed (TerminalLicences).
StoresChange(c, n) ==
  /\ Idle /\ Spend("office")
  /\ client[c] # None /\ n # client[c].stores
  /\ client' = [client EXCEPT ![c].stores = n]
  /\ UNCHANGED <<plan, invoice, sweep, today, byHand>>

NewDay ==
  /\ Idle /\ today < LastDay
  /\ today' = today + 1
  /\ UNCHANGED <<plan, client, invoice, sweep, byHand, left>>

-----------------------------------------------------------------------------
\* The once-off charge is billed by at most one standing invoice, and its state says
\* which: not invoiced while none carries it, invoiced while one waits, paid once that
\* one is.  (Not for a client whose state the office set itself, or whose invoice a
\* crash cut off from its mark.)
FeeOnOneInvoice ==
  \A c \in Clients \ byHand :
    client[c] # None =>
      LET carry == CarryFee(Standing(c)) IN
      /\ Cardinality(carry) <= 1
      /\ client[c].fee = "not_invoiced" <=> carry = {}
      /\ client[c].fee = "paid" <=> \E i \in carry : invoice[i].status = "paid"

\* The days of one paid period are pro-rated on one standing invoice at most, however
\* the client's quantities, plan, dates and invoices have moved since.
ProRataOnce ==
  \A i, j \in DOMAIN invoice :
    (/\ i # j /\ invoice[i].client = invoice[j].client
     /\ invoice[i].period # None /\ invoice[i].period = invoice[j].period)
      => "cancelled" \in {invoice[i].status, invoice[j].status}

\* Nothing is charged twice: neither the once-off charge nor the days of a period.
ChargedOnce == FeeOnOneInvoice /\ ProRataOnce

\* What a document itemises is what it asks for, whichever way it was priced.
LinesAddUp ==
  \A i \in DOMAIN invoice : AddsUp(invoice[i])

\* The invoices settled in this step, one raised and settled at once included.
NowPaid ==
  {i \in DOMAIN invoice' : invoice'[i].status = "paid"
                           /\ (i \in DOMAIN invoice => invoice[i].status # "paid")}

\* A paid period moves by the office's own hand, or with the settlement of exactly one
\* subscription invoice of that client, by exactly one payment of its total.
PeriodsSettled ==
  [][\A c \in Clients :
       (client[c] # None /\ client'[c] # None /\ client'[c].paid # client[c].paid) =>
         \/ left'.office < left.office
         \/ \E i \in NowPaid :
              /\ NowPaid = {i} /\ invoice'[i].client = c
              /\ invoice'[i].purpose \in {"initial", "renewal"}
              /\ invoice'[i].payments = 1]_billing

\* Every active client whose paid period is ending gets an invoice to settle, or stops
\* being due.
Owed(c) ==
  /\ client[c] # None /\ client[c].status = "active" /\ client[c].plan # None
  /\ Billable(c, PlanOf(c)) /\ IsDue(client[c].paid)

RenewalRaised ==
  \A c \in Clients :
    Owed(c) ~> (~Owed(c) \/ \E i \in InvoicesOf(c) : invoice[i].status \notin {"paid", "cancelled"})

\* The stamped terms are what the client pays: a settlement buys the period agreed.
AgreedPeriodBought ==
  [][\A c \in Clients :
       (client[c] # None /\ client[c].terms # None /\ \E i \in NowPaid : invoice'[i].client = c
          /\ Advances(invoice'[i]))
         => client'[c].paid = RenewalDate(client[c].paid, client[c].terms.period, today)]_billing
=============================================================================
