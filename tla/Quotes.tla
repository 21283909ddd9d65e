------------------------------- MODULE Quotes -------------------------------
(* The quote desk: routes/quotes.ts, the website's POST /public/quote-request *)
(* and the forms of QuotesPage.tsx that write to them, composed with Billing. *)
(* A quotation is drafted, corrected and sent, its outcome recorded, and an   *)
(* accepted one becomes a client on its own figures.  Only mail is awaited:   *)
(* other requests run between a send's write of its figures and its mark.     *)
EXTENDS Billing

CONSTANTS
  Quotes,        \* quote ids, 1 .. n; an id is never used again
  Gone,          \* the row of a deleted quote
  Configs,       \* estates the website and the office state
  Corrections,   \* bodies of PUT /quotes/:id and POST /quotes/:id/send
  MaxTills

VARIABLES
  quote,   \* the quotes table
  mail     \* requests waiting for the mail provider

vars == <<billing, quote, mail>>

QuoteRow ==
  [status : {"new", "quoted", "accepted", "declined"}, source : {"office", "website"},
   emailed : {"no", "failed", "yes"}, stores : Nat \ {0}, tills : Nat \ {0},
   addons : SUBSET Features, split : Seq(Nat \ {0}), basis : {"store", "till"},
   rates : Rates, monthly : Nat, setup : Nat, company : Clients \cup {None}]

Mail == [q : Quotes, for : {"request", "send"}]

\* The configuration a request states of a quote, each field kept or given.
ConfigBody ==
  [stores : (Nat \ {0}) \cup {Kept}, tills : (Nat \ {0}) \cup {Kept},
   addons : (SUBSET Features) \cup {Kept}, split : Seq(Nat \ {0}), basis : {"store", "till", Kept},
   rates : [store : Nat \cup {None}, till : Nat \cup {None}, setup : Nat \cup {None},
            addons : Prices \cup {Kept}]]

ASSUME QuoteAssumption == Configs \cup Corrections \subseteq ConfigBody

TypeOK ==
  /\ BillingTypeOK
  /\ \A q \in Quotes : quote[q] \in QuoteRow \cup {None, Gone}
  /\ mail \subseteq Mail

Init == BillingInit /\ quote = [q \in Quotes |-> None] /\ mail = {}

Live(q) == quote[q] \notin {None, Gone}
NextId(q) == quote[q] = None /\ \A r \in Quotes : r < q => quote[r] # None

Desk == Idle /\ Spend("desk") /\ UNCHANGED <<plan, invoice, sweep, today>>
Registry == UNCHANGED <<client, byHand>>

-----------------------------------------------------------------------------
(* What a request states, and what the row keeps of it. *)

\* The basis and rates of a request, the row's own where it states none.
QuotePricingFrom(body, row) ==
  [basis |-> Given(body.basis, row.basis),
   rates |-> [store  |-> Or(body.rates.store, row.rates.store),
              till   |-> Or(body.rates.till, row.rates.till),
              setup  |-> Or(body.rates.setup, row.rates.setup),
              addons |-> Given(body.rates.addons, row.rates.addons)]]

\* The estate of a request, beside the given basis and rates.  A split not sent is none.
ConfigFrom(body, row, pricing) ==
  [stores |-> Given(body.stores, row.stores), tills |-> Given(body.tills, row.tills),
   addons |-> Given(body.addons, row.addons), split |-> body.split,
   basis |-> pricing.basis, rates |-> pricing.rates]

\* The row with a configuration's figures, keeping the given basis and rates.
Repriced(row, config, kept) ==
  LET c == ResolveQuoteConfig(config) p == PriceQuote(config) IN
  [row EXCEPT !.stores = c.stores, !.tills = c.tills, !.addons = c.addons, !.split = c.split,
              !.basis = kept.basis, !.rates = kept.rates,
              !.monthly = p.monthly, !.setup = p.setup]

ListPricing == [basis |-> "store", rates |-> ListRates]

BlankQuote ==
  [status |-> "new", source |-> "office", emailed |-> "no", stores |-> 1, tills |-> 1,
   addons |-> {}, split |-> <<>>, basis |-> "store", rates |-> ListRates,
   monthly |-> 0, setup |-> 0, company |-> None]

Untouched ==
  [stores |-> Kept, tills |-> Kept, addons |-> Kept, split |-> <<>>, basis |-> Kept,
   rates |-> [store |-> None, till |-> None, setup |-> None, addons |-> Kept]]

Valid(config) == ValidQuoteConfig(ResolveQuoteConfig(config))

\* Drafted in the office, with a price of its own where the office gave one.
Draft(q, body) ==
  LET pricing == QuotePricingFrom(body, BlankQuote)
      config  == ConfigFrom(body, BlankQuote, pricing)
  IN /\ Desk /\ Registry /\ NextId(q)
     /\ Valid(config)
     /\ quote' = [quote EXCEPT ![q] = Repriced(BlankQuote, config, pricing)]
     /\ UNCHANGED mail

\* Asked for on the website: recorded at the list, then mailed to the office.
QuoteRequest(q, body) ==
  LET config == [ConfigFrom(body, BlankQuote, ListPricing) EXCEPT !.split = <<>>]
  IN /\ Desk /\ Registry /\ NextId(q)
     /\ Valid(config)
     /\ quote' = [quote EXCEPT ![q] =
                    Repriced([BlankQuote EXCEPT !.source = "website"], config, ListPricing)]
     /\ mail' = mail \cup {[q |-> q, for |-> "request"]}

RequestMailed(q) ==
  /\ Idle /\ [q |-> q, for |-> "request"] \in mail
  /\ mail' = mail \ {[q |-> q, for |-> "request"]}
  /\ \E ok \in BOOLEAN :
       quote' = IF Live(q) THEN [quote EXCEPT ![q].emailed = IF ok THEN "yes" ELSE "failed"] ELSE quote
  /\ UNCHANGED billing

-----------------------------------------------------------------------------
(* The desk's forms, as QuotesPage opens them on a row. *)

\* A total that is no multiple of the stores opens at one till per store.
TillsPerStore(row) == IF row.tills % row.stores = 0 THEN row.tills \div row.stores ELSE 1

\* The send form states the estate and no price of its own.
SendForm(row) ==
  [Untouched EXCEPT !.stores = row.stores, !.tills = row.stores * TillsPerStore(row),
                    !.addons = row.addons, !.split = row.split]

\* The edit form states the row's basis and rates too.
EditForm(row) == [SendForm(row) EXCEPT !.basis = row.basis, !.rates = row.rates]

-----------------------------------------------------------------------------
(* The desk's operations. *)

Open(q) == Live(q) /\ quote[q].status \in {"new", "quoted"}

\* PUT /quotes/:id prices at the stated or recorded rates, and records none of them.
EditQuote(q, body) ==
  LET config == ConfigFrom(body, quote[q], QuotePricingFrom(body, quote[q])) IN
  /\ Desk /\ Registry /\ Open(q)
  /\ body # Untouched /\ Valid(config)
  /\ quote' = [quote EXCEPT ![q] = Repriced(@, config, ListPricing)]
  /\ UNCHANGED mail

\* POST /quotes/:id/send up to its await: prices what it was told at the list, and keeps
\* the recorded basis and rates.
Send(q, body) ==
  LET config == ConfigFrom(body, quote[q], ListPricing) IN
  /\ Desk /\ Registry /\ Open(q)
  /\ IF body = Untouched THEN UNCHANGED quote
     ELSE /\ Valid(config)
          /\ quote' = [quote EXCEPT ![q] = Repriced(@, config, QuotePricingFrom(body, @))]
  /\ mail' = mail \cup {[q |-> q, for |-> "send"]}

\* The mail's outcome: one that left marks the row quoted, whatever it says by now.
Sent(q) ==
  /\ Idle /\ [q |-> q, for |-> "send"] \in mail
  /\ mail' = mail \ {[q |-> q, for |-> "send"]}
  /\ \E ok \in BOOLEAN :
       quote' = IF ok /\ Live(q) THEN [quote EXCEPT ![q].status = "quoted"] ELSE quote
  /\ UNCHANGED billing

\* POST /quotes/:id/accept and /decline, from any state but a settled one.
Settle(q, outcome) ==
  /\ Desk /\ Registry /\ Open(q)
  /\ quote' = [quote EXCEPT ![q].status = outcome]
  /\ UNCHANGED mail

\* DELETE /quotes/:id: never one that became a client.
DeleteQuote(q) ==
  /\ Desk /\ Registry /\ Live(q)
  /\ quote[q].company = None
  /\ quote' = [quote EXCEPT ![q] = Gone]
  /\ UNCHANGED mail

-----------------------------------------------------------------------------
(* The client a quote becomes. *)

EvenSplit(total, stores) ==
  [n \in 1 .. stores |-> total \div stores + IF n <= total % stores THEN 1 ELSE 0]

\* Weakened: the split the quote was priced for, whatever total was bought.
QuoteStoreSplitAsPriced(row, licensed) ==
  IF Len(row.split) = row.stores THEN row.split ELSE EvenSplit(licensed, row.stores)

\* The branches' tills: the quote's split for the total it was priced for, else even.
QuoteStoreSplit(row, licensed) ==
  IF licensed = row.tills /\ Len(row.split) = row.stores
  THEN row.split ELSE EvenSplit(licensed, row.stores)

\* The agreement a quote stands for: its own rates, the list where it has none.
QuoteTerms(row, p) ==
  [mode   |-> IF row.basis = "till" THEN "per_terminal" ELSE "per_store",
   store  |-> IF row.basis = "till" THEN 0 ELSE Or(row.rates.store, ListStore),
   till   |-> Or(row.rates.till, ListTill),
   custom |-> 0,
   period |-> IF p = None THEN "monthly" ELSE p.period]

\* Weakened: the link the quote already has is not looked at.
ConvertibleAgain(row) == row.status = "accepted"

Convertible(row) == row.status = "accepted" /\ row.company = None

\* POST /quotes/:id/create-client up to the deployment job, which adds the branches.
CreateFromQuote(q, c, planId, licensed) ==
  LET row == quote[q]
      p   == IF planId = None THEN None ELSE plan[planId]
  IN /\ Desk /\ Live(q) /\ Convertible(row)
     /\ client[c] = None /\ c = Fresh
     /\ planId # None => p # None /\ p.active
     /\ licensed >= row.stores
     /\ \A n \in DOMAIN QuoteStoreSplit(row, licensed) : QuoteStoreSplit(row, licensed)[n] >= 1
     /\ client' = [client EXCEPT ![c] =
          [BlankClient EXCEPT !.plan = planId, !.licensed = licensed,
                              !.terms = QuoteTerms(row, p), !.setup = row.setup,
                              !.addons = [k \in Features |-> IF k \in row.addons THEN QuoteAddonRate(row.rates, k) ELSE None]]]
     /\ quote' = [quote EXCEPT ![q].company = c]
     /\ byHand' = byHand \ {c}
     /\ UNCHANGED mail

\* A company deleted leaves its quote unlinked.
Unlinked(c) ==
  [q \in Quotes |-> IF Live(q) /\ quote[q].company = c THEN [quote[q] EXCEPT !.company = None] ELSE quote[q]]

CloseCompany(c) == DeleteCompany(c) /\ quote' = Unlinked(c) /\ UNCHANGED mail

\* The process ends: requests waiting on mail are gone, and so are sweeps.
Restart ==
  /\ Spend("crashes")
  /\ mail # {} \/ \E s \in Sweepers : sweep[s] # None
  /\ mail' = {}
  /\ sweep' = [s \in Sweepers |-> None]
  /\ UNCHANGED <<plan, client, invoice, today, byHand, quote>>

CutShort == \E c \in Clients, body \in InvoiceBodies : RaiseCutShort(c, body) /\ mail' = {} /\ UNCHANGED quote

-----------------------------------------------------------------------------
DeskOperation(q) ==
  \/ \E body \in Configs : Draft(q, body) \/ QuoteRequest(q, body)
  \/ RequestMailed(q) \/ Sent(q)
  \/ Live(q) /\ \E body \in Corrections \cup {EditForm(quote[q])} : EditQuote(q, body)
  \/ Live(q) /\ \E body \in Corrections \cup {SendForm(quote[q]), Untouched} : Send(q, body)
  \/ \E outcome \in {"accepted", "declined"} : Settle(q, outcome)
  \/ DeleteQuote(q)
  \/ \E c \in Clients, p \in Plans \cup {None}, n \in 1 .. MaxTills : CreateFromQuote(q, c, p, n)

Beside == UNCHANGED <<quote, mail>>

Next ==
  \/ \E c \in Clients, body \in InvoiceBodies : RaiseInvoice(c, body) /\ Beside
  \/ \E i \in DOMAIN invoice : Cancel(i) /\ Beside
  \/ \E i \in DOMAIN invoice : Pay(i) /\ Beside
  \/ Tick /\ Beside
  \/ RenewCheck /\ Beside
  \/ \E s \in Sweepers : SweepClient(s) /\ Beside
  \/ \E p \in Plans, row \in PlanEdits : WritePlan(p, row) /\ Beside
  \/ \E p \in Plans : DeletePlan(p) /\ Beside
  \/ \E c \in Clients : EditCompany(c) /\ Beside
  \/ \E c \in Clients : EditClient(c) /\ Beside
  \/ \E c \in Clients : Reprice(c) /\ Beside
  \/ \E c \in Clients : SetAutoRenew(c) /\ Beside
  \/ \E c \in Clients, body \in NewClients : CreateCompany(c, body) /\ Beside
  \/ \E c \in Clients, n \in 0 .. MaxStores : StoresChange(c, n) /\ Beside
  \/ NewDay /\ Beside
  \/ \E q \in Quotes : DeskOperation(q)
  \/ \E c \in Clients : CloseCompany(c)
  \/ CutShort
  \/ Restart

\* The scheduler keeps ticking, and a sweep moves on once its settlement returned.
Fairness ==
  /\ WF_sweep(TickStarts)
  /\ \A s \in Sweepers : WF_sweep(\E settles \in BOOLEAN : SweepMoves(s, settles))

Spec == Init /\ [][Next]_vars /\ Fairness

-----------------------------------------------------------------------------
\* Whatever total the office buys, the branches an accepted quote creates are the stores
\* it quoted, every one with a till, holding that total between them.
EstateFits ==
  \A q \in Quotes : \A n \in 1 .. MaxTills :
    (Live(q) /\ quote[q].status = "accepted" /\ n >= quote[q].stores) =>
      LET split == QuoteStoreSplit(quote[q], n) IN
      /\ Len(split) = quote[q].stores
      /\ \A i \in DOMAIN split : split[i] >= 1
      /\ SumOf(split) = n

\* The rows of the office are those its handlers write, the documents add up, and so do
\* the estates accepted quotes buy.
OfficeSound == TypeOK /\ LinesAddUp /\ EstateFits

\* One quote, one client: a link is only made where there was none, to a client created
\* with it, and leaves only with that client, however sends and outcomes interleave.
LinkedOnce ==
  [][\A q \in Quotes :
       (Live(q) /\ quote'[q] \notin {None, Gone} /\ quote'[q].company # quote[q].company) =>
         IF quote[q].company = None THEN client[quote'[q].company] = None
         ELSE quote'[q].company = None /\ client'[quote[q].company] = None]_vars

\* The quotation is the promise: bought as quoted, the client is billed what it said.
QuoteTermsKept ==
  [][\A q \in Quotes :
       (Live(q) /\ quote'[q] # Gone /\ quote[q].company = None /\ quote'[q].company # None) =>
         LET row == quote'[q]
             sub == client'[row.company]
         IN sub.licensed = row.tills =>
              /\ RecurringAmount(sub.terms, row.tills, row.stores)
                   + SumOf(AddonLines(sub, None, row.stores)) = row.monthly
              /\ sub.setup = row.setup]_vars
=============================================================================
