------------------------------ MODULE Pricing ------------------------------
(* The arithmetic of the commercial side, without state: what a client pays   *)
(* per period (services/pricing.ts), what a period's increase is worth, what  *)
(* an invoice's lines say (invoiceLineItems in services/billing.ts) and what  *)
(* a quotation costs (services/quotePricing.ts).  Money is whole cents, dates *)
(* are day numbers.  VAT is left out: the split is derived from the total and *)
(* read by nothing here.                                                      *)
EXTENDS Integers, FiniteSetsExt, SequencesExt

CONSTANTS
  None,          \* NULL
  Unpriced,      \* the price of an add-on bought before prices were recorded
  Features,      \* the add-ons for sale (PRICED_FEATURE_KEYS)
  PerCompany,    \* those charged once per client (PER_COMPANY_FEATURE_KEYS)
  HeadOffice,    \* the add-on that needs two stores (multi_store)
  ListStore, ListTill, ListSetup, ListAddon,   \* the published list
  MonthDays, YearDays,                         \* PERIOD_DAYS
  Forever                                      \* the date a once-off deal is paid to

ASSUME PriceAssumption ==
  /\ None \notin Nat
  /\ IsFiniteSet(Features) /\ PerCompany \subseteq Features
  /\ ListStore \in Nat /\ ListTill \in Nat /\ ListSetup \in Nat
  /\ ListAddon \in [Features -> Nat]
  /\ MonthDays \in Nat \ {0} /\ YearDays \in Nat \ {0} /\ Forever \in Nat

Modes == {"per_terminal", "per_store", "custom"}
Periods == {"monthly", "annual", "once-off"}
\* A price per add-on, none for those a plan or a quote says nothing about.
Prices == [Features -> Nat \cup {None}]

PlanRow == [mode : Modes, store : Nat, till : Nat, custom : Nat, setup : Nat,
            period : Periods, active : BOOLEAN, prices : Prices]

Terms == [mode : Modes, store : Nat, till : Nat, custom : Nat, period : Periods]

Or(value, other) == IF value = None THEN other ELSE value
AtLeast(least, n) == IF n < least THEN least ELSE n

-----------------------------------------------------------------------------
(* What a subscription costs. *)

TermsFromPlan(p) ==
  IF p = None THEN None
  ELSE [mode |-> p.mode, store |-> p.store, till |-> p.till, custom |-> p.custom,
        period |-> p.period]

\* The client's own setup charge; the plan's only when none was ever agreed.
AgreedSetupFee(p, sub) == Or(sub.setup, IF p = None THEN 0 ELSE p.setup)

AddonQuantity(key, stores) == IF key \in PerCompany THEN 1 ELSE AtLeast(1, stores)

\* Every store's first till is in its rate; a custom deal with no figure has none.
RecurringAmount(terms, licensed, stores) ==
  CASE terms.mode = "custom"    -> IF terms.custom > 0 THEN terms.custom ELSE None
    [] terms.mode = "per_store" -> stores * terms.store + AtLeast(0, licensed - stores) * terms.till
    [] OTHER                    -> licensed * terms.till

\* A bought add-on at its agreed price, the plan's when none was recorded, else free.
AddonUnit(key, sub, p) ==
  IF sub.addons[key] # Unpriced THEN sub.addons[key]
  ELSE IF p = None THEN 0 ELSE Or(p.prices[key], 0)

Bought(sub) == {key \in Features : sub.addons[key] # None}

AddonLines(sub, p, stores) ==
  [key \in Features |->
     IF key \in Bought(sub) THEN AddonUnit(key, sub, p) * AddonQuantity(key, stores) ELSE 0]

SumOf(lines) == SumFunction(lines)

\* What the office and an invoice read of a subscription: the client's agreement when
\* one is on record, the plan in force otherwise.
QuoteForSubscription(sub, p) ==
  LET terms  == Or(sub.terms, TermsFromPlan(p))
      addons == AddonLines(sub, p, sub.stores)
      base   == IF terms = None THEN None ELSE RecurringAmount(terms, sub.licensed, sub.stores)
  IN [terms     |-> terms,
      licensed  |-> sub.licensed,
      stores    |-> sub.stores,
      addons    |-> addons,
      recurring |-> IF terms = None \/ base = None \/ terms.mode = "custom" THEN base
                    ELSE base + SumOf(addons),
      setupDue  |-> IF sub.fee = "not_invoiced" THEN AgreedSetupFee(p, sub) ELSE 0]

-----------------------------------------------------------------------------
(* A mid-period increase, and where a settlement takes the paid period. *)

PeriodDays(period) ==
  CASE period = "monthly" -> MonthDays [] period = "annual" -> YearDays [] OTHER -> 0

Rounded(a, b) == (2 * a + b) \div (2 * b)   \* Math.round(a / b), a and b positive

\* The increase over what the settled invoice billed, before pro-rating; 0 is none.
IncreaseOf(quote, paidTills, paidStores) ==
  LET terms == quote.terms
      now   == RecurringAmount(terms, quote.licensed, quote.stores)
      paid  == RecurringAmount(terms, paidTills, Or(paidStores, 0))
  IN IF terms.mode = "per_store" /\ terms.store = 0 THEN 0 ELSE AtLeast(0, now - paid)

ProRataForIncrease(quote, paidTills, paidStores, paidThrough, today) ==
  LET days == PeriodDays(quote.terms.period)
      left == paidThrough - today
      more == IncreaseOf(quote, paidTills, paidStores)
  IN IF \/ quote.terms = None \/ quote.terms.mode = "custom"
        \/ paidTills = None \/ paidThrough = None
        \/ days = 0 \/ left <= 0 \/ more = 0
     THEN None
     ELSE Rounded(more * left, days)

\* From the end of a period still running, else from today.
RenewalDate(paidThrough, period, today) ==
  IF period = "once-off" THEN Forever
  ELSE (IF paidThrough # None /\ paidThrough > today THEN paidThrough ELSE today)
       + (IF period = "annual" THEN YearDays ELSE MonthDays)

-----------------------------------------------------------------------------
(* The lines of an invoice, as amounts: what is priced, the add-ons, and the rest. *)

Line(shown, amount) == IF shown THEN <<amount>> ELSE <<>>

FeeLine(inv) == Line(Or(inv.fee, 0) > 0, inv.fee)

\* Named as included, at nothing, where a flat amount already covers them.
AddonAmounts(inv) ==
  [key \in {k \in Features : inv.addons[k] > 0} |->
     IF inv.tills = None /\ inv.tillPrice = None THEN 0 ELSE inv.addons[key]]

QuantityLines(inv) ==
  IF inv.stores # None
  THEN LET additional == IF inv.tills = None THEN 0 ELSE AtLeast(0, inv.tills - inv.stores)
       IN Line(inv.stores > 0, inv.stores * inv.storePrice)
          \o Line(additional > 0 /\ inv.tillPrice # None, additional * inv.tillPrice)
  ELSE Line(inv.tills # None, inv.tills * inv.tillPrice)

InvoiceLineItems(inv) ==
  LET priced   == FeeLine(inv) \o QuantityLines(inv)
      addons   == AddonAmounts(inv)
      residual == inv.amount - (SumOf(priced) + SumOf(addons))
  IN [priced |-> priced, addons |-> addons,
      rest   |-> Line(residual > 0 \/ (priced = <<>> /\ DOMAIN addons = {}),
                      IF residual > 0 THEN residual ELSE inv.amount)]

\* What a document itemises is what it asks for.
AddsUp(inv) ==
  LET lines == InvoiceLineItems(inv)
  IN SumOf(lines.priced) + SumOf(lines.addons) + SumOf(lines.rest) = inv.amount

-----------------------------------------------------------------------------
(* The price of a quotation. *)

Rates == [store : Nat \cup {None}, till : Nat \cup {None}, setup : Nat \cup {None}, addons : Prices]

ListRates == [store |-> None, till |-> None, setup |-> None, addons |-> [key \in Features |-> None]]

\* A real split is the estate; the even counts beside it are not read.
ResolveQuoteConfig(config) ==
  IF config.split = <<>> THEN config
  ELSE [config EXCEPT !.stores = Len(config.split), !.tills = SumOf(config.split)]

ValidQuoteConfig(config) ==
  /\ config.addons \subseteq Features
  /\ HeadOffice \in config.addons => config.stores >= 2
  /\ config.tills >= config.stores

QuoteAddonRate(rates, key) == Or(rates.addons[key], ListAddon[key])

\* The resolved estate, priced on the quote's basis at its rates or the list's.
PriceQuote(config) ==
  LET c     == ResolveQuoteConfig(config)
      store == Or(c.rates.store, ListStore)
      till  == Or(c.rates.till, ListTill)
      base  == IF c.basis = "till" THEN c.tills * till
               ELSE c.stores * store + (c.tills - c.stores) * till
      extra == [key \in c.addons |-> QuoteAddonRate(c.rates, key) * AddonQuantity(key, c.stores)]
  IN [monthly |-> base + SumOf(extra),
      setup   |-> Or(c.rates.setup, ListSetup)]
=============================================================================
