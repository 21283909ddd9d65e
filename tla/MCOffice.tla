------------------------------ MODULE MCOffice ------------------------------
EXTENDS Quotes, TLC
CONSTANTS c1, c2, p1, p2
MCFeatures == {"layby", "multi_store"}
MCListAddon == ("layby" :> 1) @@ ("multi_store" :> 3)

Layby(price) == ("layby" :> price) @@ ("multi_store" :> None)
PerStore == [mode |-> "per_store", store |-> 4, till |-> 2, custom |-> 0, setup |-> 5,
             period |-> "monthly", active |-> TRUE, prices |-> Layby(1)]
PerTill == [PerStore EXCEPT !.mode = "per_terminal", !.store = 0, !.period = "annual"]
Flat == [PerStore EXCEPT !.mode = "custom", !.custom = 7]
MCPlanEdits == {Flat, [PerTill EXCEPT !.active = FALSE]}

KeptBody == [plan |-> Kept, paid |-> Kept, status |-> Kept, licensed |-> Kept, fee |-> Kept,
             setup |-> Kept, addons |-> Kept]
MCCompanyBodies ==
  {[KeptBody EXCEPT !.licensed = 3], [KeptBody EXCEPT !.licensed = 1], [KeptBody EXCEPT !.plan = p2],
   [KeptBody EXCEPT !.fee = "waived"], [KeptBody EXCEPT !.paid = 3, !.status = "suspended"]}
MCClientBodies ==
  {[KeptBody EXCEPT !.licensed = 3, !.addons = {"layby"}], [KeptBody EXCEPT !.plan = p2], [KeptBody EXCEPT !.setup = 6]}
MCNewClients ==
  {[plan |-> p1, paid |-> None, licensed |-> 2, addons |-> {"layby"}, setup |-> Kept],
   [plan |-> None, paid |-> 2, licensed |-> 1, addons |-> {"layby"}, setup |-> 3]}
MCInvoiceBodies ==
  {[amount |-> None, purpose |-> p, include |-> i, due |-> None] : p \in {None, "onboarding", "pro_rata"}, i \in BOOLEAN}
  \cup {[amount |-> 3, purpose |-> None, include |-> TRUE, due |-> 1]}

NoPrices == [store |-> None, till |-> None, setup |-> None, addons |-> Kept]
Config(stores, tills, addons, split, basis, rates) ==
  [stores |-> stores, tills |-> tills, addons |-> addons, split |-> split, basis |-> basis, rates |-> rates]
MCConfigs ==
  {Config(2, 3, {"layby"}, <<>>, "till", [NoPrices EXCEPT !.till = 1, !.addons = Layby(0)]),
   Config(1, 1, {}, <<1, 2>>, Kept, NoPrices)}
MCCorrections == {Config(Kept, Kept, {"multi_store"}, <<2, 1>>, Kept, [NoPrices EXCEPT !.setup = 0])}

Legacy == [BlankClient EXCEPT !.plan = p1, !.paid = 2, !.stores = 1, !.licensed = 2, !.addons = Layby(Unpriced)]
Agreeing == [Agreed(Legacy, PerStore) EXCEPT !.paid = 4, !.fee = "paid"]
FirstBill ==
  [client |-> c1, purpose |-> "initial", amount |-> 12, fee |-> 5, tills |-> 2, tillPrice |-> 2,
   stores |-> 1, storePrice |-> 4, addons |-> ("layby" :> 1) @@ ("multi_store" :> 0), period |-> None,
   status |-> "paid", due |-> 1, paidOn |-> 1, payments |-> 1]
Start(one, invoices, spend) ==
  [plan |-> (p1 :> PerStore) @@ (p2 :> PerTill), client |-> (c1 :> one) @@ (c2 :> None),
   invoice |-> invoices, left |-> spend, hand |-> {}]
Nothing == [simulate |-> FALSE, office |-> 0, plans |-> 0, clients |-> 0, bills |-> 0, desk |-> 0, crashes |-> 0]
MCScenarios ==
  {Start(Legacy, <<>>, [Nothing EXCEPT !.bills = 2]),
   Start(Agreeing, <<FirstBill>>, [Nothing EXCEPT !.office = 1, !.bills = 2]),
   Start(Legacy, <<>>, [Nothing EXCEPT !.plans = 1, !.bills = 1]),
   Start(Legacy, <<>>, [Nothing EXCEPT !.simulate = TRUE, !.office = 1, !.bills = 1]),
   Start(None, <<>>, [Nothing EXCEPT !.clients = 1, !.bills = 1, !.crashes = 1]),
   Start(None, <<>>, [Nothing EXCEPT !.desk = 4]),
   Start(None, <<>>, [Nothing EXCEPT !.desk = 3, !.clients = 1]),
   Start(None, <<>>, [Nothing EXCEPT !.desk = 3, !.crashes = 1])}
=============================================================================
