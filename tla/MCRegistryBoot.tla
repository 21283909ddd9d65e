--------------------------- MODULE MCRegistryBoot ---------------------------
(* Databases of the shapes the repository's migration tests boot from, one   *)
(* with a `business' plan of the operator's own beside `retail', and one with *)
(* a plan that parts a split pair and a licence that is out of date.         *)
EXTENDS RegistryBoot

MCOwner == [store |-> "a", panel |-> "b"]

Row(code, mode, till, flat, features, prices) ==
  [code |-> code, mode |-> mode, till |-> till, store |-> 0, features |-> features,
   prices |-> prices, flat |-> flat, created |-> "before"]

Base ==
  [shape |-> "flat", onceOff |-> FALSE, plans |-> NoPrices, spare |-> NoPrices,
   plansRef |-> "plans", plan |-> [a |-> 1, b |-> 2],
   subs |-> [c \in {"a", "b"} |-> [bought |-> {}, agreed |-> NoPrices, fee |-> None]],
   charged |-> [a |-> TRUE, b |-> FALSE],
   tenants |-> [t \in Tenants |->
     [app |-> IF t \in Panels THEN "image" ELSE "dockerfile", mode |-> None, push |-> "ok",
      held |-> {"customer_credit"}]],
   columns |-> {}, version |-> 0, settings |-> "singleton", storesCheck |-> "tills",
   invoice |-> [legacy |-> TRUE, onboarding |-> 300000, setup |-> 0, amount |-> 300000,
                purpose |-> None]]

FlatPlans == <<Row("starter", None, 0, 150000, {"customer_credit"}, NoPrices),
               Row("retail", None, 0, 0, {}, NoPrices)>>

Damaged == [Base EXCEPT
  !.plans = Append(FlatPlans, Row("business", None, 0, 0, {}, NoPrices)), !.plansRef = "plans_old"]
Interrupted == [Base EXCEPT !.shape = None, !.spare = FlatPlans, !.plansRef = "plans_old"]

Current == [Base EXCEPT
  !.shape = "three", !.onceOff = TRUE, !.columns = {"stores", "panels"}, !.version = 1,
  !.invoice = [legacy |-> FALSE, onboarding |-> 0, setup |-> 300000, amount |-> 300000,
               purpose |-> "onboarding"],
  !.plans = <<Row("bundled-tier", "per_terminal", 10000, 0,
                  {"customer_credit", "multi_store"}, NoPrices),
              Row("vula-grow", "per_terminal", 12000, 0, {"stock_transfers"},
                  [k \in {"multi_store"} |-> 9900])>>,
  !.tenants = [t \in Tenants |-> [@[t] EXCEPT !.mode = ClassOf(Base.tenants[t].app),
                                              !.held = {"customer_credit", "multi_store"}]]]

Two == [Base EXCEPT
  !.shape = "two", !.onceOff = TRUE,
  !.plans = <<Row("vula-standard", "per_terminal", 4900, 0, {"customer_credit"},
                  [k \in {"layby", "whatsapp_cloud"} |-> 4900]),
              Row("vula-grow", "per_terminal", 12000, 0, {}, [k \in {"multi_store"} |-> 9900])>>,
  !.tenants = [t \in Tenants |-> [@[t] EXCEPT !.held = {}]]]

MCRegistries == {Damaged, Current, Two}

(* The registries of the tests are such as the theorems assume. *)
ASSUME MCWhole == \A r \in MCRegistries : Intact(r)

MCCurrent == {Current}
MCInterrupted == {Interrupted}
=============================================================================
