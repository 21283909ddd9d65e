------------------------- MODULE RegistryBootProofs -------------------------
(***************************************************************************)
(* Proofs about the registry's boot.  A database that an earlier build left *)
(* whole (Whole) serves sound whatever boots were cut on the way, no        *)
(* statement of a boot takes anything from a client, and a boot after a      *)
(* boot has nothing to do where no plan parts a split pair.                 *)
(***************************************************************************)
EXTENDS RegistryBoot, FiniteSetTheorems, WellFoundedInduction, NaturalsInduction, TLAPS

-----------------------------------------------------------------------------
(* How far a boot is, in numbers: the statement it is at, 32 once it serves. *)
Place(p) ==
  IF p \in Steps THEN CHOOSE i \in 1..31 : Order[i] = p
  ELSE IF p = "serving" THEN 32 ELSE 0

(* The statements before this one have run on this database, in this boot   *)
(* or, when a boot has completed, in that one.                              *)
Reached == IF boots > 0 THEN 32 ELSE Place(pc)

-----------------------------------------------------------------------------
(* What single migrations leave behind in the plans.                        *)
CodesGone(plans) == \A code \in {"starter", "business"} :
                      code \in Codes(plans) => Retired(code) \in Codes(plans)
SeedsIn(plans) == ToSet(SeedCodes) \subseteq Codes(plans)
SeedsPriced(plans) == \A i \in DOMAIN plans :
                        plans[i].code \in ToSet(SeedCodes) => ~Unpriced(plans[i])
Closed(plans) == \A i \in DOMAIN plans : WithChildren(plans[i].features) = plans[i].features
Priced(plans) == \A i \in DOMAIN plans : DOMAIN plans[i].prices # {}
Unbundled(plans) == \A i \in DOMAIN plans : Bundled(plans[i]) = {}
NoneParted(plans) == \A i \in DOMAIN plans : ~Parted(plans[i])

(* Closed, but for what selling a parted plan's key undid.                   *)
ShutRow(row) == WithChildren(row.features) = row.features \/ Parted(row)
Shut(plans) == \A i \in DOMAIN plans : ShutRow(plans[i])

(* These read a row's features and the keys it prices, and nothing else.     *)
SameKinds(p, q) ==
  /\ DOMAIN q = DOMAIN p
  /\ \A i \in DOMAIN p : /\ q[i].features = p[i].features
                         /\ DOMAIN q[i].prices = DOMAIN p[i].prices

(* What is so of the database at every time.                                *)
Good(r, ed) ==
  /\ RegistryOK(r)
  /\ r.spare = NoPrices
  /\ \A c \in Companies : r.plan[c] \in DOMAIN r.plans \cup {0}
  /\ r.shape = None => r.plans = NoPrices
  /\ ~r.invoice.legacy => r.invoice.onboarding = 0
  /\ \A c \in Companies : r.charged[c] => r.subs[c].fee \in {None, "paid"}
  /\ FlatKept(r, DOMAIN r.plans \ ed)
  /\ \A i \in DOMAIN r.plans : r.plans[i].flat > 0 => r.plans[i].code # "vula-standard"

(* What is so once the statements before the n-th have run.                 *)
Phase(r, n) ==
  /\ n > 1 => r.shape # None
  /\ n > 3 => "stores" \in r.columns
  /\ n > 4 => "panels" \in r.columns
  /\ n > 7 => r.invoice.purpose # None
  /\ n > 8 => r.shape # "flat"
  /\ n > 10 => r.onceOff
  /\ n > 11 => r.plansRef = "plans"
  /\ n > 12 => r.shape = "three"
  /\ n > 14 => CodesGone(r.plans)
  /\ n > 15 => SeedsIn(r.plans)
  /\ n > 16 => SeedsPriced(r.plans)
  /\ n > 17 => r.invoice.setup # 0 \/ r.invoice.onboarding = 0
  /\ n > 18 => ~r.invoice.legacy
  /\ n > 19 /\ r.invoice.setup > 0 /\ r.invoice.amount = r.invoice.setup =>
       r.invoice.purpose = "onboarding"
  /\ n > 20 => \A c \in Companies : r.subs[c].fee # None
  /\ n > 21 => \A c \in Companies : ~r.charged[c]
  /\ n > 22 => r.settings = "per_company"
  /\ n > 23 => r.storesCheck = "kinds"
  /\ n > 26 => r.version >= 1
  /\ n > 28 => r.version >= 2

(* The boot's own memory.                                                   *)
Memory ==
  /\ pc \in Steps \cup {"serving", "down"}
  /\ changed \in BOOLEAN /\ settled \in BOOLEAN /\ boots \in Nat
  /\ had \subseteq {"stores", "panels"} /\ lost \subseteq {"stores", "panels", "delivery"}
  /\ pc = "serving" \/ settled => boots > 0
  /\ changed => Booting /\ Place(pc) > 24
  /\ Booting /\ Place(pc) > 24 => Priced(reg.plans) /\ Shut(reg.plans)
  /\ Booting /\ Place(pc) > 29 => Unbundled(reg.plans)
  /\ settled /\ NoneParted(reg.plans) =>
       ~changed /\ Closed(reg.plans) /\ Priced(reg.plans) /\ Unbundled(reg.plans)

(* A table that has its column has its classes, unless this boot is between *)
(* the two, or one was cut there.                                           *)
Window(table) == Booting /\ table \notin had /\ pc \in Unclassed[table]
HasClasses(table) == table \in reg.columns /\ table \notin lost
ClassesKept ==
  /\ pc \in {"ddl", "read"} => had = {}
  /\ pc = "store_column" => had = reg.columns
  /\ pc = "panel_column" => reg.columns = had \cup {"stores"}
  /\ boots > 0 /\ Booting /\ Place(pc) > 2 => had = {"stores", "panels"}
  /\ \A t \in Tenants :
       HasClasses(TableOf(t)) /\ ~Window(TableOf(t)) => ClassedIn(reg, t)

(* A licence delivered says what its client is entitled to, or a request    *)
(* has still to deliver it, unless an edit passed it over, this boot changed *)
(* that and has it still to queue, or one was cut there.                    *)
LicencesKept ==
  /\ pushing \subseteq Tenants /\ missed \subseteq Tenants
  /\ "delivery" \notin lost /\ ~changed =>
       \A t \in Tenants \ (missed \cup pushing) : DeliveredIn(reg, t)
  /\ pc = "mark_panels" /\ changed =>
       \A t \in Tenants \ Panels : reg.tenants[t].push # "ok"

IInv == Good(reg, edited) /\ Phase(reg, Reached) /\ Memory /\ ClassesKept /\ LicencesKept
-----------------------------------------------------------------------------
(* The order of a boot.                                                     *)

LEMMA Listed == Len(Order) = 31 /\ DOMAIN Order = 1..31
BY DEF Order

LEMMA Distinct == \A i, j \in 1..31 : Order[i] = Order[j] => i = j
BY DEF Order

LEMMA StepSet == Steps = {Order[i] : i \in 1..31}
BY Listed DEF Steps, ToSet

LEMMA NoStep == "serving" \notin Steps /\ "down" \notin Steps
BY StepSet DEF Order

(* The place of each statement, and of what comes after it.                 *)
LEMMA Places ==
  /\ \A i \in 1..31 : Order[i] \in Steps /\ Place(Order[i]) = i
  /\ \A p \in Steps : Place(p) \in 1..31 /\ Order[Place(p)] = p
  /\ Place("serving") = 32 /\ Place("down") = 0
<1>1. \A i \in 1..31 : Order[i] \in Steps
  BY StepSet
<1>2. \A i \in 1..31 : Place(Order[i]) = i
  BY <1>1, Distinct DEF Place
<1>3. \A p \in Steps : Place(p) \in 1..31 /\ Order[Place(p)] = p
  BY <1>2, StepSet
<1> QED
  BY <1>1, <1>2, <1>3, NoStep DEF Place

LEMMA After ==
  \A i \in 1..31 : StepAfter(Order[i]) = IF i = 31 THEN "serving" ELSE Order[i + 1]
BY Distinct, Listed DEF StepAfter

(* A step of a boot goes from its place to the next.                         *)
LEMMA GoesOn ==
  ASSUME NEW i \in 1..31, NEW p, p = Order[i]
  PROVE  /\ p \in Steps /\ Place(p) = i
         /\ Place(StepAfter(p)) = i + 1
         /\ i < 31 => StepAfter(p) \in Steps
         /\ i = 31 => StepAfter(p) = "serving"
BY Places, After

(* The statements by name.                                                  *)
LEMMA Names ==
  /\ "ddl" = Order[1] /\ "read" = Order[2] /\ "store_column" = Order[3]
  /\ "panel_column" = Order[4] /\ "store_class" = Order[5] /\ "panel_class" = Order[6]
  /\ "columns" = Order[7] /\ "restructure" = Order[8] /\ "recover" = Order[9]
  /\ "widen" = Order[10] /\ "repair" = Order[11] /\ "per_store" = Order[12]
  /\ "retail" = Order[13] /\ "codes" = Order[14] /\ "seed" = Order[15]
  /\ "refresh" = Order[16] /\ "fold" = Order[17] /\ "drop" = Order[18]
  /\ "purpose" = Order[19] /\ "subscriptions" = Order[20] /\ "flag" = Order[21]
  /\ "settings" = Order[22] /\ "warehouse" = Order[23] /\ "split" = Order[24]
  /\ "whatsapp" = Order[25] /\ "version1" = Order[26] /\ "published" = Order[27]
  /\ "version2" = Order[28] /\ "move" = Order[29] /\ "mark_stores" = Order[30]
  /\ "mark_panels" = Order[31]
BY DEF Order

-----------------------------------------------------------------------------
(* The fields of a registry, and writing one of them.                       *)

LEMMA Fields ==
  ASSUME NEW r, RegistryOK(r)
  PROVE  /\ r.shape \in {None, "flat", "two", "three"} /\ r.onceOff \in BOOLEAN
         /\ r.plansRef \in {"plans", "plans_old"} /\ r.plan \in [Companies -> Nat]
         /\ r.charged \in [Companies -> BOOLEAN] /\ r.tenants \in [Tenants -> TenantRow]
         /\ r.columns \subseteq {"stores", "panels"} /\ r.version \in Nat
         /\ r.settings \in {"singleton", "per_company"}
         /\ r.storesCheck \in {"tills", "kinds"} /\ r.invoice \in InvoiceRow
         /\ PlansTable(r.plans) /\ PlansTable(r.spare)
         /\ r.subs = [c \in Companies |-> r.subs[c]]
         /\ \A c \in Companies : SubscriptionRow(r.subs[c])
BY DEF RegistryOK

LEMMA WithPlans ==
  ASSUME NEW r, RegistryOK(r), NEW p, PlansTable(p)
  PROVE  RegistryOK([r EXCEPT !.plans = p])
BY DEF RegistryOK

LEMMA WithTenants ==
  ASSUME NEW r, RegistryOK(r), NEW ts \in [Tenants -> TenantRow]
  PROVE  RegistryOK([r EXCEPT !.tenants = ts])
BY DEF RegistryOK

LEMMA WithSubs ==
  ASSUME NEW r, RegistryOK(r), NEW s, s = [c \in Companies |-> s[c]],
         \A c \in Companies : SubscriptionRow(s[c])
  PROVE  RegistryOK([r EXCEPT !.subs = s])
BY DEF RegistryOK
-----------------------------------------------------------------------------
(* What a statement of a boot may do.                                       *)

(* It takes nothing from a client.                                          *)
TakesNothing(r, s) ==
  /\ Charge(s) = Charge(r)
  /\ \A c \in Companies :
       /\ s.plan[c] = r.plan[c] /\ PlanOf(s, c) = PlanOf(r, c)
       /\ Entitled(r, c) \subseteq Entitled(s, c)
       /\ Settled(r, c) => Settled(s, c)

(* It leaves the tenants alone, and what their clients are entitled to.     *)
LeavesTenants(r, s) ==
  /\ s.tenants = r.tenants /\ s.columns = r.columns
  /\ \A c \in Companies : Entitled(s, c) = Entitled(r, c)

(* The n-th statement of a first boot, done.                                *)
Done(r, s, ed, n) ==
  /\ Good(s, ed) /\ Phase(s, n + 1) /\ TakesNothing(r, s) /\ LeavesTenants(r, s)

(* What does not write the plans, the clients or the invoice takes nothing. *)
LEMMA OtherFields ==
  ASSUME NEW r, NEW s, s.plans = r.plans, s.spare = r.spare, s.plan = r.plan, s.subs = r.subs,
         s.charged = r.charged, s.tenants = r.tenants, s.columns = r.columns,
         Charge(s) = Charge(r)
  PROVE  TakesNothing(r, s) /\ LeavesTenants(r, s)
BY DEF TakesNothing, LeavesTenants, PlanOf, Entitled, Settled

LEMMA NoPlans ==
  /\ PlansTable(NoPrices) /\ DOMAIN NoPrices = {}
BY FS_EmptySet DEF PlansTable, NoPrices

LEMMA CreatedDone ==
  ASSUME NEW r, NEW ed, Good(r, ed), Phase(r, 1)
  PROVE  Done(r, Created(r), ed, 1)
<1> DEFINE s == Created(r)
<1>1. RegistryOK(s)
  BY NoPlans DEF Good, RegistryOK, Created
<1>2. /\ s.plans = r.plans /\ s.spare = r.spare /\ s.plan = r.plan /\ s.subs = r.subs
      /\ s.charged = r.charged /\ s.tenants = r.tenants /\ s.columns = r.columns
      /\ s.invoice = r.invoice
  BY DEF Good, RegistryOK, Created
<1>3. s.shape # None /\ (s.shape # r.shape => r.plans = NoPrices)
  BY DEF Good, RegistryOK, Created, None
<1>4. Good(s, ed)
  BY <1>1, <1>2, <1>3, NoPlans DEF Good, FlatKept
<1>5. Phase(s, 2)
  BY <1>3 DEF Phase
<1> QED
  BY <1>2, <1>4, <1>5, OtherFields DEF Done, Charge
LEMMA ColumnedDone ==
  ASSUME NEW r, NEW ed, Good(r, ed), Phase(r, 7)
  PROVE  Done(r, Columned(r), ed, 7)
<1> DEFINE s == Columned(r)
<1>1. RegistryOK(s)
  BY DEF Good, RegistryOK, InvoiceRow, Columned
<1>2. /\ s.plans = r.plans /\ s.spare = r.spare /\ s.plan = r.plan /\ s.subs = r.subs
      /\ s.charged = r.charged /\ s.tenants = r.tenants /\ s.columns = r.columns
      /\ Charge(s) = Charge(r)
  BY DEF Good, RegistryOK, Charge, InvoiceRow, Phase, Columned
<1>3. Good(s, ed)
  BY <1>1, <1>2 DEF Good, RegistryOK, FlatKept, Phase, InvoiceRow, None, Columned
<1>4. Phase(s, 8)
  BY <1>2 DEF Phase, Good, RegistryOK, InvoiceRow, None, Columned
<1> QED
  BY <1>2, <1>3, <1>4, OtherFields DEF Done

LEMMA RecoveredDone ==
  ASSUME NEW r, NEW ed, Good(r, ed), Phase(r, 9)
  PROVE  Done(r, Recovered(r), ed, 9)
<1> DEFINE s == Recovered(r)
<1>1. RegistryOK(s)
  BY DEF Good, RegistryOK, InvoiceRow, Recovered
<1>2. /\ s.plans = r.plans /\ s.spare = r.spare /\ s.plan = r.plan /\ s.subs = r.subs
      /\ s.charged = r.charged /\ s.tenants = r.tenants /\ s.columns = r.columns
      /\ Charge(s) = Charge(r)
  BY DEF Good, RegistryOK, Charge, InvoiceRow, Phase, Recovered
<1>3. Good(s, ed)
  BY <1>1, <1>2 DEF Good, RegistryOK, FlatKept, Phase, InvoiceRow, None, Recovered
<1>4. Phase(s, 10)
  BY <1>2 DEF Phase, Good, RegistryOK, InvoiceRow, None, Recovered
<1> QED
  BY <1>2, <1>3, <1>4, OtherFields DEF Done

LEMMA WidenedDone ==
  ASSUME NEW r, NEW ed, Good(r, ed), Phase(r, 10)
  PROVE  Done(r, Widened(r), ed, 10)
<1> DEFINE s == Widened(r)
<1>1. RegistryOK(s)
  BY DEF Good, RegistryOK, InvoiceRow, Widened, Rebuilt
<1>2. /\ s.plans = r.plans /\ s.spare = r.spare /\ s.plan = r.plan /\ s.subs = r.subs
      /\ s.charged = r.charged /\ s.tenants = r.tenants /\ s.columns = r.columns
      /\ Charge(s) = Charge(r)
  BY DEF Good, RegistryOK, Charge, InvoiceRow, Phase, Widened, Rebuilt
<1>3. Good(s, ed)
  BY <1>1, <1>2 DEF Good, RegistryOK, FlatKept, Phase, InvoiceRow, None, Widened, Rebuilt
<1>4. Phase(s, 11)
  BY <1>2 DEF Phase, Good, RegistryOK, InvoiceRow, None, Widened, Rebuilt
<1> QED
  BY <1>2, <1>3, <1>4, OtherFields DEF Done

LEMMA RepairedDone ==
  ASSUME NEW r, NEW ed, Good(r, ed), Phase(r, 11)
  PROVE  Done(r, Repaired(r), ed, 11)
<1> DEFINE s == Repaired(r)
<1>1. RegistryOK(s)
  BY DEF Good, RegistryOK, InvoiceRow, Repaired
<1>2. /\ s.plans = r.plans /\ s.spare = r.spare /\ s.plan = r.plan /\ s.subs = r.subs
      /\ s.charged = r.charged /\ s.tenants = r.tenants /\ s.columns = r.columns
      /\ Charge(s) = Charge(r)
  BY DEF Good, RegistryOK, Charge, InvoiceRow, Phase, Repaired
<1>3. Good(s, ed)
  BY <1>1, <1>2 DEF Good, RegistryOK, FlatKept, Phase, InvoiceRow, None, Repaired
<1>4. Phase(s, 12)
  BY <1>2 DEF Phase, Good, RegistryOK, InvoiceRow, None, Repaired
<1> QED
  BY <1>2, <1>3, <1>4, OtherFields DEF Done

LEMMA PerStoreDone ==
  ASSUME NEW r, NEW ed, Good(r, ed), Phase(r, 12)
  PROVE  Done(r, PerStore(r), ed, 12)
<1> DEFINE s == PerStore(r)
<1>1. RegistryOK(s)
  BY DEF Good, RegistryOK, InvoiceRow, PerStore, Rebuilt
<1>2. /\ s.plans = r.plans /\ s.spare = r.spare /\ s.plan = r.plan /\ s.subs = r.subs
      /\ s.charged = r.charged /\ s.tenants = r.tenants /\ s.columns = r.columns
      /\ Charge(s) = Charge(r)
  BY DEF Good, RegistryOK, Charge, InvoiceRow, Phase, PerStore, Rebuilt
<1>3. Good(s, ed)
  BY <1>1, <1>2 DEF Good, RegistryOK, FlatKept, Phase, InvoiceRow, None, PerStore, Rebuilt
<1>4. Phase(s, 13)
  BY <1>2 DEF Phase, Good, RegistryOK, InvoiceRow, None, PerStore, Rebuilt
<1> QED
  BY <1>2, <1>3, <1>4, OtherFields DEF Done

LEMMA FoldedDone ==
  ASSUME NEW r, NEW ed, Good(r, ed), Phase(r, 17)
  PROVE  Done(r, Folded(r), ed, 17)
<1> DEFINE s == Folded(r)
<1>1. RegistryOK(s)
  BY DEF Good, RegistryOK, InvoiceRow, Folded
<1>2. /\ s.plans = r.plans /\ s.spare = r.spare /\ s.plan = r.plan /\ s.subs = r.subs
      /\ s.charged = r.charged /\ s.tenants = r.tenants /\ s.columns = r.columns
      /\ Charge(s) = Charge(r)
  BY DEF Good, RegistryOK, Charge, InvoiceRow, Phase, Folded
<1>3. Good(s, ed)
  BY <1>1, <1>2 DEF Good, RegistryOK, FlatKept, Phase, InvoiceRow, None, Folded
<1>4. Phase(s, 18)
  BY <1>2 DEF Phase, Good, RegistryOK, InvoiceRow, None, Folded
<1> QED
  BY <1>2, <1>3, <1>4, OtherFields DEF Done

LEMMA DroppedDone ==
  ASSUME NEW r, NEW ed, Good(r, ed), Phase(r, 18)
  PROVE  Done(r, Dropped(r), ed, 18)
<1> DEFINE s == Dropped(r)
           v == [r.invoice EXCEPT !.legacy = FALSE, !.onboarding = 0]
<1>0. /\ r.invoice \in InvoiceRow /\ v \in InvoiceRow
      /\ ~v.legacy /\ v.onboarding = 0 /\ v.setup = r.invoice.setup
      /\ v.amount = r.invoice.amount /\ v.purpose = r.invoice.purpose
  BY Fields DEF Good, InvoiceRow
<1> HIDE DEF v
<1>a. s = [r EXCEPT !.invoice = v]
  BY DEF Dropped, v
<1> HIDE DEF s
<1>1. RegistryOK(s)
  BY <1>0, <1>a DEF Good, RegistryOK
<1>2. /\ s.plans = r.plans /\ s.spare = r.spare /\ s.plan = r.plan /\ s.subs = r.subs
      /\ s.charged = r.charged /\ s.tenants = r.tenants /\ s.columns = r.columns
      /\ s.shape = r.shape /\ s.invoice = v /\ s.onceOff = r.onceOff
      /\ s.plansRef = r.plansRef
  BY <1>a DEF Good, RegistryOK
<1>3. Good(s, ed)
  BY <1>0, <1>1, <1>2 DEF Good, FlatKept
<1>4. Phase(s, 19)
  BY <1>0, <1>2 DEF Phase
<1>5. Charge(s) = Charge(r)
  BY <1>0, <1>2 DEF Charge, Phase
<1> QED
  BY <1>2, <1>3, <1>4, <1>5, OtherFields DEF Done, s

LEMMA PurposedDone ==
  ASSUME NEW r, NEW ed, Good(r, ed), Phase(r, 19)
  PROVE  Done(r, Purposed(r), ed, 19)
<1> DEFINE s == Purposed(r)
<1>1. RegistryOK(s)
  BY DEF Good, RegistryOK, InvoiceRow, Purposed
<1>2. /\ s.plans = r.plans /\ s.spare = r.spare /\ s.plan = r.plan /\ s.subs = r.subs
      /\ s.charged = r.charged /\ s.tenants = r.tenants /\ s.columns = r.columns
      /\ Charge(s) = Charge(r)
  BY DEF Good, RegistryOK, Charge, InvoiceRow, Phase, Purposed
<1>3. Good(s, ed)
  BY <1>1, <1>2 DEF Good, RegistryOK, FlatKept, Phase, InvoiceRow, None, Purposed
<1>4. Phase(s, 20)
  BY <1>2 DEF Phase, Good, RegistryOK, InvoiceRow, None, Purposed
<1> QED
  BY <1>2, <1>3, <1>4, OtherFields DEF Done

LEMMA PerCompanyDone ==
  ASSUME NEW r, NEW ed, Good(r, ed), Phase(r, 22)
  PROVE  Done(r, PerCompany(r), ed, 22)
<1> DEFINE s == PerCompany(r)
<1>1. RegistryOK(s)
  BY DEF Good, RegistryOK, InvoiceRow, PerCompany
<1>2. /\ s.plans = r.plans /\ s.spare = r.spare /\ s.plan = r.plan /\ s.subs = r.subs
      /\ s.charged = r.charged /\ s.tenants = r.tenants /\ s.columns = r.columns
      /\ Charge(s) = Charge(r)
  BY DEF Good, RegistryOK, Charge, InvoiceRow, Phase, PerCompany
<1>3. Good(s, ed)
  BY <1>1, <1>2 DEF Good, RegistryOK, FlatKept, Phase, InvoiceRow, None, PerCompany
<1>4. Phase(s, 23)
  BY <1>2 DEF Phase, Good, RegistryOK, InvoiceRow, None, PerCompany
<1> QED
  BY <1>2, <1>3, <1>4, OtherFields DEF Done

LEMMA KindedDone ==
  ASSUME NEW r, NEW ed, Good(r, ed), Phase(r, 23)
  PROVE  Done(r, Kinded(r), ed, 23)
<1> DEFINE s == Kinded(r)
<1>1. RegistryOK(s)
  BY DEF Good, RegistryOK, InvoiceRow, Kinded
<1>2. /\ s.plans = r.plans /\ s.spare = r.spare /\ s.plan = r.plan /\ s.subs = r.subs
      /\ s.charged = r.charged /\ s.tenants = r.tenants /\ s.columns = r.columns
      /\ Charge(s) = Charge(r)
  BY DEF Good, RegistryOK, Charge, InvoiceRow, Phase, Kinded
<1>3. Good(s, ed)
  BY <1>1, <1>2 DEF Good, RegistryOK, FlatKept, Phase, InvoiceRow, None, Kinded
<1>4. Phase(s, 24)
  BY <1>2 DEF Phase, Good, RegistryOK, InvoiceRow, None, Kinded
<1> QED
  BY <1>2, <1>3, <1>4, OtherFields DEF Done

LEMMA VersionOneDone ==
  ASSUME NEW r, NEW ed, Good(r, ed), Phase(r, 26)
  PROVE  Done(r, Versioned(r, 1), ed, 26)
<1> DEFINE s == Versioned(r, 1)
<1>1. RegistryOK(s)
  BY DEF Good, RegistryOK, InvoiceRow, Versioned
<1>2. /\ s.plans = r.plans /\ s.spare = r.spare /\ s.plan = r.plan /\ s.subs = r.subs
      /\ s.charged = r.charged /\ s.tenants = r.tenants /\ s.columns = r.columns
      /\ Charge(s) = Charge(r)
  BY DEF Good, RegistryOK, Charge, InvoiceRow, Phase, Versioned
<1>3. Good(s, ed)
  BY <1>1, <1>2 DEF Good, RegistryOK, FlatKept, Phase, InvoiceRow, None, Versioned
<1>4. Phase(s, 27)
  BY <1>2 DEF Phase, Good, RegistryOK, InvoiceRow, None, Versioned
<1> QED
  BY <1>2, <1>3, <1>4, OtherFields DEF Done

LEMMA VersionTwoDone ==
  ASSUME NEW r, NEW ed, Good(r, ed), Phase(r, 28)
  PROVE  Done(r, Versioned(r, 2), ed, 28)
<1> DEFINE s == Versioned(r, 2)
<1>1. RegistryOK(s)
  BY DEF Good, RegistryOK, InvoiceRow, Versioned
<1>2. /\ s.plans = r.plans /\ s.spare = r.spare /\ s.plan = r.plan /\ s.subs = r.subs
      /\ s.charged = r.charged /\ s.tenants = r.tenants /\ s.columns = r.columns
      /\ Charge(s) = Charge(r)
  BY DEF Good, RegistryOK, Charge, InvoiceRow, Phase, Versioned
<1>3. Good(s, ed)
  BY <1>1, <1>2 DEF Good, RegistryOK, FlatKept, Phase, InvoiceRow, None, Versioned
<1>4. Phase(s, 29)
  BY <1>2 DEF Phase, Good, RegistryOK, InvoiceRow, None, Versioned
<1> QED
  BY <1>2, <1>3, <1>4, OtherFields DEF Done
LEMMA SubscribedDone ==
  ASSUME NEW r, NEW ed, Good(r, ed), Phase(r, 20)
  PROVE  Done(r, Subscribed(r), ed, 20)
<1> DEFINE s == Subscribed(r)
           w == [c \in Companies |->
                  IF r.subs[c].fee # None THEN r.subs[c]
                  ELSE [r.subs[c] EXCEPT !.fee = IF r.charged[c] THEN "paid" ELSE "not_invoiced"]]
<1>1. ASSUME NEW c \in Companies
      PROVE  /\ SubscriptionRow(w[c]) /\ w[c].bought = r.subs[c].bought
             /\ w[c].fee # None
             /\ r.subs[c].fee # None => w[c].fee = r.subs[c].fee
             /\ r.subs[c].fee = None /\ r.charged[c] => w[c].fee = "paid"
  <2>1. SubscriptionRow(r.subs[c])
    BY <1>1, Fields DEF Good
  <2> QED
    BY <2>1 DEF SubscriptionRow, None
<1>2. w = [c \in Companies |-> w[c]]
  OBVIOUS
<1> HIDE DEF w
<1>3. s = [r EXCEPT !.subs = w]
  <2>1. r.subs = [c \in Companies |-> r.subs[c]]
    BY Fields DEF Good
  <2> QED
    BY <2>1 DEF Subscribed, Good, RegistryOK, w
<1> HIDE DEF s
<1>4. RegistryOK(s)
  BY <1>1, <1>2, <1>3, WithSubs DEF Good
<1>5. /\ s.plans = r.plans /\ s.spare = r.spare /\ s.plan = r.plan /\ s.subs = w
      /\ s.charged = r.charged /\ s.tenants = r.tenants /\ s.columns = r.columns
      /\ s.shape = r.shape /\ s.invoice = r.invoice /\ s.onceOff = r.onceOff
      /\ s.plansRef = r.plansRef
  BY <1>3 DEF Good, RegistryOK
<1>6. Good(s, ed)
  BY <1>1, <1>4, <1>5 DEF Good, FlatKept
<1>7. Phase(s, 21)
  BY <1>1, <1>5 DEF Phase
<1>8. TakesNothing(r, s) /\ LeavesTenants(r, s)
  BY <1>1, <1>5 DEF TakesNothing, LeavesTenants, PlanOf, Entitled, Settled, Charge, Good, None
<1> QED
  BY <1>6, <1>7, <1>8 DEF Done, s

LEMMA UnflaggedDone ==
  ASSUME NEW r, NEW ed, Good(r, ed), Phase(r, 21)
  PROVE  Done(r, Unflagged(r), ed, 21)
<1> DEFINE s == Unflagged(r)
<1>1. RegistryOK(s)
  BY DEF Good, RegistryOK, Unflagged
<1>2. /\ s.plans = r.plans /\ s.spare = r.spare /\ s.plan = r.plan /\ s.subs = r.subs
      /\ s.tenants = r.tenants /\ s.columns = r.columns
      /\ s.shape = r.shape /\ s.invoice = r.invoice /\ s.onceOff = r.onceOff
      /\ s.plansRef = r.plansRef /\ s.settings = r.settings /\ s.storesCheck = r.storesCheck
      /\ s.version = r.version
      /\ \A c \in Companies : ~s.charged[c]
  BY DEF Good, RegistryOK, Unflagged
<1> HIDE DEF s
<1>3. Good(s, ed)
  BY <1>1, <1>2 DEF Good, FlatKept
<1>4. Phase(s, 22)
  BY <1>2 DEF Phase
<1>5. \A c \in Companies : Settled(r, c) => Settled(s, c)
  BY <1>2 DEF Settled, Good, Phase, None
<1>6. TakesNothing(r, s) /\ LeavesTenants(r, s)
  BY <1>2, <1>5 DEF TakesNothing, LeavesTenants, PlanOf, Entitled, Charge
<1> QED
  BY <1>3, <1>4, <1>6 DEF Done, s

-----------------------------------------------------------------------------
(* The migrations that rewrite plans row by row.                            *)

(* A new image of each row, with a code of its own.                          *)
LEMMA RowsRewritten ==
  ASSUME NEW r, RegistryOK(r), NEW p, p = [i \in DOMAIN r.plans |-> p[i]],
         \A i \in DOMAIN r.plans : RowOK(p[i]),
         \A i, j \in DOMAIN r.plans : p[i].code = p[j].code => i = j
  PROVE  PlansTable(p) /\ RegistryOK([r EXCEPT !.plans = p]) /\ DOMAIN p = DOMAIN r.plans
<1>1. PlansTable(r.plans)
  BY Fields
<1>2. DOMAIN p = DOMAIN r.plans
  OBVIOUS
<1>3. PlansTable(p)
  BY <1>1, <1>2 DEF PlansTable
<1> QED
  BY <1>2, <1>3, WithPlans DEF RegistryOK

(* Rows keep their features and who made them: nobody loses anything.        *)
LEMMA RowsKept ==
  ASSUME NEW r, NEW s, DOMAIN s.plans = DOMAIN r.plans, s.spare = r.spare, s.plan = r.plan,
         s.subs = r.subs, s.charged = r.charged, s.tenants = r.tenants,
         s.columns = r.columns, s.invoice = r.invoice,
         \A i \in DOMAIN r.plans : /\ s.plans[i].features = r.plans[i].features
                                   /\ s.plans[i].created = r.plans[i].created
  PROVE  TakesNothing(r, s) /\ LeavesTenants(r, s)
BY DEF TakesNothing, LeavesTenants, PlanOf, Entitled, Settled, Charge

LEMMA RowFields ==
  ASSUME NEW row, RowOK(row)
  PROVE  /\ row.mode \in {None, "per_terminal", "per_store", "custom"}
         /\ row.till \in Nat /\ row.store \in Nat /\ row.features \subseteq Keys
         /\ PriceList(row.prices) /\ row.flat \in Nat /\ row.created \in {"before", "boot"}
BY DEF RowOK

LEMMA RebuiltFields ==
  ASSUME NEW r, RegistryOK(r), NEW p, PlansTable(p)
  PROVE  LET s == Rebuilt(r, p) IN
         /\ RegistryOK(s)
         /\ s.plans = p /\ s.spare = r.spare /\ s.plan = r.plan /\ s.subs = r.subs
         /\ s.charged = r.charged /\ s.tenants = r.tenants /\ s.columns = r.columns
         /\ s.shape = "three" /\ s.invoice = r.invoice
BY DEF RegistryOK, Rebuilt

LEMMA RestructuredDone ==
  ASSUME NEW r, NEW ed, Good(r, ed), Phase(r, 8)
  PROVE  Done(r, Restructured(r), ed, 8)
<1>1. CASE r.shape # "flat"
  <2>1. Restructured(r) = r
    BY <1>1 DEF Restructured
  <2> QED
    BY <2>1, <1>1, OtherFields DEF Done, Phase
<1>2. CASE r.shape = "flat"
  <2> DEFINE s == Restructured(r)
             p == [i \in DOMAIN r.plans |-> Unrated(r.plans[i])]
  <2>1. ASSUME NEW i \in DOMAIN r.plans
        PROVE  /\ RowOK(p[i]) /\ p[i].code = r.plans[i].code /\ p[i].flat = r.plans[i].flat
               /\ p[i].mode = ModeOfFlat(r.plans[i]) /\ p[i].till = 0 /\ p[i].store = 0
               /\ p[i].features = r.plans[i].features /\ p[i].prices = r.plans[i].prices
               /\ p[i].created = r.plans[i].created
    <3>1. RowOK(r.plans[i])
      BY <2>1, Fields DEF Good, PlansTable
    <3> QED
      BY <2>1, <3>1 DEF RowOK, ModeOfFlat, Unrated
  <2>2. p = [i \in DOMAIN r.plans |-> p[i]]
    OBVIOUS
  <2> HIDE DEF p
  <2>3. \A i, j \in DOMAIN r.plans : p[i].code = p[j].code => i = j
    <3>1. \A i, j \in DOMAIN r.plans : r.plans[i].code = r.plans[j].code => i = j
      BY Fields DEF Good, PlansTable
    <3> QED
      BY <2>1, <3>1
  <2>4. PlansTable(p) /\ DOMAIN p = DOMAIN r.plans
    BY <2>1, <2>2, <2>3, RowsRewritten DEF Good
  <2>5. s = Rebuilt(r, p)
    BY <1>2 DEF Restructured, p
  <2>6. RegistryOK(s)
    BY <2>4, <2>5, RebuiltFields DEF Good
  <2>7. /\ s.plans = p /\ s.spare = r.spare /\ s.plan = r.plan /\ s.subs = r.subs
        /\ s.charged = r.charged /\ s.tenants = r.tenants /\ s.columns = r.columns
        /\ s.shape = "three" /\ s.invoice = r.invoice
    BY <2>4, <2>5, RebuiltFields DEF Good
  <2> HIDE DEF s
  <2>8. FlatKept(s, DOMAIN s.plans \ ed)
    BY <2>1, <2>4, <2>7 DEF FlatKept, ModeOfFlat
  <2>9. Good(s, ed)
    BY <2>1, <2>4, <2>6, <2>7, <2>8 DEF Good, None
  <2>10. Phase(s, 9)
    BY <2>7 DEF Phase, None
  <2>11. TakesNothing(r, s) /\ LeavesTenants(r, s)
    BY <2>1, <2>4, <2>7, RowsKept
  <2> QED
    BY <2>9, <2>10, <2>11 DEF Done, s
<1> QED
  BY <1>1, <1>2
LEMMA Seeds == ToSet(SeedCodes) = {"vula-start", "vula-grow"}
                 /\ SeedCodes[1] = "vula-start" /\ SeedCodes[2] = "vula-grow"
BY DEF ToSet, SeedCodes

(* Everything but the plans is as it was.                                    *)
PlansOnly(r, s) ==
  /\ RegistryOK(s)
  /\ s.shape = r.shape /\ s.onceOff = r.onceOff /\ s.spare = r.spare
  /\ s.plansRef = r.plansRef /\ s.plan = r.plan /\ s.subs = r.subs /\ s.charged = r.charged
  /\ s.tenants = r.tenants /\ s.columns = r.columns /\ s.version = r.version
  /\ s.settings = r.settings /\ s.storesCheck = r.storesCheck /\ s.invoice = r.invoice

LEMMA PlansWritten ==
  ASSUME NEW r, RegistryOK(r), NEW p, PlansTable(p)
  PROVE  PlansOnly(r, [r EXCEPT !.plans = p]) /\ [r EXCEPT !.plans = p].plans = p
BY WithPlans DEF RegistryOK, PlansOnly

(* A row that keeps what its clients read of it.                             *)
SameTerms(row, new) ==
  /\ new.features = row.features /\ new.prices = row.prices /\ new.flat = row.flat
  /\ new.created = row.created

SameRates(row, new) == new.mode = row.mode /\ new.till = row.till /\ new.store = row.store

(* s is r with its code `from' renamed, where there is one and it may be.   *)
Renames(r, from, to) == from \in Codes(r.plans) /\ to \notin Codes(r.plans)
CodeMoved(r, s, from, to) ==
  /\ PlansOnly(r, s) /\ DOMAIN s.plans = DOMAIN r.plans
  /\ \A i \in DOMAIN r.plans :
       /\ SameTerms(r.plans[i], s.plans[i]) /\ SameRates(r.plans[i], s.plans[i])
       /\ s.plans[i].code = IF Renames(r, from, to) /\ r.plans[i].code = from THEN to
                            ELSE r.plans[i].code
       /\ r.plans[i].code # from => s.plans[i] = r.plans[i]
  /\ Codes(s.plans) = IF Renames(r, from, to) THEN (Codes(r.plans) \ {from}) \cup {to}
                      ELSE Codes(r.plans)
  /\ ~Renames(r, from, to) => s = r

LEMMA CodedRows ==
  ASSUME NEW r, RegistryOK(r), NEW from, NEW to
  PROVE  CodeMoved(r, Coded(r, from, to), from, to)
<1> DEFINE s == Coded(r, from, to)
           here == Renames(r, from, to)
           p == [i \in DOMAIN r.plans |-> RowCoded(r.plans[i], from, to)]
<1>0. PlansTable(r.plans)
  BY Fields
<1>1. CASE ~here
  <2>1. s = r
    BY <1>1 DEF Coded, Renames
  <2> QED
    BY <1>1, <2>1 DEF CodeMoved, PlansOnly, SameTerms, SameRates
<1>2. CASE here
  <2>1. ASSUME NEW i \in DOMAIN r.plans
        PROVE  /\ RowOK(p[i]) /\ SameTerms(r.plans[i], p[i]) /\ SameRates(r.plans[i], p[i])
               /\ p[i].code = IF r.plans[i].code = from THEN to ELSE r.plans[i].code
               /\ r.plans[i].code # from => p[i] = r.plans[i]
    <3>1. RowOK(r.plans[i])
      BY <1>0, <2>1 DEF PlansTable
    <3> QED
      BY <2>1, <3>1 DEF RowOK, RowCoded, SameTerms, SameRates
  <2>2. p = [i \in DOMAIN r.plans |-> p[i]]
    OBVIOUS
  <2> HIDE DEF p
  <2>3. \A i \in DOMAIN r.plans : r.plans[i].code # to
    BY <1>2 DEF Codes, Renames
  <2>4. \A i, j \in DOMAIN r.plans : r.plans[i].code = r.plans[j].code => i = j
    BY <1>0 DEF PlansTable
  <2>5. \A i, j \in DOMAIN r.plans : p[i].code = p[j].code => i = j
    BY <2>1, <2>3, <2>4
  <2>6. PlansTable(p) /\ DOMAIN p = DOMAIN r.plans
    BY <2>1, <2>2, <2>5, RowsRewritten
  <2>7. s = [r EXCEPT !.plans = p]
    BY <1>2 DEF Coded, Renames, p
  <2> HIDE DEF s
  <2>8. PlansOnly(r, s) /\ s.plans = p
    BY <2>6, <2>7, PlansWritten
  <2>9. Codes(p) = (Codes(r.plans) \ {from}) \cup {to}
    <3>1. PICK k \in DOMAIN r.plans : r.plans[k].code = from
      BY <1>2 DEF Codes, Renames
    <3>2. \A i \in DOMAIN r.plans : p[i].code = to <=> i = k
      BY <2>1, <2>3, <2>4, <3>1
    <3> QED
      BY <2>1, <2>3, <2>4, <2>6, <3>1, <3>2 DEF Codes
  <2> QED
    BY <1>2, <2>1, <2>6, <2>8, <2>9 DEF s, CodeMoved
<1> QED
  BY <1>1, <1>2

(* Renaming a code other than to vula-standard keeps what is always so.      *)
LEMMA CodedGood ==
  ASSUME NEW r, NEW ed, Good(r, ed), NEW from, NEW to,
         \/ from = "retail" /\ to = "business"
         \/ from = "starter" /\ to = "vula-start"
         \/ from = "business" /\ to = "vula-grow"
  PROVE  LET s == Coded(r, from, to)
         IN Good(s, ed) /\ TakesNothing(r, s) /\ LeavesTenants(r, s)
<1> DEFINE s == Coded(r, from, to)
           here == Renames(r, from, to)
<1>1. RegistryOK(r)
  BY DEF Good
<1>2. CodeMoved(r, s, from, to)
  BY <1>1, CodedRows
<1> HIDE DEF s
<1>3. CASE ~here
  BY <1>2, <1>3, OtherFields DEF CodeMoved, s
<1>4. CASE here
  <2>1. FlatKept(s, DOMAIN s.plans \ ed)
    BY <1>2 DEF CodeMoved, Good, FlatKept, PlansOnly, SameTerms, SameRates
  <2>2. \A i \in DOMAIN s.plans : s.plans[i].flat > 0 => s.plans[i].code # "vula-standard"
    BY <1>2 DEF CodeMoved, Good, SameTerms
  <2>3. r.shape = None => r.plans = NoPrices
    BY DEF Good
  <2>4. r.shape # None
    BY <1>4, <2>3, NoPlans DEF Codes, Renames
  <2>5. Good(s, ed)
    BY <1>2, <2>1, <2>2, <2>4 DEF CodeMoved, Good, PlansOnly
  <2>6. TakesNothing(r, s) /\ LeavesTenants(r, s)
    BY <1>2, RowsKept DEF CodeMoved, PlansOnly, SameTerms
  <2> QED
    BY <2>5, <2>6 DEF s
<1> QED
  BY <1>3, <1>4
(* Both ways of running: a first boot, and one after a boot that completed.  *)
LEMMA RetailDone ==
  ASSUME NEW r, NEW ed, Good(r, ed), Phase(r, 13)
  PROVE  Done(r, RetailRenamed(r), ed, 13)
<1> DEFINE s == RetailRenamed(r)
<1>1. s = Coded(r, "retail", "business")
  BY DEF RetailRenamed
<1> HIDE DEF s
<1>2. Good(s, ed) /\ TakesNothing(r, s) /\ LeavesTenants(r, s)
  BY <1>1, CodedGood
<1>0. RegistryOK(r)
  BY DEF Good
<1>3. CodeMoved(r, s, "retail", "business")
  BY <1>0, <1>1, CodedRows
<1>4. Phase(s, 14)
  BY <1>3 DEF Phase, PlansOnly, CodeMoved, Renames
<1> QED
  BY <1>2, <1>4 DEF Done, s

LEMMA Kinds ==
  ASSUME NEW p, NEW q, SameKinds(p, q)
  PROVE  /\ Priced(p) <=> Priced(q)
         /\ Unbundled(p) <=> Unbundled(q)
         /\ Closed(p) <=> Closed(q)
         /\ NoneParted(p) <=> NoneParted(q)
         /\ Shut(p) <=> Shut(q)
<1>1. ASSUME NEW i \in DOMAIN p
      PROVE  /\ Bundled(p[i]) = Bundled(q[i])
             /\ Parted(p[i]) <=> Parted(q[i])
             /\ ShutRow(p[i]) <=> ShutRow(q[i])
  BY <1>1 DEF SameKinds, Bundled, Parted, ShutRow
<1>2. (Priced(p) <=> Priced(q)) /\ (Closed(p) <=> Closed(q))
  BY DEF SameKinds, Priced, Closed
<1>3. (Unbundled(p) <=> Unbundled(q)) /\ (NoneParted(p) <=> NoneParted(q))
  BY <1>1 DEF SameKinds, Unbundled, NoneParted
<1>4. Shut(p) <=> Shut(q)
  BY <1>1 DEF SameKinds, Shut
<1> QED
  BY <1>2, <1>3, <1>4

(* A boot after a boot renames `retail' where it may, and nothing else.      *)
RetailOnly(r, s) ==
  /\ SameKinds(r.plans, s.plans)
  /\ ~RetailLeft(r.plans) => s = r
  /\ \A i \in DOMAIN r.plans :
       s.plans[i] = r.plans[i] \/ (r.plans[i].code = "retail" /\ RetailLeft(r.plans))

LEMMA RetailAgain ==
  ASSUME NEW r, NEW ed, Good(r, ed), Phase(r, 32)
  PROVE  LET s == RetailRenamed(r)
         IN /\ Good(s, ed) /\ Phase(s, 32) /\ TakesNothing(r, s) /\ LeavesTenants(r, s)
            /\ RetailOnly(r, s)
<1> DEFINE s == RetailRenamed(r)
<1>1. s = Coded(r, "retail", "business")
  BY DEF RetailRenamed
<1> HIDE DEF s
<1>2. Good(s, ed) /\ TakesNothing(r, s) /\ LeavesTenants(r, s)
  BY <1>1, CodedGood
<1>0. RegistryOK(r)
  BY DEF Good
<1>3. CodeMoved(r, s, "retail", "business")
  BY <1>0, <1>1, CodedRows
<1>4. Renames(r, "retail", "business") <=> RetailLeft(r.plans)
  BY DEF Renames, RetailLeft
<1>5. ToSet(SeedCodes) = {"vula-start", "vula-grow"}
  BY Seeds
<1>6. SeedsIn(s.plans) /\ SeedsPriced(s.plans)
  BY <1>3, <1>5 DEF CodeMoved, Renames, Phase, SeedsIn, SeedsPriced, Unpriced, SameRates
<1>7. CodesGone(s.plans)
  BY <1>3, <1>5, <1>6 DEF CodeMoved, Renames, Phase, SeedsIn, CodesGone, Retired
<1>8. Phase(s, 32)
  BY <1>3, <1>6, <1>7 DEF CodeMoved, Phase, PlansOnly
<1>9. SameKinds(r.plans, s.plans)
  BY <1>3 DEF CodeMoved, SameTerms, SameKinds
<1>10. RetailOnly(r, s)
  BY <1>3, <1>4, <1>9 DEF CodeMoved, RetailOnly
<1> QED
  BY <1>2, <1>8, <1>10 DEF s

LEMMA CodesDone ==
  ASSUME NEW r, NEW ed, Good(r, ed), Phase(r, 14)
  PROVE  Done(r, CodesRenamed(r), ed, 14)
<1> DEFINE m == Coded(r, "starter", "vula-start")
           s == Coded(m, "business", "vula-grow")
<1>1. CodesRenamed(r) = s
  BY DEF CodesRenamed, Retired
<1>2. Good(m, ed) /\ TakesNothing(r, m) /\ LeavesTenants(r, m)
  BY CodedGood
<1>0. RegistryOK(r) /\ RegistryOK(m)
  BY <1>2 DEF Good
<1>3. CodeMoved(r, m, "starter", "vula-start")
  BY <1>0, CodedRows
<1> HIDE DEF m
<1>4. Good(s, ed) /\ TakesNothing(m, s) /\ LeavesTenants(m, s)
  BY <1>2, CodedGood
<1>5. CodeMoved(m, s, "business", "vula-grow")
  BY <1>0, CodedRows
<1> HIDE DEF s
<1>6. CodesGone(s.plans)
  BY <1>3, <1>5 DEF CodeMoved, Renames, CodesGone, Retired
<1>7. Phase(s, 15)
  BY <1>3, <1>5, <1>6 DEF CodeMoved, Renames, Phase, PlansOnly
<1>8. TakesNothing(r, s) /\ LeavesTenants(r, s)
  BY <1>2, <1>4 DEF TakesNothing, LeavesTenants
<1> QED
  BY <1>1, <1>4, <1>7, <1>8 DEF Done
-----------------------------------------------------------------------------
(* The rows a boot adds.                                                    *)

LEMMA LeastMember ==
  ASSUME NEW S \in SUBSET Nat, S # {}
  PROVE  \E n \in S : \A m \in S : n <= m
<1>1. PICK n \in S : \A m \in S : <<m, n>> \notin OpToRel(<, Nat)
  BY NatLessThanWellFounded, WFMin, Zenon
<1>2. ASSUME NEW m \in S PROVE ~(m < n)
  BY <1>1, Zenon DEF OpToRel
<1>3. ASSUME NEW m \in S PROVE n <= m
  BY <1>2, <1>3
<1> QED
  BY <1>3

(* A finite set of numbers has a greatest one: a smallest one without would  *)
(* have it from the set without one of its members.                          *)
LEMMA GreatestMember ==
  ASSUME NEW S \in SUBSET Nat, IsFiniteSet(S), S # {}
  PROVE  \E m \in S : \A n \in S : n <= m
<1> DEFINE Has(T) == \E m \in T : \A n \in T : n <= m
           Bad == {Cardinality(T) : T \in {U \in SUBSET Nat : IsFiniteSet(U) /\ U # {} /\ ~Has(U)}}
<1>1. SUFFICES ASSUME ~Has(S) PROVE FALSE
  OBVIOUS
<1>2. Bad \in SUBSET Nat /\ Bad # {}
  <2>1. Cardinality(S) \in Bad
    BY <1>1
  <2> QED
    BY <2>1, FS_CardinalityType
<1> HIDE DEF Bad
<1>3. PICK k \in Bad : \A m \in Bad : k <= m
  BY <1>2, LeastMember
<1>4. PICK T \in SUBSET Nat : IsFiniteSet(T) /\ T # {} /\ ~Has(T) /\ Cardinality(T) = k
  BY DEF Bad
<1>5. PICK x \in T : TRUE
  BY <1>4
<1>6. IsFiniteSet(T \ {x}) /\ Cardinality(T \ {x}) = k - 1 /\ T \ {x} \in SUBSET Nat
  BY <1>4, <1>5, FS_RemoveElement
<1>7. k \in Nat
  BY <1>2
<1>8. CASE T \ {x} = {}
  <2>1. \A n \in T : n = x
    BY <1>8
  <2> QED
    BY <1>4, <1>5, <2>1
<1>9. CASE T \ {x} # {}
  <2>1. Has(T \ {x})
    <3>1. k - 1 \notin Bad
      BY <1>3, <1>7
    <3> QED
      BY <1>6, <1>9, <3>1 DEF Bad
  <2>2. PICK m \in T \ {x} : \A n \in T \ {x} : n <= m
    BY <2>1
  <2>3. m \in Nat /\ x \in Nat
    BY <1>5, <2>2
  <2>4. CASE x <= m
    BY <1>4, <2>2, <2>4
  <2>5. CASE m < x
    <3>1. \A n \in T : n \in Nat /\ n <= x
      BY <2>2, <2>3, <2>5
    <3> QED
      BY <1>4, <1>5, <3>1
  <2> QED
    BY <2>3, <2>4, <2>5
<1> QED
  BY <1>8, <1>9

(* The next id is none of the table's. *)
LEMMA NextId ==
  ASSUME NEW S, IsFiniteSet(S), S \subseteq Nat \ {0}
  PROVE  Max({0} \cup S) + 1 \in Nat \ {0} /\ Max({0} \cup S) + 1 \notin S
<1> DEFINE T == {0} \cup S
<1>1. IsFiniteSet(T) /\ T \in SUBSET Nat /\ T # {}
  BY FS_AddElement
<1>2. \E m \in T : \A n \in T : n <= m
  BY <1>1, GreatestMember
<1>3. Max(T) \in T /\ \A n \in T : n <= Max(T)
  BY <1>1, <1>2 DEF Max
<1> HIDE DEF T
<1>4. Max(T) \in Nat
  BY <1>1, <1>3
<1>5. Max(T) + 1 \notin T
  BY <1>3, <1>4
<1> QED
  BY <1>4, <1>5 DEF T
LEMMA SeedRowOK ==
  ASSUME NEW code
  PROVE  /\ RowOK(SeedRow(code)) /\ SeedRow(code).code = code /\ SeedRow(code).flat = 0
         /\ ~Unpriced(SeedRow(code))
<1>1. PriceList(DefaultPrices)
  <2>1. DOMAIN DefaultPrices = Sold /\ DefaultPrices = [k \in Sold |-> DefaultPrices[k]]
    BY DEF DefaultPrices
  <2>2. \A k \in Sold : DefaultPrices[k] \in Nat
    BY DEF DefaultPrices
  <2> QED
    BY <2>1, <2>2 DEF PriceList, Keys
<1>2. SeedRow(code).prices = DefaultPrices /\ SeedRow(code).features = {"stock_transfers"}
  BY DEF SeedRow
<1>3. RowOK(SeedRow(code))
  BY <1>1, <1>2 DEF RowOK, SeedRow, TillRate, StoreRate, Keys
<1> QED
  BY <1>3 DEF SeedRow, Unpriced, StoreRate

(* A code is added, of a row of its own; the others are as they were.        *)
LEMMA SeededCode ==
  ASSUME NEW r, NEW ed, Good(r, ed), r.shape # None, NEW code,
         code \notin {"retail", "business", "vula-standard"}
  PROVE  LET s == SeededWith(r, code)
         IN /\ Good(s, ed) /\ PlansOnly(r, s) /\ TakesNothing(r, s) /\ LeavesTenants(r, s)
            /\ Codes(s.plans) = Codes(r.plans) \cup {code}
            /\ code \in Codes(r.plans) => s = r
<1> DEFINE s == SeededWith(r, code)
           new == Max({0} \cup DOMAIN r.plans) + 1
           p == [i \in DOMAIN r.plans \cup {new} |->
                  IF i = new THEN SeedRow(code) ELSE r.plans[i]]
<1>0. RegistryOK(r) /\ PlansTable(r.plans)
  BY Fields DEF Good
<1>1. CASE code \in Codes(r.plans)
  <2>1. s = r
    BY <1>1 DEF SeededWith
  <2> QED
    BY <1>0, <1>1, <2>1, OtherFields DEF PlansOnly
<1>2. CASE code \notin Codes(r.plans)
  <2>1. new \in Nat \ {0} /\ new \notin DOMAIN r.plans
    BY <1>0, NextId DEF PlansTable
  <2>2. s = [r EXCEPT !.plans = p]
    BY <1>2 DEF SeededWith
  <2> HIDE DEF new
  <2>3. DOMAIN p = DOMAIN r.plans \cup {new} /\ p = [i \in DOMAIN p |-> p[i]]
    OBVIOUS
  <2>4. p[new] = SeedRow(code) /\ \A i \in DOMAIN r.plans : p[i] = r.plans[i]
    BY <2>1
  <2> HIDE DEF p
  <2>5. PlansTable(p)
    <3>1. IsFiniteSet(DOMAIN p) /\ DOMAIN p \subseteq Nat \ {0}
      BY <1>0, <2>1, <2>3, FS_AddElement DEF PlansTable
    <3>2. \A i \in DOMAIN p : RowOK(p[i])
      BY <1>0, <2>3, <2>4, SeedRowOK DEF PlansTable
    <3>3. \A i \in DOMAIN r.plans : r.plans[i].code # code
      BY <1>2 DEF Codes
    <3>4. \A i, j \in DOMAIN p : p[i].code = p[j].code => i = j
      BY <1>0, <2>3, <2>4, <3>3, SeedRowOK DEF PlansTable
    <3> QED
      BY <2>3, <3>1, <3>2, <3>4 DEF PlansTable
  <2> HIDE DEF s
  <2>6. PlansOnly(r, s) /\ s.plans = p
    BY <1>0, <2>2, <2>5, PlansWritten
  <2>7. Codes(p) = Codes(r.plans) \cup {code}
    BY <2>3, <2>4, SeedRowOK DEF Codes
  <2>8. FlatKept(s, DOMAIN p \ ed)
    BY <2>3, <2>4, <2>6, SeedRowOK DEF Good, FlatKept, PlansOnly
  <2>9. \A i \in DOMAIN p : p[i].flat > 0 => p[i].code # "vula-standard"
    BY <2>3, <2>4, SeedRowOK DEF Good
  <2>11. Good(s, ed)
    BY <2>3, <2>6, <2>8, <2>9 DEF Good, PlansOnly
  <2>12. \A c \in Companies : r.plan[c] # new /\ r.plan[c] \in DOMAIN r.plans \cup {0}
    BY <2>1 DEF Good
  <2>13. 0 \notin DOMAIN r.plans /\ 0 # new
    BY <1>0, <2>1 DEF PlansTable
  <2>14. \A c \in Companies : PlanOf(s, c) = PlanOf(r, c) /\ Entitled(s, c) = Entitled(r, c)
    BY <2>3, <2>4, <2>6, <2>12, <2>13 DEF PlanOf, Entitled, PlansOnly
  <2>15. TakesNothing(r, s) /\ LeavesTenants(r, s)
    BY <2>6, <2>14 DEF TakesNothing, LeavesTenants, PlansOnly, Charge, Settled
  <2> QED
    BY <1>2, <2>6, <2>7, <2>11, <2>15 DEF s
<1> QED
  BY <1>1, <1>2

LEMMA SeededDone ==
  ASSUME NEW r, NEW ed, Good(r, ed), Phase(r, 15)
  PROVE  Done(r, Seeded(r), ed, 15)
<1> DEFINE m == SeededWith(r, "vula-start")
           s == SeededWith(m, "vula-grow")
<1>1. Seeded(r) = s
  BY Seeds DEF Seeded
<1>2. r.shape # None
  BY DEF Phase
<1>3. /\ Good(m, ed) /\ PlansOnly(r, m) /\ TakesNothing(r, m) /\ LeavesTenants(r, m)
      /\ Codes(m.plans) = Codes(r.plans) \cup {"vula-start"}
  BY <1>2, SeededCode
<1> HIDE DEF m
<1>4. m.shape # None
  BY <1>2, <1>3 DEF PlansOnly
<1>5. /\ Good(s, ed) /\ PlansOnly(m, s) /\ TakesNothing(m, s) /\ LeavesTenants(m, s)
      /\ Codes(s.plans) = Codes(m.plans) \cup {"vula-grow"}
  BY <1>3, <1>4, SeededCode
<1> HIDE DEF s
<1>6. Codes(s.plans) = Codes(r.plans) \cup {"vula-start", "vula-grow"}
  BY <1>3, <1>5
<1>7. SeedsIn(s.plans)
  BY <1>6, Seeds DEF SeedsIn
<1>8. CodesGone(s.plans)
  BY <1>6 DEF Phase, CodesGone, Retired
<1>9. Phase(s, 16)
  BY <1>3, <1>5, <1>7, <1>8 DEF Phase, PlansOnly
<1>10. TakesNothing(r, s) /\ LeavesTenants(r, s)
  BY <1>3, <1>5 DEF TakesNothing, LeavesTenants
<1> QED
  BY <1>1, <1>5, <1>9, <1>10 DEF Done
-----------------------------------------------------------------------------
(* Corrections of rates and prices.                                         *)

(* What every migration of a row keeps, and a correction.                    *)
KeepsRow(row, new) ==
  /\ new.code = row.code /\ new.flat = row.flat /\ new.created = row.created
  /\ row.code # "vula-standard" /\ row.mode = "custom" => SameRates(row, new)
SameRow(row, new) == KeepsRow(row, new) /\ new.features = row.features

LEMMA RowsGood ==
  ASSUME NEW r, NEW ed, Good(r, ed), r.shape \notin {None, "flat"},
         NEW p, p = [i \in DOMAIN r.plans |-> p[i]],
         \A i \in DOMAIN r.plans : RowOK(p[i]) /\ KeepsRow(r.plans[i], p[i])
  PROVE  LET s == [r EXCEPT !.plans = p]
         IN /\ Good(s, ed) /\ PlansOnly(r, s) /\ s.plans = p
            /\ DOMAIN p = DOMAIN r.plans /\ Codes(p) = Codes(r.plans)
<1> DEFINE s == [r EXCEPT !.plans = p]
<1>0. RegistryOK(r) /\ PlansTable(r.plans)
  BY Fields DEF Good
<1>1. \A i, j \in DOMAIN r.plans : p[i].code = p[j].code => i = j
  BY <1>0 DEF KeepsRow, PlansTable
<1>2. PlansTable(p) /\ DOMAIN p = DOMAIN r.plans
  BY <1>0, <1>1, RowsRewritten
<1>3. PlansOnly(r, s) /\ s.plans = p
  BY <1>0, <1>2, PlansWritten
<1> HIDE DEF s
<1>4. Codes(p) = Codes(r.plans)
  BY <1>2 DEF Codes, KeepsRow
<1>5. FlatKept(s, DOMAIN p \ ed)
  <2>1. ASSUME NEW i \in DOMAIN p \ ed, p[i].flat > 0
        PROVE  p[i].mode = "custom" /\ p[i].till = 0 /\ p[i].store = 0
    <3>1. r.plans[i].flat > 0 /\ i \in DOMAIN r.plans \ ed
      BY <1>2, <2>1 DEF KeepsRow
    <3>2. /\ r.plans[i].mode = "custom" /\ r.plans[i].till = 0 /\ r.plans[i].store = 0
          /\ r.plans[i].code # "vula-standard"
      BY <3>1 DEF Good, FlatKept
    <3> QED
      BY <3>1, <3>2 DEF KeepsRow, SameRates
  <2> QED
    BY <1>3, <2>1 DEF FlatKept
<1>6. \A i \in DOMAIN p : p[i].flat > 0 => p[i].code # "vula-standard"
  BY <1>2 DEF KeepsRow, Good
<1>7. Good(s, ed)
  BY <1>2, <1>3, <1>5, <1>6 DEF Good, PlansOnly
<1> QED
  BY <1>2, <1>3, <1>4, <1>7 DEF s

LEMMA Corrected ==
  ASSUME NEW r, NEW ed, Good(r, ed), r.shape \notin {None, "flat"},
         NEW p, p = [i \in DOMAIN r.plans |-> p[i]],
         \A i \in DOMAIN r.plans : RowOK(p[i]) /\ SameRow(r.plans[i], p[i])
  PROVE  LET s == [r EXCEPT !.plans = p]
         IN /\ Good(s, ed) /\ PlansOnly(r, s) /\ TakesNothing(r, s) /\ LeavesTenants(r, s)
            /\ s.plans = p /\ DOMAIN p = DOMAIN r.plans /\ Codes(p) = Codes(r.plans)
<1> DEFINE s == [r EXCEPT !.plans = p]
<1>1. \A i \in DOMAIN r.plans : KeepsRow(r.plans[i], p[i])
  BY DEF SameRow
<1>2. /\ Good(s, ed) /\ PlansOnly(r, s) /\ s.plans = p
      /\ DOMAIN p = DOMAIN r.plans /\ Codes(p) = Codes(r.plans)
  BY <1>1, RowsGood
<1> HIDE DEF s
<1>3. TakesNothing(r, s) /\ LeavesTenants(r, s)
  BY <1>2, RowsKept DEF SameRow, KeepsRow, PlansOnly
<1> QED
  BY <1>2, <1>3 DEF s

(* A correction that changes no row changes nothing.                         *)
LEMMA NotCorrected ==
  ASSUME NEW r, RegistryOK(r), NEW p, p = [i \in DOMAIN r.plans |-> p[i]],
         \A i \in DOMAIN r.plans : p[i] = r.plans[i]
  PROVE  [r EXCEPT !.plans = p] = r
<1>1. r.plans = [i \in DOMAIN r.plans |-> r.plans[i]]
  BY Fields DEF PlansTable
<1>2. p = r.plans
  BY <1>1
<1> QED
  BY <1>2 DEF RegistryOK

LEMMA Rated ==
  ASSUME NEW row, RowOK(row)
  PROVE  LET new == [row EXCEPT !.mode = "per_store", !.till = TillRate, !.store = StoreRate]
         IN /\ RowOK(new) /\ new.mode = "per_store" /\ new.store = StoreRate
            /\ new.code = row.code /\ new.flat = row.flat /\ new.created = row.created
            /\ new.features = row.features /\ new.prices = row.prices
<1> DEFINE new == [row EXCEPT !.mode = "per_store", !.till = TillRate, !.store = StoreRate]
<1>1. /\ new.mode = "per_store" /\ new.store = StoreRate /\ new.till = TillRate
      /\ new.code = row.code /\ new.flat = row.flat /\ new.created = row.created
      /\ new.features = row.features /\ new.prices = row.prices
  BY DEF RowOK
<1>2. TillRate \in Nat /\ StoreRate \in Nat
  BY DEF TillRate, StoreRate
<1>3. RowOK(new)
  BY <1>2 DEF RowOK
<1> QED
  BY <1>1, <1>3

LEMMA RefreshedDone ==
  ASSUME NEW r, NEW ed, Good(r, ed), Phase(r, 16)
  PROVE  Done(r, Refreshed(r), ed, 16)
<1> DEFINE p == [i \in DOMAIN r.plans |-> RefreshedRow(r.plans[i])]
           s == [r EXCEPT !.plans = p]
<1>1. Refreshed(r) = s
  BY DEF Refreshed
<1>2. ASSUME NEW i \in DOMAIN r.plans
      PROVE  /\ RowOK(p[i]) /\ SameRow(r.plans[i], p[i])
             /\ r.plans[i].code \in ToSet(SeedCodes) => ~Unpriced(p[i])
  <2>1. RowOK(r.plans[i])
    BY <1>2, Fields DEF Good, PlansTable
  <2>2. p[i] = RefreshedRow(r.plans[i])
    BY <1>2
  <2> DEFINE row == r.plans[i]
             new == [row EXCEPT !.mode = "per_store", !.till = TillRate, !.store = StoreRate]
  <2>3. CASE row.code \in ToSet(SeedCodes) /\ Unpriced(row)
    <3>1. p[i] = new
      BY <2>2, <2>3 DEF RefreshedRow
    <3>2. /\ RowOK(new) /\ new.mode = "per_store" /\ new.store = StoreRate
          /\ new.code = row.code /\ new.flat = row.flat /\ new.created = row.created
          /\ new.features = row.features /\ new.prices = row.prices
      BY <2>1, Rated
    <3>3. row.mode # "custom"
      BY <2>3 DEF Unpriced
    <3> HIDE DEF new, row
    <3>4. SameRow(row, new) /\ ~Unpriced(new)
      BY <3>2, <3>3 DEF SameRow, KeepsRow, Unpriced, StoreRate
    <3> QED
      BY <3>1, <3>2, <3>4 DEF row
  <2>4. CASE ~(row.code \in ToSet(SeedCodes) /\ Unpriced(row))
    <3>1. p[i] = row
      BY <2>2, <2>4 DEF RefreshedRow
    <3> QED
      BY <2>1, <2>4, <3>1 DEF SameRow, KeepsRow, SameRates
  <2> QED
    BY <2>3, <2>4
<1>3. p = [i \in DOMAIN r.plans |-> p[i]]
  OBVIOUS
<1>4. r.shape \notin {None, "flat"}
  BY DEF Phase
<1> HIDE DEF p
<1>5. /\ Good(s, ed) /\ PlansOnly(r, s) /\ TakesNothing(r, s) /\ LeavesTenants(r, s)
      /\ s.plans = p /\ DOMAIN p = DOMAIN r.plans /\ Codes(p) = Codes(r.plans)
  BY <1>2, <1>3, <1>4, Corrected
<1> HIDE DEF s
<1>6. SeedsPriced(p)
  BY <1>2, <1>5 DEF SeedsPriced, SameRow, KeepsRow
<1>7. Phase(s, 17)
  BY <1>5, <1>6 DEF Phase, PlansOnly, CodesGone, SeedsIn
<1> QED
  BY <1>1, <1>5, <1>7 DEF Done

(* The facts about rates that a correction may not lose.                     *)
LEMMA StillPriced ==
  ASSUME NEW r, NEW p, DOMAIN p = DOMAIN r.plans,
         \A i \in DOMAIN r.plans :
           /\ SameRow(r.plans[i], p[i])
           /\ r.plans[i].code # "vula-standard" => SameRates(r.plans[i], p[i])
  PROVE  SeedsPriced(r.plans) => SeedsPriced(p)
BY Seeds DEF SeedsPriced, SameRow, KeepsRow, SameRates, Unpriced

LEMMA WhatsAppDone ==
  ASSUME NEW r, NEW ed, Good(r, ed), Phase(r, 25), Priced(r.plans), Shut(r.plans)
  PROVE  LET s == WhatsAppPriced(r)
         IN Done(r, s, ed, 25) /\ Priced(s.plans) /\ Shut(s.plans)
<1>1. CASE r.version >= 1
  <2>1. WhatsAppPriced(r) = r
    BY <1>1 DEF WhatsAppPriced
  <2> QED
    BY <2>1, OtherFields DEF Done, Phase
<1>2. CASE ~(r.version >= 1)
  <2> DEFINE p == [i \in DOMAIN r.plans |-> WhatsAppRow(r.plans[i])]
             s == [r EXCEPT !.plans = p]
  <2>1. WhatsAppPriced(r) = s
    BY <1>2 DEF WhatsAppPriced
  <2>2. ASSUME NEW i \in DOMAIN r.plans
        PROVE  /\ RowOK(p[i]) /\ SameRow(r.plans[i], p[i]) /\ SameRates(r.plans[i], p[i])
               /\ DOMAIN r.plans[i].prices # {} => DOMAIN p[i].prices # {}
               /\ ShutRow(r.plans[i]) => ShutRow(p[i])
    <3> DEFINE row == r.plans[i]
               q == Merged(row.prices, [k \in {"whatsapp_cloud"} |-> DefaultPrices[k]])
    <3>1. RowOK(row) /\ PriceList(row.prices)
      BY <2>2, Fields DEF Good, PlansTable, RowOK
    <3>2. p[i] = WhatsAppRow(row)
      BY <2>2
    <3>3. "whatsapp_cloud" \in Sold /\ DefaultPrices["whatsapp_cloud"] = 5000
      BY DEF DefaultPrices, Sold
    <3>4. PriceList(q) /\ DOMAIN q = DOMAIN row.prices \cup {"whatsapp_cloud"}
      BY <3>1, <3>3 DEF PriceList, Merged, Keys
    <3> HIDE DEF q, row
    <3>5. ShutRow(row) => ShutRow([row EXCEPT !.prices = q])
      BY <3>1, <3>4 DEF ShutRow, Parted, ParentOf, RowOK
    <3>6. WhatsAppRow(row) = row \/ WhatsAppRow(row) = [row EXCEPT !.prices = q]
      BY DEF WhatsAppRow, q
    <3>7. DOMAIN q # {}
      BY <3>4
    <3> QED
      BY <3>1, <3>2, <3>4, <3>5, <3>6, <3>7 DEF RowOK, SameRow, KeepsRow, SameRates, row
  <2>3. p = [i \in DOMAIN r.plans |-> p[i]]
    OBVIOUS
  <2>4. r.shape \notin {None, "flat"}
    BY DEF Phase
  <2> HIDE DEF p
  <2>5. /\ Good(s, ed) /\ PlansOnly(r, s) /\ TakesNothing(r, s) /\ LeavesTenants(r, s)
        /\ s.plans = p /\ DOMAIN p = DOMAIN r.plans /\ Codes(p) = Codes(r.plans)
    BY <2>2, <2>3, <2>4, Corrected
  <2> HIDE DEF s
  <2>6. Phase(s, 26)
    BY <2>2, <2>5, StillPriced DEF Phase, PlansOnly, CodesGone, SeedsIn
  <2>7. Priced(p) /\ Shut(p)
    BY <2>2, <2>5 DEF Priced, Shut
  <2> QED
    BY <2>1, <2>5, <2>6, <2>7 DEF Done
<1> QED
  BY <1>1, <1>2
(* Setting the price of what a row prices already.                           *)
LEMMA Repriced ==
  ASSUME NEW row, RowOK(row), NEW k \in DOMAIN row.prices, NEW cents \in Nat
  PROVE  LET new == [row EXCEPT !.prices[k] = cents]
         IN /\ RowOK(new) /\ SameRow(row, new) /\ SameRates(row, new)
            /\ DOMAIN new.prices = DOMAIN row.prices
<1> DEFINE q == [row.prices EXCEPT ![k] = cents]
           new == [row EXCEPT !.prices = q]
<1>1. PriceList(row.prices)
  BY DEF RowOK
<1>2. DOMAIN q = DOMAIN row.prices /\ PriceList(q)
  BY <1>1 DEF PriceList
<1> HIDE DEF q
<1>3. /\ new.prices = q /\ new.code = row.code /\ new.flat = row.flat
      /\ new.created = row.created /\ new.features = row.features /\ new.mode = row.mode
      /\ new.till = row.till /\ new.store = row.store
  BY DEF RowOK
<1>4. RowOK(new)
  BY <1>2 DEF RowOK
<1> HIDE DEF new
<1>5. SameRow(row, new) /\ SameRates(row, new)
  BY <1>2, <1>3 DEF SameRow, KeepsRow, SameRates
<1>6. new = [row EXCEPT !.prices[k] = cents]
  BY DEF new, q
<1> QED
  BY <1>2, <1>3, <1>4, <1>5, <1>6

LEMMA PublishedRowOK ==
  ASSUME NEW row, RowOK(row)
  PROVE  LET new == PublishedRow(row)
         IN /\ RowOK(new) /\ SameRow(row, new) /\ DOMAIN new.prices = DOMAIN row.prices
            /\ row.code # "vula-standard" => SameRates(row, new)
<1> DEFINE head == IF "multi_store" \in DOMAIN row.prices /\ row.prices["multi_store"] = 9900
                   THEN [row EXCEPT !.prices["multi_store"] = 19900] ELSE row
           std == IF row.code = "vula-standard" /\ row.mode # "per_store"
                  THEN [head EXCEPT !.mode = "per_store", !.till = TillRate, !.store = StoreRate]
                  ELSE head
           Fine(new) == /\ RowOK(new) /\ SameRow(row, new)
                        /\ DOMAIN new.prices = DOMAIN row.prices
                        /\ row.code # "vula-standard" => SameRates(row, new)
<1>1. Fine(head)
  <2>1. CASE "multi_store" \in DOMAIN row.prices /\ row.prices["multi_store"] = 9900
    BY <2>1, Repriced
  <2>2. CASE ~("multi_store" \in DOMAIN row.prices /\ row.prices["multi_store"] = 9900)
    BY <2>2 DEF SameRow, KeepsRow, SameRates
  <2> QED
    BY <2>1, <2>2
<1> HIDE DEF head
<1>2. Fine(std)
  <2>1. CASE row.code = "vula-standard" /\ row.mode # "per_store"
    <3> DEFINE new == [head EXCEPT !.mode = "per_store", !.till = TillRate, !.store = StoreRate]
    <3>1. /\ RowOK(new) /\ new.code = head.code /\ new.flat = head.flat
          /\ new.created = head.created
          /\ new.features = head.features /\ new.prices = head.prices
      BY <1>1, Rated
    <3>2. std = new
      BY <2>1
    <3> HIDE DEF new, std
    <3> QED
      BY <1>1, <2>1, <3>1, <3>2 DEF SameRow, KeepsRow
  <2>2. CASE ~(row.code = "vula-standard" /\ row.mode # "per_store")
    BY <1>1, <2>2
  <2> QED
    BY <2>1, <2>2
<1>3. PublishedRow(row) =
        IF row.code = "vula-standard" /\ "whatsapp_cloud" \in DOMAIN row.prices
             /\ row.prices["whatsapp_cloud"] = 4900
        THEN [std EXCEPT !.prices["whatsapp_cloud"] = 5000] ELSE std
  BY DEF PublishedRow, head
<1> HIDE DEF std
<1>4. CASE row.code = "vula-standard" /\ "whatsapp_cloud" \in DOMAIN row.prices
             /\ row.prices["whatsapp_cloud"] = 4900
  <2> DEFINE new == [std EXCEPT !.prices["whatsapp_cloud"] = 5000]
  <2>1. "whatsapp_cloud" \in DOMAIN std.prices
    BY <1>2, <1>4
  <2>2. /\ RowOK(new) /\ SameRow(std, new) /\ DOMAIN new.prices = DOMAIN std.prices
    BY <1>2, <2>1, Repriced
  <2>3. PublishedRow(row) = new
    BY <1>3, <1>4
  <2> HIDE DEF new
  <2> QED
    BY <1>2, <1>4, <2>2, <2>3 DEF SameRow, KeepsRow
<1>5. CASE ~(row.code = "vula-standard" /\ "whatsapp_cloud" \in DOMAIN row.prices
             /\ row.prices["whatsapp_cloud"] = 4900)
  BY <1>2, <1>3, <1>5
<1> QED
  BY <1>4, <1>5

LEMMA PublishedDone ==
  ASSUME NEW r, NEW ed, Good(r, ed), Phase(r, 27), Priced(r.plans), Shut(r.plans)
  PROVE  LET s == Published(r)
         IN Done(r, s, ed, 27) /\ Priced(s.plans) /\ Shut(s.plans)
<1>1. CASE r.version >= 2
  <2>1. Published(r) = r
    BY <1>1 DEF Published
  <2> QED
    BY <2>1, OtherFields DEF Done, Phase
<1>2. CASE ~(r.version >= 2)
  <2> DEFINE p == [i \in DOMAIN r.plans |-> PublishedRow(r.plans[i])]
             s == [r EXCEPT !.plans = p]
  <2>1. Published(r) = s
    BY <1>2 DEF Published
  <2>2. ASSUME NEW i \in DOMAIN r.plans
        PROVE  /\ RowOK(p[i]) /\ SameRow(r.plans[i], p[i])
               /\ DOMAIN p[i].prices = DOMAIN r.plans[i].prices
               /\ r.plans[i].code # "vula-standard" => SameRates(r.plans[i], p[i])
    <3>1. RowOK(r.plans[i])
      BY <2>2, Fields DEF Good, PlansTable
    <3> QED
      BY <2>2, <3>1, PublishedRowOK
  <2>3. p = [i \in DOMAIN r.plans |-> p[i]]
    OBVIOUS
  <2>4. r.shape \notin {None, "flat"}
    BY DEF Phase
  <2> HIDE DEF p
  <2>5. /\ Good(s, ed) /\ PlansOnly(r, s) /\ TakesNothing(r, s) /\ LeavesTenants(r, s)
        /\ s.plans = p /\ DOMAIN p = DOMAIN r.plans /\ Codes(p) = Codes(r.plans)
    BY <2>2, <2>3, <2>4, Corrected
  <2> HIDE DEF s
  <2>6. Phase(s, 28)
    <3>1. SeedsPriced(r.plans) => SeedsPriced(p)
      BY <2>2, <2>5, StillPriced
    <3>2. /\ CodesGone(r.plans) => CodesGone(p)
          /\ SeedsIn(r.plans) => SeedsIn(p)
      BY <2>5 DEF CodesGone, SeedsIn
    <3> QED
      BY <2>5, <3>1, <3>2 DEF Phase, PlansOnly
  <2>7. SameKinds(r.plans, p)
    BY <2>2, <2>5 DEF SameKinds, SameRow
  <2>8. Priced(p) /\ Shut(p)
    BY <2>7, Kinds
  <2> QED
    BY <2>1, <2>5, <2>6, <2>8 DEF Done
<1> QED
  BY <1>1, <1>2
-----------------------------------------------------------------------------
(* Keys split from another, and bundled keys that become bought.              *)

LEMMA ChildrenClosed ==
  ASSUME NEW f
  PROVE  /\ f \subseteq WithChildren(f) /\ WithChildren(WithChildren(f)) = WithChildren(f)
         /\ f \subseteq Keys => WithChildren(f) \subseteq Keys
         /\ "customer_credit" \in WithChildren(f) <=> "customer_credit" \in f
         /\ "ai_assistant" \in WithChildren(f) <=> "ai_assistant" \in f
BY DEF WithChildren, Keys, Sold

LEMMA DefaultPriceList ==
  PriceList(DefaultPrices) /\ DOMAIN DefaultPrices = Sold /\ Sold # {}
<1>1. DOMAIN DefaultPrices = Sold /\ DefaultPrices = [k \in Sold |-> DefaultPrices[k]]
  BY DEF DefaultPrices
<1>2. \A k \in Sold : DefaultPrices[k] \in Nat
  BY DEF DefaultPrices
<1> QED
  BY <1>1, <1>2 DEF PriceList, Keys, Sold

LEMMA SplitRowOK ==
  ASSUME NEW row, RowOK(row)
  PROVE  LET new == SplitRow(row)
         IN /\ RowOK(new) /\ KeepsRow(row, new) /\ SameRates(row, new)
            /\ new.features = WithChildren(row.features)
            /\ DOMAIN new.prices # {}
            /\ WithChildren(row.features) = row.features /\ DOMAIN row.prices # {} => new = row
            /\ Parted(row) => Parted(new)
<1> DEFINE q == IF DOMAIN row.prices = {} THEN DefaultPrices ELSE row.prices
           f == WithChildren(row.features)
           new == [row EXCEPT !.features = f, !.prices = q]
<1>0. SplitRow(row) = new
  BY DEF SplitRow
<1>1. PriceList(q) /\ DOMAIN q # {} /\ (DOMAIN q = Sold \/ DOMAIN q = DOMAIN row.prices)
  BY DefaultPriceList DEF RowOK
<1>e. DOMAIN row.prices # {} => q = row.prices
  OBVIOUS
<1>2. f \subseteq Keys /\ row.features \subseteq f
  BY ChildrenClosed DEF RowOK
<1>3. \A k \in DOMAIN ParentOf : ParentOf[k] \in row.features => ParentOf[k] \in f
  BY <1>2
<1>4. f = row.features /\ DOMAIN row.prices # {} => new = row
  BY DEF RowOK
<1> HIDE DEF f, q
<1>5. /\ RowOK(new) /\ new.features = f /\ new.prices = q /\ new.mode = row.mode
      /\ new.till = row.till /\ new.store = row.store /\ new.code = row.code
      /\ new.flat = row.flat /\ new.created = row.created
  BY <1>1, <1>2 DEF RowOK
<1> HIDE DEF new
<1>6. Parted(row) => Parted(new)
  BY <1>3, <1>5, <1>e DEF Parted
<1> QED
  BY <1>0, <1>1, <1>4, <1>5, <1>6 DEF KeepsRow, SameRates, f

(* The plans grow by what was split off them, and price what they price; one  *)
(* that has its children and its prices is left alone.                        *)
LEMMA SplitDone ==
  ASSUME NEW r, NEW ed, Good(r, ed), NEW n \in {24, 32}, Phase(r, n)
  PROVE  LET s == Split(r)
         IN /\ Good(s, ed) /\ Phase(s, IF n = 24 THEN 25 ELSE 32) /\ TakesNothing(r, s)
            /\ s.tenants = r.tenants /\ s.columns = r.columns
            /\ Priced(s.plans) /\ Shut(s.plans)
            /\ NoneParted(s.plans) => NoneParted(r.plans)
            /\ ~Grants(r) => \A c \in Companies : Entitled(s, c) = Entitled(r, c)
            /\ Closed(r.plans) /\ Priced(r.plans) => s = r /\ ~Grants(r)
            /\ \A i \in DOMAIN r.plans :
                 \/ s.plans[i] = r.plans[i] \/ DOMAIN r.plans[i].prices = {}
                 \/ WithChildren(r.plans[i].features) # r.plans[i].features
<1> DEFINE p == [i \in DOMAIN r.plans |-> SplitRow(r.plans[i])]
           s == [r EXCEPT !.plans = p]
<1>0. Split(r) = s /\ RegistryOK(r) /\ PlansTable(r.plans)
  BY Fields DEF Split, Good
<1>1. ASSUME NEW i \in DOMAIN r.plans
      PROVE  /\ RowOK(p[i]) /\ KeepsRow(r.plans[i], p[i]) /\ SameRates(r.plans[i], p[i])
             /\ p[i].features = WithChildren(r.plans[i].features)
             /\ DOMAIN p[i].prices # {}
             /\ WithChildren(r.plans[i].features) = r.plans[i].features
                  /\ DOMAIN r.plans[i].prices # {} => p[i] = r.plans[i]
             /\ Parted(r.plans[i]) => Parted(p[i])
  <2>1. RowOK(r.plans[i])
    BY <1>0, <1>1 DEF PlansTable
  <2>2. p[i] = SplitRow(r.plans[i])
    BY <1>1
  <2> QED
    BY <2>1, <2>2, SplitRowOK
<1>2. p = [i \in DOMAIN r.plans |-> p[i]]
  OBVIOUS
<1>3. r.shape \notin {None, "flat"}
  BY DEF Phase
<1> HIDE DEF p
<1>4. /\ Good(s, ed) /\ PlansOnly(r, s) /\ s.plans = p
      /\ DOMAIN p = DOMAIN r.plans /\ Codes(p) = Codes(r.plans)
  BY <1>1, <1>2, <1>3, RowsGood
<1>5. (\A i \in DOMAIN r.plans : p[i] = r.plans[i]) => s = r
  BY <1>0, <1>2, NotCorrected
<1> HIDE DEF s
<1>6. Priced(p) /\ Shut(p) /\ (NoneParted(p) => NoneParted(r.plans))
  BY <1>1, <1>4, ChildrenClosed DEF Priced, Shut, ShutRow, NoneParted
<1>7. Phase(s, IF n = 24 THEN 25 ELSE 32)
  <2>1. SeedsPriced(r.plans) => SeedsPriced(p)
    BY <1>1, <1>4 DEF SeedsPriced, KeepsRow, SameRates, Unpriced
  <2>2. /\ CodesGone(r.plans) => CodesGone(p)
        /\ SeedsIn(r.plans) => SeedsIn(p)
    BY <1>4 DEF CodesGone, SeedsIn
  <2>3. CASE n = 24
    BY <1>4, <2>1, <2>2, <2>3 DEF Phase, PlansOnly
  <2>4. CASE n = 32
    BY <1>4, <2>1, <2>2, <2>4 DEF Phase, PlansOnly
  <2> QED
    BY <2>3, <2>4
<1>8. TakesNothing(r, s)
  <2>1. \A c \in Companies : PlanOf(s, c) = PlanOf(r, c)
    BY <1>1, <1>4 DEF PlanOf, PlansOnly, KeepsRow
  <2>2. \A c \in Companies : Entitled(r, c) \subseteq Entitled(s, c)
    BY <1>1, <1>4, ChildrenClosed DEF Entitled, PlansOnly
  <2> QED
    BY <1>4, <2>1, <2>2 DEF TakesNothing, PlansOnly, Charge, Settled
<1>9. ASSUME ~Grants(r) PROVE \A c \in Companies : Entitled(s, c) = Entitled(r, c)
  BY <1>1, <1>4, <1>9 DEF Entitled, PlansOnly, Grants
<1>10. ASSUME Closed(r.plans), Priced(r.plans) PROVE s = r /\ ~Grants(r)
  BY <1>1, <1>5, <1>10 DEF Closed, Priced, Grants
<1>11. \A i \in DOMAIN r.plans :
         \/ s.plans[i] = r.plans[i] \/ DOMAIN r.plans[i].prices = {}
         \/ WithChildren(r.plans[i].features) # r.plans[i].features
  BY <1>1, <1>4
<1> QED
  BY <1>0, <1>4, <1>6, <1>7, <1>8, <1>9, <1>10, <1>11 DEF PlansOnly
LEMMA SoldRowOK ==
  ASSUME NEW row, RowOK(row)
  PROVE  LET new == SoldRow(row)
         IN /\ RowOK(new) /\ KeepsRow(row, new) /\ SameRates(row, new)
            /\ new.features = row.features \ Bundled(row) /\ new.prices = row.prices
            /\ Bundled(new) = {} /\ Bundled(row) \subseteq row.features
            /\ ShutRow(row) => ShutRow(new)
            /\ Parted(row) => Parted(new)
<1> DEFINE f == row.features \ Bundled(row)
           new == [row EXCEPT !.features = f]
<1>0. SoldRow(row) = new
  BY DEF SoldRow
<1>1. f \subseteq Keys /\ f \subseteq row.features /\ f \cap DOMAIN row.prices = {}
  BY DEF RowOK, Bundled
<1>2. Bundled(row) \subseteq row.features
  BY DEF Bundled
<1>3. ASSUME WithChildren(row.features) = row.features, ~Parted(row)
      PROVE  WithChildren(f) = f
  <2>1. "customer_credit" \in f => "layby" \in f
    BY <1>3 DEF Parted, ParentOf, WithChildren, Bundled
  <2>2. "ai_assistant" \in f => "invoice_import" \in f
    BY <1>3 DEF Parted, ParentOf, WithChildren, Bundled
  <2> QED
    BY <2>1, <2>2 DEF WithChildren
<1>p. \A k : k \in row.features \ DOMAIN row.prices => k \in f
  BY DEF Bundled
<1>d. f = row.features \ Bundled(row)
  OBVIOUS
<1> HIDE DEF f
<1>4. /\ RowOK(new) /\ new.features = f /\ new.prices = row.prices /\ new.mode = row.mode
      /\ new.till = row.till /\ new.store = row.store /\ new.code = row.code
      /\ new.flat = row.flat /\ new.created = row.created
  BY <1>1 DEF RowOK
<1> HIDE DEF new
<1>5. Parted(row) => Parted(new)
  BY <1>4, <1>p DEF Parted
<1>6. Bundled(new) = {}
  BY <1>1, <1>4 DEF Bundled
<1>7. ShutRow(row) => ShutRow(new)
  BY <1>3, <1>4, <1>5 DEF ShutRow
<1> QED
  BY <1>0, <1>2, <1>4, <1>5, <1>6, <1>7, <1>d DEF KeepsRow, SameRates

LEMMA SoldToOK ==
  ASSUME NEW sub, SubscriptionRow(sub), NEW row, RowOK(row)
  PROVE  LET new == SoldTo(sub, row)
         IN /\ SubscriptionRow(new) /\ new.bought = sub.bought \cup Bundled(row)
            /\ new.fee = sub.fee
<1> DEFINE b == Bundled(row)
           a == Merged(sub.agreed, [k \in b |-> row.prices[k]])
<1>1. b \subseteq Keys
  BY DEF Bundled, RowOK
<1>2. DOMAIN a = sub.bought \cup b
  BY DEF Merged, SubscriptionRow
<1>3. SoldTo(sub, row) = [sub EXCEPT !.bought = sub.bought \cup b, !.agreed = a]
  BY DEF SoldTo, BoughtWith, SubscriptionRow
<1> HIDE DEF a, b
<1>4. LET new == [sub EXCEPT !.bought = sub.bought \cup b, !.agreed = a]
      IN SubscriptionRow(new) /\ new.bought = sub.bought \cup b /\ new.fee = sub.fee
  BY <1>1, <1>2 DEF SubscriptionRow
<1> QED
  BY <1>3, <1>4 DEF b

(* What a plan no longer includes its clients have bought.                    *)
LEMMA MovedOne ==
  ASSUME NEW r, NEW ed, Good(r, ed), NEW n \in {29, 32}, Phase(r, n),
         NEW i \in DOMAIN r.plans
  PROVE  LET s == Moved(r, i)
         IN /\ Good(s, ed) /\ Phase(s, n) /\ TakesNothing(r, s) /\ LeavesTenants(r, s)
            /\ Priced(r.plans) => Priced(s.plans)
            /\ Shut(r.plans) => Shut(s.plans)
            /\ NoneParted(s.plans) => NoneParted(r.plans)
            /\ \A j \in DOMAIN r.plans : j # i => s.plans[j] = r.plans[j]
<1> DEFINE s == Moved(r, i)
           p == [j \in DOMAIN r.plans |-> IF j = i THEN SoldRow(r.plans[j]) ELSE r.plans[j]]
           t == [r EXCEPT !.plans = p]
           w == [c \in Companies |->
                  IF r.plan[c] # i THEN r.subs[c] ELSE SoldTo(r.subs[c], r.plans[i])]
<1>0. /\ RegistryOK(r) /\ PlansTable(r.plans)
      /\ r.plans = [j \in DOMAIN r.plans |-> r.plans[j]]
      /\ \A j \in DOMAIN r.plans : RowOK(r.plans[j])
      /\ \A c \in Companies : SubscriptionRow(r.subs[c])
  BY Fields DEF Good, PlansTable
<1>1. ASSUME NEW j \in DOMAIN r.plans
      PROVE  /\ RowOK(p[j]) /\ KeepsRow(r.plans[j], p[j]) /\ SameRates(r.plans[j], p[j])
             /\ p[j].prices = r.plans[j].prices
             /\ p[j].features = IF j = i THEN r.plans[j].features \ Bundled(r.plans[j])
                                ELSE r.plans[j].features
             /\ j # i => p[j] = r.plans[j]
             /\ ShutRow(r.plans[j]) => ShutRow(p[j])
             /\ Parted(r.plans[j]) => Parted(p[j])
  <2>1. CASE j = i
    BY <1>0, <1>1, <2>1, SoldRowOK
  <2>2. CASE j # i
    BY <1>0, <1>1, <2>2 DEF KeepsRow, SameRates
  <2> QED
    BY <2>1, <2>2
<1>2. p = [j \in DOMAIN r.plans |-> p[j]] /\ DOMAIN p = DOMAIN r.plans
  OBVIOUS
<1>3. ASSUME NEW c \in Companies
      PROVE  /\ SubscriptionRow(w[c]) /\ w[c].fee = r.subs[c].fee
             /\ w[c].bought = IF r.plan[c] = i THEN r.subs[c].bought \cup Bundled(r.plans[i])
                              ELSE r.subs[c].bought
  BY <1>0, <1>3, SoldToOK
<1>4. w = [c \in Companies |-> w[c]]
  OBVIOUS
<1>5. s = [t EXCEPT !.subs = w]
  <2>1. [r.plans EXCEPT ![i] = SoldRow(@)] = p
    BY <1>0
  <2> QED
    BY <1>0, <2>1 DEF Moved, RegistryOK
<1>6. r.shape \notin {None, "flat"}
  BY DEF Phase
<1> HIDE DEF p, w
<1>a. /\ \A j \in DOMAIN r.plans : RowOK(p[j]) /\ KeepsRow(r.plans[j], p[j])
      /\ \A j \in DOMAIN r.plans : p[j].created = r.plans[j].created
      /\ \A c \in Companies : SubscriptionRow(w[c])
      /\ \A c \in Companies : w[c].fee = r.subs[c].fee
  BY <1>1, <1>3 DEF KeepsRow
<1>7. /\ Good(t, ed) /\ PlansOnly(r, t) /\ t.plans = p
      /\ Codes(p) = Codes(r.plans)
  BY <1>2, <1>6, <1>a, RowsGood
<1> HIDE DEF t
<1>8. RegistryOK(t)
  BY <1>7 DEF Good
<1>9. RegistryOK(s)
  BY <1>a, <1>4, <1>5, <1>8, WithSubs
<1>10. /\ s.plans = p /\ s.spare = r.spare /\ s.plan = r.plan /\ s.subs = w
       /\ s.charged = r.charged /\ s.tenants = r.tenants /\ s.columns = r.columns
       /\ s.shape = r.shape /\ s.invoice = r.invoice /\ s.onceOff = r.onceOff
       /\ s.plansRef = r.plansRef /\ s.settings = r.settings /\ s.storesCheck = r.storesCheck
       /\ s.version = r.version
  BY <1>5, <1>7, <1>8 DEF PlansOnly, RegistryOK
<1> HIDE DEF s
<1>11. Good(s, ed)
  <2>1. FlatKept(s, DOMAIN s.plans \ ed)
    BY <1>7, <1>10 DEF Good, FlatKept, PlansOnly
  <2>2. /\ s.spare = NoPrices
        /\ \A c \in Companies : s.plan[c] \in DOMAIN s.plans \cup {0}
        /\ s.shape = None => s.plans = NoPrices
        /\ ~s.invoice.legacy => s.invoice.onboarding = 0
        /\ \A j \in DOMAIN s.plans : s.plans[j].flat > 0 => s.plans[j].code # "vula-standard"
    BY <1>2, <1>7, <1>10, <1>6 DEF Good, PlansOnly
  <2>3. \A c \in Companies : s.charged[c] => s.subs[c].fee \in {None, "paid"}
    BY <1>a, <1>10 DEF Good
  <2> QED
    BY <1>9, <2>1, <2>2, <2>3 DEF Good
<1>12. Phase(s, n)
  <2>1. SeedsPriced(r.plans) => SeedsPriced(p)
    BY <1>1, <1>2 DEF SeedsPriced, KeepsRow, SameRates, Unpriced
  <2>2. /\ CodesGone(r.plans) => CodesGone(p)
        /\ SeedsIn(r.plans) => SeedsIn(p)
    BY <1>7 DEF CodesGone, SeedsIn
  <2>3. \A c \in Companies : r.subs[c].fee # None => s.subs[c].fee # None
    BY <1>a, <1>10
  <2> QED
    BY <1>10, <2>1, <2>2, <2>3 DEF Phase
<1>13. \A c \in Companies : PlanOf(s, c) = PlanOf(r, c)
  BY <1>a, <1>2, <1>10 DEF PlanOf
<1>14. \A c \in Companies : Entitled(s, c) = Entitled(r, c)
  <2>1. Bundled(r.plans[i]) \subseteq r.plans[i].features
    BY DEF Bundled
  <2> SUFFICES ASSUME NEW c \in Companies PROVE Entitled(s, c) = Entitled(r, c)
    OBVIOUS
  <2>2. w[c].bought = IF r.plan[c] = i THEN r.subs[c].bought \cup Bundled(r.plans[i])
                      ELSE r.subs[c].bought
    BY <1>3
  <2>3. \A j \in DOMAIN r.plans :
          p[j].features = IF j = i THEN r.plans[j].features \ Bundled(r.plans[j])
                          ELSE r.plans[j].features
    BY <1>1
  <2> QED
    BY <1>2, <1>10, <2>1, <2>2, <2>3 DEF Entitled
<1>15. TakesNothing(r, s) /\ LeavesTenants(r, s)
  BY <1>3, <1>10, <1>13, <1>14 DEF TakesNothing, LeavesTenants, Charge, Settled
<1>16. /\ Priced(r.plans) => Priced(s.plans)
       /\ Shut(r.plans) => Shut(s.plans)
       /\ NoneParted(s.plans) => NoneParted(r.plans)
  BY <1>1, <1>2, <1>10 DEF Priced, Shut, NoneParted
<1> QED
  BY <1>1, <1>10, <1>11, <1>12, <1>15, <1>16 DEF s
-----------------------------------------------------------------------------
(* A boot after a boot that completed finds its work done.                   *)

LEMMA ScalarsLeft ==
  ASSUME NEW r, NEW ed, Good(r, ed), Phase(r, 32)
  PROVE  /\ Created(r) = r /\ Columned(r) = r /\ Restructured(r) = r /\ Recovered(r) = r
         /\ Widened(r) = r /\ Repaired(r) = r /\ PerStore(r) = r /\ Folded(r) = r
         /\ PerCompany(r) = r /\ Kinded(r) = r /\ WhatsAppPriced(r) = r
         /\ Versioned(r, 1) = r /\ Versioned(r, 2) = r /\ Published(r) = r
<1>1. Recovered(r) = r /\ Repaired(r) = r /\ PerCompany(r) = r /\ Kinded(r) = r
  BY DEF Good, RegistryOK, Phase, Recovered, Repaired, PerCompany, Kinded
<1> QED
  BY <1>1 DEF Phase, Created, Columned, Restructured, Widened, PerStore, Folded,
              WhatsAppPriced, Versioned, Published

LEMMA InvoiceLeft ==
  ASSUME NEW r, NEW ed, Good(r, ed), Phase(r, 32)
  PROVE  Dropped(r) = r /\ Purposed(r) = r
<1>1. r.invoice \in InvoiceRow /\ ~r.invoice.legacy /\ r.invoice.onboarding = 0
  <2>1. RegistryOK(r) /\ (~r.invoice.legacy => r.invoice.onboarding = 0)
    BY DEF Good
  <2>2. ~r.invoice.legacy
    BY DEF Phase
  <2> QED
    BY <2>1, <2>2, Fields
<1>2. r.invoice.setup > 0 /\ r.invoice.amount = r.invoice.setup =>
        r.invoice.purpose = "onboarding"
  BY DEF Phase
<1>3. [r.invoice EXCEPT !.legacy = FALSE, !.onboarding = 0] = r.invoice
  BY <1>1 DEF InvoiceRow
<1>4. [r EXCEPT !.invoice = r.invoice] = r
  BY DEF Good, RegistryOK
<1>5. Dropped(r) = r
  BY <1>3, <1>4 DEF Dropped
<1>6. r.invoice.purpose = "onboarding" => [r.invoice EXCEPT !.purpose = "onboarding"] = r.invoice
  BY <1>1 DEF InvoiceRow
<1>7. Purposed(r) = r
  BY <1>2, <1>4, <1>6 DEF Purposed
<1> QED
  BY <1>5, <1>7

LEMMA ClientsLeft ==
  ASSUME NEW r, NEW ed, Good(r, ed), Phase(r, 32)
  PROVE  Subscribed(r) = r /\ Unflagged(r) = r
<1>1. r.subs = [c \in Companies |-> r.subs[c]]
  BY Fields DEF Good
<1>2. \A c \in Companies : r.subs[c].fee # None /\ ~r.charged[c]
  BY DEF Phase
<1>3. [r EXCEPT !.subs = r.subs] = r /\ [r EXCEPT !.charged = r.charged] = r
  BY DEF Good, RegistryOK
<1>4. Subscribed(r) = [r EXCEPT !.subs = [c \in Companies |-> r.subs[c]]]
  BY <1>2 DEF Subscribed
<1>5. r.charged = [c \in Companies |-> FALSE]
  <2>1. r.charged \in [Companies -> BOOLEAN]
    BY Fields DEF Good
  <2> QED
    BY <1>2, <2>1
<1> QED
  BY <1>1, <1>3, <1>4, <1>5 DEF Unflagged

LEMMA PlansLeft ==
  ASSUME NEW r, NEW ed, Good(r, ed), Phase(r, 32)
  PROVE  CodesRenamed(r) = r /\ Seeded(r) = r /\ Refreshed(r) = r
<1>1. CodesRenamed(r) = r
  <2>1. Coded(r, "starter", "vula-start") = r /\ Coded(r, "business", "vula-grow") = r
    BY DEF Phase, CodesGone, Retired, Coded
  <2> QED
    BY <2>1 DEF CodesRenamed, Retired
<1>2. Seeded(r) = r
  BY Seeds DEF Phase, SeedsIn, Seeded, SeededWith
<1>3. Refreshed(r) = r
  <2> DEFINE p == [i \in DOMAIN r.plans |-> RefreshedRow(r.plans[i])]
  <2>1. \A i \in DOMAIN r.plans : p[i] = r.plans[i]
    <3>1. SeedsPriced(r.plans)
      BY DEF Phase
    <3> QED
      BY <3>1 DEF SeedsPriced, RefreshedRow
  <2>2. p = [i \in DOMAIN r.plans |-> p[i]]
    OBVIOUS
  <2>3. Refreshed(r) = [r EXCEPT !.plans = p]
    BY DEF Refreshed
  <2> HIDE DEF p
  <2> QED
    BY <2>1, <2>2, <2>3, NotCorrected DEF Good
<1> QED
  BY <1>1, <1>2, <1>3

-----------------------------------------------------------------------------
(* What is written of the tenants.                                           *)

(* Only the tenants, and the tables that have classes.                       *)
TenantsOnly(r, s) ==
  /\ RegistryOK(s) /\ r.columns \subseteq s.columns
  /\ s.shape = r.shape /\ s.onceOff = r.onceOff /\ s.spare = r.spare /\ s.plans = r.plans
  /\ s.plansRef = r.plansRef /\ s.plan = r.plan /\ s.subs = r.subs /\ s.charged = r.charged
  /\ s.version = r.version /\ s.settings = r.settings /\ s.storesCheck = r.storesCheck
  /\ s.invoice = r.invoice

LEMMA TenantsWritten ==
  ASSUME NEW r, NEW s, NEW ed, Good(r, ed), TenantsOnly(r, s)
  PROVE  /\ Good(s, ed) /\ TakesNothing(r, s)
         /\ \A n \in Nat : Phase(r, n) => Phase(s, n)
         /\ \A c \in Companies : Entitled(s, c) = Entitled(r, c)
<1>1. Good(s, ed)
  BY DEF TenantsOnly, Good, FlatKept
<1>2. TakesNothing(r, s) /\ \A c \in Companies : Entitled(s, c) = Entitled(r, c)
  BY DEF TenantsOnly, TakesNothing, Charge, PlanOf, Entitled, Settled
<1>3. \A n \in Nat : Phase(r, n) => Phase(s, n)
  BY DEF TenantsOnly, Phase
<1> QED
  BY <1>1, <1>2, <1>3

(* The licence a tenant is known to hold is as it was.                        *)
LicenceAsWas(r, s, t) ==
  /\ s.tenants[t].push = r.tenants[t].push /\ s.tenants[t].held = r.tenants[t].held
  /\ s.tenants[t].app = r.tenants[t].app

LEMMA ColumnAdded ==
  ASSUME NEW r, RegistryOK(r), NEW table \in {"stores", "panels"}, NEW rows
  PROVE  LET s == WithColumn(r, table, rows)
         IN /\ TenantsOnly(r, s) /\ s.columns = r.columns \cup {table}
            /\ \A t \in Tenants :
                 /\ LicenceAsWas(r, s, t)
                 /\ t \notin rows \/ table \in r.columns => s.tenants[t] = r.tenants[t]
            /\ table \in r.columns => s = r
<1> DEFINE s == WithColumn(r, table, rows)
           ts == [t \in Tenants |-> IF t \in rows THEN [r.tenants[t] EXCEPT !.mode = "unprovisioned"]
                                    ELSE r.tenants[t]]
<1>1. CASE table \in r.columns
  <2>1. s = r
    BY <1>1 DEF WithColumn
  <2> QED
    BY <1>1, <2>1 DEF TenantsOnly, LicenceAsWas
<1>2. CASE table \notin r.columns
  <2>1. ASSUME NEW t \in Tenants
        PROVE  /\ ts[t] \in TenantRow /\ ts[t].push = r.tenants[t].push
               /\ ts[t].held = r.tenants[t].held /\ ts[t].app = r.tenants[t].app
               /\ t \notin rows => ts[t] = r.tenants[t]
    <3>1. r.tenants[t] \in TenantRow
      BY Fields
    <3> QED
      BY <3>1 DEF TenantRow
  <2>2. ts \in [Tenants -> TenantRow]
    BY <2>1
  <2>3. s = [r EXCEPT !.columns = @ \cup {table}, !.tenants = ts]
    BY <1>2 DEF WithColumn
  <2> HIDE DEF ts, s
  <2>4. TenantsOnly(r, s) /\ s.tenants = ts /\ s.columns = r.columns \cup {table}
    BY <2>2, <2>3 DEF RegistryOK, TenantsOnly
  <2> QED
    BY <1>2, <2>1, <2>4 DEF s, LicenceAsWas
<1> QED
  BY <1>1, <1>2

LEMMA ClassesGiven ==
  ASSUME NEW r, RegistryOK(r), NEW table, NEW rows
  PROVE  LET s == Classified(r, table, rows)
         IN /\ TenantsOnly(r, s) /\ s.columns = r.columns
            /\ \A t \in Tenants :
                 /\ LicenceAsWas(r, s, t)
                 /\ t \notin rows \/ table \in had => s.tenants[t] = r.tenants[t]
                 /\ t \in rows /\ table \notin had => ClassedIn(s, t)
            /\ table \in had => s = r
<1> DEFINE s == Classified(r, table, rows)
           ts == [t \in Tenants |-> IF t \in rows
                                    THEN [r.tenants[t] EXCEPT !.mode = ClassOf(r.tenants[t].app)]
                                    ELSE r.tenants[t]]
<1>1. CASE table \in had
  <2>1. s = r
    BY <1>1 DEF Classified
  <2> QED
    BY <1>1, <2>1 DEF TenantsOnly, LicenceAsWas
<1>2. CASE table \notin had
  <2>1. ASSUME NEW t \in Tenants
        PROVE  /\ ts[t] \in TenantRow /\ ts[t].push = r.tenants[t].push
               /\ ts[t].held = r.tenants[t].held /\ ts[t].app = r.tenants[t].app
               /\ t \notin rows => ts[t] = r.tenants[t]
               /\ t \in rows => ts[t].mode = ClassOf(ts[t].app)
    <3>1. r.tenants[t] \in TenantRow
      BY Fields
    <3>2. ClassOf(r.tenants[t].app) \in {"image", "dockerfile", "unprovisioned"}
      BY DEF ClassOf
    <3> QED
      BY <3>1, <3>2 DEF TenantRow
  <2>2. ts \in [Tenants -> TenantRow]
    BY <2>1
  <2>3. s = [r EXCEPT !.tenants = ts]
    BY <1>2 DEF Classified
  <2> HIDE DEF ts, s
  <2>4. TenantsOnly(r, s) /\ s.tenants = ts /\ s.columns = r.columns
    BY <2>2, <2>3 DEF RegistryOK, TenantsOnly
  <2> QED
    BY <1>2, <2>1, <2>4 DEF s, LicenceAsWas, ClassedIn
<1> QED
  BY <1>1, <1>2

LEMMA LicencesQueued ==
  ASSUME NEW r, RegistryOK(r), NEW rows
  PROVE  LET s == Queued(r, rows)
         IN /\ TenantsOnly(r, s) /\ s.columns = r.columns
            /\ \A t \in Tenants :
                 /\ t \notin rows => s.tenants[t] = r.tenants[t]
                 /\ t \in rows => s.tenants[t].push = "pending"
                 /\ s.tenants[t].mode = r.tenants[t].mode /\ s.tenants[t].app = r.tenants[t].app
<1> DEFINE s == Queued(r, rows)
           ts == [t \in Tenants |-> IF t \in rows THEN [r.tenants[t] EXCEPT !.push = "pending"]
                                    ELSE r.tenants[t]]
<1>1. ASSUME NEW t \in Tenants
      PROVE  /\ ts[t] \in TenantRow
             /\ ts[t].mode = r.tenants[t].mode /\ ts[t].app = r.tenants[t].app
             /\ t \notin rows => ts[t] = r.tenants[t]
             /\ t \in rows => ts[t].push = "pending"
  <2>1. r.tenants[t] \in TenantRow
    BY Fields
  <2> QED
    BY <2>1 DEF TenantRow
<1>2. ts \in [Tenants -> TenantRow]
  BY <1>1
<1>3. s = [r EXCEPT !.tenants = ts]
  BY DEF Queued
<1> HIDE DEF ts, s
<1>4. TenantsOnly(r, s) /\ s.tenants = ts /\ s.columns = r.columns
  BY <1>2, <1>3 DEF RegistryOK, TenantsOnly
<1> QED
  BY <1>1, <1>4 DEF s
-----------------------------------------------------------------------------
(* The steps of a boot keep the invariant.                                   *)

LEMMA PlaceNames ==
  /\ Place("ddl") = 1 /\ Place("read") = 2 /\ Place("store_column") = 3
  /\ Place("panel_column") = 4 /\ Place("store_class") = 5 /\ Place("panel_class") = 6
  /\ Place("columns") = 7 /\ Place("restructure") = 8 /\ Place("recover") = 9
  /\ Place("widen") = 10 /\ Place("repair") = 11 /\ Place("per_store") = 12
  /\ Place("retail") = 13 /\ Place("codes") = 14 /\ Place("seed") = 15
  /\ Place("refresh") = 16 /\ Place("fold") = 17 /\ Place("drop") = 18
  /\ Place("purpose") = 19 /\ Place("subscriptions") = 20 /\ Place("flag") = 21
  /\ Place("settings") = 22 /\ Place("warehouse") = 23 /\ Place("split") = 24
  /\ Place("whatsapp") = 25 /\ Place("version1") = 26 /\ Place("published") = 27
  /\ Place("version2") = 28 /\ Place("move") = 29 /\ Place("mark_stores") = 30
  /\ Place("mark_panels") = 31
BY Names, Places

(* A statement that is no part of the two windows leaves the tables' classes *)
(* as they were.                                                             *)
LEMMA WindowPlaces ==
  ASSUME NEW table \in {"stores", "panels"}, Window(table)
  PROVE  Place(pc) \in {4, 5, 6} /\ pc \notin {"serving", "down"}
BY PlaceNames, NoStep DEF Window, Unclassed, Booting

(* What a boot after a boot may still write.                                 *)
NothingAgain ==
  /\ settled /\ ~RetailLeft(reg.plans) /\ NoneParted(reg.plans) => reg' = reg
  /\ \A i \in DOMAIN reg.plans :
       \/ reg'.plans[i] = reg.plans[i]
       \/ Bundled(reg.plans[i]) # {} \/ DOMAIN reg.plans[i].prices = {}
       \/ WithChildren(reg.plans[i].features) # reg.plans[i].features
       \/ reg.plans[i].code = "retail" /\ RetailLeft(reg.plans)

(* What a statement of a boot leaves, whether it ran before or not.          *)
Runs(r, s, ed, k) ==
  /\ boots = 0 => Done(r, s, ed, k)
  /\ boots > 0 => /\ Good(s, ed) /\ Phase(s, 32) /\ TakesNothing(r, s) /\ LeavesTenants(r, s)
                  /\ RetailOnly(r, s)
  /\ k > 24 /\ Priced(r.plans) => Priced(s.plans)
  /\ k > 24 /\ Shut(r.plans) => Shut(s.plans)

LEMMA QuietStep ==
  ASSUME IInv, NEW k \in {1} \cup (7..23) \cup (25..28), NEW p, p = Order[k], NEW s,
         Goes(p, s), Quiet, Runs(reg, s, edited, k)
  PROVE  IInv' /\ TakesNothing(reg, reg') /\ (boots > 0 => NothingAgain)
<1>1. /\ pc = p /\ pc' = StepAfter(p) /\ reg' = s
      /\ had' = had /\ changed' = changed /\ settled' = settled /\ boots' = boots
      /\ edited' = edited /\ lost' = lost
      /\ pushing' = pushing /\ missed' = missed
  BY DEF Goes, Quiet, deliveries
<1>2. /\ pc \in Steps /\ Place(pc) = k /\ Place(pc') = k + 1 /\ pc' \in Steps
  BY <1>1, GoesOn
<1>3. boots \in Nat /\ Memory
  BY DEF IInv, Memory
<1>4. Reached = (IF boots > 0 THEN 32 ELSE k) /\ Reached' = IF boots > 0 THEN 32 ELSE k + 1
  BY <1>1, <1>2 DEF Reached
<1>5. /\ Good(s, edited) /\ TakesNothing(reg, s) /\ LeavesTenants(reg, s)
      /\ Phase(s, IF boots > 0 THEN 32 ELSE k + 1)
      /\ boots > 0 => RetailOnly(reg, s)
  BY <1>3 DEF Runs, Done
<1>6. Good(reg, edited)' /\ Phase(reg, Reached)'
  BY <1>1, <1>4, <1>5
<1>7. Memory'
  <2>1. /\ k > 24 /\ Priced(reg.plans) => Priced(s.plans)
        /\ k > 24 /\ Shut(reg.plans) => Shut(s.plans)
    BY DEF Runs
  <2>2. pc' \notin {"serving", "down"}
    BY <1>2, NoStep
  <2>3. k > 24 => Priced(reg.plans) /\ Shut(reg.plans)
    BY <1>2, <1>3 DEF Memory, Booting
  <2>4. Booting' /\ (Place(pc) > 24)' => Priced(s.plans) /\ Shut(s.plans)
    <3>1. CASE k > 24
      BY <2>1, <2>3, <3>1
    <3>2. CASE ~(k > 24)
      BY <1>2, <3>2
    <3> QED
      BY <3>1, <3>2
  <2>5. ASSUME settled, NoneParted(s.plans)
        PROVE  ~changed /\ Closed(s.plans) /\ Priced(s.plans) /\ Unbundled(s.plans)
    <3>1. SameKinds(reg.plans, s.plans)
      BY <1>3, <1>5, <2>5 DEF Memory, RetailOnly
    <3>2. NoneParted(reg.plans)
      BY <2>5, <3>1, Kinds
    <3>3. ~changed /\ Closed(reg.plans) /\ Priced(reg.plans) /\ Unbundled(reg.plans)
      BY <1>3, <2>5, <3>2 DEF Memory
    <3> QED
      BY <3>1, <3>3, Kinds
  <2>6. /\ settled => boots > 0
        /\ changed \in BOOLEAN /\ settled \in BOOLEAN
        /\ had \subseteq {"stores", "panels"} /\ lost \subseteq {"stores", "panels", "delivery"}
        /\ changed => Place(pc) > 24
    BY <1>3 DEF Memory
  <2>7. ~(Place(pc') > 29)
    BY <1>2
  <2> QED
    BY <1>1, <1>2, <1>3, <2>2, <2>4, <2>5, <2>6, <2>7 DEF Memory, Booting
<1>8. ClassesKept'
  <2>1. ~Window("stores") /\ ~Window("panels") /\ ~Window("stores")' /\ ~Window("panels")'
    <3>1. Place(pc) \notin {4, 5, 6} /\ Place(pc') \notin {4, 5, 6}
      BY <1>2
    <3>2. \A table \in {"stores", "panels"} :
            pc' \in Unclassed[table] => Place(pc') \in {4, 5, 6}
      BY PlaceNames DEF Unclassed
    <3> QED
      BY <3>1, <3>2, WindowPlaces DEF Window
  <2>2. \A t \in Tenants : TableOf(t) \in {"stores", "panels"}
    BY DEF TableOf
  <2>3. \A t \in Tenants : (HasClasses(TableOf(t)) => ClassedIn(reg, t))'
    BY <1>1, <1>5, <2>1, <2>2 DEF IInv, ClassesKept, HasClasses, LeavesTenants, ClassedIn
  <2>4. /\ pc' # "store_column" /\ pc' # "panel_column" /\ pc' # "ddl"
        /\ pc' = "read" => pc = "ddl"
    BY <1>1, <1>2, PlaceNames, Names
  <2>5. boots > 0 /\ Place(pc') > 2 => had = {"stores", "panels"}
    BY <1>2 DEF IInv, ClassesKept, Booting
  <2>6. pc' = "read" => had = {}
    BY <2>4 DEF IInv, ClassesKept
  <2> QED
    BY <1>1, <2>3, <2>4, <2>5, <2>6 DEF ClassesKept
<1>9. LicencesKept'
  <2>1. pc' # "mark_panels"
    BY <1>2, PlaceNames
  <2>2. \A t \in Tenants : DeliveredIn(reg, t) => DeliveredIn(s, t)
    BY <1>5, BootAssumption DEF LeavesTenants, DeliveredIn
  <2> QED
    BY <1>1, <2>1, <2>2 DEF IInv, LicencesKept
<1>10. boots > 0 => NothingAgain
  BY <1>1, <1>5 DEF RetailOnly, NothingAgain
<1> QED
  BY <1>1, <1>5, <1>6, <1>7, <1>8, <1>9, <1>10 DEF IInv
(* A statement with its work done leaves everything as it was.               *)
LEMMA RunsAgain ==
  ASSUME NEW r, NEW s, NEW ed, NEW k \in 1..24, Good(r, ed), boots > 0 => Phase(r, 32) /\ s = r,
         boots = 0 => Done(r, s, ed, k)
  PROVE  Runs(r, s, ed, k)
BY OtherFields DEF Runs, RetailOnly, SameKinds

LEMMA ReachedHere ==
  ASSUME IInv, NEW k \in 1..31, pc = Order[k]
  PROVE  /\ boots = 0 => Phase(reg, k)
         /\ boots > 0 => Phase(reg, 32)
         /\ Good(reg, edited) /\ boots \in Nat /\ pc \in Steps
         /\ k > 24 => Priced(reg.plans) /\ Shut(reg.plans)
         /\ k > 29 => Unbundled(reg.plans)
<1>1. Place(pc) = k /\ pc \in Steps
  BY Places
<1>2. Reached = IF boots > 0 THEN 32 ELSE k
  BY <1>1 DEF Reached
<1> QED
  BY <1>1, <1>2 DEF IInv, Memory, Booting

(* The statements that no two actors and no window touch, one by one.        *)
QuietBoot ==
  \/ Ddl \/ Columns \/ RestructurePlans \/ RecoverPlans \/ WidenPlanBillingPeriod
  \/ RepairPlanReferences \/ MigratePlansPerStore \/ RenameRetail \/ RenameCodes \/ SeedPlans
  \/ RefreshSeeds \/ FoldInvoiceLines \/ DropInvoiceColumns \/ BackfillPurpose
  \/ MigrateSubscriptions \/ DropFlag \/ MigrateBillingSettings \/ AllowWarehouses
  \/ MigrateWhatsAppPrice \/ WhatsAppVersion \/ MigratePublishedPricing \/ PublishedVersion

LEMMA QuietBootKeeps ==
  ASSUME IInv, QuietBoot
  PROVE  IInv' /\ TakesNothing(reg, reg') /\ (boots > 0 => NothingAgain)
<1>1. CASE Ddl
  <2>1. Goes("ddl", Created(reg)) /\ Quiet /\ pc = Order[1] /\ "ddl" = Order[1]
    BY <1>1, Names DEF Ddl, Goes
  <2>2. Runs(reg, Created(reg), edited, 1)
    BY <2>1, ReachedHere, CreatedDone, ScalarsLeft, RunsAgain
  <2> QED
    BY <2>1, <2>2, QuietStep
<1>2. CASE Columns
  <2>1. Goes("columns", Columned(reg)) /\ Quiet /\ pc = Order[7] /\ "columns" = Order[7]
    BY <1>2, Names DEF Columns, Goes
  <2>2. Runs(reg, Columned(reg), edited, 7)
    BY <2>1, ReachedHere, ColumnedDone, ScalarsLeft, RunsAgain
  <2> QED
    BY <2>1, <2>2, QuietStep
<1>3. CASE RestructurePlans
  <2>1. Goes("restructure", Restructured(reg)) /\ Quiet /\ pc = Order[8] /\ "restructure" = Order[8]
    BY <1>3, Names DEF RestructurePlans, Goes
  <2>2. Runs(reg, Restructured(reg), edited, 8)
    BY <2>1, ReachedHere, RestructuredDone, ScalarsLeft, RunsAgain
  <2> QED
    BY <2>1, <2>2, QuietStep
<1>4. CASE RecoverPlans
  <2>1. Goes("recover", Recovered(reg)) /\ Quiet /\ pc = Order[9] /\ "recover" = Order[9]
    BY <1>4, Names DEF RecoverPlans, Goes
  <2>2. Runs(reg, Recovered(reg), edited, 9)
    BY <2>1, ReachedHere, RecoveredDone, ScalarsLeft, RunsAgain
  <2> QED
    BY <2>1, <2>2, QuietStep
<1>5. CASE WidenPlanBillingPeriod
  <2>1. Goes("widen", Widened(reg)) /\ Quiet /\ pc = Order[10] /\ "widen" = Order[10]
    BY <1>5, Names DEF WidenPlanBillingPeriod, Goes
  <2>2. Runs(reg, Widened(reg), edited, 10)
    BY <2>1, ReachedHere, WidenedDone, ScalarsLeft, RunsAgain
  <2> QED
    BY <2>1, <2>2, QuietStep
<1>6. CASE RepairPlanReferences
  <2>1. Goes("repair", Repaired(reg)) /\ Quiet /\ pc = Order[11] /\ "repair" = Order[11]
    BY <1>6, Names DEF RepairPlanReferences, Goes
  <2>2. Runs(reg, Repaired(reg), edited, 11)
    BY <2>1, ReachedHere, RepairedDone, ScalarsLeft, RunsAgain
  <2> QED
    BY <2>1, <2>2, QuietStep
<1>7. CASE MigratePlansPerStore
  <2>1. Goes("per_store", PerStore(reg)) /\ Quiet /\ pc = Order[12] /\ "per_store" = Order[12]
    BY <1>7, Names DEF MigratePlansPerStore, Goes
  <2>2. Runs(reg, PerStore(reg), edited, 12)
    BY <2>1, ReachedHere, PerStoreDone, ScalarsLeft, RunsAgain
  <2> QED
    BY <2>1, <2>2, QuietStep
<1>8. CASE RenameRetail
  <2>1. Goes("retail", RetailRenamed(reg)) /\ Quiet /\ pc = Order[13] /\ "retail" = Order[13]
    BY <1>8, Names DEF RenameRetail, Goes
  <2>2. Runs(reg, RetailRenamed(reg), edited, 13)
    BY <2>1, ReachedHere, RetailDone, RetailAgain DEF Runs
  <2> QED
    BY <2>1, <2>2, QuietStep
<1>9. CASE RenameCodes
  <2>1. Goes("codes", CodesRenamed(reg)) /\ Quiet /\ pc = Order[14] /\ "codes" = Order[14]
    BY <1>9, Names DEF RenameCodes, Goes
  <2>2. Runs(reg, CodesRenamed(reg), edited, 14)
    BY <2>1, ReachedHere, CodesDone, PlansLeft, RunsAgain
  <2> QED
    BY <2>1, <2>2, QuietStep
<1>10. CASE SeedPlans
  <2>1. Goes("seed", Seeded(reg)) /\ Quiet /\ pc = Order[15] /\ "seed" = Order[15]
    BY <1>10, Names DEF SeedPlans, Goes
  <2>2. Runs(reg, Seeded(reg), edited, 15)
    BY <2>1, ReachedHere, SeededDone, PlansLeft, RunsAgain
  <2> QED
    BY <2>1, <2>2, QuietStep
<1>11. CASE RefreshSeeds
  <2>1. Goes("refresh", Refreshed(reg)) /\ Quiet /\ pc = Order[16] /\ "refresh" = Order[16]
    BY <1>11, Names DEF RefreshSeeds, Goes
  <2>2. Runs(reg, Refreshed(reg), edited, 16)
    BY <2>1, ReachedHere, RefreshedDone, PlansLeft, RunsAgain
  <2> QED
    BY <2>1, <2>2, QuietStep
<1>12. CASE FoldInvoiceLines
  <2>1. Goes("fold", Folded(reg)) /\ Quiet /\ pc = Order[17] /\ "fold" = Order[17]
    BY <1>12, Names DEF FoldInvoiceLines, Goes
  <2>2. Runs(reg, Folded(reg), edited, 17)
    BY <2>1, ReachedHere, FoldedDone, ScalarsLeft, RunsAgain
  <2> QED
    BY <2>1, <2>2, QuietStep
<1>13. CASE DropInvoiceColumns
  <2>1. Goes("drop", Dropped(reg)) /\ Quiet /\ pc = Order[18] /\ "drop" = Order[18]
    BY <1>13, Names DEF DropInvoiceColumns, Goes
  <2>2. Runs(reg, Dropped(reg), edited, 18)
    BY <2>1, ReachedHere, DroppedDone, InvoiceLeft, RunsAgain
  <2> QED
    BY <2>1, <2>2, QuietStep
<1>14. CASE BackfillPurpose
  <2>1. Goes("purpose", Purposed(reg)) /\ Quiet /\ pc = Order[19] /\ "purpose" = Order[19]
    BY <1>14, Names DEF BackfillPurpose, Goes
  <2>2. Runs(reg, Purposed(reg), edited, 19)
    BY <2>1, ReachedHere, PurposedDone, InvoiceLeft, RunsAgain
  <2> QED
    BY <2>1, <2>2, QuietStep
<1>15. CASE MigrateSubscriptions
  <2>1. Goes("subscriptions", Subscribed(reg)) /\ Quiet /\ pc = Order[20] /\ "subscriptions" = Order[20]
    BY <1>15, Names DEF MigrateSubscriptions, Goes
  <2>2. Runs(reg, Subscribed(reg), edited, 20)
    BY <2>1, ReachedHere, SubscribedDone, ClientsLeft, RunsAgain
  <2> QED
    BY <2>1, <2>2, QuietStep
<1>16. CASE DropFlag
  <2>1. Goes("flag", Unflagged(reg)) /\ Quiet /\ pc = Order[21] /\ "flag" = Order[21]
    BY <1>16, Names DEF DropFlag, Goes
  <2>2. Runs(reg, Unflagged(reg), edited, 21)
    BY <2>1, ReachedHere, UnflaggedDone, ClientsLeft, RunsAgain
  <2> QED
    BY <2>1, <2>2, QuietStep
<1>17. CASE MigrateBillingSettings
  <2>1. Goes("settings", PerCompany(reg)) /\ Quiet /\ pc = Order[22] /\ "settings" = Order[22]
    BY <1>17, Names DEF MigrateBillingSettings, Goes
  <2>2. Runs(reg, PerCompany(reg), edited, 22)
    BY <2>1, ReachedHere, PerCompanyDone, ScalarsLeft, RunsAgain
  <2> QED
    BY <2>1, <2>2, QuietStep
<1>18. CASE AllowWarehouses
  <2>1. Goes("warehouse", Kinded(reg)) /\ Quiet /\ pc = Order[23] /\ "warehouse" = Order[23]
    BY <1>18, Names DEF AllowWarehouses, Goes
  <2>2. Runs(reg, Kinded(reg), edited, 23)
    BY <2>1, ReachedHere, KindedDone, ScalarsLeft, RunsAgain
  <2> QED
    BY <2>1, <2>2, QuietStep
<1>19. CASE MigrateWhatsAppPrice
  <2>1. Goes("whatsapp", WhatsAppPriced(reg)) /\ Quiet /\ pc = Order[25] /\ "whatsapp" = Order[25]
    BY <1>19, Names DEF MigrateWhatsAppPrice, Goes
  <2>2. Priced(WhatsAppPriced(reg).plans) /\ Shut(WhatsAppPriced(reg).plans)
    BY <2>1, ReachedHere, WhatsAppDone, ScalarsLeft
  <2>3. Runs(reg, WhatsAppPriced(reg), edited, 25)
    BY <2>1, <2>2, ReachedHere, WhatsAppDone, ScalarsLeft, OtherFields
    DEF Runs, RetailOnly, SameKinds
  <2> QED
    BY <2>1, <2>3, QuietStep
<1>20. CASE WhatsAppVersion
  <2>1. Goes("version1", Versioned(reg, 1)) /\ Quiet /\ pc = Order[26] /\ "version1" = Order[26]
    BY <1>20, Names DEF WhatsAppVersion, Goes
  <2>2. Versioned(reg, 1).plans = reg.plans
    BY <2>1, ReachedHere DEF Good, RegistryOK, Versioned
  <2>3. Runs(reg, Versioned(reg, 1), edited, 26)
    BY <2>1, <2>2, ReachedHere, VersionOneDone, ScalarsLeft, OtherFields
    DEF Runs, RetailOnly, SameKinds
  <2> QED
    BY <2>1, <2>3, QuietStep
<1>21. CASE MigratePublishedPricing
  <2>1. Goes("published", Published(reg)) /\ Quiet /\ pc = Order[27] /\ "published" = Order[27]
    BY <1>21, Names DEF MigratePublishedPricing, Goes
  <2>2. Priced(Published(reg).plans) /\ Shut(Published(reg).plans)
    BY <2>1, ReachedHere, PublishedDone, ScalarsLeft
  <2>3. Runs(reg, Published(reg), edited, 27)
    BY <2>1, <2>2, ReachedHere, PublishedDone, ScalarsLeft, OtherFields
    DEF Runs, RetailOnly, SameKinds
  <2> QED
    BY <2>1, <2>3, QuietStep
<1>22. CASE PublishedVersion
  <2>1. Goes("version2", Versioned(reg, 2)) /\ Quiet /\ pc = Order[28] /\ "version2" = Order[28]
    BY <1>22, Names DEF PublishedVersion, Goes
  <2>2. Versioned(reg, 2).plans = reg.plans
    BY <2>1, ReachedHere DEF Good, RegistryOK, Versioned
  <2>3. Runs(reg, Versioned(reg, 2), edited, 28)
    BY <2>1, <2>2, ReachedHere, VersionTwoDone, ScalarsLeft, OtherFields
    DEF Runs, RetailOnly, SameKinds
  <2> QED
    BY <2>1, <2>3, QuietStep
<1> QED
  BY <1>1, <1>2, <1>3, <1>4, <1>5, <1>6, <1>7, <1>8, <1>9, <1>10, <1>11, <1>12, <1>13, <1>14, <1>15, <1>16, <1>17, <1>18, <1>19, <1>20, <1>21, <1>22 DEF QuietBoot
-----------------------------------------------------------------------------
(* The classes: the columns, and the one-time classification.                *)

LEMMA EarlyStep ==
  ASSUME IInv, NEW k \in 2..6, NEW p, p = Order[k], NEW s, Goes(p, s),
         UNCHANGED <<changed, settled, boots>>, had' \subseteq {"stores", "panels"},
         TenantsOnly(reg, s), \A t \in Tenants : LicenceAsWas(reg, s, t),
         k = 3 => "stores" \in s.columns, k = 4 => "panels" \in s.columns
  PROVE  /\ Good(reg, edited)' /\ Phase(reg, Reached)' /\ Memory' /\ LicencesKept'
         /\ TakesNothing(reg, reg')
<1>1. /\ pc = p /\ pc' = StepAfter(p) /\ reg' = s
      /\ changed' = changed /\ settled' = settled /\ boots' = boots
      /\ edited' = edited /\ lost' = lost
      /\ pushing' = pushing /\ missed' = missed
  BY DEF Goes, deliveries
<1>2. /\ pc \in Steps /\ Place(pc) = k /\ Place(pc') = k + 1 /\ pc' \in Steps
  BY <1>1, GoesOn
<1>3. /\ boots = 0 => Phase(reg, k)
      /\ boots > 0 => Phase(reg, 32)
      /\ Good(reg, edited) /\ boots \in Nat
  BY <1>1, ReachedHere
<1>4. /\ Good(s, edited) /\ TakesNothing(reg, s)
      /\ \A n \in Nat : Phase(reg, n) => Phase(s, n)
      /\ \A c \in Companies : Entitled(s, c) = Entitled(reg, c)
  BY <1>3, TenantsWritten
<1>5. Phase(reg, Reached)'
  <2>1. Reached' = IF boots > 0 THEN 32 ELSE k + 1
    BY <1>1, <1>2 DEF Reached
  <2>2. CASE boots > 0
    BY <1>1, <1>3, <1>4, <2>1, <2>2
  <2>3. CASE boots = 0
    <3>1. Phase(s, k)
      BY <1>3, <1>4, <2>3
    <3>2. Phase(s, k + 1)
      BY <3>1 DEF Phase
    <3> QED
      BY <1>1, <2>1, <2>3, <3>2
  <2> QED
    BY <1>3, <2>2, <2>3
<1>6. Memory'
  <2>1. pc' \notin {"serving", "down"} /\ s.plans = reg.plans
    BY <1>2, NoStep DEF TenantsOnly
  <2> QED
    BY <1>1, <1>2, <2>1 DEF IInv, Memory, Booting
<1>7. LicencesKept'
  <2>1. pc' # "mark_panels"
    BY <1>2, PlaceNames
  <2>2. \A t \in Tenants : DeliveredIn(reg, t) => DeliveredIn(s, t)
    BY <1>4, BootAssumption DEF LicenceAsWas, DeliveredIn
  <2> QED
    BY <1>1, <2>1, <2>2 DEF IInv, LicencesKept
<1> QED
  BY <1>1, <1>4, <1>5, <1>6, <1>7

LEMMA Tables ==
  /\ \A t \in Tenants : TableOf(t) \in {"stores", "panels"}
  /\ \A t \in Tenants \ Panels : TableOf(t) = "stores"
  /\ \A t \in Panels : TableOf(t) = "panels"
BY DEF TableOf

LEMMA ReadKeeps ==
  ASSUME IInv, Read
  PROVE  IInv' /\ TakesNothing(reg, reg') /\ reg' = reg
<1>1. /\ Goes("read", reg) /\ had' = reg.columns /\ "read" = Order[2] /\ pc = Order[2]
      /\ UNCHANGED <<changed, settled, boots>>
  BY Names DEF Read, Goes
<1>2. RegistryOK(reg) /\ reg.columns \subseteq {"stores", "panels"}
  BY Fields DEF IInv, Good
<1>3. TenantsOnly(reg, reg) /\ \A t \in Tenants : LicenceAsWas(reg, reg, t)
  BY <1>2 DEF TenantsOnly, LicenceAsWas
<1>4. /\ Good(reg, edited)' /\ Phase(reg, Reached)' /\ Memory' /\ LicencesKept'
      /\ TakesNothing(reg, reg')
  BY <1>1, <1>2, <1>3, EarlyStep
<1>5. /\ reg' = reg /\ lost' = lost /\ pc = "read" /\ boots' = boots
  BY <1>1 DEF Goes
<1>6. pc' = "store_column"
  BY <1>1, After, Names DEF Goes
<1>7. boots > 0 => reg.columns = {"stores", "panels"}
  BY <1>1, <1>2, ReachedHere DEF Phase
<1>8. ~Window("stores") /\ ~Window("panels")
  BY <1>5, PlaceNames, WindowPlaces
<1>9. \A t \in Tenants : (HasClasses(TableOf(t)) => ClassedIn(reg, t))'
  BY <1>5, <1>8, Tables DEF IInv, ClassesKept, HasClasses
<1>10. ClassesKept'
  BY <1>1, <1>5, <1>6, <1>7, <1>9 DEF ClassesKept
<1> QED
  BY <1>4, <1>5, <1>10 DEF IInv

LEMMA StoreColumnKeeps ==
  ASSUME IInv, StoreColumn
  PROVE  IInv' /\ TakesNothing(reg, reg') /\ (boots > 0 => reg' = reg)
<1> DEFINE s == WithColumn(reg, "stores", Tenants \ Panels)
<1>1. /\ Goes("store_column", s) /\ had' = had /\ "store_column" = Order[3] /\ pc = Order[3]
      /\ UNCHANGED <<changed, settled, boots>>
  BY Names DEF StoreColumn, Goes, Quiet
<1>2. RegistryOK(reg) /\ had' \subseteq {"stores", "panels"}
  BY <1>1 DEF IInv, Good, Memory
<1>3. /\ TenantsOnly(reg, s) /\ s.columns = reg.columns \cup {"stores"}
      /\ \A t \in Tenants : LicenceAsWas(reg, s, t)
      /\ \A t \in Panels : s.tenants[t] = reg.tenants[t]
      /\ "stores" \in reg.columns => s = reg
  BY <1>2, ColumnAdded, BootAssumption
<1> HIDE DEF s
<1>4. /\ Good(reg, edited)' /\ Phase(reg, Reached)' /\ Memory' /\ LicencesKept'
      /\ TakesNothing(reg, reg')
  <2>1. 3 \in 2..6 /\ "store_column" = Order[3] /\ Goes("store_column", s)
        /\ UNCHANGED <<changed, settled, boots>> /\ had' \subseteq {"stores", "panels"}
    BY <1>1, <1>2
  <2>2. /\ TenantsOnly(reg, s) /\ \A t \in Tenants : LicenceAsWas(reg, s, t)
        /\ 3 = 3 => "stores" \in s.columns
        /\ 3 = 4 => "panels" \in s.columns
    BY <1>3
  <2> QED
    BY <2>1, <2>2, EarlyStep, Zenon
<1>5. /\ reg' = s /\ lost' = lost /\ pc = "store_column" /\ boots' = boots
  BY <1>1 DEF Goes
<1>6. pc' = "panel_column"
  BY <1>1, After, Names DEF Goes
<1>7. /\ boots > 0 => had = {"stores", "panels"}
      /\ had = reg.columns
  <2>1. pc \in Steps /\ Place(pc) > 2
    BY <1>1, Places
  <2> QED
    BY <1>5, <2>1 DEF IInv, ClassesKept, Booting
<1>8. ~Window("stores") /\ ~Window("panels")
  BY <1>5, PlaceNames, WindowPlaces
<1>9. ASSUME NEW t \in Tenants, (HasClasses(TableOf(t)) /\ ~Window(TableOf(t)))'
      PROVE  ClassedIn(reg, t)'
  <2>1. CASE t \in Panels
    BY <1>3, <1>5, <1>8, <1>9, <2>1, Tables DEF IInv, ClassesKept, HasClasses, ClassedIn
  <2>2. CASE t \notin Panels
    <3>1. "stores" \in had
      BY <1>1, <1>6, <1>9, <2>2, Tables, Places, Names DEF Window, Unclassed, Booting
    <3> QED
      BY <1>3, <1>5, <1>7, <1>8, <1>9, <2>2, <3>1, Tables DEF IInv, ClassesKept, HasClasses
  <2> QED
    BY <2>1, <2>2
<1>10. ClassesKept'
  BY <1>1, <1>3, <1>5, <1>6, <1>7, <1>9 DEF ClassesKept
<1> QED
  BY <1>3, <1>4, <1>5, <1>7, <1>10 DEF IInv

LEMMA PanelColumnKeeps ==
  ASSUME IInv, PanelColumn
  PROVE  IInv' /\ TakesNothing(reg, reg') /\ (boots > 0 => reg' = reg)
<1> DEFINE s == WithColumn(reg, "panels", Panels)
<1>1. /\ Goes("panel_column", s) /\ had' = had /\ "panel_column" = Order[4] /\ pc = Order[4]
      /\ UNCHANGED <<changed, settled, boots>>
  BY Names DEF PanelColumn, Goes, Quiet
<1>2. RegistryOK(reg) /\ had' \subseteq {"stores", "panels"}
  BY <1>1 DEF IInv, Good, Memory
<1>3. /\ TenantsOnly(reg, s) /\ s.columns = reg.columns \cup {"panels"}
      /\ \A t \in Tenants : LicenceAsWas(reg, s, t)
      /\ \A t \in Tenants \ Panels : s.tenants[t] = reg.tenants[t]
      /\ "panels" \in reg.columns => s = reg
  BY <1>2, ColumnAdded
<1> HIDE DEF s
<1>4. /\ Good(reg, edited)' /\ Phase(reg, Reached)' /\ Memory' /\ LicencesKept'
      /\ TakesNothing(reg, reg')
  <2>1. 4 \in 2..6 /\ "panel_column" = Order[4] /\ Goes("panel_column", s)
        /\ UNCHANGED <<changed, settled, boots>> /\ had' \subseteq {"stores", "panels"}
    BY <1>1, <1>2
  <2>2. /\ TenantsOnly(reg, s) /\ \A t \in Tenants : LicenceAsWas(reg, s, t)
        /\ 4 = 3 => "stores" \in s.columns
        /\ 4 = 4 => "panels" \in s.columns
    BY <1>3
  <2> QED
    BY <2>1, <2>2, EarlyStep, Zenon
<1>5. /\ reg' = s /\ lost' = lost /\ pc = "panel_column" /\ boots' = boots
  BY <1>1 DEF Goes
<1>6. pc' = "store_class"
  BY <1>1, After, Names DEF Goes
<1>7. /\ boots > 0 => had = {"stores", "panels"}
      /\ reg.columns = had \cup {"stores"}
  <2>1. pc \in Steps /\ Place(pc) > 2
    BY <1>1, Places
  <2> QED
    BY <1>5, <2>1 DEF IInv, ClassesKept, Booting
<1>8. \A table \in had : ~Window(table)
  BY DEF Window
<1>9. ASSUME NEW t \in Tenants, (HasClasses(TableOf(t)) /\ ~Window(TableOf(t)))'
      PROVE  ClassedIn(reg, t)'
  <2>1. TableOf(t) \in had
    BY <1>1, <1>6, <1>9, Tables, Places, Names DEF Window, Unclassed, Booting
  <2>2. ClassedIn(reg, t)
    BY <1>5, <1>7, <1>8, <1>9, <2>1 DEF IInv, ClassesKept, HasClasses
  <2>3. CASE t \in Panels
    BY <1>3, <1>5, <1>7, <2>1, <2>2, <2>3, Tables
  <2>4. CASE t \notin Panels
    BY <1>3, <1>5, <2>2, <2>4 DEF ClassedIn
  <2> QED
    BY <2>3, <2>4
<1>10. ClassesKept'
  BY <1>1, <1>3, <1>5, <1>6, <1>7, <1>9 DEF ClassesKept
<1> QED
  BY <1>3, <1>4, <1>5, <1>7, <1>10 DEF IInv

LEMMA StoreClassKeeps ==
  ASSUME IInv, StoreClass
  PROVE  IInv' /\ TakesNothing(reg, reg') /\ (boots > 0 => reg' = reg)
<1> DEFINE s == Classified(reg, "stores", Tenants \ Panels)
<1>1. /\ Goes("store_class", s) /\ had' = had /\ "store_class" = Order[5] /\ pc = Order[5]
      /\ UNCHANGED <<changed, settled, boots>>
  BY Names DEF StoreClass, Goes, Quiet
<1>2. RegistryOK(reg) /\ had' \subseteq {"stores", "panels"}
  BY <1>1 DEF IInv, Good, Memory
<1>3. /\ TenantsOnly(reg, s) /\ s.columns = reg.columns
      /\ \A t \in Tenants : LicenceAsWas(reg, s, t)
      /\ \A t \in Panels : s.tenants[t] = reg.tenants[t]
      /\ "stores" \notin had => \A t \in Tenants \ Panels : ClassedIn(s, t)
      /\ "stores" \in had => s = reg
  BY <1>2, ClassesGiven, BootAssumption
<1> HIDE DEF s
<1>4. /\ Good(reg, edited)' /\ Phase(reg, Reached)' /\ Memory' /\ LicencesKept'
      /\ TakesNothing(reg, reg')
  <2>1. 5 \in 2..6 /\ "store_class" = Order[5] /\ Goes("store_class", s)
        /\ UNCHANGED <<changed, settled, boots>> /\ had' \subseteq {"stores", "panels"}
    BY <1>1, <1>2
  <2>2. /\ TenantsOnly(reg, s) /\ \A t \in Tenants : LicenceAsWas(reg, s, t)
        /\ 5 = 3 => "stores" \in s.columns
        /\ 5 = 4 => "panels" \in s.columns
    BY <1>3
  <2> QED
    BY <2>1, <2>2, EarlyStep, Zenon
<1>5. /\ reg' = s /\ lost' = lost /\ pc = "store_class" /\ boots' = boots
  BY <1>1 DEF Goes
<1>6. pc' = "panel_class"
  BY <1>1, After, Names DEF Goes
<1>7. boots > 0 => had = {"stores", "panels"}
  <2>1. pc \in Steps /\ Place(pc) > 2
    BY <1>1, Places
  <2> QED
    BY <1>5, <2>1 DEF IInv, ClassesKept, Booting
<1>8. \A table \in had : ~Window(table)
  BY DEF Window
<1>9. ASSUME NEW t \in Tenants, (HasClasses(TableOf(t)) /\ ~Window(TableOf(t)))'
      PROVE  ClassedIn(reg, t)'
  <2>1. HasClasses(TableOf(t))
    BY <1>3, <1>5, <1>9 DEF HasClasses
  <2>2. CASE t \in Panels
    <3>1. "panels" \in had
      BY <1>1, <1>6, <1>9, <2>2, Tables, Places, Names DEF Window, Unclassed, Booting
    <3> QED
      BY <1>3, <1>5, <1>8, <2>1, <2>2, <3>1, Tables DEF IInv, ClassesKept, ClassedIn
  <2>3. CASE t \notin Panels /\ "stores" \in had
    BY <1>3, <1>5, <1>8, <2>1, <2>3, Tables DEF IInv, ClassesKept
  <2>4. CASE t \notin Panels /\ "stores" \notin had
    BY <1>3, <1>5, <2>4 DEF ClassedIn
  <2> QED
    BY <2>2, <2>3, <2>4
<1>10. ClassesKept'
  BY <1>1, <1>5, <1>6, <1>7, <1>9 DEF ClassesKept
<1> QED
  BY <1>3, <1>4, <1>5, <1>7, <1>10 DEF IInv

LEMMA PanelClassKeeps ==
  ASSUME IInv, PanelClass
  PROVE  IInv' /\ TakesNothing(reg, reg') /\ (boots > 0 => reg' = reg)
<1> DEFINE s == Classified(reg, "panels", Panels)
<1>1. /\ Goes("panel_class", s) /\ had' = had /\ "panel_class" = Order[6] /\ pc = Order[6]
      /\ UNCHANGED <<changed, settled, boots>>
  BY Names DEF PanelClass, Goes, Quiet
<1>2. RegistryOK(reg) /\ had' \subseteq {"stores", "panels"}
  BY <1>1 DEF IInv, Good, Memory
<1>3. /\ TenantsOnly(reg, s) /\ s.columns = reg.columns
      /\ \A t \in Tenants : LicenceAsWas(reg, s, t)
      /\ \A t \in Tenants \ Panels : s.tenants[t] = reg.tenants[t]
      /\ "panels" \notin had => \A t \in Tenants \cap Panels : ClassedIn(s, t)
      /\ "panels" \in had => s = reg
  BY <1>2, ClassesGiven
<1> HIDE DEF s
<1>4. /\ Good(reg, edited)' /\ Phase(reg, Reached)' /\ Memory' /\ LicencesKept'
      /\ TakesNothing(reg, reg')
  <2>1. 6 \in 2..6 /\ "panel_class" = Order[6] /\ Goes("panel_class", s)
        /\ UNCHANGED <<changed, settled, boots>> /\ had' \subseteq {"stores", "panels"}
    BY <1>1, <1>2
  <2>2. /\ TenantsOnly(reg, s) /\ \A t \in Tenants : LicenceAsWas(reg, s, t)
        /\ 6 = 3 => "stores" \in s.columns
        /\ 6 = 4 => "panels" \in s.columns
    BY <1>3
  <2> QED
    BY <2>1, <2>2, EarlyStep, Zenon
<1>5. /\ reg' = s /\ lost' = lost /\ pc = "panel_class" /\ boots' = boots
  BY <1>1 DEF Goes
<1>6. pc' = "columns"
  BY <1>1, After, Names DEF Goes
<1>7. boots > 0 => had = {"stores", "panels"}
  <2>1. pc \in Steps /\ Place(pc) > 2
    BY <1>1, Places
  <2> QED
    BY <1>5, <2>1 DEF IInv, ClassesKept, Booting
<1>8. /\ \A table \in had : ~Window(table)
      /\ ~Window("stores")
  BY <1>5 DEF Window, Unclassed
<1>9. ASSUME NEW t \in Tenants, HasClasses(TableOf(t))'
      PROVE  ClassedIn(reg, t)'
  <2>1. HasClasses(TableOf(t))
    BY <1>3, <1>5, <1>9 DEF HasClasses
  <2>2. CASE t \notin Panels
    BY <1>3, <1>5, <1>8, <2>1, <2>2, Tables DEF IInv, ClassesKept, ClassedIn
  <2>3. CASE t \in Panels /\ "panels" \in had
    BY <1>3, <1>5, <1>8, <2>1, <2>3, Tables DEF IInv, ClassesKept
  <2>4. CASE t \in Panels /\ "panels" \notin had
    BY <1>3, <1>5, <2>4 DEF ClassedIn
  <2> QED
    BY <2>2, <2>3, <2>4
<1>10. ClassesKept'
  BY <1>1, <1>5, <1>6, <1>7, <1>9 DEF ClassesKept
<1> QED
  BY <1>3, <1>4, <1>5, <1>7, <1>10 DEF IInv
-----------------------------------------------------------------------------
(* Keys split, features sold, licences queued.                               *)

LEMMA ClassesLater ==
  ASSUME IInv, pc \in Steps \cup {"serving"}, pc' \in Steps \cup {"serving"},
         Place(pc) > 6, Place(pc') > 6, had' = had, lost' = lost,
         boots' > 0 /\ Booting' => boots > 0 /\ Booting,
         reg'.columns = reg.columns,
         \A t \in Tenants : /\ reg'.tenants[t].mode = reg.tenants[t].mode
                            /\ reg'.tenants[t].app = reg.tenants[t].app
  PROVE  ClassesKept'
<1>1. ~Window("stores") /\ ~Window("panels")
  BY WindowPlaces
<1>2. \A t \in Tenants : (HasClasses(TableOf(t)) => ClassedIn(reg, t))'
  BY <1>1, Tables DEF IInv, ClassesKept, HasClasses, ClassedIn
<1>3. pc' \notin {"ddl", "read", "store_column", "panel_column"}
  BY PlaceNames
<1>4. boots > 0 /\ Booting => had = {"stores", "panels"}
  <2>1. Booting => Place(pc) > 2
    BY Places DEF Booting
  <2> QED
    BY <2>1 DEF IInv, ClassesKept
<1> QED
  BY <1>2, <1>3, <1>4 DEF ClassesKept

LEMMA SplitKeeps ==
  ASSUME IInv, GrantSplitKeys
  PROVE  IInv' /\ TakesNothing(reg, reg') /\ (boots > 0 => NothingAgain)
<1> DEFINE s == Split(reg)
           n == IF boots > 0 THEN 32 ELSE 24
<1>1. /\ pc = Order[24] /\ pc' = StepAfter(Order[24]) /\ reg' = s /\ changed' = Grants(reg)
      /\ had' = had /\ settled' = settled /\ boots' = boots /\ edited' = edited /\ lost' = lost
      /\ pushing' = pushing /\ missed' = missed
  BY Names DEF GrantSplitKeys, Goes, deliveries
<1>2. /\ pc \in Steps /\ Place(pc) = 24 /\ pc' \in Steps /\ Place(pc') = 25
  BY <1>1, GoesOn
<1>3. Good(reg, edited) /\ Phase(reg, n) /\ boots \in Nat
  BY <1>1, ReachedHere
<1>4. /\ Good(s, edited) /\ Phase(s, IF n = 24 THEN 25 ELSE 32) /\ TakesNothing(reg, s)
      /\ s.tenants = reg.tenants /\ s.columns = reg.columns
      /\ Priced(s.plans) /\ Shut(s.plans)
      /\ NoneParted(s.plans) => NoneParted(reg.plans)
      /\ ~Grants(reg) => \A c \in Companies : Entitled(s, c) = Entitled(reg, c)
      /\ Closed(reg.plans) /\ Priced(reg.plans) => s = reg /\ ~Grants(reg)
      /\ \A i \in DOMAIN reg.plans :
           \/ s.plans[i] = reg.plans[i] \/ DOMAIN reg.plans[i].prices = {}
           \/ WithChildren(reg.plans[i].features) # reg.plans[i].features
  <2>1. n \in {24, 32}
    OBVIOUS
  <2> HIDE DEF n
  <2> QED
    BY <1>3, <2>1, SplitDone
<1> HIDE DEF s
<1>5. Phase(reg, Reached)'
  BY <1>1, <1>2, <1>4 DEF Reached
<1>6. /\ ~changed /\ (settled => boots > 0)
      /\ settled /\ NoneParted(reg.plans) =>
           Closed(reg.plans) /\ Priced(reg.plans) /\ Unbundled(reg.plans)
  BY <1>2 DEF IInv, Memory
<1>7. NothingAgain
  BY <1>1, <1>4, <1>6 DEF NothingAgain
<1>8. Memory'
  <2>1. pc' \notin {"serving", "down"}
    BY <1>2, NoStep
  <2>2. settled /\ NoneParted(s.plans) =>
          /\ ~Grants(reg) /\ s = reg
          /\ Closed(reg.plans) /\ Priced(reg.plans) /\ Unbundled(reg.plans)
    BY <1>4, <1>6
  <2>3. Grants(reg) \in BOOLEAN
    BY DEF Grants
  <2>4. /\ settled \in BOOLEAN /\ boots \in Nat /\ had \subseteq {"stores", "panels"}
        /\ lost \subseteq {"stores", "panels", "delivery"}
    BY DEF IInv, Memory
  <2> QED
    BY <1>1, <1>2, <1>4, <1>6, <2>1, <2>2, <2>3, <2>4 DEF Memory, Booting
<1>9. ClassesKept'
  BY <1>1, <1>2, <1>4, ClassesLater DEF Booting
<1>10. LicencesKept'
  <2>1. pc' # "mark_panels"
    BY <1>2, PlaceNames
  <2>2. ~Grants(reg) => \A t \in Tenants : DeliveredIn(reg, t) => DeliveredIn(s, t)
    BY <1>4, BootAssumption DEF DeliveredIn
  <2> QED
    BY <1>1, <1>6, <2>1, <2>2 DEF IInv, LicencesKept
<1> QED
  BY <1>1, <1>4, <1>5, <1>7, <1>8, <1>9, <1>10 DEF IInv

LEMMA MoveOneKeeps ==
  ASSUME IInv, MoveOne
  PROVE  IInv' /\ TakesNothing(reg, reg') /\ (boots > 0 => NothingAgain)
<1>1. PICK i \in DOMAIN reg.plans :
        /\ pc = "move" /\ Bundled(reg.plans[i]) # {} /\ reg' = Moved(reg, i) /\ changed' = TRUE
        /\ pc' = pc /\ had' = had /\ settled' = settled /\ edited' = edited /\ lost' = lost
        /\ boots' = boots /\ pushing' = pushing /\ missed' = missed
  BY DEF MoveOne, deliveries
<1> DEFINE s == Moved(reg, i)
           n == IF boots > 0 THEN 32 ELSE 29
<1>2. pc \in Steps /\ Place(pc) = 29 /\ pc = Order[29]
  BY <1>1, Places, Names
<1>3. Good(reg, edited) /\ Phase(reg, n) /\ boots \in Nat /\ Priced(reg.plans)
      /\ Shut(reg.plans)
  BY <1>2, ReachedHere
<1>4. /\ Good(s, edited) /\ Phase(s, n) /\ TakesNothing(reg, s) /\ LeavesTenants(reg, s)
      /\ Priced(s.plans) /\ Shut(s.plans)
      /\ NoneParted(s.plans) => NoneParted(reg.plans)
      /\ \A j \in DOMAIN reg.plans : j # i => s.plans[j] = reg.plans[j]
  <2>1. n \in {29, 32}
    OBVIOUS
  <2> HIDE DEF n
  <2> QED
    BY <1>3, <2>1, MovedOne
<1> HIDE DEF s
<1>d. reg' = s
  BY <1>1 DEF s
<1>5. Phase(reg, Reached)'
  BY <1>1, <1>2, <1>4, <1>d DEF Reached
<1>6. ~(settled /\ NoneParted(reg.plans))
  BY <1>1 DEF IInv, Memory, Unbundled
<1>7. NothingAgain
  BY <1>1, <1>4, <1>6, <1>d DEF NothingAgain
<1>8. Memory'
  <2>1. pc \notin {"serving", "down"}
    BY <1>2, NoStep
  <2> QED
    BY <1>1, <1>2, <1>4, <1>6, <1>d, <2>1 DEF IInv, Memory, Booting
<1>9. ClassesKept'
  BY <1>1, <1>2, <1>4, <1>d, ClassesLater DEF Booting, LeavesTenants
<1>10. LicencesKept'
  <2>1. pc # "mark_panels"
    BY <1>2, PlaceNames
  <2> QED
    BY <1>1, <2>1 DEF IInv, LicencesKept
<1> QED
  BY <1>1, <1>4, <1>5, <1>7, <1>8, <1>9, <1>10, <1>d DEF IInv

LEMMA MoveDoneKeeps ==
  ASSUME IInv, MoveDone
  PROVE  IInv' /\ reg' = reg
<1>1. /\ pc = Order[29] /\ pc' = StepAfter(Order[29]) /\ reg' = reg /\ changed' = changed
      /\ had' = had /\ settled' = settled /\ boots' = boots /\ edited' = edited /\ lost' = lost
      /\ pushing' = pushing /\ missed' = missed
      /\ Unbundled(reg.plans)
  BY Names DEF MoveDone, Goes, Quiet, Unbundled, deliveries
<1>2. /\ pc \in Steps /\ Place(pc) = 29 /\ pc' \in Steps /\ Place(pc') = 30
  BY <1>1, GoesOn
<1>3. Good(reg, edited) /\ boots \in Nat /\ Priced(reg.plans) /\ Shut(reg.plans)
      /\ Phase(reg, IF boots > 0 THEN 32 ELSE 29)
  BY <1>1, ReachedHere
<1>4. Phase(reg, Reached)'
  <2>1. Phase(reg, IF boots > 0 THEN 32 ELSE 30)
    BY <1>3 DEF Phase
  <2> QED
    BY <1>1, <1>2, <2>1 DEF Reached
<1>5. Memory'
  <2>1. pc' \notin {"serving", "down"}
    BY <1>2, NoStep
  <2> QED
    BY <1>1, <1>2, <1>3, <2>1 DEF IInv, Memory, Booting
<1>6. ClassesKept'
  BY <1>1, <1>2, ClassesLater DEF Booting
<1>7. LicencesKept'
  <2>1. pc' # "mark_panels"
    BY <1>2, PlaceNames
  <2> QED
    BY <1>1, <2>1 DEF IInv, LicencesKept, DeliveredIn
<1> QED
  BY <1>1, <1>3, <1>4, <1>5, <1>6, <1>7 DEF IInv

(* Rows queued, or none.                                                     *)
LEMMA Marks ==
  ASSUME IInv, NEW rows, NEW s, s = IF QueuedOnly(changed) THEN Queued(reg, rows) ELSE reg
  PROVE  /\ Good(s, edited) /\ TakesNothing(reg, s) /\ s.plans = reg.plans
         /\ \A m \in Nat : Phase(reg, m) => Phase(s, m)
         /\ s.columns = reg.columns
         /\ \A t \in Tenants : /\ s.tenants[t].mode = reg.tenants[t].mode
                               /\ s.tenants[t].app = reg.tenants[t].app
                               /\ t \notin rows => s.tenants[t] = reg.tenants[t]
                               /\ t \in rows /\ changed => s.tenants[t].push # "ok"
         /\ ~changed => s = reg
<1>1. Good(reg, edited) /\ RegistryOK(reg)
  BY DEF IInv, Good
<1>2. CASE changed
  <2>1. s = Queued(reg, rows)
    BY <1>2 DEF QueuedOnly
  <2>2. /\ TenantsOnly(reg, s) /\ s.columns = reg.columns
        /\ \A t \in Tenants :
                 /\ t \notin rows => s.tenants[t] = reg.tenants[t]
                 /\ t \in rows => s.tenants[t].push = "pending"
                 /\ s.tenants[t].mode = reg.tenants[t].mode
                 /\ s.tenants[t].app = reg.tenants[t].app
    BY <1>1, <2>1, LicencesQueued
  <2>3. /\ Good(s, edited) /\ TakesNothing(reg, s)
        /\ \A m \in Nat : Phase(reg, m) => Phase(s, m)
    BY <1>1, <2>2, TenantsWritten
  <2> QED
    BY <1>2, <2>2, <2>3 DEF TenantsOnly
<1>3. CASE ~changed
  BY <1>1, <1>3, OtherFields DEF QueuedOnly
<1> QED
  BY <1>2, <1>3 DEF IInv, Memory

LEMMA MarkStoresKeeps ==
  ASSUME IInv, MarkStores
  PROVE  IInv' /\ TakesNothing(reg, reg') /\ (boots > 0 => NothingAgain)
<1> DEFINE s == IF QueuedOnly(changed) THEN Queued(reg, Tenants \ Panels) ELSE reg
<1>1. /\ pc = Order[30] /\ pc' = StepAfter(Order[30]) /\ reg' = s /\ changed' = changed
      /\ had' = had /\ settled' = settled /\ boots' = boots /\ edited' = edited /\ lost' = lost
      /\ pushing' = pushing /\ missed' = missed
  BY Names DEF MarkStores, Goes, Quiet, deliveries
<1>2. /\ pc \in Steps /\ Place(pc) = 30 /\ pc' \in Steps /\ Place(pc') = 31
  BY <1>1, GoesOn
<1>3. boots \in Nat /\ Phase(reg, IF boots > 0 THEN 32 ELSE 30) /\ Priced(reg.plans)
      /\ Unbundled(reg.plans) /\ Shut(reg.plans)
  BY <1>1, ReachedHere
<1>4. /\ Good(s, edited) /\ TakesNothing(reg, s) /\ s.plans = reg.plans
      /\ \A m \in Nat : Phase(reg, m) => Phase(s, m)
      /\ s.columns = reg.columns
      /\ \A t \in Tenants : /\ s.tenants[t].mode = reg.tenants[t].mode
                            /\ s.tenants[t].app = reg.tenants[t].app
                            /\ t \in Tenants \ Panels /\ changed => s.tenants[t].push # "ok"
      /\ ~changed => s = reg
  <2> HIDE DEF s
  <2>1. s = IF QueuedOnly(changed) THEN Queued(reg, Tenants \ Panels) ELSE reg
    BY DEF s
  <2> QED
    BY <2>1, Marks
<1> HIDE DEF s
<1>5. Phase(reg, Reached)'
  <2>1. Phase(s, IF boots > 0 THEN 32 ELSE 30)
    BY <1>3, <1>4
  <2>2. Phase(s, IF boots > 0 THEN 32 ELSE 31)
    BY <2>1 DEF Phase
  <2> QED
    BY <1>1, <1>2, <2>2 DEF Reached
<1>6. Memory'
  <2>1. pc' \notin {"serving", "down"}
    BY <1>2, NoStep
  <2> QED
    BY <1>1, <1>2, <1>3, <1>4, <2>1 DEF IInv, Memory, Booting
<1>7. NothingAgain
  BY <1>1, <1>4 DEF NothingAgain, IInv, Memory
<1>8. ClassesKept'
  BY <1>1, <1>2, <1>4, ClassesLater DEF Booting
<1>9. LicencesKept'
  BY <1>1, <1>4 DEF IInv, LicencesKept
<1> QED
  BY <1>1, <1>4, <1>5, <1>6, <1>7, <1>8, <1>9 DEF IInv

LEMMA MarkPanelsKeeps ==
  ASSUME IInv, MarkPanels
  PROVE  IInv' /\ TakesNothing(reg, reg') /\ (boots > 0 => NothingAgain)
<1> DEFINE s == IF QueuedOnly(changed) THEN Queued(reg, Panels) ELSE reg
<1>1. /\ pc = Order[31] /\ pc' = "serving" /\ reg' = s /\ changed' = FALSE
      /\ had' = had /\ settled' = TRUE /\ boots' = boots + 1 /\ edited' = edited
      /\ lost' = lost /\ pushing' = pushing /\ missed' = missed
  BY Names, After DEF MarkPanels, Goes, deliveries
<1>2. /\ pc \in Steps /\ Place(pc) = 31 /\ pc = "mark_panels"
      /\ Place(pc') = 32 /\ pc' \notin Steps
  <2>1. Order[31] \in Steps /\ Place(Order[31]) = 31 /\ Order[31] = "mark_panels"
    BY Places, Names
  <2>2. Place("serving") = 32 /\ "serving" \notin Steps
    BY Places, NoStep
  <2> QED
    BY <1>1, <2>1, <2>2, Zenon
<1>3. boots \in Nat /\ Phase(reg, IF boots > 0 THEN 32 ELSE 31) /\ Priced(reg.plans)
      /\ Unbundled(reg.plans) /\ Shut(reg.plans)
  <2>1. 31 \in 1..31
    OBVIOUS
  <2> QED
    BY <1>1, <2>1, ReachedHere
<1>4. /\ Good(s, edited) /\ TakesNothing(reg, s) /\ s.plans = reg.plans
      /\ \A m \in Nat : Phase(reg, m) => Phase(s, m)
      /\ s.columns = reg.columns
      /\ \A t \in Tenants : /\ s.tenants[t].mode = reg.tenants[t].mode
                            /\ s.tenants[t].app = reg.tenants[t].app
                            /\ t \notin Panels => s.tenants[t] = reg.tenants[t]
                            /\ t \in Panels /\ changed => s.tenants[t].push # "ok"
      /\ ~changed => s = reg
  <2> HIDE DEF s
  <2>1. s = IF QueuedOnly(changed) THEN Queued(reg, Panels) ELSE reg
    BY DEF s
  <2> QED
    BY <2>1, Marks
<1> HIDE DEF s
<1>5. Phase(reg, Reached)'
  <2>1. Phase(s, IF boots > 0 THEN 32 ELSE 31)
    BY <1>3, <1>4
  <2>2. Phase(s, 32)
    BY <2>1 DEF Phase
  <2> QED
    BY <1>1, <1>3, <2>2 DEF Reached
<1>6. Memory'
  <2>1. ~Booting'
    BY <1>2 DEF Booting
  <2>2. boots' \in Nat /\ boots' > 0
    BY <1>1, <1>3
  <2>3. /\ Priced(reg'.plans) /\ Unbundled(reg'.plans)
        /\ NoneParted(reg'.plans) => Closed(reg'.plans)
    BY <1>1, <1>3, <1>4 DEF Shut, ShutRow, NoneParted, Closed
  <2>4. /\ pc' \in Steps \cup {"serving", "down"} /\ changed' = FALSE /\ settled' = TRUE
        /\ had' \subseteq {"stores", "panels"}
        /\ lost' \subseteq {"stores", "panels", "delivery"}
    BY <1>1 DEF IInv, Memory
  <2> QED
    BY <2>1, <2>2, <2>3, <2>4 DEF Memory
<1>7. NothingAgain
  BY <1>1, <1>4 DEF NothingAgain, IInv, Memory
<1>8. ClassesKept'
  BY <1>1, <1>2, <1>4, ClassesLater DEF Booting
<1>9. LicencesKept'
  <2>1. pc' # "mark_panels"
    BY <1>2, NoStep
  <2>2. CASE changed
    <3>1. \A t \in Tenants : s.tenants[t].push # "ok"
      BY <1>2, <1>4, <2>2 DEF IInv, LicencesKept
    <3> QED
      BY <1>1, <2>1, <3>1 DEF IInv, LicencesKept, DeliveredIn
  <2>3. CASE ~changed
    BY <1>1, <1>4, <2>1, <2>3 DEF IInv, LicencesKept, DeliveredIn
  <2> QED
    BY <2>2, <2>3
<1> QED
  BY <1>1, <1>4, <1>5, <1>6, <1>7, <1>8, <1>9 DEF IInv
-----------------------------------------------------------------------------
(* The process ends, and starts again.                                       *)

LEMMA CutKeeps ==
  ASSUME IInv, Cut
  PROVE  IInv' /\ reg' = reg
<1>1. /\ pc \in Steps /\ pc' = "down" /\ changed' = FALSE /\ reg' = reg /\ had' = had
      /\ settled' = settled /\ edited' = edited /\ boots' = boots
      /\ pushing' = pushing /\ missed' = missed
      /\ lost' = lost \cup {table \in reg.columns \ had : pc \in Unclassed[table]}
                      \cup (IF changed THEN {"delivery"} ELSE {})
  BY DEF Cut, deliveries
<1>2. ~Booting' /\ pc' \notin Steps /\ pc' \notin {"ddl", "read", "store_column", "panel_column",
                                                  "mark_panels", "serving"}
  <2>1. "down" \notin Steps
    BY NoStep
  <2> QED
    BY <1>1, <2>1 DEF Booting
<1>3. Good(reg, edited) /\ RegistryOK(reg) /\ reg.columns \subseteq {"stores", "panels"}
  BY Fields DEF IInv, Good
<1>4. Phase(reg, Reached)'
  <2>1. boots' = 0 => Reached' = 0
    BY <1>1, Places DEF Reached
  <2>2. boots > 0 => Reached = 32 /\ Reached' = 32
    BY <1>1 DEF Reached
  <2>3. boots \in Nat /\ Phase(reg, Reached)
    BY DEF IInv, Memory
  <2>4. Phase(reg, 0)
    BY DEF Phase
  <2> QED
    BY <1>1, <2>1, <2>2, <2>3, <2>4
<1>5. Memory'
  <2>1. lost' \subseteq {"stores", "panels", "delivery"}
    BY <1>1, <1>3 DEF IInv, Memory
  <2> QED
    BY <1>1, <1>2, <2>1 DEF IInv, Memory
<1>6. ClassesKept'
  <2>1. ASSUME NEW t \in Tenants, HasClasses(TableOf(t))'
        PROVE  ClassedIn(reg, t)
    <3>1. TableOf(t) \in reg.columns /\ TableOf(t) \notin lost /\ HasClasses(TableOf(t))
      BY <1>1, <2>1 DEF HasClasses, TableOf
    <3>2. ~(TableOf(t) \notin had /\ pc \in Unclassed[TableOf(t)])
      BY <1>1, <2>1, <3>1 DEF HasClasses, TableOf
    <3>3. ~Window(TableOf(t))
      BY <3>2 DEF Window
    <3> QED
      BY <3>1, <3>3 DEF IInv, ClassesKept
  <2> QED
    BY <1>1, <1>2, <2>1 DEF ClassesKept, ClassedIn
<1>7. LicencesKept'
  BY <1>1, <1>2 DEF IInv, LicencesKept, DeliveredIn
<1> QED
  BY <1>1, <1>3, <1>4, <1>5, <1>6, <1>7 DEF IInv

LEMMA StopKeeps ==
  ASSUME IInv, Stop
  PROVE  IInv' /\ reg' = reg
<1>1. /\ pc = "serving" /\ pc' = "down" /\ changed' = changed /\ reg' = reg /\ had' = had
      /\ settled' = settled /\ edited' = edited /\ boots' = boots /\ lost' = lost
      /\ pushing' = {} /\ missed' = missed \cup pushing
  BY DEF Stop
<1>2. /\ ~Booting /\ ~Booting'
      /\ pc' \notin {"ddl", "read", "store_column", "panel_column", "mark_panels", "serving"}
  <2>1. "down" \notin Steps /\ "serving" \notin Steps
    BY NoStep
  <2> QED
    BY <1>1, <2>1 DEF Booting
<1>3. boots > 0 /\ Reached' = Reached
  BY <1>1 DEF IInv, Memory, Reached
<1>4. Good(reg, edited)' /\ Phase(reg, Reached)'
  BY <1>1, <1>3 DEF IInv
<1>5. Memory'
  BY <1>1, <1>2 DEF IInv, Memory
<1>6. ClassesKept'
  <2>1. \A table : ~Window(table)
    BY <1>2 DEF Window
  <2> QED
    BY <1>1, <1>2, <2>1 DEF IInv, ClassesKept, HasClasses, ClassedIn
<1>7. LicencesKept'
  BY <1>1, <1>2 DEF IInv, LicencesKept, DeliveredIn
<1> QED
  BY <1>1, <1>4, <1>5, <1>6, <1>7 DEF IInv

LEMMA StartKeeps ==
  ASSUME IInv, Start
  PROVE  IInv' /\ reg' = reg
<1>1. /\ pc = "down" /\ pc' = "ddl" /\ changed' = changed /\ reg' = reg /\ had' = {}
      /\ settled' = settled /\ edited' = edited /\ boots' = boots /\ lost' = lost
      /\ pushing' = pushing /\ missed' = missed
  BY DEF Start, deliveries
<1>2. ~Booting /\ pc' \in Steps /\ Place(pc') = 1 /\ Place(pc) = 0
  <2>1. "down" \notin Steps /\ "ddl" \in Steps /\ Place("ddl") = 1 /\ Place("down") = 0
    BY NoStep, Names, Places, PlaceNames
  <2> QED
    BY <1>1, <2>1 DEF Booting
<1>3. boots \in Nat /\ Phase(reg, Reached) /\ ~changed
  BY <1>2 DEF IInv, Memory
<1>4. Good(reg, edited)' /\ Phase(reg, Reached)'
  <2>1. boots = 0 => Phase(reg, 1)
    BY DEF Phase
  <2>2. boots = 0 => Reached' = 1
    BY <1>1, <1>2 DEF Reached
  <2>3. boots > 0 => Reached = 32 /\ Reached' = 32
    BY <1>1 DEF Reached
  <2> QED
    BY <1>1, <1>3, <2>1, <2>2, <2>3 DEF IInv
<1>5. Memory'
  <2>1. pc' # "serving"
    BY <1>1
  <2> QED
    BY <1>1, <1>2, <1>3, <2>1 DEF IInv, Memory
<1>6. ClassesKept'
  <2>1. \A table : ~Window(table)
    BY <1>2 DEF Window
  <2>2. \A t \in Tenants : HasClasses(TableOf(t)) => ClassedIn(reg, t)
    BY <2>1 DEF IInv, ClassesKept
  <2>3. pc' \notin {"store_column", "panel_column"}
    BY <1>1
  <2> QED
    BY <1>1, <1>2, <2>2, <2>3 DEF ClassesKept, HasClasses, ClassedIn
<1>7. LicencesKept'
  <2>1. pc' # "mark_panels"
    BY <1>1
  <2> QED
    BY <1>1, <2>1 DEF IInv, LicencesKept, DeliveredIn
<1> QED
  BY <1>1, <1>4, <1>5, <1>6, <1>7 DEF IInv
-----------------------------------------------------------------------------
(* The office edits while the process serves, and licences are delivered.    *)

LEMMA EntitledKeys ==
  ASSUME NEW r, RegistryOK(r), NEW c \in Companies
  PROVE  Entitled(r, c) \subseteq Keys
<1>1. SubscriptionRow(r.subs[c]) /\ PlansTable(r.plans)
  BY Fields
<1>2. r.subs[c].bought \subseteq Keys
  BY <1>1 DEF SubscriptionRow
<1>3. r.plan[c] \in DOMAIN r.plans => r.plans[r.plan[c]].features \subseteq Keys
  BY <1>1 DEF PlansTable, RowOK
<1> QED
  BY <1>2, <1>3 DEF Entitled

LEMMA TenantsReplaced ==
  ASSUME NEW r, RegistryOK(r), NEW ts \in [Tenants -> TenantRow]
  PROVE  LET s == [r EXCEPT !.tenants = ts]
         IN TenantsOnly(r, s) /\ s.columns = r.columns /\ s.tenants = ts
<1> DEFINE s == [r EXCEPT !.tenants = ts]
<1>1. RegistryOK(s)
  BY WithTenants
<1> QED
  BY <1>1 DEF TenantsOnly, RegistryOK

(* An edit owes its licences to those it delivers to, and passes the others   *)
(* over.                                                                     *)
LEMMA EditKeeps ==
  ASSUME IInv, NEW r, NEW clients, Edits(r, clients), Good(r, edited'), Phase(r, 32),
         r.columns = reg.columns, r.tenants = reg.tenants
  PROVE  IInv'
<1>1. /\ pc = "serving" /\ pc' = pc /\ settled' = FALSE /\ reg' = r /\ had' = had
      /\ changed' = changed /\ lost' = lost /\ boots' = boots
      /\ pushing' = pushing \cup {t \in Tenants : Owner[t] \in clients}
      /\ missed' = missed \cup {t \in Tenants :
                                /\ Owner[t] \notin clients
                                /\ Entitled(r, Owner[t]) # Entitled(reg, Owner[t])}
  BY DEF Edits
<1>2. ~Booting /\ ~Booting' /\ pc \notin {"ddl", "read", "store_column", "panel_column", "mark_panels"}
  <2>1. "serving" \notin Steps
    BY NoStep
  <2> QED
    BY <1>1, <2>1 DEF Booting
<1>3. boots \in Nat /\ boots > 0 /\ ~changed
  BY <1>1, <1>2 DEF IInv, Memory
<1>4. Phase(reg, Reached)'
  BY <1>1, <1>3 DEF Reached
<1>5. Memory'
  BY <1>1, <1>2, <1>3 DEF IInv, Memory
<1>6. ClassesKept'
  <2>1. \A table : ~Window(table)
    BY <1>2 DEF Window
  <2>2. \A t \in Tenants : HasClasses(TableOf(t)) => ClassedIn(reg, t)
    BY <2>1 DEF IInv, ClassesKept
  <2> QED
    BY <1>1, <1>2, <2>2 DEF ClassesKept, HasClasses, ClassedIn
<1>7. LicencesKept'
  <2>1. ASSUME NEW t \in Tenants \ (missed' \cup pushing'), DeliveredIn(reg, t)
        PROVE  DeliveredIn(r, t)
    <3>1. Entitled(r, Owner[t]) = Entitled(reg, Owner[t])
      BY <1>1, <2>1
    <3> QED
      BY <2>1, <3>1 DEF DeliveredIn
  <2>2. \A t \in Tenants \ (missed' \cup pushing') : t \notin missed \cup pushing
    BY <1>1
  <2>3. pushing' \subseteq Tenants /\ missed' \subseteq Tenants
    BY <1>1 DEF IInv, LicencesKept
  <2> QED
    BY <1>1, <1>2, <1>3, <2>1, <2>2, <2>3 DEF IInv, LicencesKept
<1> QED
  BY <1>1, <1>4, <1>5, <1>6, <1>7 DEF IInv

(* A plan's row, edited.                                                     *)
EditedRow(row, new) ==
  /\ RowOK(new) /\ new.code = row.code /\ new.flat = row.flat /\ new.created = row.created
  /\ SameRates(row, new)

LEMMA PlanPut ==
  ASSUME NEW r, NEW ed, Good(r, ed), Phase(r, 32), NEW i \in DOMAIN r.plans, NEW row,
         EditedRow(r.plans[i], row)
  PROVE  LET s == [r EXCEPT !.plans[i] = row]
         IN /\ Good(s, ed \cup {i}) /\ Phase(s, 32)
            /\ s.columns = r.columns /\ s.tenants = r.tenants
<1> DEFINE s == [r EXCEPT !.plans[i] = row]
           p == [j \in DOMAIN r.plans |-> IF j = i THEN row ELSE r.plans[j]]
<1>0. /\ RegistryOK(r) /\ PlansTable(r.plans)
      /\ r.plans = [j \in DOMAIN r.plans |-> r.plans[j]]
      /\ \A j \in DOMAIN r.plans : RowOK(r.plans[j])
  BY Fields DEF Good, PlansTable
<1>1. s = [r EXCEPT !.plans = p]
  <2>1. [r.plans EXCEPT ![i] = row] = p
    BY <1>0
  <2> QED
    BY <1>0, <2>1 DEF RegistryOK
<1>2. p = [j \in DOMAIN r.plans |-> p[j]] /\ DOMAIN p = DOMAIN r.plans
  OBVIOUS
<1>3. \A j \in DOMAIN r.plans : RowOK(p[j]) /\ KeepsRow(r.plans[j], p[j])
  BY <1>0 DEF KeepsRow, EditedRow, SameRates
<1>4. r.shape \notin {None, "flat"}
  BY DEF Phase
<1>5. /\ \A j \in DOMAIN r.plans : j # i => p[j] = r.plans[j]
      /\ p[i] = row
  OBVIOUS
<1> HIDE DEF p, s
<1>6. /\ Good(s, ed) /\ PlansOnly(r, s) /\ s.plans = p /\ Codes(p) = Codes(r.plans)
  BY <1>1, <1>2, <1>3, <1>4, RowsGood
<1>7. Good(s, ed \cup {i})
  BY <1>6 DEF Good, FlatKept
<1>8. Phase(s, 32)
  <2>1. /\ CodesGone(r.plans) => CodesGone(p)
        /\ SeedsIn(r.plans) => SeedsIn(p)
    BY <1>6 DEF CodesGone, SeedsIn
  <2>2. SeedsPriced(r.plans) => SeedsPriced(p)
    BY <1>2, <1>5 DEF SeedsPriced, EditedRow, SameRates, Unpriced
  <2> QED
    BY <1>6, <2>1, <2>2 DEF Phase, PlansOnly
<1> QED
  BY <1>6, <1>7, <1>8 DEF PlansOnly, s

LEMMA EditPlanKeeps ==
  ASSUME IInv, EditPlan
  PROVE  IInv'
<1>1. PICK i \in DOMAIN reg.plans :
        /\ edited' = edited \cup {i}
        /\ \/ \E k \in DOMAIN reg.plans[i].prices \cap Withdrawn :
                PutPlan(i, [reg.plans[i] EXCEPT !.prices = [j \in DOMAIN @ \ {k} |-> @[j]]])
           \/ \E k \in Offered, cents \in Prices :
                PutPlan(i, [reg.plans[i] EXCEPT !.prices = Merged(@, [j \in {k} |-> cents])])
           \/ \E features \in SUBSET (Keys \ Sold) :
                PutPlan(i, [reg.plans[i] EXCEPT !.features = features])
  BY DEF EditPlan
<1> DEFINE row == reg.plans[i]
<1>2. RowOK(row) /\ Good(reg, edited) /\ PriceList(row.prices)
  BY Fields DEF IInv, Good, PlansTable, RowOK
<1>3. ASSUME NEW q, PriceList(q)
      PROVE  EditedRow(row, [row EXCEPT !.prices = q])
  <2> HIDE DEF row
  <2> QED
    BY <1>2, <1>3 DEF RowOK, SameRates, EditedRow
<1>4. ASSUME NEW k \in DOMAIN row.prices \cap Withdrawn
      PROVE  EditedRow(row, [row EXCEPT !.prices = [j \in DOMAIN @ \ {k} |-> @[j]]])
  <2> DEFINE q == [j \in DOMAIN row.prices \ {k} |-> row.prices[j]]
  <2> HIDE DEF row
  <2>1. PriceList(q)
    BY <1>2 DEF PriceList
  <2>d. [row EXCEPT !.prices = [j \in DOMAIN @ \ {k} |-> @[j]]] = [row EXCEPT !.prices = q]
    BY <1>2 DEF RowOK
  <2> HIDE DEF q
  <2> QED
    BY <1>3, <2>1, <2>d
<1>5. ASSUME NEW k \in Offered, NEW cents \in Prices
      PROVE  EditedRow(row, [row EXCEPT !.prices = Merged(@, [j \in {k} |-> cents])])
  <2> DEFINE q == Merged(row.prices, [j \in {k} |-> cents])
  <2> HIDE DEF row
  <2>1. PriceList(q)
    BY <1>2, BootAssumption DEF PriceList, Merged
  <2>d. [row EXCEPT !.prices = Merged(@, [j \in {k} |-> cents])] = [row EXCEPT !.prices = q]
    BY <1>2 DEF RowOK
  <2> HIDE DEF q
  <2> QED
    BY <1>3, <2>1, <2>d
<1>6. ASSUME NEW features \in SUBSET (Keys \ Sold)
      PROVE  EditedRow(row, [row EXCEPT !.features = features])
  <2> HIDE DEF row
  <2> QED
    BY <1>2, <1>6 DEF RowOK, SameRates, EditedRow
<1>7. ASSUME NEW new, EditedRow(row, new), PutPlan(i, new)
      PROVE  IInv'
  <2> DEFINE r == [reg EXCEPT !.plans[i] = new]
  <2>1. PICK clients : Edits(r, clients)
    BY <1>7 DEF PutPlan
  <2>2. Phase(reg, 32)
    BY <2>1 DEF Edits, IInv, Memory, Reached
  <2>3. /\ Good(r, edited \cup {i}) /\ Phase(r, 32)
        /\ r.columns = reg.columns /\ r.tenants = reg.tenants
    <3>1. EditedRow(reg.plans[i], new) /\ Good(reg, edited)
      BY <1>2, <1>7
    <3> HIDE DEF row
    <3> QED
      BY <2>2, <3>1, PlanPut
  <2> HIDE DEF r
  <2> QED
    BY <1>1, <2>1, <2>3, EditKeeps
<1> QED
  BY <1>1, <1>4, <1>5, <1>6, <1>7

(* A client's subscription, written.                                         *)
LEMMA SubscriptionPut ==
  ASSUME NEW r, NEW ed, Good(r, ed), Phase(r, 32), NEW c \in Companies, NEW sub,
         SubscriptionRow(sub), sub.fee = r.subs[c].fee
  PROVE  LET s == [r EXCEPT !.subs[c] = sub]
         IN /\ Good(s, ed) /\ Phase(s, 32)
            /\ s.columns = r.columns /\ s.tenants = r.tenants
<1> DEFINE s == [r EXCEPT !.subs[c] = sub]
           w == [d \in Companies |-> IF d = c THEN sub ELSE r.subs[d]]
<1>0. /\ RegistryOK(r) /\ r.subs = [d \in Companies |-> r.subs[d]]
      /\ \A d \in Companies : SubscriptionRow(r.subs[d])
  BY Fields DEF Good
<1>1. s = [r EXCEPT !.subs = w]
  <2>1. [r.subs EXCEPT ![c] = sub] = w
    BY <1>0
  <2> QED
    BY <1>0, <2>1 DEF RegistryOK
<1>2. /\ w = [d \in Companies |-> w[d]]
      /\ \A d \in Companies : SubscriptionRow(w[d]) /\ w[d].fee = r.subs[d].fee
      /\ \A d \in Companies : d # c => w[d] = r.subs[d]
  BY <1>0
<1> HIDE DEF w, s
<1>3. RegistryOK(s)
  BY <1>0, <1>1, <1>2, WithSubs
<1>4. /\ s.plans = r.plans /\ s.spare = r.spare /\ s.plan = r.plan /\ s.subs = w
      /\ s.charged = r.charged /\ s.tenants = r.tenants /\ s.columns = r.columns
      /\ s.shape = r.shape /\ s.invoice = r.invoice /\ s.onceOff = r.onceOff
      /\ s.plansRef = r.plansRef /\ s.settings = r.settings /\ s.storesCheck = r.storesCheck
      /\ s.version = r.version
  BY <1>0, <1>1 DEF RegistryOK
<1>5. Good(s, ed)
  BY <1>2, <1>3, <1>4 DEF Good, FlatKept
<1>6. Phase(s, 32)
  BY <1>2, <1>4 DEF Phase
<1> QED
  BY <1>4, <1>5, <1>6 DEF s

LEMMA BuyKeeps ==
  ASSUME IInv, Buy
  PROVE  IInv'
<1>1. PICK c \in Companies, k \in Wanted :
        /\ Edits([reg EXCEPT !.subs[c] = Buying(@, k, reg.plans[reg.plan[c]].prices[k])], {c})
        /\ edited' = edited
  BY DEF Buy
<1> DEFINE sub == Buying(reg.subs[c], k, reg.plans[reg.plan[c]].prices[k])
           r == [reg EXCEPT !.subs[c] = sub]
<1>2. Edits(r, {c})
  BY <1>1
<1>3. Good(reg, edited) /\ Phase(reg, 32) /\ SubscriptionRow(reg.subs[c])
  BY <1>2, Fields DEF Edits, IInv, Good, Memory, Reached
<1>4. SubscriptionRow(sub) /\ sub.fee = reg.subs[c].fee
  <2>1. \A q : SubscriptionRow(Buying(reg.subs[c], k, q))
               /\ Buying(reg.subs[c], k, q).fee = reg.subs[c].fee
    <3> DEFINE had_ == reg.subs[c]
    <3>1. SubscriptionRow(had_) /\ k \in Keys
      BY <1>3, BootAssumption
    <3> HIDE DEF had_
    <3> SUFFICES ASSUME NEW q
                 PROVE  SubscriptionRow(Buying(had_, k, q)) /\ Buying(had_, k, q).fee = had_.fee
      BY DEF had_
    <3> DEFINE a == Merged(had_.agreed, [j \in {k} |-> q])
    <3>2. DOMAIN a = had_.bought \cup {k}
      BY <3>1 DEF Merged, SubscriptionRow
    <3> HIDE DEF a
    <3>3. LET new == [had_ EXCEPT !.bought = had_.bought \cup {k}, !.agreed = a]
          IN SubscriptionRow(new) /\ new.fee = had_.fee
      BY <3>1, <3>2 DEF SubscriptionRow
    <3>4. Buying(had_, k, q) = [had_ EXCEPT !.bought = had_.bought \cup {k}, !.agreed = a]
      BY <3>1 DEF Buying, a, SubscriptionRow
    <3> QED
      BY <3>3, <3>4
  <2> QED
    BY <2>1
<1> HIDE DEF sub
<1>5. /\ Good(r, edited) /\ Phase(r, 32)
      /\ r.columns = reg.columns /\ r.tenants = reg.tenants
  BY <1>3, <1>4, SubscriptionPut
<1> HIDE DEF r
<1> QED
  BY <1>1, <1>2, <1>5, EditKeeps

(* A delivery, to a tenant or not, that is owed or not.                      *)
LEMMA DeliverKeeps ==
  ASSUME IInv, NEW t \in Tenants, Deliver(t), pushing' \in {pushing, pushing \ {t}}
  PROVE  IInv'
<1>1. /\ pc = "serving" /\ pc' = pc /\ settled' = settled /\ had' = had
      /\ changed' = changed /\ lost' = lost /\ boots' = boots /\ edited' = edited
  BY DEF Deliver
<1>2. ~Booting /\ ~Booting' /\ pc \notin {"ddl", "read", "store_column", "panel_column", "mark_panels"}
  <2>1. "serving" \notin Steps
    BY NoStep
  <2> QED
    BY <1>1, <2>1 DEF Booting
<1>3. Good(reg, edited) /\ RegistryOK(reg) /\ Phase(reg, 32) /\ boots' > 0 /\ ~changed
  BY <1>1, <1>2 DEF IInv, Good, Memory, Reached
<1>4. /\ reg.tenants \in [Tenants -> TenantRow] /\ Owner[t] \in Companies
      /\ Entitled(reg, Owner[t]) \in SUBSET Keys
  BY <1>3, Fields, EntitledKeys, BootAssumption
<1>5. PICK row \in TenantRow :
        /\ reg' = [reg EXCEPT !.tenants[t] = row]
        /\ row.mode = reg.tenants[t].mode /\ row.app = reg.tenants[t].app
        /\ row.push = "ok" => row.held = Entitled(reg, Owner[t])
        /\ missed' \in {missed, missed \ {t}}
  <2> DEFINE old == reg.tenants[t]
             h == Entitled(reg, Owner[t])
             new == [old EXCEPT !.push = "ok", !.held = h]
             fail == [old EXCEPT !.push = "failed"]
  <2>1. old \in TenantRow /\ h \in SUBSET Keys
    BY <1>4
  <2>2. \/ reg' = [reg EXCEPT !.tenants[t] = new] /\ missed' = missed \ {t}
        \/ reg' = [reg EXCEPT !.tenants[t] = fail] /\ missed' = missed
    BY DEF Deliver
  <2> HIDE DEF old, h
  <2>3. /\ new \in TenantRow /\ new.mode = old.mode /\ new.app = old.app
        /\ new.push = "ok" /\ new.held = h
        /\ fail \in TenantRow /\ fail.mode = old.mode /\ fail.app = old.app
        /\ fail.push = "failed"
    BY <2>1 DEF TenantRow
  <2> HIDE DEF new, fail
  <2> QED
    BY <2>2, <2>3 DEF old, h
<1> DEFINE ts == [reg.tenants EXCEPT ![t] = row]
           s == [reg EXCEPT !.tenants = ts]
<1>6. /\ ts \in [Tenants -> TenantRow]
      /\ \A u \in Tenants : u # t => ts[u] = reg.tenants[u]
      /\ ts[t] = row
  BY <1>4, <1>5
<1>d. reg' = s
  BY <1>5
<1> HIDE DEF ts
<1>7. TenantsOnly(reg, s) /\ s.columns = reg.columns /\ s.tenants = ts
  BY <1>3, <1>6, TenantsReplaced
<1> HIDE DEF s
<1>8. /\ Good(s, edited)
      /\ \A n \in Nat : Phase(reg, n) => Phase(s, n)
      /\ \A c \in Companies : Entitled(s, c) = Entitled(reg, c)
  BY <1>3, <1>7, TenantsWritten
<1>9. Phase(reg, Reached)'
  <2>1. Phase(s, 32)
    BY <1>3, <1>8
  <2> QED
    BY <1>1, <1>3, <1>d, <2>1 DEF Reached
<1>10. Memory'
  BY <1>1, <1>2, <1>7, <1>d DEF IInv, Memory, TenantsOnly
<1>11. ClassesKept'
  <2>1. \A table : ~Window(table)
    BY <1>2 DEF Window
  <2>2. \A u \in Tenants : HasClasses(TableOf(u)) => ClassedIn(reg, u)
    BY <2>1 DEF IInv, ClassesKept
  <2>3. \A u \in Tenants : ClassedIn(reg, u) => ClassedIn(s, u)
    BY <1>5, <1>6, <1>7 DEF ClassedIn
  <2> QED
    BY <1>1, <1>2, <1>7, <1>d, <2>2, <2>3 DEF ClassesKept, HasClasses
<1>12. LicencesKept'
  <2>1. DeliveredIn(s, t)
    BY <1>4, <1>5, <1>6, <1>7, <1>8 DEF DeliveredIn
  <2>2. ASSUME NEW u \in Tenants, u # t, DeliveredIn(reg, u) PROVE DeliveredIn(s, u)
    <3>1. Owner[u] \in Companies
      BY BootAssumption
    <3> QED
      BY <1>6, <1>7, <1>8, <2>2, <3>1 DEF DeliveredIn
  <2>3. \A u \in Tenants \ (missed' \cup pushing') : u = t \/ u \notin missed \cup pushing
    BY <1>5
  <2>4. pushing' \subseteq Tenants /\ missed' \subseteq Tenants
    BY <1>5 DEF IInv, LicencesKept
  <2> QED
    BY <1>1, <1>2, <1>3, <1>d, <2>1, <2>2, <2>3, <2>4 DEF IInv, LicencesKept
<1> QED
  BY <1>1, <1>8, <1>9, <1>10, <1>11, <1>12, <1>d DEF IInv
-----------------------------------------------------------------------------
(* The invariant, and what follows from it.                                  *)

LEMMA InitInv ==
  ASSUME Whole, Init
  PROVE  IInv
<1>1. /\ reg \in Registries /\ pc = "ddl" /\ had = {} /\ changed = FALSE /\ settled = FALSE
      /\ edited = {} /\ lost = {} /\ boots = 0
      /\ pushing = {} /\ missed = {t \in Tenants : ~DeliveredIn(reg, t)}
  BY DEF Init
<1>2. RegistryOK(reg) /\ Intact(reg)
  BY <1>1, BootAssumption DEF Whole
<1>3. pc \in Steps /\ Place(pc) = 1 /\ Reached = 1
  <2>1. "ddl" \in Steps /\ Place("ddl") = 1
    BY Names, Places, PlaceNames
  <2> QED
    BY <1>1, <2>1 DEF Reached
<1>4. Good(reg, edited)
  BY <1>1, <1>2 DEF Intact, Good
<1>5. Phase(reg, Reached)
  BY <1>3 DEF Phase
<1>6. Memory
  <2>1. pc # "serving"
    BY <1>1
  <2>2. ~(Place(pc) > 24) /\ ~(Place(pc) > 29) /\ boots \in Nat
    BY <1>1, <1>3
  <2>3. /\ had \subseteq {"stores", "panels"}
        /\ lost \subseteq {"stores", "panels", "delivery"}
    BY <1>1
  <2> QED
    BY <1>1, <1>3, <2>1, <2>2, <2>3 DEF Memory
<1>7. ClassesKept
  <2>1. pc \notin {"store_column", "panel_column"}
    BY <1>1
  <2> QED
    BY <1>1, <1>2, <2>1 DEF ClassesKept, HasClasses, Intact
<1>8. LicencesKept
  <2>1. pc # "mark_panels"
    BY <1>1
  <2> QED
    BY <1>1, <2>1 DEF LicencesKept
<1> QED
  BY <1>4, <1>5, <1>6, <1>7, <1>8 DEF IInv

(* What each statement of a boot keeps, and what it may write of a registry  *)
(* that a boot has been through.                                             *)
LEMMA BootKeepsInv ==
  ASSUME IInv, Boot
  PROVE  IInv' /\ TakesNothing(reg, reg') /\ (boots > 0 => NothingAgain)
<1>1. CASE QuietBoot
  BY <1>1, QuietBootKeeps DEF NothingAgain
<1>2. CASE Read
  BY <1>2, ReadKeeps DEF NothingAgain
<1>3. CASE StoreColumn
  BY <1>3, StoreColumnKeeps DEF NothingAgain
<1>4. CASE PanelColumn
  BY <1>4, PanelColumnKeeps DEF NothingAgain
<1>5. CASE StoreClass
  BY <1>5, StoreClassKeeps DEF NothingAgain
<1>6. CASE PanelClass
  BY <1>6, PanelClassKeeps DEF NothingAgain
<1>7. CASE GrantSplitKeys
  BY <1>7, SplitKeeps
<1>8. CASE MoveOne
  BY <1>8, MoveOneKeeps
<1>9. CASE MoveDone
  <2>1. IInv' /\ reg' = reg
    BY <1>9, MoveDoneKeeps
  <2>2. TakesNothing(reg, reg)
    BY OtherFields
  <2> QED
    BY <2>1, <2>2 DEF NothingAgain
<1>10. CASE MarkStores
  BY <1>10, MarkStoresKeeps
<1>11. CASE MarkPanels
  BY <1>11, MarkPanelsKeeps
<1> QED
  BY <1>1, <1>2, <1>3, <1>4, <1>5, <1>6, <1>7, <1>8, <1>9, <1>10, <1>11 DEF Boot, QuietBoot

(* Whatever database an earlier build left whole, however often a boot was   *)
(* cut and whatever the office edited since, the invariant holds: what is so *)
(* of the database at every time (Good), what the statements behind the boot *)
(* have made of it (Phase), the boot's memory of this (Memory), the classes  *)
(* and the licences.                                                         *)
THEOREM Invariance ==
  ASSUME Whole PROVE Spec => []IInv
<1>1. Init => IInv
  BY InitInv
<1>2. IInv /\ [Next]_vars => IInv'
  <2> SUFFICES ASSUME IInv, [Next]_vars PROVE IInv'
    OBVIOUS
  <2>1. CASE Boot
    BY <2>1, BootKeepsInv
  <2>2. CASE Cut
    BY <2>2, CutKeeps
  <2>3. CASE Stop
    BY <2>3, StopKeeps
  <2>4. CASE Start
    BY <2>4, StartKeeps
  <2>5. CASE EditPlan
    BY <2>5, EditPlanKeeps
  <2>6. CASE Buy
    BY <2>6, BuyKeeps
  <2>7. CASE Push
    <3>1. PICK t \in pushing : Deliver(t) /\ pushing' = pushing \ {t}
      BY <2>7 DEF Push
    <3>2. t \in Tenants
      BY DEF IInv, LicencesKept
    <3> QED
      BY <3>1, <3>2, DeliverKeeps
  <2>8. CASE Sweep
    BY <2>8, DeliverKeeps DEF Sweep
  <2>9. CASE UNCHANGED vars
    BY <2>9 DEF vars, deliveries, IInv, Good, Phase, Reached, Place, Memory, Booting,
                ClassesKept, Window, HasClasses, ClassedIn, LicencesKept, DeliveredIn
  <2> QED
    BY <2>1, <2>2, <2>3, <2>4, <2>5, <2>6, <2>7, <2>8, <2>9 DEF Next
<1> QED
  BY <1>1, <1>2, PTL DEF Spec

(* What a boot leaves to serve is sound (RegistrySound): the tables have      *)
(* their types and no two plans one code, no flat client price is read as a  *)
(* rate, every tenant with an application is in its class, and a licence      *)
(* marked delivered says what its client is entitled to or a request is on   *)
(* its way to it -- but for the two windows in which a boot was cut, for the *)
(* licences an edit passed over (missed), and for what the earlier build     *)
(* left.                                                                     *)
THEOREM ServesSound ==
  ASSUME Whole PROVE Spec => []RegistrySound
<1>1. IInv => RegistrySound
  <2> SUFFICES ASSUME IInv PROVE RegistrySound
    OBVIOUS
  <2>1. TypeOK
    BY DEF IInv, Good, Memory, LicencesKept, TypeOK
  <2>2. FlatNotRate
    BY DEF IInv, Good, FlatNotRate
  <2>3. pc = "serving" => Phase(reg, 32) /\ ~Booting /\ ~changed
    <3>1. "serving" \notin Steps
      BY NoStep
    <3> QED
      BY <3>1 DEF IInv, Memory, Reached, Booting
  <2>4. Classed
    <3>1. \A t \in Tenants : TableOf(t) \in {"stores", "panels"}
      BY DEF TableOf
    <3>2. pc = "serving" => \A t \in Tenants : TableOf(t) \in reg.columns
      BY <2>3, <3>1 DEF Phase
    <3> QED
      BY <2>3, <3>2 DEF Classed, IInv, ClassesKept, HasClasses, Window
  <2>5. Redelivered
    BY <2>3 DEF IInv, LicencesKept, Redelivered
  <2> QED
    BY <2>1, <2>2, <2>4, <2>5 DEF RegistrySound
<1>2. Spec => []IInv
  BY Invariance
<1> QED
  BY <1>1, <1>2, PTL

(* Outside a boot nothing boots: what the other actions do to the registry.  *)
LEMMA NextSteps ==
  ASSUME IInv, [Next]_vars, Booting
  PROVE  /\ TakesNothing(reg, reg')
         /\ boots > 0 => NothingAgain
<1>1. CASE Boot
  BY <1>1, BootKeepsInv
<1>2. CASE reg' = reg
  <2>1. TakesNothing(reg, reg)
    BY OtherFields
  <2> QED
    BY <1>2, <2>1 DEF NothingAgain
<1>3. pc \notin {"serving", "down"}
  BY NoStep DEF Booting
<1>4. ~Stop /\ ~Start /\ ~Push /\ ~Sweep /\ ~EditPlan /\ ~Buy
  BY <1>3 DEF Stop, Start, Push, Sweep, Deliver, EditPlan, PutPlan, Buy, Edits
<1>5. Cut => reg' = reg
  BY DEF Cut
<1>6. UNCHANGED vars => reg' = reg
  BY DEF vars
<1> QED
  BY <1>1, <1>2, <1>4, <1>5, <1>6 DEF Next

(* No statement of a boot takes a feature from a client, moves it off its     *)
(* plan or forgets an onboarding charge (BootKeeps), wherever earlier boots   *)
(* were cut: getRegistryDb migrates databases that are in use.                *)
THEOREM NothingTaken ==
  ASSUME Whole PROVE Spec => BootKeeps
<1>1. IInv /\ [Next]_vars =>
        [Booting =>
          /\ Charge(reg') = Charge(reg)
          /\ \A c \in Companies :
               /\ reg'.plan[c] = reg.plan[c] /\ PlanOf(reg', c) = PlanOf(reg, c)
               /\ Entitled(reg, c) \subseteq Entitled(reg', c)
               /\ Settled(reg, c) => Settled(reg', c)]_vars
  BY NextSteps DEF TakesNothing
<1>2. Spec => []IInv
  BY Invariance
<1> QED
  BY <1>1, <1>2, PTL DEF Spec, BootKeeps

(* A boot after a boot writes nothing in a registry without a parted plan     *)
(* whose renames are over, and whatever was edited since only a plan that    *)
(* includes what it prices, prices nothing, lacks a child of what it          *)
(* includes or is `retail' still (RebootQuiet): getRegistryDb's migrations    *)
(* find no work they did before.                                             *)
THEOREM RebootsQuiet ==
  ASSUME Whole PROVE Spec => RebootQuiet
<1>1. IInv /\ [Next]_vars =>
        [Booting /\ boots > 0 =>
          /\ settled /\ ~RetailLeft(reg.plans) /\ (\A i \in DOMAIN reg.plans : ~Parted(reg.plans[i]))
               => reg' = reg
          /\ \A i \in DOMAIN reg.plans :
               LET row == reg.plans[i]
               IN \/ reg'.plans[i] = row
                  \/ Bundled(row) # {} \/ DOMAIN row.prices = {}
                  \/ WithChildren(row.features) # row.features
                  \/ row.code = "retail" /\ RetailLeft(reg.plans)]_vars
  BY NextSteps DEF NothingAgain, NoneParted
<1>2. Spec => []IInv
  BY Invariance
<1> QED
  BY <1>1, <1>2, PTL DEF Spec, RebootQuiet

(* Both together (BootSafe): what a boot must not do to a registry in use.    *)
THEOREM BootsSafe ==
  ASSUME Whole PROVE Spec => BootSafe
BY NothingTaken, RebootsQuiet, PTL DEF BootSafe
=============================================================================
