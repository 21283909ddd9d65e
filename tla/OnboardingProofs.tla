--------------------------- MODULE OnboardingProofs ---------------------------
(***************************************************************************)
(* Proofs about Onboarding and the edits of TerminalLicences under it, for  *)
(* any number of companies, stores, jobs and runners and for any budgets:   *)
(* no step of a job begins before the steps it follows went through, every  *)
(* row an edit or a runner works with and every company a row names is      *)
(* there, a store parts from its licence only where a deployment job takes  *)
(* it over, and nothing but a boot places licences past what was bought.    *)
(***************************************************************************)
EXTENDS Onboarding, SequenceTheorems, FiniteSetTheorems, WellFoundedInduction, TLAPS

-----------------------------------------------------------------------------
(* The inductive invariant *)

\* Every company a row names is there, and so is the row an edit read.
RowsThere ==
  /\ \A s \in Stores : store[s] # None => store[s].owner = None \/ company[store[s].owner] # None
  /\ \A s \in Stores : alloc[s] # None => store[s] # None /\ company[alloc[s].owner] # None
  /\ \A r \in Requests : edit[r] # None => store[edit[r].s] # None

OfficeInv == AdminTypeOK /\ RowsThere

Applications == [apps: [Holders -> 0 .. MaxApps], live: SUBSET (Holders \X (1 .. MaxApps \cup NoOne))]

RunTypes ==
  /\ panel \in [Companies -> BOOLEAN]
  /\ deploy \in [Holders -> DeployRow]
  /\ job \in [Jobs -> JobRow \cup NoOne]
  /\ worker \in [Workers -> WorkerRow \cup NoOne]
  /\ coolify \in Applications
  /\ done \in [Jobs -> SUBSET Nat]

\* A deployment step says which row it deploys.
NamesItsRow(st) ==
  /\ st.what = "head_office" => st.at \in Companies
  /\ st.what = "store" => st.at \in Stores

\* The steps of a job or of a copy of them, of which dn went through: each has its row, and
\* those that are complete did; none began before the ones it follows.
StepsOK(steps, dn) ==
  \A i \in DOMAIN steps : NamesItsRow(steps[i]) /\ (steps[i].status = "complete" => i \in dn)

InOrder(steps, dn) ==
  \A i \in DOMAIN steps : steps[i].status \in {"running", "complete"} => 1 .. i - 1 \subseteq dn

JobOK(j) ==
  /\ company[job[j].company] # None
  /\ StepsOK(job[j].steps, done[j]) /\ InOrder(job[j].steps, done[j])

\* A runner r is behind its job jb: the steps it has passed or copied as complete went
\* through, and beyond "start" it is at one of them.
Behind(r, jb, dn) ==
  /\ jb # None /\ jb.company = r.c /\ Len(jb.steps) = Len(r.steps)
  /\ StepsOK(r.steps, dn) /\ 1 .. r.i - 1 \subseteq dn
  /\ r.at # "start" => r.i <= Len(r.steps)

\* A provisioning has a row and never begins a step; whoever talks to Coolify has a row; a
\* runner has a step of its copy to work at, also when the job it copied is gone.
HasRow(r) ==
  /\ r.job = None => r.at # "start" /\ (r.at # "validate" => r.h # None)
  /\ r.at \in {"create", "trigger", "trigger_new"} => r.h # None
  /\ r.job # None => /\ \A i \in DOMAIN r.steps : NamesItsRow(r.steps[i])
                     /\ r.at # "start" => r.i <= Len(r.steps)

\* A worker r whose company is there, of the companies cos, jobs jbs and what went through, dns.
WorkerFits(r, cos, jbs, dns) ==
  /\ HasRow(r)
  /\ r.c # None => cos[r.c] # None
  /\ r.job # None /\ r.c # None => Behind(r, jbs[r.job], dns[r.job])

WorkerOK(w) == WorkerFits(worker[w], company, job, done)

IInv ==
  /\ OfficeInv
  /\ RunTypes
  /\ \A j \in Jobs : job[j] # None => JobOK(j)
  /\ \A w \in Workers : worker[w] # None => WorkerOK(w)

-----------------------------------------------------------------------------
(* The edits of TerminalLicences *)

\* Between al and al2 some stores of a set got an allocation of company c, no other changed.
PlacesFor(al, al2, c, where) ==
  /\ al2 \in [Stores -> Allocation \cup NoOne]
  /\ \A t \in Stores : al2[t] # al[t] => t \in where /\ al2[t] # None /\ al2[t].owner = c

\* Where a company's licences may be placed by a list: its stores, and those that hold some.
Placeable(c) == OwnedBy(c) \cup HeldBy(c)

\* What an edit of the office keeps: the invariant, and the licences where the stores are.
OfficeKeeps == OfficeInv' /\ Astray' \subseteq Astray

\* allocateTerminals writes the store's row for the company, or nothing.
LEMMA AllocateOne ==
  ASSUME NEW al \in [Stores -> Allocation \cup NoOne], NEW c \in Companies, NEW plan, NEW licensed,
         NEW s \in Stores, NEW n \in 0 .. MaxTills
  PROVE  /\ PlacesFor(al, AllocateTerminals(al, c, plan, licensed, s, n), c, {s})
         /\ CheckAllocation(al, c, plan, licensed, s, n) =>
              AllocateTerminals(al, c, plan, licensed, s, n)[s] = [owner |-> c, count |-> n]
<1> DEFINE row == [owner |-> c, count |-> n]
           al2 == [al EXCEPT ![s] = row]
<1>1. row \in Allocation /\ row # None /\ row.owner = c
  BY RowAssumption DEF Allocation
<1>2. al2 \in [Stores -> Allocation \cup NoOne] /\ al2[s] = row /\ \A t \in Stores \ {s} : al2[t] = al[t]
  BY <1>1
<1>3. PlacesFor(al, al2, c, {s})
  BY <1>1, <1>2 DEF PlacesFor
<1>4. PlacesFor(al, al, c, {s})
  BY DEF PlacesFor
<1> QED
  BY <1>2, <1>3, <1>4 DEF AllocateTerminals

\* The spending of an operation leaves the counters natural.
LEMMA Spending ==
  ASSUME NEW kind, \A k \in DOMAIN left : left[k] \in Nat, Spend(kind)
  PROVE  (\A k \in DOMAIN left : left[k] \in Nat)'
BY DEF Spend

\* The row of a store that is there is a row, and so is that of a company.
LEMMA RowsTyped ==
  ASSUME AdminTypeOK
  PROVE  /\ \A s \in Stores : store[s] # None <=> store[s] \in StoreRow
         /\ \A s \in Stores : alloc[s] # None <=> alloc[s] \in Allocation
         /\ \A c \in Companies : company[c] # None <=> company[c] \in CompanyRow
         /\ \A r \in Requests : edit[r] # None <=> edit[r] \in Edit
BY RowAssumption DEF AdminTypeOK, NoOne

\* An edit of one store's row that leaves its owner.
LEMMA OneRowChanges ==
  ASSUME OfficeInv, NEW s \in Stores, store[s] # None, NEW row \in StoreRow, row.owner = store[s].owner,
         store' = [store EXCEPT ![s] = row], UNCHANGED <<company, alloc, edit>>,
         (\A k \in DOMAIN left : left[k] \in Nat)'
  PROVE  OfficeKeeps
<1>1. AdminTypeOK'
  BY DEF OfficeInv, AdminTypeOK
<1>2. row # None
  BY RowAssumption
<1>3. store \in [Stores -> StoreRow \cup NoOne]
  BY DEF OfficeInv, AdminTypeOK
<1>4. store'[s] = row /\ \A t \in Stores \ {s} : store'[t] = store[t]
  BY <1>3
<1>5. \A t \in Stores : (store'[t] # None <=> store[t] # None) /\ (store[t] # None => store'[t].owner = store[t].owner)
  BY <1>2, <1>4
<1>6. RowsThere'
  <2>1. (\A t \in Stores : store[t] # None => store[t].owner = None \/ company[store[t].owner] # None)'
    BY <1>5 DEF OfficeInv, RowsThere
  <2>2. (\A t \in Stores : alloc[t] # None => store[t] # None /\ company[alloc[t].owner] # None)'
    BY <1>5 DEF OfficeInv, RowsThere
  <2>3. (\A r \in Requests : edit[r] # None => store[edit[r].s] # None)'
    <3>1. \A r \in Requests : edit[r] # None => edit[r].s \in Stores
      BY DEF OfficeInv, AdminTypeOK, Edit, NoOne
    <3> QED
      BY <1>5, <3>1 DEF OfficeInv, RowsThere
  <2> QED
    BY <2>1, <2>2, <2>3 DEF RowsThere
<1>7. Astray' \subseteq Astray
  BY <1>5 DEF Astray
<1> QED
  BY <1>1, <1>6, <1>7 DEF OfficeKeeps, OfficeInv

LEMMA SetStoreStatusKeeps ==
  ASSUME OfficeInv, NEW s \in Stores, SetStoreStatus(s)
  PROVE  OfficeKeeps
<1> DEFINE row == [store[s] EXCEPT !.status = IF @ = "active" THEN "paused" ELSE "active"]
<1>1. store[s] \in StoreRow
  BY RowsTyped DEF OfficeInv, SetStoreStatus
<1>2. row \in StoreRow /\ row.owner = store[s].owner
  BY <1>1 DEF StoreRow
<1>3. store' = [store EXCEPT ![s] = row] /\ store[s] # None
  BY DEF SetStoreStatus
<1>4. (\A k \in DOMAIN left : left[k] \in Nat)'
  BY Spending DEF OfficeInv, AdminTypeOK, SetStoreStatus
<1>5. UNCHANGED <<company, alloc, edit>>
  BY DEF SetStoreStatus
<1> HIDE DEF row
<1> QED
  BY <1>2, <1>3, <1>4, <1>5, OneRowChanges

LEMMA DeleteStoreKeeps ==
  ASSUME OfficeInv, NEW s \in Stores, DeleteStore(s)
  PROVE  OfficeKeeps
<1> USE DEF NoOne
<1>1. AdminTypeOK'
  <2>1. (\A k \in DOMAIN left : left[k] \in Nat)'
    BY Spending DEF OfficeInv, AdminTypeOK, DeleteStore
  <2> QED
    BY <2>1 DEF OfficeInv, AdminTypeOK, DeleteStore
<1>2. store'[s] = None /\ alloc'[s] = None
  BY DEF OfficeInv, AdminTypeOK, DeleteStore
<1>3. \A t \in Stores \ {s} : store'[t] = store[t] /\ alloc'[t] = alloc[t]
  BY DEF OfficeInv, AdminTypeOK, DeleteStore
<1>4. \A r \in Requests : edit'[r] # None => edit'[r] = edit[r] /\ edit[r].s # s
  BY DEF DeleteStore
<1>5. RowsThere'
  <2>1. (\A t \in Stores : store[t] # None => store[t].owner = None \/ company[store[t].owner] # None)'
    BY <1>2, <1>3 DEF OfficeInv, RowsThere, DeleteStore
  <2>2. (\A t \in Stores : alloc[t] # None => store[t] # None /\ company[alloc[t].owner] # None)'
    BY <1>2, <1>3 DEF OfficeInv, RowsThere, DeleteStore
  <2>3. (\A r \in Requests : edit[r] # None => store[edit[r].s] # None)'
    <3>1. \A r \in Requests : edit[r] # None => edit[r].s \in Stores
      BY DEF OfficeInv, AdminTypeOK, Edit
    <3> QED
      BY <1>3, <1>4, <3>1 DEF OfficeInv, RowsThere
  <2> QED
    BY <2>1, <2>2, <2>3 DEF RowsThere
<1>6. Astray' \subseteq Astray
  BY <1>2, <1>3 DEF Astray
<1> QED
  BY <1>1, <1>5, <1>6 DEF OfficeKeeps, OfficeInv
\* An edit of one company's row that leaves it in place, and the stores alone.
LEMMA CompanyChanges ==
  ASSUME OfficeInv, NEW c \in Companies, NEW row \in CompanyRow,
         company' = [company EXCEPT ![c] = row], UNCHANGED <<store, edit>>,
         PlacesFor(alloc, alloc', c, Placeable(c)), (\A k \in DOMAIN left : left[k] \in Nat)'
  PROVE  OfficeKeeps
<1> USE DEF NoOne
<1>1. AdminTypeOK'
  BY DEF OfficeInv, AdminTypeOK, PlacesFor
<1>2. row # None
  BY RowAssumption
<1>3. \A d \in Companies : company[d] # None => company'[d] # None
  BY <1>2 DEF OfficeInv, AdminTypeOK
<1>4. company'[c] # None
  BY <1>2 DEF OfficeInv, AdminTypeOK
<1>5. \A t \in Stores : alloc'[t] # alloc[t] =>
        /\ store[t] # None /\ alloc'[t] # None /\ alloc'[t].owner = c
        /\ store[t].owner = c \/ (alloc[t] # None /\ alloc[t].owner = c)
  BY DEF PlacesFor, Placeable, OwnedBy, HeldBy, OfficeInv, RowsThere
<1>6. \A t \in Stores : store[t] # None => store[t].owner \in Companies \cup {None}
  BY DEF OfficeInv, AdminTypeOK, StoreRow
<1>7. \A t \in Stores : alloc[t] # None => alloc[t].owner \in Companies
  BY DEF OfficeInv, AdminTypeOK, Allocation
<1>8. RowsThere'
  <2>1. (\A t \in Stores : store[t] # None => store[t].owner = None \/ company[store[t].owner] # None)'
    BY <1>3, <1>6 DEF OfficeInv, RowsThere
  <2>2. (\A t \in Stores : alloc[t] # None => store[t] # None /\ company[alloc[t].owner] # None)'
    <3> SUFFICES ASSUME NEW t \in Stores, alloc'[t] # None
                 PROVE  store'[t] # None /\ company'[alloc'[t].owner] # None
      OBVIOUS
    <3>1. CASE alloc'[t] = alloc[t]
      BY <3>1, <1>3, <1>7 DEF OfficeInv, RowsThere
    <3>2. CASE alloc'[t] # alloc[t]
      BY <3>2, <1>4, <1>5
    <3> QED
      BY <3>1, <3>2
  <2>3. (\A r \in Requests : edit[r] # None => store[edit[r].s] # None)'
    BY DEF OfficeInv, RowsThere
  <2> QED
    BY <2>1, <2>2, <2>3 DEF RowsThere
<1>9. Astray' \subseteq Astray
  <2> SUFFICES ASSUME NEW t \in Stores, alloc'[t] # None, store[t] # None, store[t].owner # alloc'[t].owner
               PROVE  alloc[t] # None /\ store[t].owner # alloc[t].owner
    BY DEF Astray
  <2> QED
    BY <1>5
<1> QED
  BY <1>1, <1>8, <1>9 DEF OfficeKeeps, OfficeInv

LEMMA NoPlacement == ASSUME OfficeInv, NEW c \in Companies PROVE PlacesFor(alloc, alloc, c, Placeable(c))
BY DEF PlacesFor, OfficeInv, AdminTypeOK

LEMMA EditCompanyKeeps ==
  ASSUME OfficeInv, NEW c \in Companies, EditCompany(c)
  PROVE  OfficeKeeps
<1>1. company[c] \in CompanyRow
  BY RowsTyped DEF OfficeInv, EditCompany
<1>2. PICK row \in CompanyRow : company' = [company EXCEPT ![c] = row]
  <2>1. CASE \E p \in Plans \cup NoOne : company' = [company EXCEPT ![c].plan = p]
    <3>1. PICK p \in Plans \cup NoOne : company' = [company EXCEPT ![c].plan = p]
      BY <2>1
    <3>2. [company[c] EXCEPT !.plan = p] \in CompanyRow
      BY <1>1 DEF CompanyRow
    <3> QED
      BY <3>1, <3>2
  <2>2. CASE \E n \in 0 .. MaxTills : company' = [company EXCEPT ![c].licensed = n]
    <3>1. PICK n \in 0 .. MaxTills : company' = [company EXCEPT ![c].licensed = n]
      BY <2>2
    <3>2. [company[c] EXCEPT !.licensed = n] \in CompanyRow
      BY <1>1 DEF CompanyRow
    <3> QED
      BY <3>1, <3>2
  <2>3. CASE company' = [company EXCEPT ![c].suspended = ~@]
    <3>1. [company[c] EXCEPT !.suspended = ~@] \in CompanyRow
      BY <1>1 DEF CompanyRow
    <3> QED
      BY <2>3, <3>1
  <2> QED
    BY <2>1, <2>2, <2>3 DEF EditCompany
<1>3. (\A k \in DOMAIN left : left[k] \in Nat)'
  BY Spending DEF OfficeInv, AdminTypeOK, EditCompany
<1>4. UNCHANGED <<store, edit>> /\ alloc' = alloc
  BY DEF EditCompany
<1> QED
  BY <1>2, <1>3, <1>4, NoPlacement, CompanyChanges

LEMMA CreateCompanyKeeps ==
  ASSUME OfficeInv, NEW c \in Companies, CreateCompany(c)
  PROVE  OfficeKeeps
<1>1. PICK p \in Plans \cup NoOne, n \in 0 .. MaxTills :
        company' = [company EXCEPT ![c] = [plan |-> p, licensed |-> n, suspended |-> FALSE]]
  BY DEF CreateCompany
<1> DEFINE row == [plan |-> p, licensed |-> n, suspended |-> FALSE]
<1>2. row \in CompanyRow
  BY DEF CompanyRow
<1>3. (\A k \in DOMAIN left : left[k] \in Nat)'
  BY Spending DEF OfficeInv, AdminTypeOK, CreateCompany
<1>4. UNCHANGED <<store, edit>> /\ alloc' = alloc
  BY DEF CreateCompany
<1>5. company' = [company EXCEPT ![c] = row]
  BY <1>1
<1> HIDE DEF row
<1> QED
  BY <1>2, <1>3, <1>4, <1>5, NoPlacement, CompanyChanges

LEMMA DeleteCompanyKeeps ==
  ASSUME OfficeInv, NEW c \in Companies, DeleteCompany(c)
  PROVE  OfficeKeeps
<1> USE DEF NoOne
<1>1. \A s \in Stores : store[s] # None => store[s] \in StoreRow
  BY DEF OfficeInv, AdminTypeOK
<1>2. \A s \in Stores : store[s] # None => store'[s] # None /\ store'[s] \in StoreRow
                         /\ store'[s].owner = IF store[s].owner = c THEN None ELSE store[s].owner
  <2>1. ASSUME NEW s \in Stores, store[s] # None, store[s].owner = c
        PROVE  store'[s] \in StoreRow /\ store'[s].owner = None
    <3>1. store'[s] = [store[s] EXCEPT !.owner = None]
      BY <2>1 DEF DeleteCompany, OwnedBy
    <3> QED
      BY <1>1, <2>1, <3>1 DEF StoreRow
  <2>2. ASSUME NEW s \in Stores, store[s] # None, store[s].owner # c
        PROVE  store'[s] = store[s]
    BY <2>2 DEF DeleteCompany, OwnedBy
  <2> QED
    BY <1>1, <2>1, <2>2, RowAssumption
<1>3. \A s \in Stores : store[s] = None => store'[s] = None
  BY DEF DeleteCompany, OwnedBy
<1>4. store' \in [Stores -> StoreRow \cup {None}]
  <2>1. \A s \in Stores : store'[s] \in StoreRow \cup {None}
    BY <1>2, <1>3
  <2>2. store' = [s \in Stores |-> IF s \in OwnedBy(c) THEN [store[s] EXCEPT !.owner = None] ELSE store[s]]
    BY DEF DeleteCompany
  <2> HIDE DEF NoOne
  <2> QED
    BY <2>1, <2>2
<1>5. \A s \in Stores : alloc'[s] # None => alloc'[s] = alloc[s] /\ alloc[s].owner # c
  BY DEF DeleteCompany
<1>6. AdminTypeOK'
  <2>1. (\A k \in DOMAIN left : left[k] \in Nat)'
    BY Spending DEF OfficeInv, AdminTypeOK, DeleteCompany
  <2>2. alloc' \in [Stores -> Allocation \cup {None}]
    BY DEF OfficeInv, AdminTypeOK, DeleteCompany
  <2>3. company' \in [Companies -> CompanyRow \cup {None}] /\ edit' = edit
    BY DEF OfficeInv, AdminTypeOK, DeleteCompany
  <2> QED
    BY <1>4, <2>1, <2>2, <2>3 DEF OfficeInv, AdminTypeOK
<1>7. \A d \in Companies : d # c => company'[d] = company[d]
  BY DEF OfficeInv, AdminTypeOK, DeleteCompany
<1>8. RowsThere'
  <2>1. (\A t \in Stores : store[t] # None => store[t].owner = None \/ company[store[t].owner] # None)'
    BY <1>1, <1>2, <1>3, <1>7 DEF OfficeInv, RowsThere, StoreRow
  <2>2. (\A t \in Stores : alloc[t] # None => store[t] # None /\ company[alloc[t].owner] # None)'
    <3>1. \A t \in Stores : alloc[t] # None => alloc[t].owner \in Companies
      BY DEF OfficeInv, AdminTypeOK, Allocation
    <3> QED
      BY <1>2, <1>5, <1>7, <3>1 DEF OfficeInv, RowsThere
  <2>3. (\A r \in Requests : edit[r] # None => store[edit[r].s] # None)'
    <3>1. \A r \in Requests : edit[r] # None => edit[r].s \in Stores
      BY DEF OfficeInv, AdminTypeOK, Edit
    <3>2. edit' = edit
      BY DEF DeleteCompany
    <3> QED
      BY <1>2, <3>1, <3>2 DEF OfficeInv, RowsThere
  <2> QED
    BY <2>1, <2>2, <2>3 DEF RowsThere
<1>9. Astray' \subseteq Astray
  <2> SUFFICES ASSUME NEW t \in Stores, alloc'[t] # None, store'[t] # None, store'[t].owner # alloc'[t].owner
               PROVE  alloc[t] # None /\ store[t] # None /\ store[t].owner # alloc[t].owner
    BY DEF Astray
  <2>1. alloc[t] = alloc'[t] /\ alloc[t].owner # c /\ store[t] # None
    BY <1>3, <1>5
  <2> QED
    BY <1>2, <2>1
<1> QED
  BY <1>6, <1>8, <1>9 DEF OfficeKeeps, OfficeInv
\* One store gets a row and an allocation of companies that are there.
LEMMA StoreChanges ==
  ASSUME OfficeInv, NEW s \in Stores, NEW row \in StoreRow, store' = [store EXCEPT ![s] = row],
         row.owner = None \/ company[row.owner] # None,
         alloc' \in [Stores -> Allocation \cup NoOne], \A t \in Stores \ {s} : alloc'[t] = alloc[t],
         alloc'[s] # None => company[alloc'[s].owner] # None,
         edit' \in [Requests -> Edit \cup NoOne], \A r \in Requests : edit'[r] # None => edit'[r] = edit[r],
         UNCHANGED company, (\A k \in DOMAIN left : left[k] \in Nat)'
  PROVE  /\ OfficeInv' /\ Astray' \subseteq Astray \cup {s}
         /\ store'[s] = row /\ store'[s] # None
<1> USE DEF NoOne
<1>1. AdminTypeOK'
  BY DEF OfficeInv, AdminTypeOK
<1>2. row # None
  BY RowAssumption
<1>3. store'[s] = row /\ \A t \in Stores \ {s} : store'[t] = store[t]
  BY DEF OfficeInv, AdminTypeOK
<1>4. RowsThere'
  <2>1. (\A t \in Stores : store[t] # None => store[t].owner = None \/ company[store[t].owner] # None)'
    BY <1>3 DEF OfficeInv, RowsThere
  <2>2. (\A t \in Stores : alloc[t] # None => store[t] # None /\ company[alloc[t].owner] # None)'
    BY <1>2, <1>3 DEF OfficeInv, RowsThere
  <2>3. (\A r \in Requests : edit[r] # None => store[edit[r].s] # None)'
    <3>1. \A r \in Requests : edit[r] # None => edit[r].s \in Stores
      BY DEF OfficeInv, AdminTypeOK, Edit
    <3> QED
      BY <1>2, <1>3, <3>1 DEF OfficeInv, RowsThere
  <2> QED
    BY <2>1, <2>2, <2>3 DEF RowsThere
<1>5. Astray' \subseteq Astray \cup {s}
  BY <1>3 DEF Astray
<1> QED
  BY <1>1, <1>2, <1>3, <1>4, <1>5 DEF OfficeInv

LEMMA CreateStoreKeeps ==
  ASSUME OfficeInv, NEW s \in Stores, CreateStore(s)
  PROVE  OfficeKeeps
<1>1. PICK c \in {d \in Companies : company[d] # None} \cup NoOne, kind \in {"store", "warehouse"},
           tills \in 0 .. MaxTills, count \in 0 .. MaxTills \cup NoOne :
        LET placed == IF count = None THEN tills ELSE count
            sells  == c # None /\ kind = "store"
        IN  /\ store' = [store EXCEPT ![s] = NewRow(c, kind, tills)]
            /\ alloc' = IF sells THEN AllocateTerminals(alloc, c, company[c].plan, company[c].licensed, s, placed)
                        ELSE alloc
  BY DEF CreateStore
<1> USE DEF NoOne
<1> DEFINE row    == NewRow(c, kind, tills)
           placed == IF count = None THEN tills ELSE count
<1>2. row \in StoreRow /\ row.owner = c /\ (row.owner = None \/ company[row.owner] # None)
  BY <1>1 DEF StoreRow, NewRow
<1>3. placed \in 0 .. MaxTills
  OBVIOUS
<1>4. alloc[s] = None
  BY DEF CreateStore, OfficeInv, RowsThere
<1>5. alloc \in [Stores -> Allocation \cup {None}]
  BY DEF OfficeInv, AdminTypeOK
<1>6. /\ alloc' \in [Stores -> Allocation \cup {None}] /\ \A t \in Stores \ {s} : alloc'[t] = alloc[t]
      /\ alloc'[s] # None => alloc'[s].owner = c /\ c # None
  <2>1. CASE c # None /\ kind = "store"
    <3>1. c \in Companies
      BY <2>1
    <3>2. alloc' = AllocateTerminals(alloc, c, company[c].plan, company[c].licensed, s, placed)
      BY <1>1, <2>1
    <3> HIDE DEF placed
    <3>3. PlacesFor(alloc, alloc', c, {s})
      BY <1>3, <1>5, <3>1, <3>2, AllocateOne
    <3> QED
      BY <1>4, <2>1, <3>3 DEF PlacesFor
  <2>2. CASE ~(c # None /\ kind = "store")
    BY <1>1, <1>4, <1>5, <2>2
  <2> QED
    BY <2>1, <2>2
<1>7. alloc'[s] # None => company[alloc'[s].owner] # None
  BY <1>2, <1>6
<1>8. (\A k \in DOMAIN left : left[k] \in Nat)'
  BY Spending DEF OfficeInv, AdminTypeOK, CreateStore
<1>9. UNCHANGED company /\ edit' = edit /\ edit' \in [Requests -> Edit \cup {None}]
  BY DEF OfficeInv, AdminTypeOK, CreateStore
<1>10. store' = [store EXCEPT ![s] = row]
  BY <1>1
<1> HIDE DEF row, placed
<1>11. OfficeInv' /\ Astray' \subseteq Astray \cup {s} /\ store'[s] = row
  BY <1>2, <1>6, <1>7, <1>8, <1>9, <1>10, StoreChanges
<1>12. s \notin Astray'
  BY <1>2, <1>6, <1>11 DEF Astray
<1> QED
  BY <1>11, <1>12 DEF OfficeKeeps

\* What PUT /stores/:id may write of a row read earlier.
LEMMA NextRowTyped ==
  ASSUME OfficeInv, NEW s \in Stores, store[s] # None, NEW row \in StoreRow, NEW body \in StoreEdits
  PROVE  /\ Moves(body) => body.owner \in Companies
         /\ Placed(row, body) \in 0 .. MaxTills
         /\ NextTills(row, body) \in 0 .. MaxTills \cup {None}
         /\ body.kind \in {"store", "warehouse", None}
<1>1. /\ body.kind \in {"store", "warehouse", None} /\ body.tills \in 0 .. MaxTills \cup {None}
      /\ body.owner \in Companies \cup {None, Kept} /\ body.count \in 0 .. MaxTills \cup {None}
  BY BodyAssumption DEF NoOne
<1>2. Moves(body) => body.owner \in Companies
  BY <1>1 DEF Moves
<1>3. NextTills(row, body) \in 0 .. MaxTills \cup {None}
  BY <1>1, BodyAssumption DEF NextTills
<1>4. Placed(row, body) \in 0 .. MaxTills
  BY <1>1, <1>3 DEF Placed, StoreRow
<1> QED
  BY <1>1, <1>2, <1>3, <1>4

LEMMA RowWith ==
  ASSUME NEW r \in StoreRow, NEW o, NEW k, NEW n
  PROVE  [[[r EXCEPT !.owner = o] EXCEPT !.kind = k] EXCEPT !.tills = n]
           = [owner |-> o, kind |-> k, tills |-> n, status |-> r.status]
<1>1. r = [owner |-> r.owner, kind |-> r.kind, tills |-> r.tills, status |-> r.status]
  BY DEF StoreRow
<1>2. [r EXCEPT !.owner = o] = [owner |-> o, kind |-> r.kind, tills |-> r.tills, status |-> r.status]
  BY <1>1
<1>3. \A q : q = [owner |-> o, kind |-> r.kind, tills |-> r.tills, status |-> r.status] =>
              [q EXCEPT !.kind = k] = [owner |-> o, kind |-> k, tills |-> r.tills, status |-> r.status]
  OBVIOUS
<1>4. \A q : q = [owner |-> o, kind |-> k, tills |-> r.tills, status |-> r.status] =>
              [q EXCEPT !.tills = n] = [owner |-> o, kind |-> k, tills |-> n, status |-> r.status]
  OBVIOUS
<1> QED
  BY <1>2, <1>3, <1>4, Zenon

\* An edit of a store, whatever the age of the row it read, leaves its licence with its owner.
LEMMA ApplyEditKeeps ==
  ASSUME OfficeInv, NEW s \in Stores, store[s] # None, NEW row \in StoreRow, NEW body \in StoreEdits,
         ApplyEdit(s, row, body), UNCHANGED company,
         edit' \in [Requests -> Edit \cup NoOne], \A r \in Requests : edit'[r] # None => edit'[r] = edit[r],
         (\A k \in DOMAIN left : left[k] \in Nat)'
  PROVE  OfficeKeeps
<1> USE DEF NoOne
<1> DEFINE now == store[s]
<1>1. now \in StoreRow
  BY RowsTyped DEF OfficeInv
<1>2. alloc \in [Stores -> Allocation \cup {None}] /\ store \in [Stores -> StoreRow \cup {None}]
  BY DEF OfficeInv, AdminTypeOK
<1>3. CASE ~EditAllowed(s, row, body)
  <2>1. store' = store /\ alloc' = alloc
    BY <1>3 DEF ApplyEdit
  <2>2. store' = [store EXCEPT ![s] = now]
    BY <1>2, <2>1
  <2>3. now.owner = None \/ company[now.owner] # None
    BY DEF OfficeInv, RowsThere
  <2>4. alloc'[s] # None => company[alloc'[s].owner] # None
    BY <2>1 DEF OfficeInv, RowsThere
  <2>5. OfficeInv' /\ Astray' = Astray
    <3> HIDE DEF now
    <3>1. OfficeInv'
      BY <1>1, <1>2, <2>1, <2>2, <2>3, <2>4, StoreChanges
    <3> QED
      BY <2>1, <3>1 DEF Astray
  <2> QED
    BY <2>5 DEF OfficeKeeps
<1>4. CASE EditAllowed(s, row, body)
  <2> DEFINE owner == IF body.owner = None THEN None ELSE IF Reassigns(s, row, body) THEN body.owner ELSE now.owner
             kind  == IF body.kind = None THEN now.kind ELSE body.kind
             tills == IF NextTills(row, body) = None THEN now.tills ELSE NextTills(row, body)
             new   == [owner |-> owner, kind |-> kind, tills |-> tills, status |-> now.status]
             co    == company[body.owner]
  <2>1. Reassigns(s, row, body) => body.owner \in Companies /\ company[body.owner] # None
    BY <1>4, NextRowTyped DEF EditAllowed, Reassigns
  <2>2. new \in StoreRow
    <3>1. owner \in Companies \cup {None}
      BY <1>1, <2>1 DEF StoreRow
    <3>2. kind \in {"store", "warehouse"}
      BY <1>1, NextRowTyped DEF StoreRow
    <3>3. tills \in 0 .. MaxTills
      BY <1>1, NextRowTyped DEF StoreRow
    <3> QED
      BY <1>1, <3>1, <3>2, <3>3 DEF StoreRow
  <2>3. store' = [store EXCEPT ![s] = new]
    <3>1. store' = [store EXCEPT ![s] =
             [[[now EXCEPT !.owner = owner] EXCEPT !.kind = kind] EXCEPT !.tills = tills]]
      <4>1. store' = [store EXCEPT
             ![s].owner = IF body.owner = None THEN None
                          ELSE IF Reassigns(s, row, body) THEN body.owner ELSE @,
             ![s].kind = IF body.kind = None THEN @ ELSE body.kind,
             ![s].tills = IF NextTills(row, body) = None THEN @ ELSE NextTills(row, body)]
        BY <1>4 DEF ApplyEdit
      <4> QED
        BY <1>1, <1>2, <4>1 DEF StoreRow
    <3>2. [[[now EXCEPT !.owner = owner] EXCEPT !.kind = kind] EXCEPT !.tills = tills] = new
      <4> HIDE DEF now, owner, kind, tills
      <4> QED
        BY <1>1, RowWith
    <3> QED
      BY <3>1, <3>2
  <2>4. new.owner = None \/ company[new.owner] # None
    BY <2>1 DEF OfficeInv, RowsThere
  <2>5. /\ alloc' \in [Stores -> Allocation \cup {None}] /\ \A t \in Stores \ {s} : alloc'[t] = alloc[t]
        /\ \/ alloc'[s] = None
           \/ alloc'[s].owner = new.owner /\ new.owner # None
           \/ alloc'[s] = alloc[s] /\ new.owner = now.owner
    <3>0. alloc' = AllocationAfter(s, row, body)
      BY <1>4 DEF ApplyEdit
    <3>1. CASE body.owner = None
      BY <1>2, <3>0, <3>1 DEF AllocationAfter
    <3>2. CASE body.owner # None /\ Reassigns(s, row, body)
      <4> DEFINE n == Placed(row, body)
      <4>1. alloc' = AllocateTerminals(alloc, body.owner, co.plan, co.licensed, s, n)
        BY <3>0, <3>2 DEF AllocationAfter
      <4>2. CheckAllocation(alloc, body.owner, co.plan, co.licensed, s, n)
        BY <1>4, <3>2 DEF EditAllowed, Reassigns
      <4>3. body.owner \in Companies /\ n \in 0 .. MaxTills
        BY <2>1, <3>2, NextRowTyped
      <4> HIDE DEF co, n
      <4>4. PlacesFor(alloc, alloc', body.owner, {s}) /\ alloc'[s] = [owner |-> body.owner, count |-> n]
        <5>1. /\ PlacesFor(alloc, AllocateTerminals(alloc, body.owner, co.plan, co.licensed, s, n), body.owner, {s})
              /\ CheckAllocation(alloc, body.owner, co.plan, co.licensed, s, n) =>
                   AllocateTerminals(alloc, body.owner, co.plan, co.licensed, s, n)[s] = [owner |-> body.owner, count |-> n]
          BY <1>2, <4>3, AllocateOne
        <5> QED
          BY <4>1, <4>2, <5>1
      <4>5. alloc'[s].owner = new.owner /\ new.owner # None
        BY <3>2, <4>4
      <4> QED
        BY <4>4, <4>5 DEF PlacesFor
    <3>3. CASE body.owner # None /\ ~Reassigns(s, row, body)
      BY <1>2, <3>0, <3>3 DEF AllocationAfter
    <3> QED
      BY <3>1, <3>2, <3>3
  <2>6. alloc'[s] # None => company[alloc'[s].owner] # None
    BY <2>4, <2>5 DEF OfficeInv, RowsThere
  <2> HIDE DEF new
  <2>7. OfficeInv' /\ Astray' \subseteq Astray \cup {s} /\ store'[s] = new
    BY <2>2, <2>3, <2>4, <2>5, <2>6, StoreChanges
  <2>8. s \in Astray' => s \in Astray
    BY <2>5, <2>7 DEF Astray
  <2> QED
    BY <2>7, <2>8 DEF OfficeKeeps
<1> QED
  BY <1>3, <1>4

-----------------------------------------------------------------------------
(* How many licences a company has placed *)

Allocs == [Stores -> Allocation \cup NoOne]

\* From al to al2 no company's allocations grow but those of c, and these not past n.
Within(al, al2, c, n) ==
  /\ \A d \in Companies \ {c} : Allocated(al2, d) <= Allocated(al, d)
  /\ Allocated(al2, c) <= Allocated(al, c) \/ Allocated(al2, c) <= n

\* What a step that is not a boot may do to the allocations (GrantsWithinPurchase).
Granted ==
  \A c \in Companies :
    Allocated(alloc', c) > Allocated(alloc, c) => Allocated(alloc', c) <= company'[c].licensed

LEMMA AllocationTyped ==
  ASSUME NEW al \in Allocs, NEW s \in Stores, al[s] # None
  PROVE  al[s] \in Allocation /\ al[s].owner \in Companies /\ al[s].count \in 0 .. MaxTills
BY DEF Allocs, NoOne, Allocation

LEMMA AllocatedIsNat ==
  ASSUME NEW al \in Allocs, NEW c
  PROVE  IsFiniteSet(LicencesOf(al, c)) /\ Allocated(al, c) \in Nat
<1> DEFINE all == Stores \X (1 .. MaxTills)
<1>1. MaxTills \in Nat /\ IsFiniteSet(Stores)
  BY BodyAssumption
<1>2. IsFiniteSet(1 .. MaxTills)
  BY <1>1, FS_Interval
<1>3. IsFiniteSet(all)
  BY <1>1, <1>2, FS_Product
<1>4. LicencesOf(al, c) \subseteq all
  <2> SUFFICES ASSUME NEW s \in Stores, al[s] # None PROVE {s} \X (1 .. al[s].count) \subseteq all
    BY DEF LicencesOf
  <2>1. al[s].count \in Nat /\ al[s].count <= MaxTills
    BY <1>1, AllocationTyped
  <2>2. 1 .. al[s].count \subseteq 1 .. MaxTills
    BY <1>1, <2>1
  <2> QED
    BY <2>2
<1> HIDE DEF all
<1>5. IsFiniteSet(LicencesOf(al, c))
  BY <1>3, <1>4, FS_Subset
<1> QED
  BY <1>5, FS_CardinalityType DEF Allocated

\* Whose allocations of a company are among those it had has no more of them.
LEMMA NoMoreLicences ==
  ASSUME NEW al \in Allocs, NEW al2 \in Allocs, NEW c,
         \A s \in Stores : al2[s] # None /\ al2[s].owner = c => al2[s] = al[s]
  PROVE  Allocated(al2, c) <= Allocated(al, c)
<1>1. LicencesOf(al2, c) \subseteq LicencesOf(al, c)
  BY DEF LicencesOf
<1>2. IsFiniteSet(LicencesOf(al, c))
  BY AllocatedIsNat
<1> QED
  BY <1>1, <1>2, FS_Subset DEF Allocated

\* A placement replaces what the company has on the store.
LEMMA PlacementCounts ==
  ASSUME NEW al \in Allocs, NEW c \in Companies, NEW s \in Stores, NEW n \in 0 .. MaxTills,
         NEW al2 \in Allocs, al2[s] # None, al2[s].owner = c, al2[s].count = n,
         \A t \in Stores \ {s} : al2[t] = al[t]
  PROVE  Allocated(al2, c) = Allocated(al, c) - Replaceable(al, c, s) + n
<1> DEFINE k   == Replaceable(al, c, s)
           has == LicencesOf(al, c)
           old == {s} \X (1 .. k)
           new == {s} \X (1 .. n)
           oth == has \ old
<1>0. n \in Nat
  BY BodyAssumption
<1>1. k \in Nat
  <2>1. al[s] # None => al[s].count \in Nat
    BY BodyAssumption, AllocationTyped
  <2> QED
    BY <2>1 DEF Replaceable
<1>2. ASSUME NEW m \in Nat
      PROVE  IsFiniteSet({s} \X (1 .. m)) /\ Cardinality({s} \X (1 .. m)) = m
  <2>1. IsFiniteSet(1 .. m) /\ Cardinality(1 .. m) = m
    BY FS_Interval
  <2>2. IsFiniteSet({s}) /\ Cardinality({s}) = 1
    BY FS_Singleton
  <2> DEFINE one == {s}
             seq == 1 .. m
  <2> HIDE DEF one, seq
  <2>3. IsFiniteSet(one \X seq) /\ Cardinality(one \X seq) = Cardinality(one) * Cardinality(seq)
    BY <2>1, <2>2, FS_Product DEF one, seq
  <2>4. Cardinality(one) = 1 /\ Cardinality(seq) = m
    BY <2>1, <2>2 DEF one, seq
  <2>5. IsFiniteSet(one \X seq) /\ Cardinality(one \X seq) = m
    BY <2>3, <2>4
  <2> QED
    BY <2>5 DEF one, seq
<1>3. \A x : x \in has <=> \E t \in Stores : al[t] # None /\ al[t].owner = c /\ x \in {t} \X (1 .. al[t].count)
  BY DEF LicencesOf
<1>4. \A x : x \in LicencesOf(al2, c) <=>
        \E t \in Stores : al2[t] # None /\ al2[t].owner = c /\ x \in {t} \X (1 .. al2[t].count)
  BY DEF LicencesOf
<1>5. k = IF al[s] # None /\ al[s].owner = c THEN al[s].count ELSE 0
  BY DEF Replaceable
<1> HIDE DEF has, k
<1>6. \A x : x \in old => x \in has
  BY <1>3, <1>5
<1>7. \A x : x \in oth <=>
        \E t \in Stores \ {s} : al[t] # None /\ al[t].owner = c /\ x \in {t} \X (1 .. al[t].count)
  BY <1>3, <1>5
<1>8. LicencesOf(al2, c) = oth \cup new
  <2>1. ASSUME NEW x PROVE x \in LicencesOf(al2, c) <=> x \in oth \/ x \in new
    <3>1. (\E t \in Stores : al2[t] # None /\ al2[t].owner = c /\ x \in {t} \X (1 .. al2[t].count))
            <=> \/ \E t \in Stores \ {s} : al[t] # None /\ al[t].owner = c /\ x \in {t} \X (1 .. al[t].count)
                \/ x \in {s} \X (1 .. n)
      OBVIOUS
    <3> QED
      BY <1>4, <1>7, <3>1
  <2> QED
    BY <2>1
<1>9. oth \cap new = {}
  BY <1>7
<1>10. IsFiniteSet(has) /\ Cardinality(has) \in Nat
  BY AllocatedIsNat DEF has, Allocated
<1>11. /\ IsFiniteSet(old) /\ Cardinality(old) = k /\ IsFiniteSet(new) /\ Cardinality(new) = n
  BY <1>0, <1>1, <1>2
<1>12. has \cap old = old
  BY <1>6
<1> HIDE DEF old, new
<1>13. IsFiniteSet(oth) /\ Cardinality(oth) = Cardinality(has) - k
  <2>1. IsFiniteSet(has \ old) /\ Cardinality(has \ old) = Cardinality(has) - Cardinality(has \cap old)
    BY <1>10, FS_Difference
  <2> QED
    BY <1>11, <1>12, <2>1
<1> HIDE DEF oth
<1>14. Cardinality(oth \cup new) = Cardinality(oth) + n
  <2>1. Cardinality(oth \cap new) = 0
    BY <1>9, FS_EmptySet
  <2>2. Cardinality(oth) \in Nat
    BY <1>13, FS_CardinalityType
  <2>3. Cardinality(oth \cup new) = Cardinality(oth) + Cardinality(new) - Cardinality(oth \cap new)
    BY <1>11, <1>13, FS_Union
  <2> QED
    BY <1>0, <1>11, <2>1, <2>2, <2>3
<1> QED
  BY <1>0, <1>1, <1>8, <1>10, <1>13, <1>14 DEF Allocated, has, k

\* allocateTerminals keeps every company within what it bought, as checkAllocation reads it.
LEMMA AllocateWithin ==
  ASSUME NEW al \in Allocs, NEW c \in Companies, NEW plan, NEW licensed, NEW s \in Stores,
         NEW n \in 0 .. MaxTills
  PROVE  Within(al, AllocateTerminals(al, c, plan, licensed, s, n), c, licensed)
<1> DEFINE al2 == AllocateTerminals(al, c, plan, licensed, s, n)
<1>1. PlacesFor(al, al2, c, {s})
  BY AllocateOne DEF Allocs
<1>2. /\ CheckAllocation(al, c, plan, licensed, s, n) => al2[s] = [owner |-> c, count |-> n]
      /\ ~CheckAllocation(al, c, plan, licensed, s, n) => al2 = al
  BY AllocateOne DEF Allocs, AllocateTerminals
<1> HIDE DEF al2
<1>3. al2 \in Allocs /\ \A t \in Stores : al2[t] # al[t] => t = s /\ al2[t] # None /\ al2[t].owner = c
  BY <1>1 DEF PlacesFor, Allocs
<1>4. \A d \in Companies \ {c} : Allocated(al2, d) <= Allocated(al, d)
  BY <1>3, NoMoreLicences
<1>5. ASSUME CheckAllocation(al, c, plan, licensed, s, n)
      PROVE  Within(al, al2, c, licensed)
  <2>1. al2[s].owner = c /\ al2[s].count = n
    BY <1>2, <1>5
  <2>2. al2[s] # None
    <3>1. [owner |-> c, count |-> n] \in Allocation
      BY DEF Allocation
    <3> QED
      BY <1>2, <1>5, <3>1, RowAssumption
  <2>3. Allocated(al2, c) = Allocated(al, c) - Replaceable(al, c, s) + n
    BY <1>3, <2>1, <2>2, PlacementCounts
  <2>4. Allocated(al, c) - Replaceable(al, c, s) + n <= licensed
    BY <1>5 DEF CheckAllocation
  <2> QED
    BY <1>4, <2>3, <2>4 DEF Within
<1>6. ASSUME ~CheckAllocation(al, c, plan, licensed, s, n)
      PROVE  Within(al, al2, c, licensed)
  <2>1. Allocated(al2, c) <= Allocated(al, c)
    BY <1>2, <1>6, NoMoreLicences
  <2> QED
    BY <1>4, <2>1 DEF Within
<1> QED
  BY <1>5, <1>6 DEF al2

LEMMA WithinAgain ==
  ASSUME NEW a \in Allocs, NEW b \in Allocs, NEW d \in Allocs, NEW c \in Companies, NEW n \in Nat,
         Within(a, b, c, n), Within(b, d, c, n)
  PROVE  Within(a, d, c, n)
<1>1. \A e : Allocated(a, e) \in Nat /\ Allocated(b, e) \in Nat /\ Allocated(d, e) \in Nat
  BY AllocatedIsNat
<1> QED
  BY <1>1 DEF Within

\* A step that places licences for one company only, within what it bought.
LEMMA WithinGrants ==
  ASSUME OfficeInv, OfficeInv', NEW c \in Companies, Within(alloc, alloc', c, company'[c].licensed)
  PROVE  Granted
<1>1. alloc \in Allocs /\ alloc' \in Allocs
  BY DEF OfficeInv, AdminTypeOK, Allocs
<1>2. \A d : Allocated(alloc, d) \in Nat /\ Allocated(alloc', d) \in Nat
  BY <1>1, AllocatedIsNat
<1> QED
  BY <1>2 DEF Within, Granted

\* A step that places none.
LEMMA FewerGrants ==
  ASSUME OfficeInv, OfficeInv', \A s \in Stores : alloc'[s] # None => alloc'[s] = alloc[s]
  PROVE  Granted
<1>1. alloc \in Allocs /\ alloc' \in Allocs
  BY DEF OfficeInv, AdminTypeOK, Allocs
<1>2. \A d : Allocated(alloc, d) \in Nat /\ Allocated(alloc', d) \in Nat /\ Allocated(alloc', d) <= Allocated(alloc, d)
  BY <1>1, AllocatedIsNat, NoMoreLicences
<1> QED
  BY <1>2 DEF Granted

-----------------------------------------------------------------------------
(* Placements one after the other, and the edits that make them *)

LEMMA LeastMember ==
  ASSUME NEW S \in SUBSET Nat, S # {}
  PROVE  \E n \in S : \A m \in S : n <= m
<1>1. PICK n \in S : \A m \in S : <<m, n>> \notin OpToRel(<, Nat)
  BY NatLessThanWellFounded, WFMin, Zenon
<1>2. ASSUME NEW m \in S PROVE ~(m < n)
  BY <1>1, Zenon DEF OpToRel
<1>3. ASSUME NEW m \in S PROVE n <= m
  BY <1>2, <1>3
<1> QED
  BY <1>3

\* Placements of one company, one after the other, on stores of one set.
LEMMA PlacesAgain ==
  ASSUME NEW a, NEW b, NEW d, NEW c, NEW where, PlacesFor(a, b, c, where), PlacesFor(b, d, c, where)
  PROVE  PlacesFor(a, d, c, where)
BY DEF PlacesFor

(* A list of placements ends with an allocation that the company has on      *)
(* stores of the list, and within what it bought unless it had more: were     *)
(* there a first entry that its allocation cannot be reached for, the one     *)
(* before it could, and one more placement reaches it.                        *)
LEMMA PlaceListPlaces ==
  ASSUME NEW al \in [Stores -> Allocation \cup NoOne], NEW c \in Companies, NEW plan,
         NEW licensed \in Nat, NEW list, NEW where \in SUBSET Stores, Len(list.order) \in Nat,
         \A n \in 1 .. Len(list.order) : list.order[n] \in where /\ list.count[list.order[n]] \in 0 .. MaxTills
  PROVE  /\ PlacesFor(al, PlaceList(al, c, plan, licensed, list), c, where)
         /\ Within(al, PlaceList(al, c, plan, licensed, list), c, licensed)
<1> DEFINE L == Len(list.order)
           next(a, n) == AllocateTerminals(a, c, plan, licensed, list.order[n], list.count[list.order[n]])
           IsPlaced(p, m) == p = [n \in 0 .. m |-> IF n = 0 THEN al ELSE next(p[n - 1], n)]
           Reached(m) == \E p : IsPlaced(p, m)
           Bad == {m \in 0 .. L : ~Reached(m)}
           Good(a) == PlacesFor(al, a, c, where) /\ Within(al, a, c, licensed)
<1>1. ASSUME NEW a, Good(a), NEW n \in 1 .. L
      PROVE  Good(next(a, n))
  <2>1. a \in [Stores -> Allocation \cup NoOne]
    BY <1>1 DEF PlacesFor
  <2>2. list.order[n] \in where /\ list.order[n] \in Stores /\ list.count[list.order[n]] \in 0 .. MaxTills
    BY <1>1
  <2>3. PlacesFor(a, next(a, n), c, {list.order[n]})
    BY <2>1, <2>2, AllocateOne
  <2>4. PlacesFor(a, next(a, n), c, where)
    BY <2>2, <2>3 DEF PlacesFor
  <2>5. Within(a, next(a, n), c, licensed)
    BY <2>1, <2>2, AllocateWithin DEF Allocs
  <2>6. al \in Allocs /\ a \in Allocs /\ next(a, n) \in Allocs
    BY <2>1, <2>4 DEF PlacesFor, Allocs
  <2> HIDE DEF next
  <2> QED
    BY <1>1, <2>4, <2>5, <2>6, PlacesAgain, WithinAgain
<1>2. Reached(0)
  <2> DEFINE p == [n \in 0 .. 0 |-> al]
  <2>1. p = [n \in 0 .. 0 |-> IF n = 0 THEN al ELSE next(p[n - 1], n)]
    OBVIOUS
  <2>2. IsPlaced(p, 0)
    BY <2>1
  <2> HIDE DEF IsPlaced, p
  <2> QED
    BY <2>2
<1>3. ASSUME NEW m \in 1 .. L, Reached(m - 1) PROVE Reached(m)
  <2>1. PICK p : IsPlaced(p, m - 1)
    BY <1>3
  <2> DEFINE q == [n \in 0 .. m |-> IF n = m THEN next(p[m - 1], m) ELSE p[n]]
  <2>2. m \in Nat /\ m # 0 /\ L \in Nat
    OBVIOUS
  <2>3. \A n \in 0 .. m - 1 : p[n] = IF n = 0 THEN al ELSE next(p[n - 1], n)
    <3> HIDE DEF next
    <3> QED
      BY <2>1
  <2>4. \A n \in 0 .. m : q[n] = IF n = 0 THEN al ELSE next(q[n - 1], n)
    <3> HIDE DEF next
    <3> SUFFICES ASSUME NEW n \in 0 .. m PROVE q[n] = IF n = 0 THEN al ELSE next(q[n - 1], n)
      OBVIOUS
    <3>1. CASE n = m
      <4>1. q[n - 1] = p[m - 1]
        BY <2>2, <3>1
      <4> QED
        BY <2>2, <3>1, <4>1
    <3>2. CASE n # m /\ n # 0
      <4>1. q[n] = p[n] /\ q[n - 1] = p[n - 1] /\ n \in 0 .. m - 1
        BY <2>2, <3>2
      <4> QED
        BY <2>3, <3>2, <4>1
    <3>3. CASE n = 0
      BY <2>2, <2>3, <3>3
    <3> QED
      BY <3>1, <3>2, <3>3
  <2>5. IsPlaced(q, m)
    <3>1. q = [n \in 0 .. m |-> q[n]]
      OBVIOUS
    <3> HIDE DEF q, next
    <3> QED
      BY <2>4, <3>1
  <2> HIDE DEF IsPlaced, q
  <2> QED
    BY <2>5
<1>4. Reached(L)
  <2> HIDE DEF Reached
  <2>1. ASSUME Bad # {} PROVE FALSE
    <3>0. Bad \in SUBSET Nat
      OBVIOUS
    <3>1. PICK m \in Bad : \A n \in Bad : m <= n
      <4> HIDE DEF Bad
      <4> QED
        BY <2>1, <3>0, LeastMember
    <3>2. m # 0 /\ m \in 1 .. L /\ m - 1 \in 0 .. L /\ ~(m <= m - 1)
      BY <1>2, <3>1
    <3>3. m - 1 \notin Bad
      BY <3>1, <3>2
    <3> QED
      BY <1>3, <3>1, <3>2, <3>3
  <2> QED
    BY <2>1
<1>5. \E p : IsPlaced(p, L)
  BY <1>4
<1> DEFINE placed == CHOOSE p : IsPlaced(p, L)
<1>6. PlaceList(al, c, plan, licensed, list) = placed[L]
  BY DEF PlaceList
<1>7. IsPlaced(placed, L)
  <2> HIDE DEF IsPlaced
  <2> QED
    BY <1>5
<1>8. \A n \in 0 .. L : placed[n] = IF n = 0 THEN al ELSE next(placed[n - 1], n)
  <2> HIDE DEF next, placed
  <2> QED
    BY <1>7
<1> HIDE DEF placed, next
<1> DEFINE Off == {n \in 0 .. L : ~Good(placed[n])}
<1>9. ASSUME Off # {} PROVE FALSE
  <2>1. Off \in SUBSET Nat
    OBVIOUS
  <2>2. PICK m \in Off : \A n \in Off : m <= n
    <3> HIDE DEF Off
    <3> QED
      BY <1>9, <2>1, LeastMember
  <2>3. Good(al)
    <3>1. \A d : Allocated(al, d) \in Nat
      BY AllocatedIsNat DEF Allocs
    <3> QED
      BY <3>1 DEF PlacesFor, Within
  <2> HIDE DEF Good
  <2>4. m # 0 /\ m \in 1 .. L /\ m - 1 \in 0 .. L /\ ~(m <= m - 1)
    BY <1>8, <2>2, <2>3
  <2>5. Good(placed[m - 1])
    BY <2>2, <2>4
  <2>6. placed[m] = next(placed[m - 1], m)
    BY <1>8, <2>4
  <2> QED
    BY <1>1, <2>2, <2>4, <2>5, <2>6
<1> QED
  BY <1>6, <1>9
\* The lists of PUT /clients/:id name stores of the company, with quantities.
LEMMA ListsTyped ==
  ASSUME NEW c \in Companies, NEW list \in Lists(c)
  PROVE  /\ Len(list.order) \in Nat
         /\ \A n \in 1 .. Len(list.order) :
              list.order[n] \in OwnedBy(c) /\ list.count[list.order[n]] \in 0 .. MaxTills
<1>1. PICK o \in UNION {SetToSeqs(ss) : ss \in SUBSET OwnedBy(c)}, k \in [OwnedBy(c) -> 0 .. MaxTills] :
        list = [order |-> o, count |-> k]
  BY DEF Lists
<1>0. PICK ss \in SUBSET OwnedBy(c) : o \in SetToSeqs(ss)
  BY <1>1
<1>2. IsFiniteSet(ss)
  BY BodyAssumption, FS_Subset DEF OwnedBy
<1>3. Cardinality(ss) \in Nat
  BY <1>2, FS_CardinalityType
<1>4. o \in [1 .. Cardinality(ss) -> ss]
  BY <1>0 DEF SetToSeqs
<1>5. Len(o) = Cardinality(ss)
  BY <1>3, <1>4
<1> QED
  BY <1>1, <1>3, <1>4, <1>5

LEMMA EditClientKeeps ==
  ASSUME OfficeInv, NEW c \in Companies, EditClient(c)
  PROVE  OfficeKeeps
<1>1. PICK p \in Plans \cup {None, Kept}, n \in 0 .. MaxTills \cup NoOne, list \in Lists(c) :
        LET old      == company[c]
            plan     == IF p = Kept THEN old.plan ELSE p
            licensed == IF n = None THEN old.licensed ELSE n
        IN  /\ company' = [company EXCEPT ![c].plan = plan, ![c].licensed = licensed]
            /\ alloc' = PlaceList(alloc, c, old.plan, licensed, list)
  BY DEF EditClient
<1> DEFINE old      == company[c]
           plan     == IF p = Kept THEN old.plan ELSE p
           licensed == IF n = None THEN old.licensed ELSE n
           row      == [[old EXCEPT !.plan = plan] EXCEPT !.licensed = licensed]
<1>2. old \in CompanyRow
  BY RowsTyped DEF OfficeInv, EditClient
<1>3. row \in CompanyRow
  <2>1. plan \in Plans \cup NoOne
    BY <1>2 DEF CompanyRow, NoOne
  <2>2. licensed \in 0 .. MaxTills
    BY <1>2 DEF CompanyRow, NoOne
  <2> HIDE DEF plan, licensed, old
  <2> QED
    BY <1>2, <2>1, <2>2 DEF CompanyRow
<1>4. company' = [company EXCEPT ![c] = row]
  <2>1. company \in [Companies -> CompanyRow \cup NoOne]
    BY DEF OfficeInv, AdminTypeOK
  <2>2. company' = [company EXCEPT ![c].plan = plan, ![c].licensed = licensed]
    BY <1>1
  <2> HIDE DEF plan, licensed
  <2> QED
    BY <1>2, <2>1, <2>2 DEF CompanyRow
<1>5. alloc' = PlaceList(alloc, c, old.plan, licensed, list) /\ licensed \in Nat
  BY <1>1, <1>2 DEF CompanyRow, NoOne
<1>6. alloc \in [Stores -> Allocation \cup NoOne] /\ OwnedBy(c) \in SUBSET Stores
  BY DEF OfficeInv, AdminTypeOK, OwnedBy
<1> HIDE DEF old, licensed
<1>7. PlacesFor(alloc, alloc', c, Placeable(c))
  <2>1. PlacesFor(alloc, alloc', c, OwnedBy(c))
    BY <1>5, <1>6, ListsTyped, PlaceListPlaces
  <2> QED
    BY <2>1 DEF PlacesFor, Placeable
<1>8. (\A k \in DOMAIN left : left[k] \in Nat)'
  BY Spending DEF OfficeInv, AdminTypeOK, EditClient
<1>9. UNCHANGED <<store, edit>>
  BY DEF EditClient
<1> HIDE DEF row
<1> QED
  BY <1>3, <1>4, <1>7, <1>8, <1>9, CompanyChanges

LEMMA EditStoreKeeps ==
  ASSUME OfficeInv, NEW s \in Stores, EditStore(s)
  PROVE  OfficeKeeps
<1>0. store[s] # None /\ store[s] \in StoreRow /\ UNCHANGED company
  BY RowsTyped DEF OfficeInv, EditStore
<1>1. (\A k \in DOMAIN left : left[k] \in Nat)'
  BY Spending DEF OfficeInv, AdminTypeOK, EditStore
<1>2. edit \in [Requests -> Edit \cup NoOne]
  BY DEF OfficeInv, AdminTypeOK
<1>3. PICK body \in StoreEdits :
        IF body.moved
        THEN /\ \E w \in Requests :
                  /\ edit[w] = None
                  /\ edit' = [edit EXCEPT ![w] = [s |-> s, row |-> store[s], body |-> body]]
             /\ UNCHANGED <<store, alloc>>
        ELSE ApplyEdit(s, store[s], body) /\ UNCHANGED edit
  BY DEF EditStore
<1>4. CASE ~body.moved
  BY <1>0, <1>1, <1>2, <1>3, <1>4, ApplyEditKeeps
<1>5. CASE body.moved
  <2>1. PICK w \in Requests : edit' = [edit EXCEPT ![w] = [s |-> s, row |-> store[s], body |-> body]]
    BY <1>3, <1>5
  <2> DEFINE new == [s |-> s, row |-> store[s], body |-> body]
  <2>2. new \in Edit /\ new.s = s
    BY <1>0 DEF Edit
  <2>3. UNCHANGED <<company, store, alloc>>
    BY <1>0, <1>3, <1>5
  <2> HIDE DEF new
  <2>4. AdminTypeOK'
    BY <1>1, <2>1, <2>2, <2>3 DEF OfficeInv, AdminTypeOK, new
  <2>5. RowsThere'
    <3>1. \A r \in Requests : edit'[r] # None => edit'[r] = edit[r] \/ edit'[r].s = s
      BY <1>2, <2>1, <2>2 DEF new
    <3>2. (\A r \in Requests : edit[r] # None => store[edit[r].s] # None)'
      BY <1>0, <2>3, <3>1 DEF OfficeInv, RowsThere
    <3> QED
      BY <2>3, <3>2 DEF OfficeInv, RowsThere
  <2> QED
    BY <2>3, <2>4, <2>5 DEF OfficeKeeps, OfficeInv, Astray
<1> QED
  BY <1>4, <1>5

LEMMA ProbeEndsKeeps ==
  ASSUME OfficeInv, NEW w \in Requests, ProbeEnds(w)
  PROVE  OfficeKeeps
<1>1. edit[w] \in Edit /\ edit[w].s \in Stores /\ edit[w].row \in StoreRow /\ edit[w].body \in StoreEdits
  BY RowsTyped DEF OfficeInv, ProbeEnds, Edit
<1>2. store[edit[w].s] # None
  BY DEF OfficeInv, RowsThere, ProbeEnds
<1>3. UNCHANGED company /\ (\A k \in DOMAIN left : left[k] \in Nat)'
  BY DEF OfficeInv, AdminTypeOK, ProbeEnds
<1>4. edit' \in [Requests -> Edit \cup NoOne] /\ \A r \in Requests : edit'[r] # None => edit'[r] = edit[r]
  BY DEF OfficeInv, AdminTypeOK, ProbeEnds, NoOne
<1>5. CASE ApplyEdit(edit[w].s, edit[w].row, edit[w].body)
  BY <1>1, <1>2, <1>3, <1>4, <1>5, ApplyEditKeeps
<1>6. CASE UNCHANGED <<store, alloc>>
  <2>1. AdminTypeOK'
    BY <1>3, <1>4, <1>6 DEF OfficeInv, AdminTypeOK
  <2>2. RowsThere'
    BY <1>3, <1>4, <1>6 DEF OfficeInv, RowsThere
  <2> QED
    BY <1>6, <2>1, <2>2 DEF OfficeKeeps, OfficeInv, Astray
<1> QED
  BY <1>5, <1>6 DEF ProbeEnds

\* The backfill of a boot licenses a store to the company that owns it.
LEMMA BootKeeps ==
  ASSUME OfficeInv, Boot
  PROVE  OfficeKeeps
<1> USE DEF NoOne
<1>1. UNCHANGED <<company, store>> /\ alloc' = Backfilled /\ edit' = [w \in Requests |-> None]
  BY DEF Boot
<1>2. \A s \in Stores : store[s] # None => store[s] \in StoreRow
  BY DEF OfficeInv, AdminTypeOK
<1>3. \A s \in Stores :
        \/ alloc'[s] = alloc[s]
        \/ /\ store[s] # None /\ store[s].owner # None
           /\ alloc'[s] = [owner |-> store[s].owner, count |-> store[s].tills]
  BY <1>1 DEF Backfilled
<1>4. \A s \in Stores : store[s] # None /\ store[s].owner # None =>
        [owner |-> store[s].owner, count |-> store[s].tills] \in Allocation
  BY <1>2 DEF StoreRow, Allocation
<1>5. AdminTypeOK'
  <2>1. (\A k \in DOMAIN left : left[k] \in Nat)'
    BY Spending DEF OfficeInv, AdminTypeOK, Boot
  <2>2. alloc' \in [Stores -> Allocation \cup {None}]
    <3>1. \A s \in Stores : alloc'[s] \in Allocation \cup {None}
      BY <1>3, <1>4 DEF OfficeInv, AdminTypeOK
    <3>2. alloc' = [s \in Stores |-> alloc'[s]]
      BY <1>1 DEF Backfilled
    <3> QED
      BY <3>1, <3>2
  <2> QED
    BY <1>1, <2>1, <2>2 DEF OfficeInv, AdminTypeOK
<1>6a. \A s \in Stores : \/ alloc'[s] = alloc[s]
                         \/ store[s] # None /\ store[s].owner # None /\ alloc'[s].owner = store[s].owner
  <2> SUFFICES ASSUME NEW s \in Stores, alloc'[s] # alloc[s]
               PROVE  store[s] # None /\ store[s].owner # None /\ alloc'[s].owner = store[s].owner
    OBVIOUS
  <2>1. /\ store[s] # None /\ store[s].owner # None
        /\ alloc'[s] = [owner |-> store[s].owner, count |-> store[s].tills]
    BY <1>3
  <2> QED
    BY <2>1
<1>6b. UNCHANGED <<company, store>>
  BY <1>1
<1>6. RowsThere'
  <2>1. (\A t \in Stores : alloc[t] # None => store[t] # None /\ company[alloc[t].owner] # None)'
    BY <1>6a, <1>6b DEF OfficeInv, RowsThere
  <2> QED
    BY <1>1, <2>1 DEF OfficeInv, RowsThere
<1>7. Astray' \subseteq Astray
  BY <1>6a, <1>6b DEF Astray
<1> QED
  BY <1>5, <1>6, <1>7 DEF OfficeKeeps, OfficeInv

LEMMA OfficeStepKeeps == ASSUME OfficeInv, Office PROVE OfficeKeeps
<1>1. ASSUME NEW s \in Stores, CreateStore(s) \/ EditStore(s) \/ SetStoreStatus(s) \/ DeleteStore(s)
      PROVE  OfficeKeeps
  BY <1>1, CreateStoreKeeps, EditStoreKeeps, SetStoreStatusKeeps, DeleteStoreKeeps
<1>2. ASSUME NEW c \in Companies, EditCompany(c) \/ EditClient(c) \/ CreateCompany(c) \/ DeleteCompany(c)
      PROVE  OfficeKeeps
  BY <1>2, EditCompanyKeeps, EditClientKeeps, CreateCompanyKeeps, DeleteCompanyKeeps
<1>3. ASSUME NEW w \in Requests, ProbeEnds(w)
      PROVE  OfficeKeeps
  BY <1>3, ProbeEndsKeeps
<1> QED
  BY <1>1, <1>2, <1>3 DEF Office

-----------------------------------------------------------------------------
(* What the edits of the office place *)

LEMMA CreateStoreGrants ==
  ASSUME OfficeInv, NEW s \in Stores, CreateStore(s)
  PROVE  Granted
<1>1. PICK c \in {d \in Companies : company[d] # None} \cup NoOne, kind \in {"store", "warehouse"},
           tills \in 0 .. MaxTills, count \in 0 .. MaxTills \cup NoOne :
        LET placed == IF count = None THEN tills ELSE count
            sells  == c # None /\ kind = "store"
        IN  alloc' = IF sells THEN AllocateTerminals(alloc, c, company[c].plan, company[c].licensed, s, placed)
                     ELSE alloc
  BY DEF CreateStore
<1> DEFINE placed == IF count = None THEN tills ELSE count
<1>2. placed \in 0 .. MaxTills
  BY DEF NoOne
<1>3. OfficeInv' /\ company' = company
  BY CreateStoreKeeps DEF OfficeKeeps, CreateStore
<1>4. CASE c # None /\ kind = "store"
  <2>1. c \in Companies
    BY <1>4 DEF NoOne
  <2>2. alloc' = AllocateTerminals(alloc, c, company[c].plan, company[c].licensed, s, placed)
    BY <1>1, <1>4
  <2>3. alloc \in Allocs
    BY DEF OfficeInv, AdminTypeOK, Allocs
  <2> HIDE DEF placed
  <2>4. Within(alloc, alloc', c, company'[c].licensed)
    BY <1>2, <1>3, <2>1, <2>2, <2>3, AllocateWithin
  <2> QED
    BY <1>3, <2>1, <2>4, WithinGrants
<1>5. CASE ~(c # None /\ kind = "store")
  BY <1>1, <1>3, <1>5, FewerGrants
<1> QED
  BY <1>4, <1>5

LEMMA ApplyEditGrants ==
  ASSUME OfficeInv, OfficeInv', NEW s \in Stores, store[s] # None, NEW row \in StoreRow,
         NEW body \in StoreEdits, ApplyEdit(s, row, body), UNCHANGED company
  PROVE  Granted
<1>1. alloc' = alloc \/ alloc' = AllocationAfter(s, row, body)
  BY DEF ApplyEdit
<1>2. alloc \in Allocs
  BY DEF OfficeInv, AdminTypeOK, Allocs
<1>3. CASE alloc' = alloc
  BY <1>3, FewerGrants
<1>4. CASE alloc' = [alloc EXCEPT ![s] = None]
  BY <1>2, <1>4, FewerGrants DEF Allocs
<1>5. CASE /\ Reassigns(s, row, body)
           /\ alloc' = AllocateTerminals(alloc, body.owner, company[body.owner].plan,
                                         company[body.owner].licensed, s, Placed(row, body))
  <2>1. body.owner \in Companies /\ Placed(row, body) \in 0 .. MaxTills
    BY <1>5, NextRowTyped DEF Reassigns
  <2>2. Within(alloc, alloc', body.owner, company'[body.owner].licensed)
    BY <1>2, <1>5, <2>1, AllocateWithin
  <2> QED
    BY <2>1, <2>2, WithinGrants
<1> QED
  BY <1>1, <1>3, <1>4, <1>5 DEF AllocationAfter

LEMMA EditStoreGrants ==
  ASSUME OfficeInv, NEW s \in Stores, EditStore(s)
  PROVE  Granted
<1>1. store[s] # None /\ store[s] \in StoreRow /\ UNCHANGED company /\ OfficeInv'
  BY RowsTyped, EditStoreKeeps DEF OfficeInv, OfficeKeeps, EditStore
<1>2. alloc' = alloc \/ \E body \in StoreEdits : ApplyEdit(s, store[s], body)
  BY DEF EditStore
<1> QED
  BY <1>1, <1>2, ApplyEditGrants, FewerGrants

LEMMA ProbeEndsGrants ==
  ASSUME OfficeInv, NEW w \in Requests, ProbeEnds(w)
  PROVE  Granted
<1>1. edit[w].s \in Stores /\ edit[w].row \in StoreRow /\ edit[w].body \in StoreEdits
  BY RowsTyped DEF OfficeInv, ProbeEnds, Edit
<1>2. store[edit[w].s] # None /\ UNCHANGED company /\ OfficeInv'
  BY ProbeEndsKeeps DEF OfficeInv, RowsThere, OfficeKeeps, ProbeEnds
<1>3. ApplyEdit(edit[w].s, edit[w].row, edit[w].body) \/ alloc' = alloc
  BY DEF ProbeEnds
<1> QED
  BY <1>1, <1>2, <1>3, ApplyEditGrants, FewerGrants

\* The list is checked against the quantity the same request buys.
LEMMA EditClientGrants ==
  ASSUME OfficeInv, NEW c \in Companies, EditClient(c)
  PROVE  Granted
<1>1. PICK p \in Plans \cup {None, Kept}, n \in 0 .. MaxTills \cup NoOne, list \in Lists(c) :
        LET old      == company[c]
            plan     == IF p = Kept THEN old.plan ELSE p
            licensed == IF n = None THEN old.licensed ELSE n
        IN  /\ company' = [company EXCEPT ![c].plan = plan, ![c].licensed = licensed]
            /\ alloc' = PlaceList(alloc, c, old.plan, licensed, list)
  BY DEF EditClient
<1> DEFINE plan     == IF p = Kept THEN company[c].plan ELSE p
           licensed == IF n = None THEN company[c].licensed ELSE n
<1>2. company[c] \in CompanyRow
  BY RowsTyped DEF OfficeInv, EditClient
<1>3. licensed \in 0 .. MaxTills
  BY <1>2 DEF CompanyRow, NoOne
<1>4. company' = [company EXCEPT ![c].plan = plan, ![c].licensed = licensed]
  BY <1>1
<1>5. alloc' = PlaceList(alloc, c, company[c].plan, licensed, list)
  BY <1>1
<1>6. alloc \in Allocs /\ OwnedBy(c) \in SUBSET Stores /\ company \in [Companies -> CompanyRow \cup NoOne]
  BY DEF OfficeInv, AdminTypeOK, OwnedBy, Allocs
<1>7. OfficeInv'
  BY EditClientKeeps DEF OfficeKeeps
<1> HIDE DEF plan, licensed
<1>8. company'[c].licensed = licensed
  BY <1>2, <1>4, <1>6 DEF CompanyRow
<1>9. Within(alloc, alloc', c, licensed)
  <2>1. licensed \in Nat
    BY <1>3
  <2>2. /\ Len(list.order) \in Nat
        /\ \A k \in 1 .. Len(list.order) :
             list.order[k] \in OwnedBy(c) /\ list.count[list.order[k]] \in 0 .. MaxTills
    BY ListsTyped
  <2>3. alloc \in [Stores -> Allocation \cup NoOne]
    BY <1>6 DEF Allocs
  <2>4. Within(alloc, PlaceList(alloc, c, company[c].plan, licensed, list), c, licensed)
    BY <1>6, <2>1, <2>2, <2>3, PlaceListPlaces
  <2> QED
    BY <1>5, <2>4
<1> QED
  BY <1>7, <1>8, <1>9, WithinGrants

LEMMA OfficeGrants ==
  ASSUME OfficeInv, Office
  PROVE  Granted
<1>1. OfficeInv'
  BY OfficeStepKeeps DEF OfficeKeeps
<1>2. alloc \in Allocs
  BY DEF OfficeInv, AdminTypeOK, Allocs
<1>3. ASSUME NEW s \in Stores, SetStoreStatus(s) \/ DeleteStore(s)
      PROVE  Granted
  BY <1>1, <1>2, <1>3, FewerGrants DEF SetStoreStatus, DeleteStore, Allocs
<1>4. ASSUME NEW c \in Companies, EditCompany(c) \/ CreateCompany(c) \/ DeleteCompany(c)
      PROVE  Granted
  BY <1>1, <1>2, <1>4, FewerGrants DEF EditCompany, CreateCompany, DeleteCompany, Allocs
<1> QED
  BY <1>3, <1>4, CreateStoreGrants, EditStoreGrants, EditClientGrants, ProbeEndsGrants DEF Office

-----------------------------------------------------------------------------
(* Jobs and their runners *)

\* What a step of the runners or a request makes of the jobs: they stay sound, those there
\* were keep their company, their steps and what went through, and no company goes.
JobsFollow ==
  /\ job' \in [Jobs -> JobRow \cup NoOne] /\ done' \in [Jobs -> SUBSET Nat]
  /\ \A j \in Jobs : job'[j] # None => JobOK(j)'
  /\ \A j \in Jobs : job[j] # None =>
       /\ job'[j] # None /\ job'[j].company = job[j].company
       /\ Len(job'[j].steps) = Len(job[j].steps) /\ done[j] \subseteq done'[j]
  /\ \A c \in Companies : company[c] # None => company'[c] # None

RowsTypedAfter ==
  /\ panel' \in [Companies -> BOOLEAN] /\ deploy' \in [Holders -> DeployRow]
  /\ coolify' \in Applications

\* A runner stays behind a job that goes on.
LEMMA StaysBehind ==
  ASSUME NEW r, NEW jb, NEW dn, NEW jb2, NEW dn2, Behind(r, jb, dn),
         jb2 # None, jb2.company = jb.company, Len(jb2.steps) = Len(jb.steps), dn \subseteq dn2
  PROVE  Behind(r, jb2, dn2)
BY DEF Behind, StepsOK

\* What remains to be shown of a step in which one runner, or a request that starts it, acts.
LEMMA OneRunner ==
  ASSUME IInv, OfficeInv', RowsTypedAfter, JobsFollow, NEW w \in Workers, NEW r \in WorkerRow \cup NoOne,
         worker' = [worker EXCEPT ![w] = r], r # None => WorkerFits(r, company', job', done')
  PROVE  IInv'
<1>1. RunTypes'
  BY DEF IInv, RunTypes, RowsTypedAfter, JobsFollow
<1>2. worker \in [Workers -> WorkerRow \cup NoOne]
  BY DEF IInv, RunTypes
<1>3. ASSUME NEW v \in Workers, worker'[v] # None PROVE WorkerOK(v)'
  <2>1. CASE v = w
    BY <1>2, <1>3, <2>1 DEF WorkerOK
  <2>2. CASE v # w
    <3>1. worker'[v] = worker[v] /\ worker[v] # None
      BY <1>2, <1>3, <2>2
    <3> DEFINE q == worker[v]
    <3>2. WorkerFits(q, company, job, done)
      BY <3>1 DEF IInv, WorkerOK
    <3>3. q \in WorkerRow
      BY <1>2, <3>1 DEF NoOne
    <3>4. HasRow(q)
      BY <3>2 DEF WorkerFits
    <3>5. ASSUME q.job # None, q.c # None PROVE Behind(q, job'[q.job], done'[q.job])
      <4>1. q.job \in Jobs /\ Behind(q, job[q.job], done[q.job])
        BY <3>2, <3>3, <3>5 DEF WorkerFits, WorkerRow, NoOne
      <4>2. job[q.job] # None
        BY <4>1 DEF Behind
      <4> HIDE DEF q
      <4> QED
        BY <4>1, <4>2, StaysBehind DEF JobsFollow
    <3>6. q.c # None => company'[q.c] # None
      BY <3>2, <3>3 DEF WorkerFits, WorkerRow, NoOne, JobsFollow
    <3>7. WorkerFits(q, company', job', done')
      <4> HIDE DEF q
      <4> QED
        BY <3>4, <3>5, <3>6 DEF WorkerFits
    <3> QED
      BY <3>1, <3>7 DEF WorkerOK
  <2> QED
    BY <2>1, <2>2
<1>4. \A j \in Jobs : job'[j] # None => JobOK(j)'
  BY DEF JobsFollow
<1> QED
  BY <1>1, <1>3, <1>4 DEF IInv

WithStatus(steps, i, st) == [steps EXCEPT ![i].status = st]

OnlyStatus(q, q2, i, st) ==
  /\ q2 \in Seq(JobStepRow) /\ Len(q2) = Len(q) /\ DOMAIN q2 = DOMAIN q
  /\ \A k \in DOMAIN q : k # i => q2[k] = q[k]
  /\ q2[i].status = st /\ (NamesItsRow(q[i]) => NamesItsRow(q2[i]))

\* The status of one step of a list is written.
LEMMA OneStep ==
  ASSUME NEW q \in Seq(JobStepRow), NEW i \in 1 .. Len(q),
         NEW st \in {"pending", "running", "failed", "complete"}
  PROVE  OnlyStatus(q, WithStatus(q, i, st), i, st)
<1> DEFINE row == [q[i] EXCEPT !.status = st]
           q2  == [q EXCEPT ![i] = row]
<1>1. q[i] \in JobStepRow /\ DOMAIN q = 1 .. Len(q)
  OBVIOUS
<1>2. row \in JobStepRow /\ row.status = st /\ row.what = q[i].what /\ row.at = q[i].at
  BY <1>1 DEF JobStepRow
<1>3. q2 = WithStatus(q, i, st)
  BY DEF WithStatus
<1> HIDE DEF row
<1>4. q2 \in Seq(JobStepRow) /\ Len(q2) = Len(q) /\ DOMAIN q2 = DOMAIN q
  BY <1>2
<1>5. q2[i] = row /\ \A k \in DOMAIN q : k # i => q2[k] = q[k]
  BY <1>1
<1> HIDE DEF q2
<1> QED
  BY <1>2, <1>3, <1>4, <1>5 DEF NamesItsRow, OnlyStatus

\* What the update of a step's status, and of its job's, makes of the job.
Stepped(jb, i, st, status) ==
  [company |-> jb.company, status |-> status, steps |-> WithStatus(jb.steps, i, st)]

LEMMA SteppedTyped ==
  ASSUME NEW jb \in JobRow, NEW i \in 1 .. Len(jb.steps), NEW st \in {"pending", "running", "failed", "complete"},
         NEW status \in {"running", "failed", "complete"}
  PROVE  /\ Stepped(jb, i, st, status) \in JobRow /\ Stepped(jb, i, st, status) # None
         /\ Stepped(jb, i, st, status).company = jb.company
         /\ Stepped(jb, i, st, status).steps = WithStatus(jb.steps, i, st)
<1>1. jb.steps \in Seq(JobStepRow) /\ jb.company \in Companies
  BY DEF JobRow
<1> DEFINE q2 == WithStatus(jb.steps, i, st)
<1>2. q2 \in Seq(JobStepRow)
  BY <1>1, OneStep DEF OnlyStatus
<1> HIDE DEF q2
<1>3. Stepped(jb, i, st, status) = [company |-> jb.company, status |-> status, steps |-> q2]
  BY DEF Stepped, q2
<1>4. Stepped(jb, i, st, status) \in JobRow
  BY <1>1, <1>2, <1>3 DEF JobRow
<1>5. Stepped(jb, i, st, status) # None
  BY <1>4, JobAssumption
<1>6. Stepped(jb, i, st, status).company = jb.company /\ Stepped(jb, i, st, status).steps = q2
  BY <1>3
<1> QED
  BY <1>4, <1>5, <1>6 DEF q2
\* A runner that is at a step of its copy of a job, and whether its company, and the job
\* with it, is still there.
RunnerAt(w) ==
  /\ worker[w] # None /\ worker[w].job # None /\ worker[w].i <= Len(worker[w].steps)

Linked(w) == worker[w].c # None

LEMMA RunnerFacts ==
  ASSUME IInv, NEW w \in Workers, worker[w] # None
  PROVE  /\ worker[w] \in WorkerRow /\ HasRow(worker[w])
         /\ worker[w].job # None => worker[w].job \in Jobs
         /\ Linked(w) => worker[w].c \in Companies /\ company[worker[w].c] # None
         /\ worker[w].job # None /\ Linked(w) =>
              /\ job[worker[w].job] \in JobRow /\ job[worker[w].job] # None
              /\ JobOK(worker[w].job)
              /\ Behind(worker[w], job[worker[w].job], done[worker[w].job])
<1> DEFINE r == worker[w]
<1>1. r \in WorkerRow
  BY DEF IInv, RunTypes, NoOne
<1>2. WorkerFits(r, company, job, done)
  BY DEF IInv, WorkerOK
<1>3. r.job # None => r.job \in Jobs
  BY <1>1 DEF WorkerRow, NoOne
<1>4. Linked(w) => r.c \in Companies /\ company[r.c] # None
  BY <1>1, <1>2 DEF WorkerRow, NoOne, Linked, WorkerFits
<1>5. ASSUME r.job # None, Linked(w)
      PROVE  job[r.job] \in JobRow /\ job[r.job] # None /\ JobOK(r.job) /\ Behind(r, job[r.job], done[r.job])
  <2>1. Behind(r, job[r.job], done[r.job])
    BY <1>2, <1>5 DEF WorkerFits, Linked
  <2>2. job[r.job] # None
    BY <2>1 DEF Behind
  <2>3. job[r.job] \in JobRow
    BY <1>3, <1>5, <2>2 DEF IInv, RunTypes, NoOne
  <2>4. JobOK(r.job)
    BY <1>3, <1>5, <2>2 DEF IInv
  <2> QED
    BY <2>1, <2>2, <2>3, <2>4
<1>6. HasRow(r)
  BY <1>2 DEF WorkerFits
<1> QED
  BY <1>1, <1>3, <1>4, <1>5, <1>6

\* A worker whose company is gone, or that has no job, writes nothing of a job.
LEMMA OrphanMoves ==
  ASSUME IInv, NEW w \in Workers, OfficeInv', RowsTypedAfter, UNCHANGED <<company, job, done>>,
         NEW r2 \in WorkerRow \cup NoOne, worker' = [worker EXCEPT ![w] = r2],
         r2 # None => HasRow(r2) /\ r2.c = None
  PROVE  IInv'
<1>1. JobsFollow
  BY DEF IInv, RunTypes, JobsFollow, JobOK
<1> QED
  BY <1>1, OneRunner DEF WorkerFits

\* What SetStep and the catch of the loop make of the job.
LEMMA SetStepIs ==
  ASSUME IInv, NEW w \in Workers, RunnerAt(w), Linked(w), NEW st \in {"running", "failed", "complete"}
  PROVE  /\ SetStep(w, st) = [job EXCEPT ![worker[w].job] =
               Stepped(job[worker[w].job], worker[w].i, st, job[worker[w].job].status)]
         /\ SetJob(w, SetStep(w, st), "failed") = [job EXCEPT ![worker[w].job] =
               Stepped(job[worker[w].job], worker[w].i, st, "failed")]
<1> DEFINE j == worker[w].job
           i == worker[w].i
           jb == job[j]
           q2 == WithStatus(jb.steps, i, st)
<1>1. j \in Jobs /\ jb \in JobRow
  BY RunnerFacts DEF RunnerAt
<1>2. job \in [Jobs -> JobRow \cup NoOne]
  BY DEF IInv, RunTypes
<1>3. SetStep(w, st) = [job EXCEPT ![j] = [jb EXCEPT !.steps = q2]]
  BY <1>1, <1>2 DEF SetStep, WithStatus, Linked
<1> HIDE DEF j, i, q2, jb
<1>4. ASSUME NEW q, NEW f PROVE /\ [jb EXCEPT !.steps = q] = [company |-> jb.company, status |-> jb.status, steps |-> q]
                                /\ [[jb EXCEPT !.steps = q] EXCEPT !.status = f]
                                     = [company |-> jb.company, status |-> f, steps |-> q]
  <2>1. jb = [company |-> jb.company, status |-> jb.status, steps |-> jb.steps]
    BY <1>1 DEF JobRow
  <2>2. [jb EXCEPT !.steps = q] = [company |-> jb.company, status |-> jb.status, steps |-> q]
    BY <2>1
  <2>3. \A x : x = [company |-> jb.company, status |-> jb.status, steps |-> q] =>
               [x EXCEPT !.status = f] = [company |-> jb.company, status |-> f, steps |-> q]
    OBVIOUS
  <2> QED
    BY <2>2, <2>3, Zenon
<1>5. SetStep(w, st) = [job EXCEPT ![j] = Stepped(jb, i, st, jb.status)]
  BY <1>3, <1>4 DEF Stepped, q2
<1>6. SetJob(w, SetStep(w, st), "failed") = [job EXCEPT ![j] = Stepped(jb, i, st, "failed")]
  <2> DEFINE x == [jb EXCEPT !.steps = q2]
             y == [x EXCEPT !.status = "failed"]
             f == [job EXCEPT ![j] = x]
  <2>1. [f EXCEPT ![j].status = "failed"] = [job EXCEPT ![j] = y]
    <3> HIDE DEF x
    <3> QED
      BY <1>1, <1>2
  <2>2. y = Stepped(jb, i, st, "failed")
    BY <1>4 DEF Stepped, q2
  <2> HIDE DEF y
  <2>3. f = SetStep(w, st)
    BY <1>3
  <2> HIDE DEF f
  <2>4. SetJob(w, f, "failed") = [f EXCEPT ![j].status = "failed"]
    BY DEF SetJob, Linked, j
  <2> QED
    BY <2>1, <2>2, <2>3, <2>4
<1> QED
  BY <1>5, <1>6 DEF j, i, jb

\* The update of a step's status leaves the job sound, and behind it whoever was.
LEMMA StepWritten ==
  ASSUME IInv, NEW w \in Workers, RunnerAt(w), Linked(w), NEW st \in {"running", "failed", "complete"},
         NEW status \in {"running", "failed", "complete"},
         job' = [job EXCEPT ![worker[w].job] = Stepped(job[worker[w].job], worker[w].i, st, status)],
         done' \in [Jobs -> SUBSET Nat], \A j \in Jobs : done[j] \subseteq done'[j],
         st = "complete" => worker[w].i \in done'[worker[w].job],
         \A c \in Companies : company[c] # None => company'[c] # None
  PROVE  JobsFollow
<1> DEFINE r  == worker[w]
           j  == r.job
           i  == r.i
           jb == job[j]
           new == Stepped(jb, i, st, status)
<1>1. j \in Jobs /\ jb \in JobRow /\ JobOK(j) /\ Behind(r, jb, done[j])
  BY RunnerFacts DEF RunnerAt
<1>2. r \in WorkerRow /\ i \in Nat \ {0} /\ i <= Len(r.steps)
  BY RunnerFacts DEF RunnerAt, WorkerRow
<1>3. Len(jb.steps) = Len(r.steps) /\ 1 .. i - 1 \subseteq done[j] /\ jb.steps \in Seq(JobStepRow)
  BY <1>1 DEF Behind, JobRow
<1>4. i \in 1 .. Len(jb.steps)
  BY <1>2, <1>3
<1> DEFINE q == jb.steps
<1>5. new \in JobRow /\ new # None /\ new.company = jb.company /\ new.steps = WithStatus(q, i, st)
  <2>1. jb \in JobRow /\ i \in 1 .. Len(jb.steps) /\ st \in {"pending", "running", "failed", "complete"}
    BY <1>1, <1>4
  <2> HIDE DEF jb, i
  <2> QED
    BY <2>1, SteppedTyped, Zenon
<1>6. /\ Len(new.steps) = Len(q) /\ DOMAIN new.steps = DOMAIN q
      /\ \A k \in DOMAIN q : k # i => new.steps[k] = q[k]
      /\ new.steps[i].status = st /\ (NamesItsRow(q[i]) => NamesItsRow(new.steps[i]))
  <2>1. q \in Seq(JobStepRow) /\ i \in 1 .. Len(q) /\ st \in {"pending", "running", "failed", "complete"}
    BY <1>3, <1>4
  <2> DEFINE q2 == WithStatus(q, i, st)
  <2>2. new.steps = q2
    BY <1>5
  <2> HIDE DEF q, i, new
  <2>3. OnlyStatus(q, q2, i, st)
    BY <2>1, OneStep, Zenon
  <2> HIDE DEF q2
  <2> QED
    BY <2>2, <2>3 DEF OnlyStatus
<1>7. job \in [Jobs -> JobRow \cup NoOne] /\ done \in [Jobs -> SUBSET Nat]
  BY DEF IInv, RunTypes
<1>8. job'[j] = new /\ \A k \in Jobs \ {j} : job'[k] = job[k]
  BY <1>1, <1>7
<1>9. job' \in [Jobs -> JobRow \cup NoOne]
  BY <1>1, <1>5, <1>7
<1>10. DOMAIN q = 1 .. Len(q)
  BY <1>3
<1> HIDE DEF new
<1>11. StepsOK(new.steps, done'[j]) /\ InOrder(new.steps, done'[j])
  <2>1. StepsOK(q, done[j]) /\ InOrder(q, done[j])
    BY <1>1 DEF JobOK
  <2>2. done[j] \subseteq done'[j] /\ (st = "complete" => i \in done'[j])
    BY <1>1
  <2> HIDE DEF j, i, q
  <2>3. StepsOK(new.steps, done'[j])
    BY <1>6, <2>1, <2>2 DEF StepsOK
  <2>4. InOrder(new.steps, done'[j])
    BY <1>3, <1>6, <2>1, <2>2 DEF InOrder, i, j, q
  <2> QED
    BY <2>3, <2>4
<1>12. ASSUME NEW k \in Jobs, job'[k] # None PROVE JobOK(k)'
  <2>1. CASE k = j
    <3>1. company'[new.company] # None
      BY <1>1, <1>5 DEF JobOK, JobRow
    <3> QED
      BY <1>8, <1>11, <2>1, <3>1 DEF JobOK
  <2>2. CASE k # j
    <3>1. job'[k] = job[k] /\ job[k] # None /\ job[k].company \in Companies
      BY <1>7, <1>8, <1>12, <2>2 DEF JobRow, NoOne
    <3>2. JobOK(k)
      BY <3>1 DEF IInv
    <3> QED
      BY <3>1, <3>2 DEF JobOK, StepsOK, InOrder
  <2> QED
    BY <2>1, <2>2
<1>13. ASSUME NEW k \in Jobs, job[k] # None
       PROVE  /\ job'[k] # None /\ job'[k].company = job[k].company
              /\ Len(job'[k].steps) = Len(job[k].steps) /\ done[k] \subseteq done'[k]
  BY <1>5, <1>6, <1>8, <1>13
<1> QED
  BY <1>9, <1>12, <1>13 DEF JobsFollow
LEMMA OfficeStays ==
  ASSUME OfficeInv, UNCHANGED <<office, left>>
  PROVE  OfficeInv' /\ Astray' = Astray
BY DEF office, OfficeInv, AdminTypeOK, RowsThere, Astray

LEMMA JobsStay ==
  ASSUME IInv, UNCHANGED <<company, job, done>>
  PROVE  JobsFollow
BY DEF IInv, RunTypes, JobsFollow, JobOK

\* The status of a job alone is written.
LEMMA StatusWritten ==
  ASSUME IInv, NEW j \in Jobs, job[j] # None, NEW status \in {"running", "failed", "complete"},
         job' = [job EXCEPT ![j].status = status], UNCHANGED <<company, done>>
  PROVE  JobsFollow /\ job'[j].company = job[j].company /\ job'[j].steps = job[j].steps
<1> DEFINE new == [job[j] EXCEPT !.status = status]
<1>1. job \in [Jobs -> JobRow \cup NoOne] /\ job[j] \in JobRow
  BY DEF IInv, RunTypes, NoOne
<1>2. new \in JobRow /\ new.company = job[j].company /\ new.steps = job[j].steps
  BY <1>1 DEF JobRow
<1>3. new # None
  BY <1>2, JobAssumption
<1>4. job' = [job EXCEPT ![j] = new]
  BY <1>1
<1> HIDE DEF new
<1>5. job'[j] = new /\ \A k \in Jobs \ {j} : job'[k] = job[k]
  BY <1>1, <1>4
<1>6. \A k \in Jobs : job'[k] # None <=> job[k] # None
  BY <1>3, <1>5
<1>7. \A k \in Jobs : job[k] # None => job'[k].company = job[k].company /\ job'[k].steps = job[k].steps
  BY <1>2, <1>5
<1>8. \A k \in Jobs : job'[k] # None => JobOK(k)'
  <2> SUFFICES ASSUME NEW k \in Jobs, job[k] # None PROVE JobOK(k)'
    BY <1>6
  <2>1. JobOK(k)
    BY DEF IInv
  <2> QED
    BY <1>7, <2>1 DEF JobOK
<1>9. job' \in [Jobs -> JobRow \cup NoOne] /\ done' \in [Jobs -> SUBSET Nat]
  BY <1>1, <1>2, <1>4 DEF IInv, RunTypes
<1> QED
  BY <1>2, <1>5, <1>6, <1>7, <1>8, <1>9 DEF JobsFollow

LEMMA JobEndsKeeps ==
  ASSUME IInv, NEW w \in Workers, JobEnds(w)
  PROVE  IInv'
<1> DEFINE j == worker[w].job
<1>1. worker[w] # None /\ j # None
  BY RunnerFacts DEF JobEnds, HasRow
<1>2. OfficeInv'
  BY OfficeStays DEF IInv, JobEnds
<1>3. RowsTypedAfter
  BY DEF IInv, RunTypes, RowsTypedAfter, JobEnds
<1>4. worker' = [worker EXCEPT ![w] = None] /\ UNCHANGED <<company, done>>
  BY DEF JobEnds, office
<1>5. CASE Linked(w)
  <2>1. j \in Jobs /\ job[j] # None
    BY <1>1, <1>5, RunnerFacts
  <2>2. job' = [job EXCEPT ![j].status = "complete"]
    BY <1>5 DEF JobEnds, SetJob, Linked
  <2>3. JobsFollow
    <3> HIDE DEF j
    <3> QED
      BY <1>4, <2>1, <2>2, StatusWritten
  <2> QED
    BY <1>2, <1>3, <1>4, <2>3, OneRunner DEF NoOne
<1>6. CASE ~Linked(w)
  <2>1. job' = job
    BY <1>6 DEF JobEnds, SetJob, Linked
  <2> QED
    BY <1>2, <1>3, <1>4, <2>1, OrphanMoves DEF NoOne
<1> QED
  BY <1>5, <1>6

\* A runner whose row changes only in where it is at, at a step, is still behind its job.
LEMMA MovesBehind ==
  ASSUME NEW r, NEW r2, NEW jb, NEW dn, Behind(r, jb, dn), r.i <= Len(r.steps),
         r2.steps = r.steps, r2.c = r.c, r2.i = r.i
  PROVE  Behind(r2, jb, dn)
BY DEF Behind

LEMMA PassesKeeps ==
  ASSUME IInv, NEW w \in Workers, Passes(w)
  PROVE  IInv'
<1> DEFINE r  == worker[w]
           r2 == [r EXCEPT !.i = @ + 1]
<1>1. r \in WorkerRow /\ r # None /\ HasRow(r) /\ r.at = "start" /\ r.job # None
  BY RunnerFacts DEF Passes, HasRow
<1>2. /\ r2 \in WorkerRow /\ r2.i = r.i + 1 /\ r2.job = r.job /\ r2.c = r.c /\ r2.steps = r.steps
      /\ r2.at = r.at /\ r2.h = r.h
  BY <1>1 DEF WorkerRow
<1>3. r.steps \in Seq(JobStepRow) /\ r.i \in Nat \ {0}
  BY <1>1 DEF WorkerRow
<1>4. r.i \in DOMAIN r.steps /\ r.steps[r.i].status = "complete"
  BY <1>3 DEF Passes, Now
<1>5. JobsFollow /\ OfficeInv' /\ UNCHANGED <<company, job, done>>
  BY JobsStay, OfficeStays DEF IInv, Passes, office
<1>6. worker' = [worker EXCEPT ![w] = r2]
  BY DEF Passes
<1>7. RowsTypedAfter
  BY DEF IInv, RunTypes, RowsTypedAfter, Passes
<1> HIDE DEF r, r2
<1>8. HasRow(r2)
  BY <1>1, <1>2 DEF HasRow
<1>9. CASE Linked(w)
  <2>1. Behind(r, job[r.job], done[r.job]) /\ r.job \in Jobs /\ company[r.c] # None
    BY <1>1, <1>9, RunnerFacts DEF r
  <2>2. r.i \in done[r.job]
    BY <1>4, <2>1 DEF Behind, StepsOK
  <2>3. 1 .. r2.i - 1 \subseteq done[r.job]
    BY <1>2, <1>3, <2>1, <2>2 DEF Behind
  <2>4. Behind(r2, job'[r2.job], done'[r2.job])
    BY <1>1, <1>2, <1>5, <2>1, <2>3 DEF Behind
  <2>5. company'[r2.c] # None
    BY <1>2, <1>5, <2>1
  <2> QED
    BY <1>2, <1>5, <1>6, <1>7, <1>8, <2>4, <2>5, OneRunner DEF WorkerFits
<1>10. CASE ~Linked(w)
  BY <1>2, <1>5, <1>6, <1>7, <1>8, <1>10, OrphanMoves DEF Linked, r
<1> QED
  BY <1>9, <1>10

\* A failing step: its job, if there, fails with it, and its runner is gone.
LEMMA StepFailsKeeps ==
  ASSUME IInv, NEW w \in Workers, RunnerAt(w), StepFails(w), OfficeInv', RowsTypedAfter,
         UNCHANGED <<company, done>>
  PROVE  IInv'
<1>1. worker' = [worker EXCEPT ![w] = None]
  BY DEF StepFails
<1>2. CASE Linked(w)
  <2>1. job' = [job EXCEPT ![worker[w].job] = Stepped(job[worker[w].job], worker[w].i, "failed", "failed")]
    BY <1>2, SetStepIs DEF StepFails
  <2>2. done' \in [Jobs -> SUBSET Nat] /\ \A j \in Jobs : done[j] \subseteq done'[j]
    BY DEF IInv, RunTypes
  <2>3. JobsFollow
    BY <1>2, <2>1, <2>2, StepWritten
  <2> QED
    BY <1>1, <2>3, OneRunner DEF NoOne
<1>3. CASE ~Linked(w)
  <2>1. job' = job
    BY <1>3 DEF StepFails, SetStep, SetJob, Linked
  <2> QED
    BY <1>1, <2>1, OrphanMoves DEF NoOne
<1> QED
  BY <1>2, <1>3

\* A runner's row where only its place within the step differs.
SameRunner(r, r2) ==
  r2 \in WorkerRow /\ r2.job = r.job /\ r2.steps = r.steps /\ r2.c = r.c /\ r2.i = r.i

\* A runner takes up a step, or goes on with it, and stays at it.
LEMMA StepRunsKeeps ==
  ASSUME IInv, NEW w \in Workers, RunnerAt(w), OfficeInv', RowsTypedAfter, UNCHANGED <<company, done>>,
         job' = job \/ job' = SetStep(w, "running"),
         NEW r2, SameRunner(worker[w], r2), worker' = [worker EXCEPT ![w] = r2],
         r2.at \in {"create", "trigger", "trigger_new"} => r2.h # None
  PROVE  IInv'
<1> DEFINE r == worker[w]
<1>1. done' \in [Jobs -> SUBSET Nat] /\ \A j \in Jobs : done[j] \subseteq done'[j]
  BY DEF IInv, RunTypes
<1>2. r \in WorkerRow /\ r.job \in Jobs /\ r.job # None /\ HasRow(r) /\ r.i <= Len(r.steps)
  BY RunnerFacts DEF RunnerAt
<1>3. HasRow(r2) /\ r2 \in WorkerRow /\ r2.c = r.c /\ r2.job = r.job
  <2> HIDE DEF r
  <2> QED
    BY <1>2 DEF HasRow, r, SameRunner
<1>4. CASE Linked(w)
  <2>1. job[r.job] \in JobRow /\ job[r.job] # None /\ Behind(r, job[r.job], done[r.job]) /\ company[r.c] # None
    BY <1>4, RunnerFacts DEF RunnerAt
  <2>2. JobsFollow
    <3>1. CASE job' = SetStep(w, "running")
      <4>1. job' = [job EXCEPT ![r.job] = Stepped(job[r.job], r.i, "running", job[r.job].status)]
        BY <1>4, <3>1, SetStepIs
      <4>2. job[r.job].status \in {"running", "failed", "complete"}
        BY <2>1 DEF JobRow
      <4> QED
        BY <1>1, <1>4, <4>1, <4>2, StepWritten
    <3>2. CASE job' = job
      BY <3>2, JobsStay
    <3> QED
      BY <3>1, <3>2
  <2> HIDE DEF r
  <2>3. Behind(r2, job[r.job], done[r.job])
    BY <1>2, <2>1, MovesBehind DEF r, SameRunner
  <2>4. Behind(r2, job'[r2.job], done'[r2.job])
    BY <1>2, <2>1, <2>2, <2>3, StaysBehind DEF JobsFollow, r, SameRunner
  <2>5. company'[r2.c] # None
    BY <1>3, <2>1
  <2> QED
    BY <1>3, <2>2, <2>4, <2>5, OneRunner DEF WorkerFits
<1>5. CASE ~Linked(w)
  <2>1. job' = job
    BY <1>5 DEF SetStep, Linked
  <2>2. r2.c = None
    BY <1>3, <1>5 DEF Linked
  <2> QED
    BY <1>3, <2>1, <2>2, OrphanMoves
<1> QED
  BY <1>4, <1>5
-----------------------------------------------------------------------------
(* The steps of a runner *)

LEMMA BeginFacts ==
  ASSUME IInv, NEW w \in Workers, NEW what, Begins(w, what)
  PROVE  /\ RunnerAt(w) /\ Now(w) \in JobStepRow /\ NamesItsRow(Now(w)) /\ Now(w).what = what
         /\ UNCHANGED <<left, coolify, done, company, edit>>
<1> DEFINE r == worker[w]
<1>1. r \in WorkerRow /\ r # None /\ HasRow(r) /\ r.at = "start" /\ r.i <= Len(r.steps)
  BY RunnerFacts DEF Begins
<1>2. r.job # None
  BY <1>1 DEF HasRow
<1>4. r.steps \in Seq(JobStepRow) /\ r.i \in Nat \ {0}
  BY <1>1 DEF WorkerRow
<1>5. r.i \in DOMAIN r.steps /\ r.steps[r.i] \in JobStepRow
  BY <1>1, <1>4
<1>6. NamesItsRow(r.steps[r.i])
  BY <1>1, <1>2, <1>5 DEF HasRow
<1>7. Now(w) = r.steps[r.i]
  BY DEF Now
<1>8. Now(w).what = what /\ UNCHANGED <<left, coolify, done, company, edit>>
  BY DEF Begins
<1>9. RunnerAt(w)
  BY <1>1, <1>2 DEF RunnerAt
<1> QED
  BY <1>5, <1>6, <1>7, <1>8, <1>9

LEMMA CoolifyPartTyped ==
  ASSUME NEW w, NEW dep
  PROVE  CoolifyPart(w, dep) \in {"create", "trigger", "trigger_new", "push"}
BY DEF CoolifyPart

Holds(r, h) == r.h = h
At4(r, at, h, app) == [r EXCEPT !.at = at, !.h = h, !.app = app, !.kept = TRUE]

\* A runner that is given a row to deploy.
LEMMA RunnerWith ==
  ASSUME NEW q \in WorkerRow, NEW a \in {"create", "trigger", "trigger_new", "push"}, NEW h \in Holders,
         NEW app \in 1 .. MaxApps \cup NoOne
  PROVE  SameRunner(q, At4(q, a, h, app)) /\ Holds(At4(q, a, h, app), h)
BY DEF WorkerRow, At4, SameRunner, Holds

LEMMA HoldersAreRows == \A h \in Holders : h # None
BY BodyAssumption DEF Holders

LEMMA BeginHeadOfficeKeeps ==
  ASSUME IInv, NEW w \in Workers, BeginHeadOffice(w)
  PROVE  IInv' /\ Astray' = Astray
<1> DEFINE r   == worker[w]
           c   == Now(w).at
           dep == IF panel[c] THEN deploy[c] ELSE Fresh
           at  == CoolifyPart(w, dep)
           r2  == At4(r, at, c, dep.app)
<1>1. Begins(w, "head_office")
  BY DEF BeginHeadOffice
<1>2. RunnerAt(w) /\ c \in Companies /\ c \in Holders /\ UNCHANGED <<left, coolify, done, company, edit>>
  BY <1>1, BeginFacts DEF NamesItsRow, Holders
<1>3. r \in WorkerRow /\ r # None
  BY <1>2, RunnerFacts DEF RunnerAt
<1>4. dep \in DeployRow
  BY <1>2 DEF IInv, RunTypes, Fresh, DeployRow, NoOne
<1>5. dep.app \in 1 .. MaxApps \cup NoOne
  BY <1>4 DEF DeployRow
<1>6. at \in {"create", "trigger", "trigger_new", "push"}
  BY CoolifyPartTyped
<1>7. /\ panel' = [panel EXCEPT ![c] = TRUE] /\ deploy' = [deploy EXCEPT ![c] = dep]
      /\ worker' = [worker EXCEPT ![w].at = at, ![w].h = c, ![w].app = dep.app, ![w].kept = TRUE]
      /\ job' = SetStep(w, "running") /\ UNCHANGED <<store, alloc>>
  BY DEF BeginHeadOffice
<1>8. RowsTypedAfter
  BY <1>2, <1>4, <1>7 DEF IInv, RunTypes, RowsTypedAfter
<1>9. OfficeInv' /\ Astray' = Astray
  BY <1>2, <1>7, OfficeStays DEF IInv, office
<1>10. worker' = [worker EXCEPT ![w] = r2]
  <2> HIDE DEF c, dep, at
  <2> QED
    BY <1>7 DEF IInv, RunTypes, At4
<1> HIDE DEF r, c, dep, at, r2
<1>11. SameRunner(r, r2) /\ Holds(r2, c)
  BY <1>2, <1>3, <1>5, <1>6, RunnerWith DEF r2
<1>12. r2.h # None /\ UNCHANGED <<company, done>>
  BY <1>2, <1>11, HoldersAreRows DEF Holds
<1> QED
  BY <1>2, <1>7, <1>8, <1>9, <1>10, <1>11, <1>12, StepRunsKeeps DEF r

\* A store step makes the store a row of its company.
LEMMA StepRowTyped ==
  ASSUME IInv, NEW w \in Workers, Begins(w, "store")
  PROVE  /\ Now(w).at \in Stores /\ Now(w).licensed \in 0 .. MaxTills
         /\ [StepRow(w) EXCEPT !.owner = None] \in StoreRow
         /\ Linked(w) => /\ StepRow(w) \in StoreRow /\ StepRow(w).owner = worker[w].c
                         /\ worker[w].c \in Companies /\ company[worker[w].c] # None
<1> DEFINE st   == Now(w)
           c    == worker[w].c
           kind == IF st.kind = None THEN "store" ELSE st.kind
           tills == IF kind = "warehouse" THEN 0 ELSE IF st.tills = 0 THEN 1 ELSE st.tills
<1>1. RunnerAt(w) /\ st \in JobStepRow /\ st.at \in Stores
  BY BeginFacts DEF NamesItsRow
<1>2. c \in Companies \cup NoOne /\ (Linked(w) => c \in Companies /\ company[c] # None)
  BY <1>1, RunnerFacts DEF RunnerAt, WorkerRow
<1>3. kind \in {"store", "warehouse"} /\ st.tills \in 0 .. MaxTills /\ st.licensed \in 0 .. MaxTills
  BY <1>1 DEF JobStepRow
<1>4. tills \in 0 .. MaxTills
  BY <1>3, BodyAssumption
<1>5. StepRow(w) \in StoreRow /\ StepRow(w).owner = c
  <2>1. CASE store[st.at] = None
    <3>1. StepRow(w) = NewRow(c, kind, tills)
      BY <2>1 DEF StepRow
    <3> HIDE DEF st, c, kind, tills
    <3> QED
      BY <1>2, <1>3, <1>4, <3>1 DEF NewRow, StoreRow
  <2>2. CASE store[st.at] # None
    <3>1. store[st.at] \in StoreRow
      BY <1>1, <2>2, RowsTyped DEF IInv, OfficeInv
    <3>2. StepRow(w) = [store[st.at] EXCEPT !.owner = c]
      BY <2>2 DEF StepRow
    <3> HIDE DEF st, c
    <3> QED
      BY <1>2, <3>1, <3>2 DEF StoreRow
  <2> QED
    BY <2>1, <2>2
<1>6. [StepRow(w) EXCEPT !.owner = None] \in StoreRow
  BY <1>5 DEF StoreRow, NoOne
<1> HIDE DEF c
<1> QED
  BY <1>1, <1>2, <1>3, <1>5, <1>6 DEF c

LEMMA BeginStoreKeeps ==
  ASSUME IInv, NEW w \in Workers, BeginStore(w)
  PROVE  IInv' /\ Astray' \subseteq Astray \cup {Now(w).at}
<1> USE DEF NoOne
<1> DEFINE r   == worker[w]
           s   == Now(w).at
           row == StepRow(w)
           c   == r.c
           dep == IF store[s] = None THEN Fresh ELSE deploy[s]
           licensed == company[c].licensed
           placed == AllocateTerminals(alloc, c, r.plan, licensed, s, Now(w).licensed)
           at  == CoolifyPart(w, dep)
           r2  == At4(r, at, s, dep.app)
<1>1. Begins(w, "store") /\ Linked(w)
  BY DEF BeginStore, Linked
<1>2. RunnerAt(w) /\ UNCHANGED <<left, coolify, done, company, edit>>
  BY <1>1, BeginFacts
<1>3. /\ s \in Stores /\ s \in Holders /\ Now(w).licensed \in 0 .. MaxTills
      /\ row \in StoreRow /\ row.owner = c /\ c \in Companies /\ company[c] # None
  BY <1>1, StepRowTyped DEF Holders
<1>4. /\ store' = [store EXCEPT ![s] = row]
      /\ deploy' = [deploy EXCEPT ![s] = dep] /\ UNCHANGED panel
      /\ \/ StepFails(w) /\ alloc' = alloc
         \/ /\ alloc' \in {alloc, placed} /\ job' = SetStep(w, "running")
            /\ worker' = [worker EXCEPT ![w].at = at, ![w].h = s, ![w].app = dep.app, ![w].kept = TRUE]
  BY DEF BeginStore
<1>5. r \in WorkerRow /\ r # None
  BY <1>2, RunnerFacts DEF RunnerAt
<1>6. dep \in DeployRow
  BY <1>3 DEF IInv, RunTypes, Fresh, DeployRow
<1>7. dep.app \in 1 .. MaxApps \cup {None}
  BY <1>6 DEF DeployRow
<1>8. at \in {"create", "trigger", "trigger_new", "push"}
  BY CoolifyPartTyped
<1>9. alloc \in [Stores -> Allocation \cup {None}]
  BY DEF IInv, OfficeInv, AdminTypeOK
<1>10. PlacesFor(alloc, alloc', c, {s})
  <2>1. PlacesFor(alloc, alloc, c, {s})
    BY <1>9 DEF PlacesFor
  <2>2. PlacesFor(alloc, placed, c, {s})
    <3> HIDE DEF c, s, licensed
    <3> QED
      BY <1>3, <1>9, AllocateOne
  <2> HIDE DEF placed
  <2> QED
    BY <1>4, <2>1, <2>2
<1>11. OfficeInv' /\ Astray' \subseteq Astray \cup {s}
  <2>1. row.owner = None \/ company[row.owner] # None
    BY <1>3, <1>4
  <2>2. /\ alloc' \in [Stores -> Allocation \cup {None}] /\ \A t \in Stores \ {s} : alloc'[t] = alloc[t]
        /\ alloc'[s] # None => company[alloc'[s].owner] # None
    <3>1. alloc[s] # None => company[alloc[s].owner] # None
      BY <1>3 DEF IInv, OfficeInv, RowsThere
    <3>2. alloc'[s] = alloc[s] \/ alloc'[s].owner = c
      BY <1>3, <1>10 DEF PlacesFor
    <3>3. company[c] # None
      BY <1>3
    <3> HIDE DEF s, c
    <3> QED
      BY <1>10, <3>1, <3>2, <3>3 DEF PlacesFor
  <2>3. edit' \in [Requests -> Edit \cup {None}] /\ \A q \in Requests : edit'[q] # None => edit'[q] = edit[q]
    BY <1>2 DEF IInv, OfficeInv, AdminTypeOK
  <2>4. (\A k \in DOMAIN left : left[k] \in Nat)' /\ UNCHANGED company
    BY <1>2 DEF IInv, OfficeInv, AdminTypeOK
  <2>5. OfficeInv
    BY DEF IInv
  <2>6. store' = [store EXCEPT ![s] = row]
    BY <1>4
  <2> HIDE DEF row, s
  <2> QED
    BY <1>3, <2>1, <2>2, <2>3, <2>4, <2>5, <2>6, StoreChanges
<1>12. RowsTypedAfter
  BY <1>2, <1>3, <1>4, <1>6 DEF IInv, RunTypes, RowsTypedAfter
<1>13. UNCHANGED <<company, done>>
  BY <1>2
<1>14. CASE StepFails(w)
  BY <1>2, <1>11, <1>12, <1>13, <1>14, StepFailsKeeps
<1>15. CASE /\ job' = SetStep(w, "running")
            /\ worker' = [worker EXCEPT ![w].at = at, ![w].h = s, ![w].app = dep.app, ![w].kept = TRUE]
  <2>1. worker' = [worker EXCEPT ![w] = r2]
    <3> HIDE DEF s, dep, at
    <3> QED
      BY <1>15 DEF IInv, RunTypes, At4
  <2> HIDE DEF r, s, dep, at, r2
  <2>2. SameRunner(r, r2) /\ Holds(r2, s)
    BY <1>3, <1>5, <1>7, <1>8, RunnerWith DEF r2
  <2>3. r2.h # None
    BY <1>3, <2>2, HoldersAreRows DEF Holds
  <2> QED
    BY <1>2, <1>11, <1>12, <1>13, <1>15, <2>1, <2>2, <2>3, StepRunsKeeps DEF r, s
<1> QED
  BY <1>4, <1>14, <1>15

\* A runner whose company is gone leaves at most a store without an owner.
LEMMA BeginOrphanKeeps ==
  ASSUME IInv, NEW w \in Workers, BeginOrphan(w)
  PROVE  IInv' /\ Astray' \subseteq Astray
<1> USE DEF NoOne
<1>1. PICK what \in {"head_office", "store"} : Begins(w, what)
  BY DEF BeginOrphan
<1>2. /\ RunnerAt(w) /\ UNCHANGED <<left, coolify, done, company, edit>> /\ Now(w).what = what
      /\ StepFails(w) /\ UNCHANGED <<alloc, panel>>
  BY <1>1, BeginFacts DEF BeginOrphan
<1>3. OfficeInv' /\ Astray' \subseteq Astray /\ deploy' \in [Holders -> DeployRow]
  <2>1. CASE Now(w).what = "store" /\ store[Now(w).at] = None
    <3> DEFINE s   == Now(w).at
               row == [StepRow(w) EXCEPT !.owner = None]
    <3>1. s \in Stores /\ row \in StoreRow
      BY <1>1, <1>2, <2>1, StepRowTyped
    <3>2. store' = [store EXCEPT ![s] = row] /\ deploy' = [deploy EXCEPT ![s] = Fresh]
      BY <2>1 DEF BeginOrphan
    <3>3. StepRow(w) = [owner |-> StepRow(w).owner, kind |-> StepRow(w).kind, tills |-> StepRow(w).tills,
                        status |-> StepRow(w).status]
      BY <2>1 DEF StepRow, NewRow
    <3>4. row.owner = None
      BY <3>3
    <3>5. alloc[s] = None
      BY <2>1, <3>1 DEF IInv, OfficeInv, RowsThere
    <3>6. /\ alloc' \in [Stores -> Allocation \cup {None}] /\ \A t \in Stores \ {s} : alloc'[t] = alloc[t]
          /\ alloc'[s] # None => company[alloc'[s].owner] # None
      BY <1>2, <3>5 DEF IInv, OfficeInv, AdminTypeOK
    <3>7. edit' \in [Requests -> Edit \cup {None}] /\ \A q \in Requests : edit'[q] # None => edit'[q] = edit[q]
      BY <1>2 DEF IInv, OfficeInv, AdminTypeOK
    <3>8. (\A k \in DOMAIN left : left[k] \in Nat)' /\ UNCHANGED company
      BY <1>2 DEF IInv, OfficeInv, AdminTypeOK
    <3>9. OfficeInv
      BY DEF IInv
    <3>10. deploy' \in [Holders -> DeployRow]
      BY <3>2 DEF IInv, RunTypes, Fresh, DeployRow
    <3> HIDE DEF row, s
    <3>11. OfficeInv' /\ Astray' \subseteq Astray \cup {s}
      BY <3>1, <3>2, <3>4, <3>6, <3>7, <3>8, <3>9, StoreChanges
    <3>12. s \notin Astray'
      BY <1>2, <3>5 DEF Astray
    <3> QED
      BY <3>10, <3>11, <3>12
  <2>2. CASE ~(Now(w).what = "store" /\ store[Now(w).at] = None)
    <3>1. UNCHANGED <<store, deploy>>
      BY <2>2 DEF BeginOrphan
    <3> QED
      BY <1>2, <3>1, OfficeStays DEF IInv, RunTypes, office
  <2> QED
    BY <2>1, <2>2
<1>4. RowsTypedAfter
  BY <1>2, <1>3 DEF IInv, RunTypes, RowsTypedAfter
<1> QED
  BY <1>2, <1>3, <1>4, StepFailsKeeps

LEMMA BeginGenericKeeps ==
  ASSUME IInv, NEW w \in Workers, BeginGeneric(w)
  PROVE  IInv' /\ Astray' = Astray
<1> DEFINE r == worker[w]
           r2 == [r EXCEPT !.at = "push"]
<1>1. PICK what \in {"wire", "licences"} : Begins(w, what)
  BY DEF BeginGeneric
<1>2. RunnerAt(w) /\ UNCHANGED <<left, coolify, done, company, edit>>
  BY <1>1, BeginFacts
<1>3. UNCHANGED <<store, alloc, panel, deploy>>
  BY DEF BeginGeneric
<1>4. OfficeInv' /\ Astray' = Astray
  BY <1>2, <1>3, OfficeStays DEF IInv, office
<1>5. RowsTypedAfter
  BY <1>2, <1>3 DEF IInv, RunTypes, RowsTypedAfter
<1>6. UNCHANGED <<company, done>>
  BY <1>2
<1>7. CASE StepFails(w)
  BY <1>2, <1>4, <1>5, <1>6, <1>7, StepFailsKeeps
<1>8. CASE job' = SetStep(w, "running") /\ Goes(w, "push")
  <2>1. r \in WorkerRow
    BY <1>2, RunnerFacts DEF RunnerAt
  <2>2. SameRunner(r, r2) /\ r2.at = "push"
    BY <2>1 DEF SameRunner, WorkerRow
  <2>3. worker' = [worker EXCEPT ![w] = r2]
    BY <1>8 DEF Goes
  <2> HIDE DEF r2
  <2> QED
    BY <1>2, <1>4, <1>5, <1>6, <1>8, <2>2, <2>3, StepRunsKeeps
<1> QED
  BY <1>7, <1>8 DEF BeginGeneric

\* A worker beyond the start of a step: its row, and its place in the job if it has one.
LEMMA AtFacts ==
  ASSUME IInv, NEW w \in Workers, NEW at, At(w, at), at # "start"
  PROVE  /\ worker[w] \in WorkerRow /\ worker[w] # None /\ (worker[w].job # None => RunnerAt(w))
         /\ at \in {"create", "trigger", "trigger_new"} => worker[w].h \in Holders
         /\ OfficeInv' /\ Astray' = Astray /\ UNCHANGED <<office, left, panel, company>>
<1> DEFINE r == worker[w]
<1>1. r # None /\ r.at = at /\ UNCHANGED <<office, left, panel>>
  BY DEF At
<1>2. r \in WorkerRow /\ HasRow(r)
  BY <1>1, RunnerFacts
<1>3. r.job # None => r.i <= Len(r.steps)
  BY <1>1, <1>2 DEF HasRow
<1>4. at \in {"create", "trigger", "trigger_new"} => r.h \in Holders
  BY <1>1, <1>2 DEF HasRow, WorkerRow, NoOne
<1>5. OfficeInv' /\ Astray' = Astray
  BY <1>1, OfficeStays DEF IInv
<1>6. UNCHANGED company
  BY <1>1 DEF office
<1> QED
  BY <1>1, <1>2, <1>3, <1>4, <1>5, <1>6 DEF RunnerAt

\* The end of a worker on an error.
LEMMA ErrsKeeps ==
  ASSUME IInv, NEW w \in Workers, NEW at, At(w, at), at # "start", Errs(w), RowsTypedAfter, UNCHANGED done
  PROVE  IInv'
<1>1. OfficeInv' /\ UNCHANGED company
  BY AtFacts
<1>2. CASE worker[w].job # None
  <2>1. RunnerAt(w) /\ StepFails(w)
    BY <1>2, AtFacts DEF Errs
  <2> QED
    BY <1>1, <2>1, StepFailsKeeps
<1>3. CASE worker[w].job = None
  <2>1. job' = job /\ worker' = [worker EXCEPT ![w] = None]
    BY <1>3 DEF Errs
  <2> QED
    BY <1>1, <2>1, OrphanMoves DEF NoOne
<1> QED
  BY <1>2, <1>3

\* A worker that goes on with what it does, with or without a job.
LEMMA GoesOnKeeps ==
  ASSUME IInv, NEW w \in Workers, NEW at, At(w, at), at \in {"create", "trigger", "trigger_new"},
         RowsTypedAfter, UNCHANGED <<job, done>>,
         NEW r2, SameRunner(worker[w], r2), r2.h = worker[w].h, r2.at # "start",
         worker' = [worker EXCEPT ![w] = r2]
  PROVE  IInv'
<1>0. at # "start"
  OBVIOUS
<1>1. OfficeInv' /\ UNCHANGED company
  BY <1>0, AtFacts
<1>2. r2.h # None
  BY <1>0, AtFacts, HoldersAreRows
<1>3. CASE worker[w].job # None
  <2>1. RunnerAt(w)
    BY <1>0, <1>3, AtFacts
  <2> QED
    BY <1>1, <1>2, <2>1, StepRunsKeeps
<1>4. CASE worker[w].job = None
  <2>1. JobsFollow
    BY <1>1, JobsStay
  <2>2. r2 \in WorkerRow /\ r2.job = None /\ r2.c = worker[w].c
    BY <1>4 DEF SameRunner
  <2>3. HasRow(r2)
    BY <1>2, <2>2 DEF HasRow
  <2>4. r2.c # None => company'[r2.c] # None
    BY <1>1, <2>2, RunnerFacts DEF Linked, At
  <2> QED
    BY <1>1, <2>1, <2>2, <2>3, <2>4, OneRunner DEF WorkerFits
<1> QED
  BY <1>3, <1>4

LEMMA MarkedTyped ==
  ASSUME NEW w, NEW dep \in DeployRow
  PROVE  Marked(w, dep) \in DeployRow
BY DEF Marked, DeployRow

LEMMA WritesTyped ==
  ASSUME IInv, NEW w, NEW dep \in DeployRow
  PROVE  Writes(w, dep) \in [Holders -> DeployRow]
BY DEF IInv, RunTypes, Writes

LEMMA AppMadeTyped ==
  ASSUME IInv, NEW h \in Holders, AppMade(h)
  PROVE  coolify' \in Applications /\ coolify'.apps[h] \in 1 .. MaxApps
<1> DEFINE n == coolify.apps[h]
           apps == [coolify.apps EXCEPT ![h] = n + 1]
<1>1. coolify \in Applications
  BY DEF IInv, RunTypes
<1>2. n \in 0 .. MaxApps /\ n < MaxApps
  BY <1>1 DEF Applications, AppMade
<1>3. n + 1 \in 1 .. MaxApps
  BY <1>2 DEF MaxApps
<1>4. coolify' = [coolify EXCEPT !.apps = apps]
  BY DEF AppMade
<1>5. coolify.apps \in [Holders -> 0 .. MaxApps]
  BY <1>1 DEF Applications
<1>6. apps \in [Holders -> 0 .. MaxApps] /\ apps[h] = n + 1
  BY <1>3, <1>5
<1> HIDE DEF apps, n
<1>7. coolify' \in Applications /\ coolify'.apps = apps
  BY <1>1, <1>4, <1>6 DEF Applications
<1> QED
  BY <1>3, <1>6, <1>7

LEMMA TriggersTyped ==
  ASSUME IInv, NEW w \in Workers, worker[w] \in WorkerRow, worker[w].h \in Holders,
         Triggers(w) \/ UNCHANGED coolify
  PROVE  coolify' \in Applications
<1>1. coolify \in Applications
  BY DEF IInv, RunTypes
<1>2. CASE Triggers(w)
  <2> DEFINE live == coolify.live \cup {<<worker[w].h, worker[w].app>>}
  <2>1. coolify' = [coolify EXCEPT !.live = live]
    BY <1>2 DEF Triggers
  <2>2. worker[w].app \in 1 .. MaxApps \cup NoOne
    BY DEF WorkerRow
  <2>3. live \in SUBSET (Holders \X (1 .. MaxApps \cup NoOne))
    BY <1>1, <2>2 DEF Applications
  <2> HIDE DEF live
  <2> QED
    BY <1>1, <2>1, <2>3 DEF Applications
<1> QED
  BY <1>1, <1>2
LEMMA CreatedKeeps ==
  ASSUME IInv, NEW w \in Workers, Created(w)
  PROVE  IInv' /\ Astray' = Astray
<1> DEFINE r   == worker[w]
           dep == [status |-> "provisioning", app |-> coolify'.apps[r.h]]
           r2  == [r EXCEPT !.at = "trigger_new", !.app = dep.app]
<1>1. At(w, "create") /\ AppMade(r.h) /\ UNCHANGED done
  BY DEF Created
<1>2. r \in WorkerRow /\ r.h \in Holders /\ Astray' = Astray /\ UNCHANGED <<office, left, panel>>
  BY <1>1, AtFacts
<1>3. coolify' \in Applications /\ coolify'.apps[r.h] \in 1 .. MaxApps
  BY <1>1, <1>2, AppMadeTyped
<1>4. dep \in DeployRow /\ dep.app \in 1 .. MaxApps \cup NoOne
  BY <1>3 DEF DeployRow
<1>5. CASE /\ deploy' = Writes(w, dep) /\ UNCHANGED job
           /\ worker' = [worker EXCEPT ![w].at = "trigger_new", ![w].app = dep.app]
  <2>1. RowsTypedAfter
    BY <1>2, <1>3, <1>4, <1>5, WritesTyped DEF IInv, RunTypes, RowsTypedAfter
  <2>2. worker' = [worker EXCEPT ![w] = r2]
    <3> HIDE DEF dep
    <3> QED
      BY <1>5 DEF IInv, RunTypes
  <2>3. SameRunner(r, r2) /\ r2.h = r.h /\ r2.at = "trigger_new"
    <3> HIDE DEF dep
    <3> QED
      BY <1>2, <1>4 DEF SameRunner, WorkerRow
  <2> HIDE DEF r2
  <2> QED
    BY <1>1, <1>2, <1>5, <2>1, <2>2, <2>3, GoesOnKeeps
<1>6. CASE deploy' = Writes(w, Marked(w, dep)) /\ Errs(w)
  <2>1. Marked(w, dep) \in DeployRow
    BY <1>4, MarkedTyped
  <2>2. RowsTypedAfter
    BY <1>2, <1>3, <1>6, <2>1, WritesTyped DEF IInv, RunTypes, RowsTypedAfter
  <2> QED
    BY <1>1, <1>2, <1>6, <2>2, ErrsKeeps
<1> QED
  BY <1>5, <1>6 DEF Created

LEMMA NotCreatedKeeps ==
  ASSUME IInv, NEW w \in Workers, NotCreated(w)
  PROVE  IInv' /\ Astray' = Astray
<1> DEFINE h == worker[w].h
           dep == Marked(w, deploy[h])
<1>1. /\ At(w, "create") /\ UNCHANGED done /\ Errs(w)
      /\ deploy' = Writes(w, dep) /\ (AppMade(h) \/ UNCHANGED coolify)
  BY DEF NotCreated
<1>2. h \in Holders /\ Astray' = Astray /\ UNCHANGED panel
  BY <1>1, AtFacts
<1>3. deploy[h] \in DeployRow
  BY <1>2 DEF IInv, RunTypes
<1>4. dep \in DeployRow
  BY <1>3, MarkedTyped
<1>5. coolify' \in Applications
  BY <1>1, <1>2, AppMadeTyped DEF IInv, RunTypes
<1>6. RowsTypedAfter
  <2> HIDE DEF dep
  <2> QED
    BY <1>1, <1>2, <1>4, <1>5, WritesTyped DEF IInv, RunTypes, RowsTypedAfter
<1> QED
  BY <1>1, <1>2, <1>6, ErrsKeeps

\* What follows Coolify's answer to a deployment: the row pushed to, or failed.
LEMMA TriggerKeeps ==
  ASSUME IInv, NEW w \in Workers, NEW at \in {"trigger", "trigger_new"}, At(w, at), UNCHANGED done,
         Triggers(w) \/ UNCHANGED coolify, NEW dep \in DeployRow,
         \/ Goes(w, "push") /\ UNCHANGED <<job, deploy>>
         \/ deploy' = Writes(w, dep) /\ Errs(w)
  PROVE  IInv' /\ Astray' = Astray
<1> DEFINE r == worker[w]
           r2 == [r EXCEPT !.at = "push"]
<1>1. at # "start" /\ at \in {"create", "trigger", "trigger_new"}
  OBVIOUS
<1>2. r \in WorkerRow /\ r.h \in Holders /\ Astray' = Astray /\ UNCHANGED panel
  BY <1>1, AtFacts
<1>3. coolify' \in Applications
  BY <1>2, TriggersTyped
<1>4. CASE Goes(w, "push") /\ UNCHANGED <<job, deploy>>
  <2>1. RowsTypedAfter
    BY <1>2, <1>3, <1>4 DEF IInv, RunTypes, RowsTypedAfter
  <2>2. worker' = [worker EXCEPT ![w] = r2]
    BY <1>4 DEF Goes
  <2>3. SameRunner(r, r2) /\ r2.h = r.h /\ r2.at # "start"
    BY <1>2 DEF SameRunner, WorkerRow
  <2>4. UNCHANGED <<job, done>>
    BY <1>4
  <2> HIDE DEF r2
  <2> QED
    BY <1>1, <1>2, <2>1, <2>2, <2>3, <2>4, GoesOnKeeps
<1>5. CASE deploy' = Writes(w, dep) /\ Errs(w)
  <2>1. RowsTypedAfter
    BY <1>2, <1>3, <1>5, WritesTyped DEF IInv, RunTypes, RowsTypedAfter
  <2> QED
    BY <1>1, <1>2, <1>5, <2>1, ErrsKeeps
<1> QED
  BY <1>4, <1>5

LEMMA TriggeredKeeps ==
  ASSUME IInv, NEW w \in Workers, Triggered(w)
  PROVE  IInv' /\ Astray' = Astray
<1> DEFINE h == worker[w].h
           dep == Marked(w, deploy[h])
<1>1. At(w, "trigger") /\ UNCHANGED done
  BY DEF Triggered
<1>2. h \in Holders
  BY <1>1, AtFacts
<1>3. deploy[h] \in DeployRow
  BY <1>2 DEF IInv, RunTypes
<1>4. dep \in DeployRow
  BY <1>3, MarkedTyped
<1>5. /\ Triggers(w) \/ UNCHANGED coolify
      /\ \/ Goes(w, "push") /\ UNCHANGED <<job, deploy>>
         \/ deploy' = Writes(w, dep) /\ Errs(w)
  BY DEF Triggered
<1> HIDE DEF dep
<1>6. "trigger" \in {"trigger", "trigger_new"}
  OBVIOUS
<1> QED
  BY <1>1, <1>4, <1>5, <1>6, TriggerKeeps

LEMMA VerifiedKeeps ==
  ASSUME IInv, NEW w \in Workers, Verified(w)
  PROVE  IInv' /\ Astray' = Astray
<1> DEFINE h == worker[w].h
           dep == Status(w, "failed")
<1>1. At(w, "trigger_new") /\ UNCHANGED done
  BY DEF Verified
<1>2. h \in Holders
  BY <1>1, AtFacts
<1>3. deploy[h] \in DeployRow
  BY <1>2 DEF IInv, RunTypes
<1>4. dep \in DeployRow
  BY <1>3 DEF Status, DeployRow
<1>5. /\ Triggers(w) \/ UNCHANGED coolify
      /\ \/ Goes(w, "push") /\ UNCHANGED <<job, deploy>>
         \/ deploy' = Writes(w, dep) /\ Errs(w)
  BY DEF Verified
<1> HIDE DEF dep
<1>6. "trigger_new" \in {"trigger", "trigger_new"}
  OBVIOUS
<1> QED
  BY <1>1, <1>4, <1>5, <1>6, TriggerKeeps

\* A completed step joins what went through, and its runner comes to the next.
LEMMA StepCompletesKeeps ==
  ASSUME IInv, NEW w \in Workers, RunnerAt(w), StepCompletes(w), OfficeInv', RowsTypedAfter, UNCHANGED company
  PROVE  IInv'
<1> DEFINE r  == worker[w]
           j  == r.job
           r2 == [r EXCEPT !.at = "start", !.i = @ + 1, !.h = None]
<1>1. r \in WorkerRow /\ HasRow(r) /\ j \in Jobs /\ j # None /\ r.i \in Nat \ {0}
  BY RunnerFacts DEF RunnerAt, WorkerRow
<1>2. worker' = [worker EXCEPT ![w] = r2]
  BY DEF StepCompletes, IInv, RunTypes
<1>3. /\ r2 \in WorkerRow /\ r2.job = j /\ r2.steps = r.steps /\ r2.c = r.c
      /\ r2.i = r.i + 1 /\ r2.at = "start"
  <2> DEFINE k == r.i + 1
  <2>1. k \in Nat \ {0}
    BY <1>1
  <2>2. r2 = [r EXCEPT !.at = "start", !.i = k, !.h = None]
    OBVIOUS
  <2>3. r \in WorkerRow
    BY <1>1
  <2> HIDE DEF k, r2, r
  <2>4. r2 \in WorkerRow
    BY <2>1, <2>2, <2>3 DEF WorkerRow, NoOne
  <2>5. r2.job = r.job /\ r2.steps = r.steps /\ r2.c = r.c /\ r2.i = k /\ r2.at = "start"
    BY <2>2, <2>3 DEF WorkerRow
  <2> QED
    BY <2>4, <2>5 DEF k
<1>4. HasRow(r2)
  <2> HIDE DEF r, r2, j
  <2> QED
    BY <1>1, <1>3 DEF HasRow, j
<1>5. CASE Linked(w)
  <2>1. job[j] \in JobRow /\ job[j] # None /\ Behind(r, job[j], done[j]) /\ company[r.c] # None
    BY <1>5, RunnerFacts DEF RunnerAt
  <2>2. job[j].status \in {"running", "failed", "complete"}
    BY <2>1 DEF JobRow
  <2>3. done \in [Jobs -> SUBSET Nat] /\ done' = [done EXCEPT ![j] = @ \cup {r.i}]
    BY <1>5 DEF IInv, RunTypes, StepCompletes, Linked
  <2>4. /\ done' \in [Jobs -> SUBSET Nat] /\ r.i \in done'[j]
        /\ \A k \in Jobs : done[k] \subseteq done'[k]
    BY <1>1, <2>3
  <2>5. job' = [job EXCEPT ![j] = Stepped(job[j], r.i, "complete", job[j].status)]
    BY <1>5, SetStepIs DEF StepCompletes
  <2>6. JobsFollow
    BY <1>5, <2>2, <2>4, <2>5, StepWritten
  <2> HIDE DEF r, j, r2
  <2>7. Behind(r, job'[j], done'[j])
    BY <1>1, <2>1, <2>6, StaysBehind DEF JobsFollow
  <2>8. 1 .. r2.i - 1 \subseteq done'[j]
    <3>1. 1 .. r.i - 1 \subseteq done'[j]
      BY <2>7 DEF Behind
    <3> QED
      BY <1>1, <1>3, <2>4, <3>1
  <2>9. Behind(r2, job'[r2.job], done'[r2.job])
    BY <1>3, <2>7, <2>8 DEF Behind
  <2>10. company'[r2.c] # None
    BY <1>3, <2>1
  <2> QED
    BY <1>2, <1>3, <1>4, <2>6, <2>9, <2>10, OneRunner DEF WorkerFits
<1>6. CASE ~Linked(w)
  <2>1. UNCHANGED <<job, done>>
    BY <1>6 DEF StepCompletes, SetStep, Linked
  <2>2. r2.c = None
    BY <1>3, <1>6 DEF Linked
  <2> HIDE DEF r, j, r2
  <2> QED
    BY <1>2, <1>3, <1>4, <2>1, <2>2, OrphanMoves
<1> QED
  BY <1>5, <1>6

LEMMA PushedKeeps ==
  ASSUME IInv, NEW w \in Workers, Pushed(w)
  PROVE  IInv' /\ Astray' = Astray
<1> DEFINE r == worker[w]
<1>1. At(w, "push") /\ UNCHANGED coolify
  BY DEF Pushed
<1>2. /\ r \in WorkerRow /\ OfficeInv' /\ Astray' = Astray /\ UNCHANGED <<office, left, panel, company>>
      /\ (r.job # None => RunnerAt(w))
  BY <1>1, AtFacts
<1>3. deploy' \in [Holders -> DeployRow]
  <2>1. CASE r.h = None
    BY <2>1 DEF Pushed, IInv, RunTypes
  <2>2. CASE r.h # None
    <3>1. r.h \in Holders
      BY <1>2, <2>2 DEF WorkerRow, NoOne
    <3>2. deploy[r.h] \in DeployRow
      BY <3>1 DEF IInv, RunTypes
    <3>3. Status(w, "deployed") \in DeployRow
      BY <3>2 DEF Status, DeployRow
    <3> QED
      BY <2>2, <3>3, WritesTyped DEF Pushed
  <2> QED
    BY <2>1, <2>2
<1>4. RowsTypedAfter
  BY <1>1, <1>2, <1>3 DEF IInv, RunTypes, RowsTypedAfter
<1>5. CASE r.job # None
  BY <1>2, <1>4, <1>5, StepCompletesKeeps DEF Pushed
<1>6. CASE r.job = None
  <2>1. worker' = [worker EXCEPT ![w] = None] /\ UNCHANGED <<job, done>>
    BY <1>6 DEF Pushed
  <2> QED
    BY <1>2, <1>4, <2>1, OrphanMoves DEF NoOne
<1> QED
  BY <1>5, <1>6

LEMMA WiringFailsKeeps ==
  ASSUME IInv, NEW w \in Workers, WiringFails(w)
  PROVE  IInv' /\ Astray' = Astray
<1>1. At(w, "push") /\ worker[w].h = None /\ StepFails(w) /\ UNCHANGED <<deploy, coolify, done>>
  BY DEF WiringFails
<1>2. /\ OfficeInv' /\ Astray' = Astray /\ UNCHANGED <<panel, company>>
      /\ (worker[w].job # None => RunnerAt(w))
  BY <1>1, AtFacts
<1>3. worker[w].job # None
  BY <1>1, RunnerFacts DEF At, HasRow
<1>4. RowsTypedAfter
  BY <1>1, <1>2 DEF IInv, RunTypes, RowsTypedAfter
<1> QED
  BY <1>1, <1>2, <1>3, <1>4, StepFailsKeeps

\* Every step of a runner keeps the invariant, and only one that takes a store over parts
\* a store from its licence.
LEMMA WorkKeeps ==
  ASSUME IInv, NEW w \in Workers, Work(w)
  PROVE  IInv' /\ (Astray' \subseteq Astray \/ BeginStore(w))
<1>1. CASE JobEnds(w)
  BY <1>1, JobEndsKeeps, OfficeStays DEF JobEnds, IInv
<1>2. CASE Passes(w)
  BY <1>2, PassesKeeps, OfficeStays DEF Passes, IInv
<1>3. CASE BeginHeadOffice(w)
  BY <1>3, BeginHeadOfficeKeeps
<1>4. CASE BeginStore(w)
  BY <1>4, BeginStoreKeeps
<1>5. CASE BeginGeneric(w) \/ BeginOrphan(w)
  BY <1>5, BeginGenericKeeps, BeginOrphanKeeps
<1>6. CASE Created(w) \/ NotCreated(w)
  BY <1>6, CreatedKeeps, NotCreatedKeeps
<1>7. CASE Triggered(w) \/ Verified(w)
  BY <1>7, TriggeredKeeps, VerifiedKeeps
<1>8. CASE Pushed(w) \/ WiringFails(w)
  BY <1>8, PushedKeeps, WiringFailsKeeps
<1> QED
  BY <1>1, <1>2, <1>3, <1>4, <1>5, <1>6, <1>7, <1>8 DEF Work
-----------------------------------------------------------------------------
(* The requests that start a runner *)

\* The steps a job is created with: none has begun, each has its row.
NewSteps(steps) ==
  steps \in Seq(JobStepRow) /\ \A i \in DOMAIN steps : steps[i].status = "pending" /\ NamesItsRow(steps[i])

LEMMA NoSteps == NewSteps(<<>>)
BY DEF NewSteps

LEMMA NewStep ==
  ASSUME NEW st \in JobStepRow, st.status = "pending", NamesItsRow(st)
  PROVE  NewSteps(<<st>>)
BY DEF NewSteps

LEMMA MoreSteps ==
  ASSUME NEW a, NEW b, NewSteps(a), NewSteps(b)
  PROVE  NewSteps(a \o b)
<1>1. a \in Seq(JobStepRow) /\ b \in Seq(JobStepRow) /\ a \o b \in Seq(JobStepRow)
  BY DEF NewSteps
<1>2. ASSUME NEW i \in DOMAIN (a \o b) PROVE (\E k \in DOMAIN a : (a \o b)[i] = a[k]) \/ (\E k \in DOMAIN b : (a \o b)[i] = b[k])
  <2>1. i \in 1 .. Len(a) + Len(b) /\ Len(a) \in Nat /\ Len(b) \in Nat
    BY <1>1
  <2>2. CASE i <= Len(a)
    BY <1>1, <2>1, <2>2
  <2>3. CASE i > Len(a)
    <3>1. i - Len(a) \in 1 .. Len(b) /\ (a \o b)[i] = b[i - Len(a)]
      BY <1>1, <2>1, <2>3
    <3> QED
      BY <1>1, <3>1
  <2> QED
    BY <2>1, <2>2, <2>3
<1> QED
  BY <1>1, <1>2 DEF NewSteps

LEMMA GenericNew ==
  ASSUME NEW what \in {"wire", "licences"}
  PROVE  NewSteps(<<Generic(what)>>)
<1>1. Generic(what) \in JobStepRow /\ Generic(what).status = "pending" /\ NamesItsRow(Generic(what))
  BY BodyAssumption DEF Generic, Step, JobStepRow, NamesItsRow, NoOne
<1> QED
  BY <1>1, NewStep

LEMMA HeadOfficeNew ==
  ASSUME NEW c \in Companies
  PROVE  NewSteps(<<Step("head_office", c, None, 0, 0)>>)
<1>1. /\ Step("head_office", c, None, 0, 0) \in JobStepRow /\ Step("head_office", c, None, 0, 0).status = "pending"
      /\ NamesItsRow(Step("head_office", c, None, 0, 0))
  BY BodyAssumption DEF Step, JobStepRow, NamesItsRow, NoOne, Holders
<1> QED
  BY <1>1, NewStep

LEMMA StoreStepNew ==
  ASSUME NEW e \in Entry, NEW kind \in {"store", "warehouse", None}
  PROVE  /\ StoreStep(e, kind) \in JobStepRow /\ StoreStep(e, kind).status = "pending"
         /\ NamesItsRow(StoreStep(e, kind))
BY DEF StoreStep, Step, JobStepRow, NamesItsRow, Holders, Entry

LEMMA WizardStepsNew ==
  ASSUME NEW c \in Companies, NEW wz \in Wizards
  PROVE  NewSteps(WizardSteps(c, wz))
<1> DEFINE head   == IF wz.multi THEN <<Step("head_office", c, None, 0, 0)>> ELSE <<>>
           stores == [i \in DOMAIN wz.stores |-> StoreStep(wz.stores[i], None)]
           wire   == IF wz.multi THEN <<Generic("wire")>> ELSE <<>>
           last   == <<Generic("licences")>>
<1>1. wz.stores \in Seq(Entry)
  BY WizardAssumption DEF Wizard
<1>2. NewSteps(head)
  BY NoSteps, HeadOfficeNew
<1>3. NewSteps(wire)
  BY NoSteps, GenericNew
<1>4. NewSteps(last)
  BY GenericNew
<1>5. NewSteps(stores)
  <2>1. \A i \in DOMAIN wz.stores :
          /\ stores[i] \in JobStepRow /\ stores[i].status = "pending"
          /\ NamesItsRow(stores[i])
    <3> SUFFICES ASSUME NEW i \in DOMAIN wz.stores
                 PROVE  /\ stores[i] \in JobStepRow /\ stores[i].status = "pending"
                        /\ NamesItsRow(stores[i])
      OBVIOUS
    <3>1. wz.stores[i] \in Entry /\ stores[i] = StoreStep(wz.stores[i], None)
      BY <1>1
    <3> HIDE DEF stores
    <3> QED
      BY <3>1, StoreStepNew
  <2>2. DOMAIN wz.stores = 1 .. Len(wz.stores) /\ Len(wz.stores) \in Nat /\ DOMAIN stores = DOMAIN wz.stores
    BY <1>1
  <2>3. stores = [i \in 1 .. Len(wz.stores) |-> stores[i]]
    BY <2>2
  <2> HIDE DEF stores
  <2>4. stores \in Seq(JobStepRow)
    <3> DEFINE n == Len(wz.stores)
    <3>1. n \in Nat /\ \A i \in 1 .. n : stores[i] \in JobStepRow
      BY <2>1, <2>2
    <3>2. stores = [i \in 1 .. n |-> stores[i]]
      BY <2>3
    <3> HIDE DEF n
    <3>3. stores \in [1 .. n -> JobStepRow]
      BY <3>1, <3>2
    <3> QED
      BY <3>1, <3>3, SeqDef
  <2> QED
    BY <2>1, <2>2, <2>4 DEF NewSteps
<1>6. WizardSteps(c, wz) = ((head \o stores) \o wire) \o last
  BY DEF WizardSteps
<1> HIDE DEF head, stores, wire, last
<1> QED
  BY <1>2, <1>3, <1>4, <1>5, <1>6, MoreSteps

LEMMA UpgradeStepsNew ==
  ASSUME NEW c \in Companies, NEW e \in Branches
  PROVE  NewSteps(UpgradeSteps(c, e))
<1> DEFINE head   == <<Step("head_office", c, None, 0, 0)>>
           branch == IF e = None THEN <<>> ELSE <<StoreStep(e, e.kind)>>
           last   == <<Generic("wire"), Generic("licences")>>
<1>1. NewSteps(head)
  BY HeadOfficeNew
<1>2. NewSteps(branch)
  <2>1. CASE e = None
    BY <2>1, NoSteps
  <2>2. CASE e # None
    <3>1. e \in Entry
      BY <2>2, WizardAssumption DEF NoOne
    <3>2. e.kind \in {"store", "warehouse", None}
      BY <3>1 DEF Entry
    <3> QED
      BY <2>2, <3>1, <3>2, StoreStepNew, NewStep
  <2> QED
    BY <2>1, <2>2
<1>3. NewSteps(last)
  <2>1. NewSteps(<<Generic("wire")>>) /\ NewSteps(<<Generic("licences")>>)
    BY GenericNew
  <2>2. last = <<Generic("wire")>> \o <<Generic("licences")>>
    OBVIOUS
  <2> HIDE DEF last
  <2> QED
    BY <2>1, <2>2, MoreSteps
<1>4. UpgradeSteps(c, e) = (head \o branch) \o last
  BY DEF UpgradeSteps
<1> HIDE DEF head, branch, last
<1> QED
  BY <1>1, <1>2, <1>3, <1>4, MoreSteps
\* A job created for a company that is there joins the jobs.
LEMMA NewJobFollows ==
  ASSUME IInv, NEW j \in Jobs, job[j] = None, NEW c \in Companies, company'[c] # None,
         \A d \in Companies : company[d] # None => company'[d] # None,
         NEW steps, NewSteps(steps), job' = [job EXCEPT ![j] = NewJob(c, steps)], UNCHANGED done
  PROVE  JobsFollow /\ job'[j] # None
<1> DEFINE new == NewJob(c, steps)
<1>1. new \in JobRow /\ new.company = c /\ new.steps = steps
  BY DEF NewJob, JobRow, NewSteps
<1>2. new # None
  BY <1>1, JobAssumption
<1>3. job \in [Jobs -> JobRow \cup NoOne] /\ done' \in [Jobs -> SUBSET Nat]
  BY DEF IInv, RunTypes
<1> HIDE DEF new
<1>4. job' = [job EXCEPT ![j] = new]
  BY DEF new
<1>5. job'[j] = new /\ \A k \in Jobs \ {j} : job'[k] = job[k]
  BY <1>3, <1>4
<1>6. ASSUME NEW k \in Jobs, job'[k] # None PROVE JobOK(k)'
  <2>1. CASE k = j
    <3>1. StepsOK(steps, done'[j]) /\ InOrder(steps, done'[j])
      BY DEF NewSteps, StepsOK, InOrder
    <3> QED
      BY <1>1, <1>5, <2>1, <3>1 DEF JobOK
  <2>2. CASE k # j
    <3>1. job'[k] = job[k] /\ job[k] # None
      BY <1>5, <1>6, <2>2
    <3>2. JobOK(k) /\ job[k].company \in Companies
      BY <1>3, <3>1 DEF IInv, JobRow, NoOne
    <3> QED
      BY <3>1, <3>2 DEF JobOK
  <2> QED
    BY <2>1, <2>2
<1>7. \A k \in Jobs : job[k] # None => job'[k] = job[k]
  BY <1>5
<1>8. job' \in [Jobs -> JobRow \cup NoOne]
  BY <1>1, <1>3, <1>4
<1> QED
  BY <1>2, <1>3, <1>5, <1>6, <1>7, <1>8 DEF JobsFollow

\* A runner that starts on a job has passed nothing, and copied what the job shows.
LEMMA RunsKeeps ==
  ASSUME IInv, OfficeInv', RowsTypedAfter, JobsFollow, NEW j \in Jobs, job'[j] # None,
         NEW w \in Workers, NEW auto \in BOOLEAN, Runs(w, j, job'[j], auto)
  PROVE  IInv'
<1> DEFINE jb == job'[j]
           r2 == Runner(j, jb, auto)
<1>1. jb \in JobRow /\ JobOK(j)'
  BY DEF JobsFollow, NoOne
<1>2. jb.company \in Companies /\ jb.steps \in Seq(JobStepRow)
  BY <1>1 DEF JobRow
<1>3. company'[jb.company].plan \in Plans \cup NoOne
  <2>1. company'[jb.company] # None
    BY <1>1 DEF JobOK
  <2>2. company'[jb.company] \in CompanyRow \cup NoOne
    BY <1>2 DEF OfficeInv, AdminTypeOK
  <2>3. company'[jb.company] \in CompanyRow
    BY <2>1, <2>2 DEF NoOne
  <2> HIDE DEF jb
  <2> QED
    BY <2>3 DEF CompanyRow
<1> DEFINE plan == company'[jb.company].plan
<1>4. r2 = [job |-> j, c |-> jb.company, steps |-> jb.steps, i |-> 1, plan |-> plan,
            auto |-> auto, at |-> "start", h |-> None, app |-> None, kept |-> TRUE]
  BY DEF Runner
<1>5. worker' = [worker EXCEPT ![w] = r2]
  BY DEF Runs
<1>6. StepsOK(jb.steps, done'[j])
  BY <1>1 DEF JobOK
<1>7. jb # None /\ j # None /\ company'[jb.company] # None
  BY <1>1, JobAssumption DEF JobOK
<1> HIDE DEF jb, plan, r2
<1>8. r2 \in WorkerRow
  BY <1>2, <1>3, <1>4 DEF WorkerRow, NoOne, plan
<1>10. r2.job = j /\ r2.c = jb.company /\ r2.steps = jb.steps /\ r2.i = 1 /\ r2.at = "start"
  BY <1>4
<1>9. HasRow(r2)
  BY <1>6, <1>7, <1>10 DEF HasRow, StepsOK
<1>11. Behind(r2, jb, done'[j])
  BY <1>6, <1>7, <1>10 DEF Behind
<1>12. Behind(r2, job'[r2.job], done'[r2.job])
  BY <1>10, <1>11 DEF jb
<1> QED
  BY <1>5, <1>7, <1>8, <1>9, <1>10, <1>12, OneRunner DEF WorkerFits

LEMMA CreateClientKeeps ==
  ASSUME IInv, NEW c \in Companies, NEW j \in Jobs, NEW w \in Workers, CreateClient(c, j, w)
  PROVE  IInv' /\ Astray' \subseteq Astray
<1>1. PICK wz \in Wizards, p \in Plans \cup NoOne :
        /\ Total(wz.stores) \in 0 .. MaxTills
        /\ company' = [company EXCEPT ![c] = [plan |-> p, licensed |-> Total(wz.stores), suspended |-> FALSE]]
        /\ job' = [job EXCEPT ![j] = NewJob(c, WizardSteps(c, wz))]
        /\ Starts(w, j, job'[j], wz.auto)
  BY DEF CreateClient
<1> DEFINE row == [plan |-> p, licensed |-> Total(wz.stores), suspended |-> FALSE]
<1>2. row \in CompanyRow /\ company' = [company EXCEPT ![c] = row]
  BY <1>1 DEF CompanyRow
<1>3. /\ UNCHANGED <<store, edit, done, panel, deploy, coolify>> /\ alloc' = alloc /\ job[j] = None
      /\ Spend("clients")
  BY DEF CreateClient
<1>4. OfficeInv /\ (\A k \in DOMAIN left : left[k] \in Nat)'
  BY <1>3, Spending DEF IInv, OfficeInv, AdminTypeOK
<1> HIDE DEF row
<1>5. OfficeKeeps
  BY <1>2, <1>3, <1>4, NoPlacement, CompanyChanges
<1>6. row # None /\ company \in [Companies -> CompanyRow \cup NoOne]
  BY <1>2, RowAssumption DEF IInv, OfficeInv, AdminTypeOK
<1>7. company'[c] # None /\ \A d \in Companies : company[d] # None => company'[d] # None
  BY <1>2, <1>6
<1>8. NewSteps(WizardSteps(c, wz)) /\ wz.auto \in BOOLEAN
  BY WizardStepsNew, WizardAssumption DEF Wizard
<1>9. JobsFollow /\ job'[j] # None
  BY <1>1, <1>3, <1>7, <1>8, NewJobFollows
<1>10. RowsTypedAfter
  BY <1>3 DEF IInv, RunTypes, RowsTypedAfter
<1> QED
  BY <1>1, <1>5, <1>8, <1>9, <1>10, RunsKeeps DEF OfficeKeeps, Starts

\* The operations of a request that leaves the rows and the jobs alone.
LEMMA RowsStay ==
  ASSUME IInv, (\A k \in DOMAIN left : left[k] \in Nat)',
         UNCHANGED <<company, store, alloc, edit, panel, deploy, job, coolify, done>>
  PROVE  OfficeInv' /\ Astray' = Astray /\ RowsTypedAfter /\ JobsFollow
<1>1. OfficeInv' /\ Astray' = Astray
  BY DEF IInv, OfficeInv, AdminTypeOK, RowsThere, Astray
<1>2. RowsTypedAfter
  BY DEF IInv, RunTypes, RowsTypedAfter
<1> QED
  BY <1>1, <1>2, JobsStay

LEMMA AskUpgradeKeeps ==
  ASSUME IInv, NEW c \in Companies, NEW w \in Workers, AskUpgrade(c, w)
  PROVE  IInv' /\ Astray' \subseteq Astray
<1> DEFINE plan == company[c].plan
           r2 == [job |-> None, c |-> c, steps |-> <<>>, i |-> 1, plan |-> plan, auto |-> TRUE,
                  at |-> "validate", h |-> None, app |-> None, kept |-> TRUE]
<1>1. /\ Spend("clients") /\ company[c] # None /\ worker' = [worker EXCEPT ![w] = r2]
      /\ UNCHANGED <<company, store, alloc, edit, panel, deploy, job, coolify, done>>
  BY DEF AskUpgrade
<1>2. company[c] \in CompanyRow
  BY <1>1, RowsTyped DEF IInv, OfficeInv
<1>3. plan \in Plans \cup NoOne
  BY <1>2 DEF CompanyRow
<1> HIDE DEF plan
<1>4. r2 \in WorkerRow /\ HasRow(r2) /\ r2.job = None /\ r2.c = c
  BY <1>3 DEF WorkerRow, HasRow, NoOne
<1>5. (\A k \in DOMAIN left : left[k] \in Nat)'
  BY <1>1, Spending DEF IInv, OfficeInv, AdminTypeOK
<1>6. OfficeInv' /\ Astray' = Astray /\ RowsTypedAfter /\ JobsFollow
  BY <1>1, <1>5, RowsStay
<1> HIDE DEF r2
<1>7. WorkerFits(r2, company', job', done')
  BY <1>1, <1>4 DEF WorkerFits
<1> QED
  BY <1>1, <1>4, <1>6, <1>7, OneRunner

LEMMA UpgradeRefusedKeeps ==
  ASSUME IInv, NEW w \in Workers, UpgradeRefused(w)
  PROVE  IInv' /\ Astray' \subseteq Astray
<1>1. /\ worker' = [worker EXCEPT ![w] = None]
      /\ UNCHANGED <<left, company, store, alloc, edit, panel, deploy, job, coolify, done>>
  BY DEF UpgradeRefused, office
<1>2. OfficeInv' /\ Astray' = Astray /\ RowsTypedAfter /\ JobsFollow
  BY <1>1, RowsStay DEF IInv, OfficeInv, AdminTypeOK
<1> QED
  BY <1>1, <1>2, OneRunner DEF NoOne

\* What an upgrade writes: the company's plan and the quantity it bought, with its licences
\* placed anew under that quantity or left as they are, and the job it starts.
UpgradeWrites(w, j, e, p, licensed) ==
  LET c == worker[w].c
  IN  /\ company' = [company EXCEPT ![c].plan = IF p = None THEN @ ELSE p, ![c].licensed = licensed]
      /\ job' = [job EXCEPT ![j] = NewJob(c, UpgradeSteps(c, e))]
      /\ Runs(w, j, job'[j], TRUE)
      /\ PlacesFor(alloc, alloc', c, Placeable(c))
      /\ alloc' = alloc \/ Within(alloc, alloc', c, licensed)

LEMMA UpgradeIs ==
  ASSUME IInv, NEW w \in Workers, NEW j \in Jobs, Upgrade(w, j)
  PROVE  /\ worker[w] # None /\ Linked(w) /\ job[j] = None
         /\ UNCHANGED <<store, edit, left, panel, deploy, coolify, done>>
         /\ \E e \in Branches, p \in Plans \cup NoOne, licensed \in 0 .. MaxTills :
              UpgradeWrites(w, j, e, p, licensed)
<1> DEFINE c == worker[w].c
<1>1. /\ worker[w] # None /\ Linked(w) /\ job[j] = None
      /\ UNCHANGED <<store, edit, left, panel, deploy, coolify, done>>
  BY DEF Upgrade, UpgradeTo, Validating, Linked
<1>2. c \in Companies /\ company[c] # None
  BY <1>1, RunnerFacts
<1>3. company[c] \in CompanyRow /\ OfficeInv
  BY <1>2, RowsTyped DEF IInv, OfficeInv
<1>4. company[c].licensed \in 0 .. MaxTills
  BY <1>3 DEF CompanyRow
<1>5. PICK e \in Branches, p \in Plans \cup NoOne, listed \in BOOLEAN :
        \E some \in SUBSET IF listed THEN OwnedBy(c) ELSE {} :
        \E n \in [some -> 0 .. MaxTills], o \in SetToSeqs(HeldBy(c) \cup some) :
          UpgradeTo(w, j, e, p, listed, some, n, o)
  BY DEF Upgrade
<1>5a. PICK some \in SUBSET IF listed THEN OwnedBy(c) ELSE {} :
        \E n \in [some -> 0 .. MaxTills], o \in SetToSeqs(HeldBy(c) \cup some) :
          UpgradeTo(w, j, e, p, listed, some, n, o)
  BY <1>5
<1>5b. PICK n \in [some -> 0 .. MaxTills], o \in SetToSeqs(HeldBy(c) \cup some) :
         UpgradeTo(w, j, e, p, listed, some, n, o)
  BY <1>5a
<1> DEFINE where == HeldBy(c) \cup some
           count == [s \in where |-> IF s \in some THEN n[s] ELSE alloc[s].count]
           list  == [order |-> o, count |-> count]
           total == MapThenSumSet(LAMBDA s : list.count[s], Range(o)) + (IF e = None THEN 0 ELSE e.licensed)
           buys  == listed \/ e # None
           licensed == IF buys THEN total ELSE company[c].licensed
<1>6. /\ buys => total \in 0 .. MaxTills
      /\ company' = [company EXCEPT ![c].plan = IF p = None THEN @ ELSE p, ![c].licensed = IF buys THEN total ELSE @]
      /\ alloc' = IF buys THEN PlaceList(alloc, c, worker[w].plan, total, list) ELSE alloc
      /\ job' = [job EXCEPT ![j] = NewJob(c, UpgradeSteps(c, e))]
      /\ Runs(w, j, job'[j], TRUE)
  BY <1>5b DEF UpgradeTo
<1>7. alloc \in Allocs /\ \A s \in HeldBy(c) : alloc[s].count \in 0 .. MaxTills
  BY <1>3 DEF OfficeInv, AdminTypeOK, Allocs, HeldBy, Allocation, NoOne
<1>8. where \in SUBSET Stores /\ where \subseteq Placeable(c)
  BY DEF HeldBy, OwnedBy, Placeable
<1>9. \A s \in where : count[s] \in 0 .. MaxTills
  BY <1>7
<1>10. Len(o) \in Nat /\ \A k \in 1 .. Len(o) : o[k] \in where
  <2>1. IsFiniteSet(where)
    BY <1>8, BodyAssumption, FS_Subset
  <2>2. Cardinality(where) \in Nat
    BY <2>1, FS_CardinalityType
  <2>3. o \in [1 .. Cardinality(where) -> where]
    BY DEF SetToSeqs
  <2> HIDE DEF where
  <2>4. Len(o) = Cardinality(where)
    BY <2>2, <2>3
  <2> QED
    BY <2>2, <2>3, <2>4
<1> HIDE DEF total, buys, count, where
<1>11. licensed \in 0 .. MaxTills
  BY <1>4, <1>6
<1>12. PlacesFor(alloc, alloc', c, Placeable(c)) /\ (alloc' = alloc \/ Within(alloc, alloc', c, licensed))
  <2>1. CASE buys
    <3>1. alloc' = PlaceList(alloc, c, worker[w].plan, licensed, list) /\ licensed \in Nat
      BY <1>6, <1>11, <2>1
    <3>2. alloc \in [Stores -> Allocation \cup NoOne]
      BY <1>7 DEF Allocs
    <3>3. Len(list.order) \in Nat /\ \A k \in 1 .. Len(list.order) :
             list.order[k] \in where /\ list.count[list.order[k]] \in 0 .. MaxTills
      BY <1>9, <1>10
    <3> HIDE DEF licensed, list
    <3>4. PlacesFor(alloc, alloc', c, where) /\ Within(alloc, alloc', c, licensed)
      BY <1>2, <1>8, <3>1, <3>2, <3>3, PlaceListPlaces
    <3> QED
      BY <1>8, <3>4 DEF PlacesFor
  <2>2. CASE ~buys
    BY <1>2, <1>3, <1>6, <2>2, NoPlacement
  <2> QED
    BY <2>1, <2>2
<1>13. company' = [company EXCEPT ![c].plan = IF p = None THEN @ ELSE p, ![c].licensed = licensed]
  <2>1. company \in [Companies -> CompanyRow \cup NoOne]
    BY <1>3 DEF OfficeInv, AdminTypeOK
  <2>2. company[c].licensed = [company[c] EXCEPT !.plan = IF p = None THEN @ ELSE p].licensed
    BY <1>3 DEF CompanyRow
  <2>3. CASE buys
    BY <1>6, <2>3
  <2>4. CASE ~buys
    <3>1. company' = [company EXCEPT ![c].plan = IF p = None THEN @ ELSE p, ![c].licensed = @]
      BY <1>6, <2>4
    <3> QED
      BY <1>2, <2>1, <2>2, <2>4, <3>1
  <2> QED
    BY <2>3, <2>4
<1> HIDE DEF licensed
<1> QED
  BY <1>1, <1>6, <1>11, <1>12, <1>13 DEF UpgradeWrites

LEMMA UpgradeKeeps ==
  ASSUME IInv, NEW w \in Workers, NEW j \in Jobs, Upgrade(w, j)
  PROVE  IInv' /\ Astray' \subseteq Astray
<1> DEFINE c   == worker[w].c
           old == company[c]
<1>1. PICK e \in Branches, p \in Plans \cup NoOne, licensed \in 0 .. MaxTills : UpgradeWrites(w, j, e, p, licensed)
  BY UpgradeIs
<1>2. /\ worker[w] # None /\ Linked(w) /\ job[j] = None
      /\ UNCHANGED <<store, edit, left, panel, deploy, coolify, done>>
  BY UpgradeIs
<1>3. c \in Companies /\ company[c] # None
  BY <1>2, RunnerFacts
<1>4. OfficeInv /\ old \in CompanyRow /\ company \in [Companies -> CompanyRow \cup NoOne]
  BY <1>3, RowsTyped DEF IInv, OfficeInv, AdminTypeOK
<1> DEFINE plan == IF p = None THEN old.plan ELSE p
           row  == [[old EXCEPT !.plan = plan] EXCEPT !.licensed = licensed]
<1>5. row \in CompanyRow
  <2>1. plan \in Plans \cup NoOne
    BY <1>4 DEF CompanyRow, NoOne
  <2> HIDE DEF plan, old
  <2> QED
    BY <1>4, <2>1 DEF CompanyRow
<1>6. company' = [company EXCEPT ![c] = row]
  BY <1>1, <1>3, <1>4 DEF UpgradeWrites
<1>7. row # None
  BY <1>5, RowAssumption
<1> HIDE DEF row, c
<1>8. (\A k \in DOMAIN left : left[k] \in Nat)' /\ UNCHANGED <<store, edit>>
  BY <1>2 DEF IInv, OfficeInv, AdminTypeOK
<1>9. PlacesFor(alloc, alloc', c, Placeable(c))
  BY <1>1 DEF UpgradeWrites, c
<1>10. OfficeKeeps
  BY <1>3, <1>4, <1>5, <1>6, <1>8, <1>9, CompanyChanges
<1>11. company'[c] # None /\ \A d \in Companies : company[d] # None => company'[d] # None
  BY <1>3, <1>4, <1>6, <1>7
<1>12. NewSteps(UpgradeSteps(c, e))
  BY <1>3, UpgradeStepsNew
<1>13. job' = [job EXCEPT ![j] = NewJob(c, UpgradeSteps(c, e))] /\ Runs(w, j, job'[j], TRUE)
  BY <1>1 DEF UpgradeWrites, c
<1>14. JobsFollow /\ job'[j] # None
  BY <1>2, <1>3, <1>11, <1>12, <1>13, NewJobFollows
<1>15. RowsTypedAfter
  BY <1>2 DEF IInv, RunTypes, RowsTypedAfter
<1> QED
  BY <1>10, <1>13, <1>14, <1>15, RunsKeeps DEF OfficeKeeps

LEMMA RetryKeeps ==
  ASSUME IInv, NEW j \in Jobs, NEW w \in Workers, Retry(j, w)
  PROVE  IInv' /\ Astray' \subseteq Astray
<1>1. /\ job[j] # None /\ job' = [job EXCEPT ![j].status = "running"] /\ Starts(w, j, job'[j], TRUE)
      /\ UNCHANGED <<company, store, alloc, edit, panel, deploy, coolify, done>> /\ Spend("clients")
  BY DEF Retry
<1>2. JobsFollow
  BY <1>1, StatusWritten
<1>3. job'[j] # None
  BY <1>1, <1>2 DEF JobsFollow
<1>4. OfficeInv' /\ Astray' = Astray
  <2>1. (\A k \in DOMAIN left : left[k] \in Nat)'
    BY <1>1, Spending DEF IInv, OfficeInv, AdminTypeOK
  <2> QED
    BY <1>1, <2>1 DEF IInv, OfficeInv, AdminTypeOK, RowsThere, Astray
<1>5. RowsTypedAfter
  BY <1>1 DEF IInv, RunTypes, RowsTypedAfter
<1> QED
  BY <1>1, <1>2, <1>3, <1>4, <1>5, RunsKeeps DEF Starts

LEMMA ProvisionKeeps ==
  ASSUME IInv, NEW s \in Stores, NEW w \in Workers, Provision(s, w)
  PROVE  IInv' /\ Astray' \subseteq Astray
<1> DEFINE dep == [deploy[s] EXCEPT !.status = "provisioning"]
           r2  == [job |-> None, c |-> None, steps |-> <<>>, i |-> 1, plan |-> None, auto |-> TRUE,
                   at |-> IF deploy[s].app = None THEN "create" ELSE "trigger", h |-> s,
                   app |-> deploy[s].app, kept |-> TRUE]
<1>1. /\ deploy' = [deploy EXCEPT ![s] = dep] /\ worker' = [worker EXCEPT ![w] = r2]
      /\ UNCHANGED <<company, store, alloc, edit, panel, job, coolify, done>> /\ Spend("clients")
  BY DEF Provision
<1>2. s \in Holders /\ deploy[s] \in DeployRow /\ s # None
  BY HoldersAreRows DEF IInv, RunTypes, Holders
<1>3. deploy[s].app \in 1 .. MaxApps \cup NoOne /\ dep \in DeployRow
  BY <1>2 DEF DeployRow
<1>4. r2 \in WorkerRow /\ HasRow(r2) /\ r2.c = None
  BY <1>2, <1>3 DEF WorkerRow, HasRow, NoOne
<1> HIDE DEF dep, r2
<1>5. RowsTypedAfter
  BY <1>1, <1>3 DEF IInv, RunTypes, RowsTypedAfter
<1>6. OfficeInv' /\ Astray' = Astray
  <2>1. (\A k \in DOMAIN left : left[k] \in Nat)'
    BY <1>1, Spending DEF IInv, OfficeInv, AdminTypeOK
  <2> QED
    BY <1>1, <2>1 DEF IInv, OfficeInv, AdminTypeOK, RowsThere, Astray
<1> QED
  BY <1>1, <1>4, <1>5, <1>6, OrphanMoves
\* An edit of the office that deletes a company takes its jobs, and leaves the runners
\* behind them without one; every other runner keeps its job.
LEMMA EditedKeeps ==
  ASSUME IInv, Edited
  PROVE  IInv' /\ Astray' \subseteq Astray
<1> DEFINE After(r) ==
      [r EXCEPT !.c = IF @ \in Gone THEN None ELSE @,
                !.kept = @ /\ ~(r.h \in Stores /\ store'[r.h] = None)]
<1>1. /\ Office /\ UNCHANGED <<panel, coolify>>
      /\ deploy' = [h \in Holders |-> IF h \in Stores /\ store'[h] = None THEN Fresh ELSE deploy[h]]
      /\ worker' = [w \in Workers |-> IF worker[w] = None THEN None ELSE After(worker[w])]
      /\ job' = [j \in Jobs |-> IF job[j] # None /\ company'[job[j].company] = None THEN None ELSE job[j]]
      /\ done' = [j \in Jobs |-> IF job'[j] = None THEN {} ELSE done[j]]
  BY DEF Edited
<1>2. OfficeInv' /\ Astray' \subseteq Astray
  BY <1>1, OfficeStepKeeps DEF IInv, OfficeKeeps
<1>3. \A j \in Jobs : job'[j] # None => job'[j] = job[j] /\ company'[job[j].company] # None /\ done'[j] = done[j]
  BY <1>1
<1>4. ASSUME NEW r \in WorkerRow
      PROVE  /\ After(r) \in WorkerRow /\ After(r).c = IF r.c \in Gone THEN None ELSE r.c
             /\ After(r).job = r.job /\ After(r).steps = r.steps /\ After(r).i = r.i
             /\ After(r).h = r.h /\ After(r).at = r.at
  <2> DEFINE k == r.kept /\ ~(r.h \in Stores /\ store'[r.h] = None)
             d == IF r.c \in Gone THEN None ELSE r.c
  <2>1. After(r) = [r EXCEPT !.c = d, !.kept = k]
    OBVIOUS
  <2>2. k \in BOOLEAN /\ d \in Companies \cup NoOne
    BY DEF WorkerRow, NoOne
  <2> HIDE DEF After, k
  <2>3. After(r).c = d
    BY <2>1 DEF WorkerRow
  <2> HIDE DEF d
  <2>4. After(r) \in WorkerRow
    BY <2>1, <2>2 DEF WorkerRow
  <2>5. /\ After(r).job = r.job /\ After(r).steps = r.steps /\ After(r).i = r.i
        /\ After(r).h = r.h /\ After(r).at = r.at
    BY <2>1 DEF WorkerRow
  <2> QED
    BY <2>3, <2>4, <2>5 DEF d
<1>5. ASSUME NEW w \in Workers, worker'[w] # None
      PROVE  worker[w] # None /\ worker[w] \in WorkerRow /\ worker'[w] = After(worker[w])
  <2>1. worker[w] # None /\ worker'[w] = After(worker[w])
    <3> HIDE DEF After
    <3> QED
      BY <1>1, <1>5
  <2> QED
    BY <2>1, RunnerFacts
<1> HIDE DEF After
<1>6. RunTypes'
  <2>1. deploy' \in [Holders -> DeployRow]
    BY <1>1 DEF IInv, RunTypes, Fresh, DeployRow, NoOne
  <2>2. job' \in [Jobs -> JobRow \cup NoOne] /\ done' \in [Jobs -> SUBSET Nat]
    BY <1>1 DEF IInv, RunTypes, NoOne
  <2>3. worker' \in [Workers -> WorkerRow \cup NoOne]
    <3>1. \A w \in Workers : worker'[w] \in WorkerRow \cup NoOne
      BY <1>4, <1>5 DEF NoOne
    <3>2. worker' = [w \in Workers |-> worker'[w]]
      BY <1>1
    <3> QED
      BY <3>1, <3>2
  <2> QED
    BY <1>1, <2>1, <2>2, <2>3 DEF IInv, RunTypes
<1>7. ASSUME NEW j \in Jobs, job'[j] # None PROVE JobOK(j)'
  <2>1. job[j] # None /\ JobOK(j)
    BY <1>3, <1>7 DEF IInv
  <2> QED
    BY <1>3, <1>7, <2>1 DEF JobOK
<1>8. ASSUME NEW w \in Workers, worker'[w] # None PROVE WorkerOK(w)'
  <2> DEFINE r  == worker[w]
             r2 == worker'[w]
  <2>1. r # None /\ r \in WorkerRow /\ r2 = After(r) /\ HasRow(r)
    BY <1>5, <1>8, RunnerFacts
  <2>2. /\ r2.c = IF r.c \in Gone THEN None ELSE r.c
        /\ r2.job = r.job /\ r2.steps = r.steps /\ r2.i = r.i /\ r2.h = r.h /\ r2.at = r.at
    BY <1>4, <2>1
  <2>3. HasRow(r2)
    <3> HIDE DEF r, r2
    <3> QED
      BY <2>1, <2>2 DEF HasRow
  <2>4. ASSUME r2.c # None PROVE r2.c = r.c /\ r.c \in Companies /\ company'[r.c] # None /\ Linked(w)
    <3>1. r2.c = r.c /\ r.c # None /\ r.c \notin Gone
      BY <2>2, <2>4
    <3>2. r.c \in Companies /\ company[r.c] # None
      BY <2>1, <3>1, RunnerFacts DEF Linked
    <3> QED
      BY <3>1, <3>2 DEF Gone, Linked
  <2>5. ASSUME r2.job # None, r2.c # None PROVE Behind(r2, job'[r2.job], done'[r2.job])
    <3>1. r.job # None /\ r2.job = r.job
      BY <2>2, <2>5
    <3>2. /\ r.job \in Jobs /\ job[r.job] # None /\ Behind(r, job[r.job], done[r.job])
      BY <2>1, <2>4, <2>5, <3>1, RunnerFacts
    <3>3. job[r.job].company = r.c /\ company'[r.c] # None
      BY <2>4, <2>5, <3>2 DEF Behind
    <3>4. job'[r.job] = job[r.job]
      BY <1>1, <3>2, <3>3
    <3>5. done'[r.job] = done[r.job]
      BY <1>3, <3>2, <3>4
    <3> HIDE DEF r, r2
    <3> QED
      BY <2>2, <2>4, <2>5, <3>1, <3>2, <3>4, <3>5 DEF Behind
  <2>6. WorkerFits(r2, company', job', done')
    <3> HIDE DEF r, r2
    <3> QED
      BY <2>3, <2>4, <2>5 DEF WorkerFits
  <2> QED
    BY <2>6 DEF WorkerOK
<1> QED
  BY <1>2, <1>6, <1>7, <1>8 DEF IInv

\* A restart leaves the jobs as they are, with nobody at them.
LEMMA RestartKeeps ==
  ASSUME IInv, Restart
  PROVE  IInv' /\ Astray' \subseteq Astray
<1>1. Boot /\ worker' = [w \in Workers |-> None] /\ UNCHANGED <<company, panel, deploy, job, coolify, done>>
  BY DEF Restart, Boot
<1>2. OfficeInv' /\ Astray' \subseteq Astray
  BY <1>1, BootKeeps DEF IInv, OfficeKeeps
<1>3. RunTypes'
  BY <1>1 DEF IInv, RunTypes, NoOne
<1>4. \A j \in Jobs : job'[j] # None => JobOK(j)'
  BY <1>1, JobsStay DEF JobsFollow
<1>5. \A w \in Workers : worker'[w] # None => WorkerOK(w)'
  BY <1>1
<1> QED
  BY <1>2, <1>3, <1>4, <1>5 DEF IInv

-----------------------------------------------------------------------------
(* The theorems *)

LEMMA InitIInv == Init => IInv
<1> SUFFICES ASSUME Init PROVE IInv
  OBVIOUS
<1> USE DEF NoOne
<1>1. AdminInit
  BY DEF Init
<1>2. AdminTypeOK
  <2>1. company \in [Companies -> CompanyRow \cup {None}]
    <3>1. MaxTills \in 0 .. MaxTills
      BY BodyAssumption
    <3>2. [plan: Plans, licensed: {MaxTills}, suspended: {FALSE}] \subseteq CompanyRow
      BY <3>1 DEF CompanyRow
    <3> QED
      BY <1>1, <3>2 DEF AdminInit
  <2>2. \A k \in DOMAIN left : left[k] \in Nat
    BY <1>1, BodyAssumption DEF AdminInit
  <2> QED
    BY <1>1, <2>1, <2>2 DEF AdminInit, AdminTypeOK
<1>3. RowsThere
  BY <1>1 DEF AdminInit, RowsThere
<1>4. RunTypes
  <2>1. coolify \in Applications
    BY DEF Init, Applications, MaxApps
  <2>2. Fresh \in DeployRow
    BY DEF Fresh, DeployRow
  <2> QED
    BY <2>1, <2>2 DEF Init, RunTypes
<1>5. \A j \in Jobs : job[j] = None
  BY DEF Init
<1>6. \A w \in Workers : worker[w] = None
  BY DEF Init
<1> QED
  BY <1>2, <1>3, <1>4, <1>5, <1>6 DEF IInv, OfficeInv

\* A step of the system keeps the invariant, and parts no store from its licence unless a
\* runner begins the step that deploys it.
LEMMA NextKeeps ==
  ASSUME IInv, Next
  PROVE  IInv' /\ (Astray' \subseteq Astray \/ \E w \in Workers : BeginStore(w))
<1>1. CASE Asked
  <2>1. CASE Edited
    BY <2>1, EditedKeeps
  <2>2. CASE \E c \in Companies, j \in Jobs, w \in Workers : CreateClient(c, j, w)
    BY <2>2, CreateClientKeeps
  <2>5. CASE \/ \E c \in Companies, w \in Workers : AskUpgrade(c, w)
             \/ \E j \in Jobs, w \in Workers : Upgrade(w, j)
             \/ \E w \in Workers : UpgradeRefused(w)
    BY <2>5, AskUpgradeKeeps, UpgradeKeeps, UpgradeRefusedKeeps
  <2>3. CASE \E j \in Jobs, w \in Workers : Retry(j, w)
    BY <2>3, RetryKeeps
  <2>4. CASE \E s \in Stores, w \in Workers : Provision(s, w)
    BY <2>4, ProvisionKeeps
  <2> QED
    BY <1>1, <2>1, <2>2, <2>3, <2>4, <2>5 DEF Asked
<1>2. CASE \E w \in Workers : Work(w)
  BY <1>2, WorkKeeps
<1>3. CASE Restart
  BY <1>3, RestartKeeps
<1> QED
  BY <1>1, <1>2, <1>3 DEF Next, Running

\* Every row refers to companies that are there, every runner and every probe works with
\* rows that exist, and no runner is ahead of its job, whatever runs, retries, edits,
\* deletions and restarts come between.
THEOREM Invariance == Spec => []IInv
<1>1. IInv /\ [Next]_fleetVars => IInv'
  <2> SUFFICES ASSUME IInv, [Next]_fleetVars PROVE IInv'
    OBVIOUS
  <2>1. CASE Next
    BY <2>1, NextKeeps
  <2>2. CASE UNCHANGED fleetVars
    <3>1. UNCHANGED <<office, left>>
      BY <2>2 DEF fleetVars, office
    <3>2. OfficeInv'
      BY <3>1, OfficeStays DEF IInv
    <3>3. UNCHANGED <<company, panel, deploy, job, worker, coolify, done>>
      BY <2>2 DEF fleetVars
    <3>4. JobsFollow
      BY <3>3, JobsStay
    <3>5. RunTypes'
      BY <3>3 DEF IInv, RunTypes
    <3>6. \A w \in Workers : worker'[w] # None => WorkerOK(w)'
      BY <3>3 DEF IInv, WorkerOK, WorkerFits
    <3> QED
      BY <3>2, <3>4, <3>5, <3>6 DEF IInv, JobsFollow
  <2> QED
    BY <2>1, <2>2
<1> QED
  BY <1>1, InitIInv, PTL DEF Spec

\* However many runners, retries, provisionings, edits and restarts there are, every row has
\* its fields and the companies it names, and no step of a job begins before the steps it
\* follows went through.
THEOREM JobsSoundAlways == Spec => []JobsSound
<1>1. ASSUME IInv PROVE JobsSound
  <2>1. TypeOK
    <3>1. \A j \in Jobs : job[j] # None => company[job[j].company] # None
      BY <1>1 DEF IInv, JobOK
    <3> QED
      BY <1>1, <3>1 DEF IInv, OfficeInv, RowsThere, RunTypes, TypeOK
  <2>2. StepsInOrder
    BY <1>1 DEF IInv, JobOK, InOrder, StepsInOrder
  <2> QED
    BY <2>1, <2>2 DEF JobsSound
<1> QED
  BY <1>1, Invariance, PTL

\* A runner that begins the deployment of a store takes that store over.
LEMMA BeginningTakesOver ==
  ASSUME IInv, NEW w \in Workers, BeginStore(w)
  PROVE  TakesOver(w, Now(w).at)
<1>1. worker[w] # None /\ worker[w].at = "start" /\ Now(w).what = "store"
  BY DEF BeginStore, Begins
<1>2. worker \in [Workers -> WorkerRow \cup NoOne] /\ worker[w] \in WorkerRow
  BY <1>1, RunnerFacts DEF IInv, RunTypes
<1> DEFINE s   == Now(w).at
           dep == IF store[s] = None THEN Fresh ELSE deploy[s]
           at  == CoolifyPart(w, dep)
           r2  == At4(worker[w], at, s, dep.app)
<1>3. \/ StepFails(w)
      \/ worker' = [worker EXCEPT ![w].at = at, ![w].h = s, ![w].app = dep.app, ![w].kept = TRUE]
  BY DEF BeginStore
<1>4. worker'[w] # worker[w]
  <2>1. CASE StepFails(w)
    BY <1>1, <1>2, <2>1 DEF StepFails
  <2>2. CASE worker' = [worker EXCEPT ![w].at = at, ![w].h = s, ![w].app = dep.app, ![w].kept = TRUE]
    <3>1. at \in {"create", "trigger", "trigger_new", "push"}
      BY CoolifyPartTyped
    <3> HIDE DEF s, dep, at
    <3>2. worker' = [worker EXCEPT ![w] = r2]
      BY <1>2, <2>2 DEF At4
    <3>3. worker'[w] = r2
      BY <1>2, <3>2
    <3>4. r2.at = at
      BY <1>2 DEF At4, WorkerRow
    <3> HIDE DEF r2
    <3>5. at # "start"
      BY <3>1
    <3> QED
      BY <1>1, <3>3, <3>4, <3>5
  <2> QED
    BY <1>3, <2>1, <2>2
<1> QED
  BY <1>1, <1>4 DEF TakesOver

\* Whatever edits, probes, deletions, requests and boots come between, a store and its
\* licence part company only where a deployment job takes the store over.
THEOREM LicencesFollow == Spec => LicencesFollowStores
<1> DEFINE Follows == \A s \in Astray' \ Astray : \E w \in Workers : TakesOver(w, s)
<1>1. IInv /\ [Next]_fleetVars => [Follows]_fleetVars
  <2> SUFFICES ASSUME IInv, Next PROVE Follows
    OBVIOUS
  <2>1. CASE Astray' \subseteq Astray
    BY <2>1
  <2>2. CASE \E w \in Workers : BeginStore(w)
    <3>1. PICK w \in Workers : BeginStore(w)
      BY <2>2
    <3>2. Astray' \subseteq Astray \cup {Now(w).at} /\ TakesOver(w, Now(w).at)
      BY <3>1, BeginStoreKeeps, BeginningTakesOver
    <3> QED
      BY <3>2
  <2> QED
    BY <2>1, <2>2, NextKeeps
<1> QED
  BY <1>1, Invariance, PTL DEF Spec, LicencesFollowStores

\* A runner places the licences of the store it deploys.
LEMMA BeginStoreGrants ==
  ASSUME IInv, NEW w \in Workers, BeginStore(w)
  PROVE  Granted
<1> DEFINE s   == Now(w).at
           c   == worker[w].c
           licensed == company[c].licensed
<1>1. Begins(w, "store") /\ Linked(w) /\ UNCHANGED company
  BY DEF BeginStore, Begins, Linked
<1>2. s \in Stores /\ Now(w).licensed \in 0 .. MaxTills /\ c \in Companies
  BY <1>1, StepRowTyped
<1>3. alloc' = alloc \/ alloc' = AllocateTerminals(alloc, c, worker[w].plan, licensed, s, Now(w).licensed)
  BY DEF BeginStore
<1>4. alloc \in Allocs /\ OfficeInv /\ OfficeInv'
  BY BeginStoreKeeps DEF IInv, OfficeInv, AdminTypeOK, Allocs
<1>5. licensed = company'[c].licensed
  BY <1>1
<1> HIDE DEF s, c, licensed
<1>6. CASE alloc' = alloc
  BY <1>4, <1>6, FewerGrants
<1>7. CASE alloc' = AllocateTerminals(alloc, c, worker[w].plan, licensed, s, Now(w).licensed)
  <2>1. Within(alloc, alloc', c, licensed)
    BY <1>2, <1>4, <1>7, AllocateWithin
  <2> QED
    BY <1>2, <1>4, <1>5, <2>1, WithinGrants
<1> QED
  BY <1>3, <1>6, <1>7

\* An upgrade places its licences within the quantity it buys.
LEMMA UpgradeGrants ==
  ASSUME IInv, NEW w \in Workers, NEW j \in Jobs, Upgrade(w, j)
  PROVE  Granted
<1> DEFINE c == worker[w].c
<1>1. PICK e \in Branches, p \in Plans \cup NoOne, licensed \in 0 .. MaxTills : UpgradeWrites(w, j, e, p, licensed)
  BY UpgradeIs
<1>2. c \in Companies /\ company[c] # None
  BY UpgradeIs, RunnerFacts
<1>3. alloc \in Allocs /\ company[c] \in CompanyRow /\ company \in [Companies -> CompanyRow \cup NoOne]
  BY <1>2, RowsTyped DEF IInv, OfficeInv, AdminTypeOK, Allocs
<1>4. OfficeInv /\ OfficeInv'
  BY UpgradeKeeps DEF IInv
<1>5. company'[c].licensed = licensed
  BY <1>1, <1>2, <1>3 DEF UpgradeWrites, CompanyRow
<1>6. CASE alloc' = alloc
  BY <1>3, <1>4, <1>6, FewerGrants
<1>7. CASE Within(alloc, alloc', c, licensed)
  BY <1>2, <1>4, <1>5, <1>7, WithinGrants
<1> QED
  BY <1>1, <1>6, <1>7 DEF UpgradeWrites

\* Only the office's edits, an upgrade and the deployment of a store write allocations, and
\* a boot.
LEMMA StepGrants ==
  ASSUME IInv, Next, ~Restart
  PROVE  Granted
<1>1. CASE Edited
  BY <1>1, OfficeGrants DEF IInv, Edited
<1>2. CASE \E w \in Workers : BeginStore(w)
  BY <1>2, BeginStoreGrants
<1>3. CASE alloc' = alloc
  <2>1. OfficeInv /\ OfficeInv'
    BY NextKeeps DEF IInv
  <2> QED
    BY <1>3, <2>1, FewerGrants
<1>4. ASSUME NEW c \in Companies, NEW j \in Jobs, NEW w \in Workers, CreateClient(c, j, w) PROVE alloc' = alloc
  BY <1>4 DEF CreateClient
<1>4a. ASSUME NEW c \in Companies, NEW w \in Workers, AskUpgrade(c, w) PROVE alloc' = alloc
  BY <1>4a DEF AskUpgrade
<1>8. ASSUME NEW w \in Workers, UpgradeRefused(w) PROVE alloc' = alloc
  BY <1>8 DEF UpgradeRefused, office
<1>9. CASE \E w \in Workers, j \in Jobs : Upgrade(w, j)
  BY <1>9, UpgradeGrants
<1>5. ASSUME NEW j \in Jobs, NEW w \in Workers, Retry(j, w) PROVE alloc' = alloc
  BY <1>5 DEF Retry
<1>6. ASSUME NEW s \in Stores, NEW w \in Workers, Provision(s, w) PROVE alloc' = alloc
  BY <1>6 DEF Provision
<1>7. ASSUME NEW w \in Workers, Work(w), ~BeginStore(w) PROVE alloc' = alloc
  <2>1. CASE JobEnds(w) \/ Passes(w)
    BY <2>1 DEF JobEnds, Passes, office
  <2>2. CASE BeginHeadOffice(w) \/ BeginGeneric(w) \/ BeginOrphan(w)
    BY <2>2 DEF BeginHeadOffice, BeginGeneric, BeginOrphan
  <2>3. CASE \E at : At(w, at)
    BY <2>3 DEF At, office
  <2> QED
    BY <1>7, <2>1, <2>2, <2>3 DEF Work, Created, NotCreated, Triggered, Verified, Pushed, WiringFails
<1>10. ASSUME Asked PROVE Granted
  <2>1. CASE \/ \E c \in Companies, j \in Jobs, w \in Workers : CreateClient(c, j, w)
             \/ \E c \in Companies, w \in Workers : AskUpgrade(c, w)
    BY <1>3, <1>4, <1>4a, <2>1
  <2>2. CASE \/ \E w \in Workers : UpgradeRefused(w)
             \/ \E j \in Jobs, w \in Workers : Retry(j, w)
             \/ \E s \in Stores, w \in Workers : Provision(s, w)
    BY <1>3, <1>5, <1>6, <1>8, <2>2
  <2> QED
    BY <1>1, <1>9, <1>10, <2>1, <2>2 DEF Asked
<1>11. ASSUME NEW w \in Workers, Work(w) PROVE Granted
  BY <1>2, <1>3, <1>7, <1>11
<1> QED
  BY <1>10, <1>11 DEF Next, Running

\* The operations of a kind are counted as long as the kind is there.
LEMMA StepCounts ==
  ASSUME IInv, Next
  PROVE  left' = left \/ \E kind : Spend(kind)
<1>1. ASSUME Office PROVE left' = left \/ \E kind : Spend(kind)
  <2>1. ASSUME NEW s \in Stores, CreateStore(s) \/ EditStore(s) \/ SetStoreStatus(s) \/ DeleteStore(s)
        PROVE  \E kind : Spend(kind)
    BY <2>1 DEF CreateStore, EditStore, SetStoreStatus, DeleteStore
  <2>2. ASSUME NEW c \in Companies, EditCompany(c) \/ EditClient(c) \/ CreateCompany(c) \/ DeleteCompany(c)
        PROVE  \E kind : Spend(kind)
    BY <2>2 DEF EditCompany, EditClient, CreateCompany, DeleteCompany
  <2>3. ASSUME NEW r \in Requests, ProbeEnds(r) PROVE left' = left
    BY <2>3 DEF ProbeEnds
  <2> QED
    BY <1>1, <2>1, <2>2, <2>3 DEF Office
<1>2. ASSUME NEW c \in Companies, NEW j \in Jobs, NEW w \in Workers, CreateClient(c, j, w)
      PROVE  \E kind : Spend(kind)
  BY <1>2 DEF CreateClient
<1>2a. ASSUME NEW c \in Companies, NEW w \in Workers, AskUpgrade(c, w) PROVE \E kind : Spend(kind)
  BY <1>2a DEF AskUpgrade
<1>7. ASSUME NEW j \in Jobs, NEW w \in Workers, Upgrade(w, j) PROVE left' = left
  BY <1>7 DEF Upgrade, UpgradeTo
<1>3. ASSUME NEW j \in Jobs, NEW w \in Workers, Retry(j, w) PROVE \E kind : Spend(kind)
  BY <1>3 DEF Retry
<1>4. ASSUME NEW s \in Stores, NEW w \in Workers, Provision(s, w) PROVE \E kind : Spend(kind)
  BY <1>4 DEF Provision
<1>5. ASSUME NEW w \in Workers, Work(w) PROVE left' = left
  <2>1. CASE JobEnds(w) \/ Passes(w)
    BY <2>1 DEF JobEnds, Passes
  <2>2. CASE BeginHeadOffice(w) \/ BeginStore(w) \/ BeginGeneric(w) \/ BeginOrphan(w)
    BY <2>2 DEF BeginHeadOffice, BeginStore, BeginGeneric, BeginOrphan, Begins
  <2>3. CASE \E at : At(w, at)
    BY <2>3 DEF At
  <2> QED
    BY <1>5, <2>1, <2>2, <2>3 DEF Work, Created, NotCreated, Triggered, Verified, Pushed, WiringFails
<1>6. ASSUME Restart PROVE Spend("boot")
  BY <1>6 DEF Restart, Boot
<1>8. ASSUME Asked PROVE left' = left \/ \E kind : Spend(kind)
  <2>1. CASE Edited
    BY <1>1, <2>1 DEF Edited
  <2>2. CASE \/ \E c \in Companies, j \in Jobs, w \in Workers : CreateClient(c, j, w)
             \/ \E c \in Companies, w \in Workers : AskUpgrade(c, w)
    BY <1>2, <1>2a, <2>2
  <2>3. CASE \/ \E j \in Jobs, w \in Workers : Upgrade(w, j)
             \/ \E w \in Workers : UpgradeRefused(w)
    <3>1. ASSUME NEW w \in Workers, UpgradeRefused(w) PROVE left' = left
      BY <3>1 DEF UpgradeRefused
    <3> QED
      BY <1>7, <2>3, <3>1
  <2>4. CASE \/ \E j \in Jobs, w \in Workers : Retry(j, w)
             \/ \E s \in Stores, w \in Workers : Provision(s, w)
    BY <1>3, <1>4, <2>4
  <2> QED
    BY <1>8, <2>1, <2>2, <2>3, <2>4 DEF Asked
<1> QED
  BY <1>5, <1>6, <1>8 DEF Next, Running

\* Whatever is bought, moved, reassigned, reduced and deployed in whatever order, nothing but
\* a boot places licences for a company past what it bought.
THEOREM GrantsStayWithin == Spec => GrantsWithinPurchase
<1> DEFINE Counted == "boot" \in DOMAIN left
           Grants == \A c \in Companies :
                       Allocated(alloc', c) > Allocated(alloc, c) /\ left'.boot = left.boot
                         => Allocated(alloc', c) <= company'[c].licensed
<1>1. Init => Counted
  BY BodyAssumption DEF Init, AdminInit
<1>2. IInv /\ Counted /\ [Next]_fleetVars => Counted'
  BY StepCounts DEF Spend, fleetVars
<1>3. IInv /\ Counted /\ [Next]_fleetVars => [Grants]_adminVars
  <2> SUFFICES ASSUME IInv, Counted, [Next]_fleetVars PROVE [Grants]_adminVars
    OBVIOUS
  <2>1. CASE Restart
    <3>1. left' = [left EXCEPT !["boot"] = @ - 1]
      BY <2>1 DEF Restart, Boot, Spend
    <3>2. left["boot"] \in Nat
      BY DEF IInv, OfficeInv, AdminTypeOK
    <3> QED
      BY <3>1, <3>2
  <2>2. CASE Next /\ ~Restart
    BY <2>2, StepGrants DEF Granted
  <2>3. CASE UNCHANGED fleetVars
    BY <2>3 DEF fleetVars, adminVars
  <2> QED
    BY <2>1, <2>2, <2>3
<1> HIDE DEF Grants, Counted
<1>4. Spec => []Counted
  BY <1>1, <1>2, Invariance, PTL DEF Spec
<1>5. Spec => [][Grants]_adminVars
  BY <1>3, <1>4, Invariance, PTL DEF Spec
<1> QED
  BY <1>5 DEF Grants, GrantsWithinPurchase
=============================================================================
