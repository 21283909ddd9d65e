-------------------------- MODULE TerminalLicences --------------------------
(***************************************************************************)
(* The stores of the fleet, their owners and the terminals they may run:    *)
(* routes/stores.ts, the subscription edits of routes/companies.ts and      *)
(* routes/clients.ts, and services/terminalLicences.ts.                     *)
(*                                                                         *)
(* A company buys a number of terminals (licensed), which the office places *)
(* on its stores (allocations); each store is configured for some tills.    *)
(* Every handler is one synchronous step except PUT /stores/:id with a new  *)
(* URL, which goes on with the row it read before awaiting the URL's probe. *)
(***************************************************************************)
EXTENDS Integers, Sequences, FiniteSets, FiniteSetsExt, SequencesExt

CONSTANTS
  None,          \* SQL NULL, a field the request leaves out, or no row
  Companies, Stores, Plans,
  Ceiling,       \* max_terminals_per_store of each plan
  StoreCap,      \* max_stores of each plan
  Requests,      \* office requests that may be awaiting a probe at once
  StoreEdits,    \* bodies of PUT /stores/:id
  MaxTills,      \* bound on terminals: licensed, allocated or configured
  Budgets        \* bound: mixes of how many operations of each kind a behaviour has

Kept == "keep"     \* a company field the request leaves out, where NULL means something
NoOne == {None}

ASSUME BodyAssumption ==
  /\ None \notin Companies \cup Plans \cup Stores \cup Int
  /\ IsFiniteSet(Stores) /\ MaxTills \in Nat \ {0}
  /\ \A b \in Budgets : "boot" \in DOMAIN b /\ \A k \in DOMAIN b : b[k] \in Nat
  /\ Ceiling \in [Plans -> 1 .. MaxTills] /\ StoreCap \in [Plans -> Nat \ {0}]
  /\ StoreEdits \subseteq [kind: {"store", "warehouse", None}, tills: 0 .. MaxTills \cup NoOne,
                           owner: Companies \cup {None, Kept}, count: 0 .. MaxTills \cup NoOne,
                           moved: BOOLEAN]

VARIABLES
  company,    \* companies and company_subscriptions
  store,      \* stores, by slug
  alloc,      \* store_terminal_licences
  edit,       \* in memory: PUT /stores/:id requests awaiting the probe of their URL
  left        \* bookkeeping of the bounds: operations left

fleet == <<company, store, alloc, edit>>
adminVars == <<company, store, alloc, edit, left>>

CompanyRow == [plan: Plans \cup NoOne, licensed: 0 .. MaxTills, suspended: BOOLEAN]
StoreRow == [owner: Companies \cup NoOne, kind: {"store", "warehouse"}, tills: 0 .. MaxTills,
             status: {"active", "paused"}]
Allocation == [owner: Companies, count: 0 .. MaxTills]
Edit == [s: Stores, row: StoreRow, body: StoreEdits]

ASSUME RowAssumption ==
  None \notin CompanyRow /\ None \notin StoreRow /\ None \notin Allocation /\ None \notin Edit

AdminTypeOK ==
  /\ company \in [Companies -> CompanyRow \cup NoOne]
  /\ store \in [Stores -> StoreRow \cup NoOne]
  /\ alloc \in [Stores -> Allocation \cup NoOne]
  /\ edit \in [Requests -> Edit \cup NoOne]
  /\ \A k \in DOMAIN left : left[k] \in Nat

Spend(kind) == left[kind] > 0 /\ left' = [left EXCEPT ![kind] = @ - 1]

-----------------------------------------------------------------------------
(* services/terminalLicences.ts *)

OwnedBy(c) == {s \in Stores : store[s] # None /\ store[s].owner = c}

\* The licences placed on the stores of a company, one by one
LicencesOf(al, c) ==
  UNION {{s} \X (1 .. al[s].count) : s \in {t \in Stores : al[t] # None /\ al[t].owner = c}}

\* allocatedTerminalCount
Allocated(al, c) == Cardinality(LicencesOf(al, c))

CeilingOf(plan, n) == IF plan = None THEN n ELSE Ceiling[plan]

\* Weakened: an allocation under another company counts as replaceable.
ReplaceableOfAny(al, c, s) == IF al[s] # None THEN al[s].count ELSE 0

\* What the store already holds within this company, and may be replaced.
Replaceable(al, c, s) == IF al[s] # None /\ al[s].owner = c THEN al[s].count ELSE 0

\* checkAllocation: plan is that of the company row the caller holds, licensed is read.
CheckAllocation(al, c, plan, licensed, s, n) ==
  /\ n <= CeilingOf(plan, n)
  /\ Allocated(al, c) - Replaceable(al, c, s) + n <= licensed

\* checkNewStoreAllocation
CheckNewStore(c, n) ==
  /\ n >= 1 /\ n <= CeilingOf(company[c].plan, n)
  /\ Allocated(alloc, c) + n <= company[c].licensed

\* allocateTerminals: a quantity that does not fit is not written.
AllocateTerminals(al, c, plan, licensed, s, n) ==
  IF CheckAllocation(al, c, plan, licensed, s, n)
  THEN [al EXCEPT ![s] = [owner |-> c, count |-> n]] ELSE al

\* terminalAllowance, of a row the caller holds
Allowance(row, s) == IF row.owner = None \/ alloc[s] = None THEN row.tills ELSE alloc[s].count

\* checkConfiguredTerminals, of a row the caller holds and the kind it will have
CheckConfigured(c, row, s, kind, n) ==
  IF kind = "warehouse" THEN n = 0
  ELSE /\ n >= 1
       /\ c # None /\ company[c] # None =>
            n <= CeilingOf(company[c].plan, n) /\ n <= Allowance(row, s)

-----------------------------------------------------------------------------
(* routes/stores.ts *)

Suspended(c) == c # None /\ company[c] # None /\ company[c].suspended

\* canAddStore, countStoresForCompany: warehouses do not count.
CanAddStore(c) ==
  Cardinality({s \in OwnedBy(c) : store[s].kind = "store"})
    < (IF company[c].plan = None THEN 1 ELSE StoreCap[company[c].plan])

NewRow(c, kind, tills) == [owner |-> c, kind |-> kind, tills |-> tills, status |-> "active"]

\* POST /stores
CreateStore(s) ==
  /\ Spend("office") /\ store[s] = None
  /\ \E c \in {d \in Companies : company[d] # None} \cup NoOne, kind \in {"store", "warehouse"},
        tills \in 0 .. MaxTills, count \in 0 .. MaxTills \cup NoOne :
       LET placed == IF count = None THEN tills ELSE count
           sells  == c # None /\ kind = "store"
       IN  /\ (kind = "warehouse") = (tills = 0)
           /\ ~Suspended(c)
           /\ sells => CanAddStore(c) /\ CheckNewStore(c, placed) /\ CheckNewStore(c, tills)
           /\ store' = [store EXCEPT ![s] = NewRow(c, kind, tills)]
           /\ alloc' = IF sells THEN AllocateTerminals(alloc, c, company[c].plan, company[c].licensed, s, placed)
                       ELSE alloc
  /\ UNCHANGED <<company, edit>>

NextKind(row, body) == IF body.kind = None THEN row.kind ELSE body.kind

\* The till count PUT /stores/:id will write, if any.
NextTills(row, body) ==
  IF NextKind(row, body) = "warehouse" THEN 0
  ELSE IF row.kind = "warehouse" /\ body.tills = None THEN 1
  ELSE body.tills

WellFormed(row, body) ==
  IF NextKind(row, body) = "warehouse" THEN body.tills \in {0, None} ELSE body.tills # 0

\* What PUT /stores/:id does with the row it read, once the URL is accepted.
Moves(body) == body.owner \notin {None, Kept}

Placed(row, body) ==
  IF body.count # None THEN body.count
  ELSE IF NextTills(row, body) # None THEN NextTills(row, body) ELSE row.tills

Reassigns(s, row, body) ==
  Moves(body) /\ (body.owner # row.owner \/ Placed(row, body) # Allowance(row, s))

EditAllowed(s, row, body) ==
  LET tills == NextTills(row, body)
  IN  /\ Moves(body) => /\ company[body.owner] # None
                        /\ LET co == company[body.owner]
                           IN  CheckAllocation(alloc, body.owner, co.plan, co.licensed, s, Placed(row, body))
      /\ tills # None =>
           /\ ~(tills > row.tills /\ Suspended(row.owner))
           /\ CheckConfigured(IF Reassigns(s, row, body) THEN body.owner ELSE row.owner,
                              row, s, NextKind(row, body), tills)

\* Weakened: a store that leaves its company takes its licences along.
AllocationAfterKept(s, row, body) ==
  IF Reassigns(s, row, body)
  THEN AllocateTerminals(alloc, body.owner, company[body.owner].plan, company[body.owner].licensed, s, Placed(row, body))
  ELSE alloc

AllocationAfter(s, row, body) ==
  IF body.owner = None THEN [alloc EXCEPT ![s] = None]
  ELSE IF Reassigns(s, row, body)
  THEN AllocateTerminals(alloc, body.owner, company[body.owner].plan, company[body.owner].licensed, s, Placed(row, body))
  ELSE alloc

\* updateStore, after the owner and the allocation; a refusal writes nothing.
ApplyEdit(s, row, body) ==
  IF ~EditAllowed(s, row, body) THEN UNCHANGED <<store, alloc>>
  ELSE /\ store' = [store EXCEPT
             ![s].owner = IF body.owner = None THEN None
                          ELSE IF Reassigns(s, row, body) THEN body.owner ELSE @,
             ![s].kind = IF body.kind = None THEN @ ELSE body.kind,
             ![s].tills = IF NextTills(row, body) = None THEN @ ELSE NextTills(row, body)]
       /\ alloc' = AllocationAfter(s, row, body)

\* PUT /stores/:id
EditStore(s) ==
  /\ Spend("office") /\ store[s] # None
  /\ \E body \in StoreEdits :
       /\ WellFormed(store[s], body)
       /\ IF body.moved
          THEN /\ \E w \in Requests :
                    /\ edit[w] = None
                    /\ edit' = [edit EXCEPT ![w] = [s |-> s, row |-> store[s], body |-> body]]
               /\ UNCHANGED <<store, alloc>>
          ELSE ApplyEdit(s, store[s], body) /\ UNCHANGED edit
  /\ UNCHANGED company

\* assertManagedEndpoint answers
ProbeEnds(w) ==
  /\ edit[w] # None
  /\ \/ ApplyEdit(edit[w].s, edit[w].row, edit[w].body)
     \/ UNCHANGED <<store, alloc>>
  /\ edit' = [edit EXCEPT ![w] = None]
  /\ UNCHANGED <<company, left>>

\* PATCH /stores/:id/pause and resume
SetStoreStatus(s) ==
  /\ Spend("office") /\ store[s] # None
  /\ store' = [store EXCEPT ![s].status = IF @ = "active" THEN "paused" ELSE "active"]
  /\ UNCHANGED <<company, alloc, edit>>

\* DELETE /stores/:id, with its allocation; an edit of the row then ends without effect.
DeleteStore(s) ==
  /\ Spend("office") /\ store[s] # None /\ store[s].status = "paused"
  /\ store' = [store EXCEPT ![s] = None]
  /\ alloc' = [alloc EXCEPT ![s] = None]
  /\ edit' = [w \in Requests |-> IF edit[w] # None /\ edit[w].s = s THEN None ELSE edit[w]]
  /\ UNCHANGED company

-----------------------------------------------------------------------------
(* Subscriptions *)

\* PUT /companies/:id: the quantity may drop below what is placed or running.
EditCompany(c) ==
  /\ Spend("office") /\ company[c] # None
  /\ \/ \E p \in Plans \cup NoOne : company' = [company EXCEPT ![c].plan = p]
     \/ \E n \in 0 .. MaxTills : company' = [company EXCEPT ![c].licensed = n]
     \/ company' = [company EXCEPT ![c].suspended = ~@]
  /\ UNCHANGED <<store, alloc, edit>>

ConfiguredTotal(c) == MapThenSumSet(LAMBDA s : store[s].tills, OwnedBy(c))

\* The bodies of PUT /clients/:id that place licences: a list of stores with their counts.
Lists(c) == {[order |-> o, count |-> n] :
               o \in UNION {SetToSeqs(ss) : ss \in SUBSET OwnedBy(c)}, n \in [OwnedBy(c) -> 0 .. MaxTills]}

\* allocateTerminals of each entry in turn, with the company row read before the edit.
PlaceList(al, c, plan, licensed, list) ==
  LET placed[n \in 0 .. Len(list.order)] ==
        IF n = 0 THEN al
        ELSE AllocateTerminals(placed[n - 1], c, plan, licensed, list.order[n], list.count[list.order[n]])
  IN  placed[Len(list.order)]

\* PUT /clients/:id: one transaction.
EditClient(c) ==
  /\ Spend("office") /\ company[c] # None
  /\ \E p \in Plans \cup {None, Kept}, n \in 0 .. MaxTills \cup NoOne, list \in Lists(c) :
       LET old      == company[c]
           plan     == IF p = Kept THEN old.plan ELSE p
           licensed == IF n = None THEN old.licensed ELSE n
           total    == MapThenSumSet(LAMBDA s : list.count[s], Range(list.order))
       IN  /\ n # None => n >= ConfiguredTotal(c)
           /\ \A s \in Range(list.order) : list.count[s] <= CeilingOf(plan, list.count[s])
           /\ total <= licensed
           /\ company' = [company EXCEPT ![c].plan = plan, ![c].licensed = licensed]
           /\ alloc' = PlaceList(alloc, c, old.plan, licensed, list)
  /\ UNCHANGED <<store, edit>>

\* DELETE /companies/:id, refused while it owns stores that sell: its warehouses are
\* left without an owner, its licences go with it.
DeleteCompany(c) ==
  /\ Spend("office") /\ company[c] # None
  /\ \A s \in OwnedBy(c) : store[s].kind = "warehouse"
  /\ company' = [company EXCEPT ![c] = None]
  /\ store' = [s \in Stores |-> IF s \in OwnedBy(c) THEN [store[s] EXCEPT !.owner = None] ELSE store[s]]
  /\ alloc' = [s \in Stores |-> IF alloc[s] # None /\ alloc[s].owner = c THEN None ELSE alloc[s]]
  /\ UNCHANGED edit

\* POST /companies, with its subscription row
CreateCompany(c) ==
  /\ Spend("office") /\ company[c] = None
  /\ \E p \in Plans \cup NoOne, n \in 0 .. MaxTills :
       company' = [company EXCEPT ![c] = [plan |-> p, licensed |-> n, suspended |-> FALSE]]
  /\ UNCHANGED <<store, alloc, edit>>

\* migrateSubscriptions, at every boot: a store of a company that has no allocation gets
\* one of its configured size.
Backfilled ==
  [s \in Stores |-> IF alloc[s] = None /\ store[s] # None /\ store[s].owner # None
                    THEN [owner |-> store[s].owner, count |-> store[s].tills] ELSE alloc[s]]

\* The process ends and boots: the requests are gone.
Boot ==
  /\ Spend("boot")
  /\ edit' = [w \in Requests |-> None]
  /\ alloc' = Backfilled
  /\ UNCHANGED <<company, store>>

-----------------------------------------------------------------------------
AdminInit ==
  /\ company \in [Companies -> [plan: Plans, licensed: {MaxTills}, suspended: {FALSE}] \cup NoOne]
  /\ store = [s \in Stores |-> None]
  /\ alloc = [s \in Stores |-> None]
  /\ edit = [w \in Requests |-> None]
  /\ left \in Budgets

Office ==
  \/ \E s \in Stores : CreateStore(s) \/ EditStore(s) \/ SetStoreStatus(s) \/ DeleteStore(s)
  \/ \E c \in Companies : EditCompany(c) \/ EditClient(c) \/ CreateCompany(c) \/ DeleteCompany(c)
  \/ \E w \in Requests : ProbeEnds(w)

AdminSpec == AdminInit /\ [][Office \/ Boot]_adminVars

-----------------------------------------------------------------------------
(* Properties *)

\* Whatever the order of purchases, moves, reassignments and reductions, placing more
\* licences on a company's stores never takes it past what it bought; only the boot's
\* backfill is exempt, which asks nothing.
GrantsWithinPurchase ==
  [][\A c \in Companies :
       Allocated(alloc', c) > Allocated(alloc, c) /\ left'.boot = left.boot
         => Allocated(alloc', c) <= company'[c].licensed]_adminVars
=============================================================================
