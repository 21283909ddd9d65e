----------------------------- MODULE StoreRows -----------------------------
(***************************************************************************)
(* The registry's rows for the deployments it manages, the stores and the   *)
(* Head Office panels (routes/stores.ts, routes/panels.ts and their queries *)
(* in config/registryDb.ts): created, edited, paused, resumed and removed   *)
(* by the office, and created by a client's onboarding                      *)
(* (services/clientOrchestrator.ts; of a row of its slug that is there it   *)
(* only sets the client, which is Onboarding's).  A URL is asked what       *)
(* answers there (assertManagedEndpoint in services/storeClient.ts) before  *)
(* a row may point at it; a handler that waits for the answer has read      *)
(* nothing it does not read again, except the row it edits.                 *)
(***************************************************************************)
EXTENDS Naturals, FiniteSets

CONSTANTS
  None,
  Stores, Panels,   \* the rows that may exist, one slug each
  Companies, Urls,
  Serves,           \* Serves[u]: what answers at u, "store", "head-office", "unknown" or "down"
  Production,       \* the control plane is a production one
  MaxTills

Rows == Stores \cup Panels

ASSUME RowsAssumption ==
  /\ None \notin Rows
  /\ Stores \cap Panels = {}
  /\ IsFiniteSet(Stores)
  /\ MaxTills \in Nat \ {0}

VARIABLES
  row,         \* the stores and panels tables
  asked,       \* in memory: the request that waits for the answer about its URL
  unchecked,   \* history: rows whose URL an edit or an onboarding set, with no look at the others'
  spend        \* how much of each thing may still happen

rowVars == <<row, asked, unchecked, spend>>

DeployStatuses == {"not_deployed", "provisioning", "deployed", "failed"}

StoreRecord ==
  [there: BOOLEAN, status: {"active", "paused"}, company: Companies \cup {None},
   url: Urls \cup {None}, tills: 0 .. MaxTills, ho: Nat, config: {"pending", "ok", "failed"},
   uuid: Nat, deploy: DeployStatuses, release: {"idle", "deploying", "healthy", "failed"}]

NoRow == [there |-> FALSE, status |-> "active", company |-> None, url |-> None, tills |-> 0,
          ho |-> 0, config |-> "pending", uuid |-> 0, deploy |-> "not_deployed",
          release |-> "idle"]

Free == [op |-> "none", url |-> None, company |-> None]

Spends(what) == spend[what] > 0 /\ spend' = [spend EXCEPT ![what] = @ - 1]

\* An UPDATE of a row that is gone changes nothing.
Set(r, new) == IF row[r].there THEN [row EXCEPT ![r] = new] ELSE row

-----------------------------------------------------------------------------
(* assertManagedEndpoint *)

ManagedKind(r) == IF r \in Stores THEN "store" ELSE "head-office"

AppKind(u) == IF Serves[u] = "down" THEN "unknown" ELSE Serves[u]

WrongKind(r, u) == AppKind(u) \in {"store", "head-office"} \ {ManagedKind(r)}

EndpointCheck(r, u) == ~WrongKind(r, u) /\ (Production => Serves[u] # "down")

-----------------------------------------------------------------------------
(* POST /stores and POST /panels *)

AskCreate(r, u, c) ==
  /\ row[r] = NoRow /\ asked[r] = Free
  /\ Spends("create")
  /\ asked' = [asked EXCEPT ![r] = [op |-> "create", url |-> u, company |-> c]]
  /\ UNCHANGED <<row, unchecked>>

PostStore(s, u, c) == s \in Stores /\ AskCreate(s, u, c)
PostPanel(p, u, c) == p \in Panels /\ AskCreate(p, u, c)

\* Weakened: a paused row does not hold its URL.
ClashWithActive(r, u) ==
  \E q \in Rows : /\ ManagedKind(q) = ManagedKind(r)
                  /\ row[q].there /\ row[q].url = u /\ row[q].status = "active"

\* Another row of the kind has the URL, as the tables are when the answer is in.
Clash(r, u) ==
  \E q \in Rows : ManagedKind(q) = ManagedKind(r) /\ row[q].there /\ row[q].url = u

CreatePanel(p) == [NoRow EXCEPT !.there = TRUE, !.url = asked[p].url, !.company = asked[p].company]

CreateStore(s, n) == [NoRow EXCEPT !.there = TRUE, !.url = asked[s].url,
                                   !.company = asked[s].company, !.tills = n]

Created(r, n) ==
  /\ asked[r].op = "create" /\ row[r] = NoRow
  /\ EndpointCheck(r, asked[r].url)
  /\ ~Clash(r, asked[r].url)
  /\ row' = [row EXCEPT ![r] = IF r \in Stores THEN CreateStore(r, n) ELSE CreatePanel(r)]
  /\ asked' = [asked EXCEPT ![r] = Free]
  /\ UNCHANGED <<unchecked, spend>>

\* head_office_deploy and store_deploy_*: the job's row for a slug nobody has.  What
\* answers at a URL the office gave was asked when the client was, here nothing is; a
\* warehouse has no tills.
Onboard(r, u, c, n) ==
  /\ row[r] = NoRow
  /\ Spends("onboard")
  /\ row' = [row EXCEPT ![r] = [NoRow EXCEPT !.there = TRUE, !.url = u, !.company = c, !.tills = n]]
  /\ unchecked' = unchecked \cup {r}
  /\ UNCHANGED asked

-----------------------------------------------------------------------------
(* PUT /stores/:id and PUT /panels/:id *)

AskEdit(r, u) ==
  /\ row[r].there /\ asked[r] = Free
  /\ u # row[r].url
  /\ Spends("repoint")
  /\ asked' = [asked EXCEPT ![r] = [op |-> "edit", url |-> u, company |-> None]]
  /\ UNCHANGED <<row, unchecked>>

PutStore(s, u) == s \in Stores /\ AskEdit(s, u)
PutPanel(p, u) == p \in Panels /\ AskEdit(p, u)

UpdatePanel(p) == Set(p, [row[p] EXCEPT !.url = asked[p].url])
UpdateStore(s) == Set(s, [row[s] EXCEPT !.url = asked[s].url])

Edited(r) ==
  /\ asked[r].op = "edit"
  /\ EndpointCheck(r, asked[r].url)
  /\ row' = IF r \in Stores THEN UpdateStore(r) ELSE UpdatePanel(r)
  /\ unchecked' = IF row[r].there THEN unchecked \cup {r} ELSE unchecked
  /\ asked' = [asked EXCEPT ![r] = Free]
  /\ UNCHANGED spend

\* A wrong kind of application, a dead host, a URL or by now a slug in use, a full plan or
\* a suspended client: nothing is written.
Refused(r) ==
  /\ asked[r] # Free
  /\ asked' = [asked EXCEPT ![r] = Free]
  /\ UNCHANGED <<row, unchecked, spend>>

\* An edit that waits for nothing: the number of tills
EditTills(s, n) ==
  /\ row[s].there /\ row[s].tills # n
  /\ Spends("edit")
  /\ row' = Set(s, [row[s] EXCEPT !.tills = n])
  /\ UNCHANGED <<asked, unchecked>>

-----------------------------------------------------------------------------
(* Pause, resume, remove *)

SetStatus(r, status) ==
  /\ row[r].there /\ row[r].status # status
  /\ Spends("status")
  /\ row' = Set(r, [row[r] EXCEPT !.status = status])
  /\ UNCHANGED <<asked, unchecked>>

Pause(r) == SetStatus(r, "paused")
Resume(r) == SetStatus(r, "active")

\* The row only, whose id is never used again: its deployment keeps running.
Delete(r) ==
  /\ row[r].there /\ row[r].status = "paused"
  /\ row' = Set(r, [row[r] EXCEPT !.there = FALSE])
  /\ UNCHANGED <<asked, unchecked, spend>>

DeleteStore(s) == s \in Stores /\ Delete(s)
DeletePanel(p) == p \in Panels /\ Delete(p)

-----------------------------------------------------------------------------
RowsInit(rows, budget) ==
  /\ row = rows
  /\ asked = [r \in Rows |-> Free]
  /\ unchecked = {}
  /\ spend = budget

RowsNext ==
  \E r \in Rows :
    \/ \E u \in Urls, c \in Companies : PostStore(r, u, c) \/ PostPanel(r, u, c)
    \/ Created(r, 1)
    \/ \E u \in Urls, c \in Companies, n \in IF r \in Stores THEN 0 .. MaxTills ELSE {0} :
         Onboard(r, u, c, n)
    \/ \E u \in Urls : PutStore(r, u) \/ PutPanel(r, u)
    \/ Edited(r)
    \/ Refused(r)
    \/ r \in Stores /\ \E n \in 1 .. MaxTills : EditTills(r, n)
    \/ Pause(r)
    \/ Resume(r)
    \/ DeleteStore(r)
    \/ DeletePanel(r)

-----------------------------------------------------------------------------
(* Properties *)

TypeOK ==
  /\ row \in [Rows -> StoreRecord]
  /\ asked \in [Rows -> [op: {"none", "create", "edit"}, url: Urls \cup {None},
                          company: Companies \cup {None}]]
  /\ unchecked \subseteq Rows

\* "One deployment, one registry row": two rows of a kind share a URL only if an edit or
\* an onboarding set it on one of them, neither of which looks for it in the others.
\* Where the office registers a deployment the check follows the wait for its answer, so
\* two requests that wait at once cannot both register the URL.
OneRowPerDeployment ==
  \A q, r \in Rows :
    /\ q # r /\ ManagedKind(q) = ManagedKind(r)
    /\ row[q].there /\ row[r].there /\ row[q].url = row[r].url
    => q \in unchecked \/ r \in unchecked

\* The registry's rows, one for each deployment.
RowsSound == TypeOK /\ OneRowPerDeployment
=============================================================================
