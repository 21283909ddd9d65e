--------------------------- MODULE BranchPairing ---------------------------
(***************************************************************************)
(* A branch and its merchant's Head Office talk to each other with one      *)
(* credential, which the control plane makes and gives to both              *)
(* (services/topology.ts): the branch gets it with a configuration push,    *)
(* the Head Office with the branch's registration.  The Head Office is also *)
(* given the list of the merchant's stores, from which the merchant         *)
(* registers branches itself.  The same configuration push carries the      *)
(* store's tills, and the office pushes those on their own too              *)
(* (attemptPush in routes/stores.ts).                                       *)
(*                                                                          *)
(* A caller works from the rows it read when it began: creating a store     *)
(* wires that store, the onboarding job reads its client's stores once and  *)
(* wires them one after the other.  The deployments are external: a call    *)
(* may not arrive, or be carried out and its answer lost.                   *)
(***************************************************************************)
EXTENDS StoreRows

CONSTANTS
  Callers,     \* requests and jobs that push to deployments
  MaxTokens    \* credentials that may be made

VARIABLES
  site,     \* the stores' deployments: tills configured, Head Office and credential
  branch,   \* the Head Offices: the credential of each registered branch, 0 for none
  offered,  \* the Head Offices: the credential of each store on the list, 0 for none
  caller,   \* in memory: what each caller is at, and the rows it read
  minted,   \* the credentials made so far
  wired,    \* history: stores a wiring of which has run to its end
  crossed,  \* history: stores that two callers had in hand at once
  edited    \* history: stores whose tills changed since they were read for the last ok push

pairVars == <<site, branch, offered, caller, minted, wired, crossed, edited>>

deployments == <<site, branch, offered>>
history == <<wired, crossed, edited>>

NoSite == [tills |-> 0, token |-> 0]

NoCaller == [at |-> "idle", kind |-> "none", todo |-> {}, read |-> <<>>, store |-> None, token |-> 0]

\* What a caller works from
Snapshot == [s \in Stores |-> [ho |-> row[s].ho, tills |-> row[s].tills]]

\* listPanelsForCompany
HasPanel(c) == \E p \in Panels : row[p].there /\ row[p].company = c

Branches(c) == {s \in Stores : row[s].there /\ row[s].company = c}

InHand(k) == caller[k].todo \cup ({caller[k].store} \ {None})

Begins(k, kind, set) ==
  /\ caller[k].at = "idle"
  /\ Spends(kind)
  /\ crossed' = crossed \cup {s \in set : \E i \in Callers : s \in InHand(i)}
  /\ UNCHANGED <<deployments, edited, asked, unchecked>>

Finish(k) == caller' = [caller EXCEPT ![k] = NoCaller]

-----------------------------------------------------------------------------
(* wireStoreToHeadOffice, up to its first call *)

\* Weakened: a new credential for every wiring.
KeepsNone(token) == FALSE

\* "Reuse the credential the branch already holds where there is one"
Keeps(token) == token # 0

\* The credential of the store's row as read, or a new one, which the row takes
TakesUp(k, kind, s, todo, read) ==
  LET token == IF Keeps(read[s].ho) THEN read[s].ho ELSE minted + 1
  IN /\ token <= MaxTokens
     /\ caller' = [caller EXCEPT ![k] = [at |-> "configure", kind |-> kind, todo |-> todo,
                                         read |-> read, store |-> s, token |-> token]]
     /\ UNCHANGED wired
     /\ minted' = IF Keeps(read[s].ho) THEN minted ELSE token
     /\ row' = IF Keeps(read[s].ho) THEN row ELSE Set(s, [row[s] EXCEPT !.ho = token])

-----------------------------------------------------------------------------
(* The callers *)

\* POST /stores wires the store it has just created.
WireNew(k, s) ==
  /\ row[s].there /\ HasPanel(row[s].company)
  /\ Begins(k, "wire", {s})
  /\ TakesUp(k, "wire", s, {}, Snapshot)

\* wire_topology: the client's stores, as one query returned them
WireAll(k, c) ==
  /\ HasPanel(c) /\ Branches(c) # {}
  /\ Begins(k, "wireAll", Branches(c))
  /\ caller' = [caller EXCEPT ![k] = [NoCaller EXCEPT !.at = "next", !.kind = "wireAll",
                                                      !.todo = Branches(c), !.read = Snapshot]]
  /\ UNCHANGED <<row, minted, wired>>

\* The next store of the loop, or the end of it; without a Head Office there is nothing
\* to wire.
NextStore(k) ==
  /\ caller[k].at = "next"
  /\ \/ /\ caller[k].todo = {}
        /\ Finish(k)
        /\ UNCHANGED <<row, minted, wired>>
     \/ \E s \in caller[k].todo :
          IF HasPanel(row[s].company)
          THEN TakesUp(k, "wireAll", s, caller[k].todo \ {s}, caller[k].read)
          ELSE /\ caller' = [caller EXCEPT ![k].todo = @ \ {s}]
               /\ UNCHANGED <<row, minted, wired>>
  /\ UNCHANGED <<deployments, crossed, edited>>

\* A store's wiring is over: the next one, or the end
StoreDone(k) ==
  IF caller[k].kind = "wireAll"
  THEN caller' = [caller EXCEPT ![k].at = "next", ![k].store = None, ![k].token = 0]
  ELSE Finish(k)

\* POST /stores/:id/push, the first push of POST /stores and the one that ends
\* runStoreProvisioning, each with the row as it was read before
Push(k, s) ==
  /\ row[s].there /\ row[s].status = "active"
  /\ Begins(k, "push", {s})
  /\ caller' = [caller EXCEPT ![k] = [NoCaller EXCEPT !.at = "configure", !.kind = "push",
                                                      !.store = s, !.read = Snapshot]]
  /\ UNCHANGED <<row, minted, wired>>

-----------------------------------------------------------------------------
(* The calls to the deployments *)

\* pushTerminals: tills as read, and from a wiring the credential
Configured(k) ==
  LET s == caller[k].store
  IN [site EXCEPT ![s] =
        [tills |-> caller[k].read[s].tills,
         token |-> IF caller[k].kind = "push" THEN @.token ELSE caller[k].token]]

\* recordConfigResult
ConfigResult(heard) == IF heard THEN "ok" ELSE "failed"

Configure(k, arrives, heard) ==
  LET s == caller[k].store
      stale == caller[k].read[s].tills # row[s].tills
  IN /\ caller[k].at = "configure"
     /\ heard => arrives
     /\ site' = IF arrives THEN Configured(k) ELSE site
     /\ IF caller[k].kind = "push"
        THEN /\ row' = Set(s, [row[s] EXCEPT !.config = ConfigResult(heard)])
             /\ edited' = IF heard /\ ~stale THEN edited \ {s} ELSE edited
             /\ Finish(k)
        ELSE /\ edited' = IF arrives /\ stale THEN edited \cup {s} ELSE edited
             /\ row' = row
             /\ IF heard THEN caller' = [caller EXCEPT ![k].at = "register"] ELSE StoreDone(k)
     /\ UNCHANGED <<branch, offered, minted, wired, crossed>>

\* registerBranchWithPanel
RegisterBranch(k, arrives, heard) ==
  LET s == caller[k].store
  IN /\ caller[k].at = "register"
     /\ heard => arrives
     /\ branch' = IF arrives THEN [branch EXCEPT ![s] = caller[k].token] ELSE branch
     /\ IF heard THEN caller' = [caller EXCEPT ![k].at = "list"] ELSE StoreDone(k)
     /\ wired' = IF heard THEN wired \cup {s} ELSE wired
     /\ UNCHANGED <<row, site, offered, minted, crossed, edited>>

\* pushStoreListToPanel, of a wiring or of POST /clients/:id/push-stores: a credential
\* for every store of the client that has none, then the list with all of them.
PushList(c, arrives) ==
  LET bare == {s \in Branches(c) : row[s].ho = 0}
      order == CHOOSE f \in [bare -> 1 .. Cardinality(bare)] :
                 \A s, t \in bare : s # t => f[s] # f[t]
  IN /\ minted + Cardinality(bare) <= MaxTokens
     /\ minted' = minted + Cardinality(bare)
     /\ row' = [s \in Rows |-> IF s \in bare THEN [row[s] EXCEPT !.ho = minted + order[s]] ELSE row[s]]
     /\ offered' = IF arrives
                   THEN [s \in Stores |-> IF s \in Branches(c) THEN row'[s].ho ELSE offered[s]]
                   ELSE offered

ListAfterWiring(k, arrives) ==
  LET c == row[caller[k].store].company
  IN /\ caller[k].at = "list"
     /\ IF HasPanel(c) THEN PushList(c, arrives) ELSE UNCHANGED <<row, minted, offered>>
     /\ StoreDone(k)
     /\ UNCHANGED <<site, branch, history>>

PushStores(c, arrives) ==
  /\ HasPanel(c)
  /\ Spends("list")
  /\ PushList(c, arrives)
  /\ UNCHANGED <<site, branch, caller, history, asked, unchecked>>

-----------------------------------------------------------------------------
\* The merchant registers a store of the list that its Head Office does not have yet.
MerchantRegisters(s) ==
  /\ branch[s] = 0 /\ offered[s] # 0
  /\ Spends("merchant")
  /\ branch' = [branch EXCEPT ![s] = offered[s]]
  /\ UNCHANGED <<row, site, offered, caller, minted, history, asked, unchecked>>

CrashPairing ==
  /\ Spends("crash")
  /\ caller' = [k \in Callers |-> NoCaller]
  /\ asked' = [r \in Rows |-> Free]
  /\ UNCHANGED <<row, unchecked, deployments, minted, history>>

PairInit ==
  /\ site = [s \in Stores |-> NoSite]
  /\ branch = [s \in Stores |-> 0]
  /\ offered = [s \in Stores |-> 0]
  /\ caller = [k \in Callers |-> NoCaller]
  /\ minted = 0
  /\ wired = {} /\ crossed = {} /\ edited = {}

CallerStep(k) ==
  \/ NextStore(k)
  \/ \E arrives, heard \in BOOLEAN : Configure(k, arrives, heard) \/ RegisterBranch(k, arrives, heard)
  \/ \E arrives \in BOOLEAN : ListAfterWiring(k, arrives)

\* The office's edits of the rows, seen from here
PairRows ==
  /\ RowsNext
  /\ edited' = edited \cup {s \in Stores : row'[s].tills # row[s].tills}
  /\ UNCHANGED <<deployments, caller, minted, wired, crossed>>

PairNext ==
  \/ \E k \in Callers, s \in Stores : WireNew(k, s) \/ Push(k, s)
  \/ \E k \in Callers, c \in Companies : WireAll(k, c)
  \/ \E c \in Companies, arrives \in BOOLEAN : PushStores(c, arrives)
  \/ (\E k \in Callers : CallerStep(k)) /\ UNCHANGED <<asked, unchecked, spend>>
  \/ \E s \in Stores : MerchantRegisters(s)
  \/ CrashPairing

-----------------------------------------------------------------------------
(* Properties *)

\* A branch is never left "Offline" by its own wiring: once a wiring of it has run to
\* its end, and no two callers had it in hand at once, the branch, its Head Office and
\* the registry hold one credential, whatever further wirings and lists, failed calls
\* and restarts follow.
Paired ==
  \A s \in wired \ crossed :
    row[s].there => site[s].token = row[s].ho /\ branch[s] = row[s].ho

\* A store whose last push is recorded as ok runs the tills of its row, unless they
\* were edited since or two callers configured it at once.
OkIsApplied ==
  \A s \in Stores \ (edited \cup crossed) :
    row[s].there /\ row[s].config = "ok" => site[s].tills = row[s].tills

\* What the registry records of a branch is what the branch and its Head Office hold.
BranchesAgree == Paired /\ OkIsApplied
=============================================================================
