--------------------------- MODULE ManagedStores ---------------------------
(***************************************************************************)
(* The office's stores and Head Offices as a whole: their rows (StoreRows)  *)
(* are edited by requests, provisioned (StoreProvisioning), paired and      *)
(* configured (BranchPairing) and watched (FleetHealth) at once.  The parts *)
(* share nothing but the rows: each works from what it read of them before  *)
(* it waited, while the others write them.                                  *)
(***************************************************************************)
EXTENDS StoreProvisioning, BranchPairing, FleetHealth

CONSTANT
  Starts   \* [rows, budget]: what is registered, and how much of each thing may happen

\* A row as it is created, which nothing has provisioned, paired or pushed to yet
JustCreated(r, new) ==
  \E u \in Urls, c \in Companies, n \in IF r \in Stores THEN 1 .. MaxTills ELSE {0} :
    new = [NoRow EXCEPT !.there = TRUE, !.url = u, !.company = c, !.tills = n]

ASSUME StartsAssumption ==
  \A start \in Starts :
    /\ start.rows \in [Rows -> StoreRecord]
    /\ \A r \in Rows : start.rows[r] = NoRow \/ JustCreated(r, start.rows[r])
    /\ \A q, r \in Rows :
         q # r /\ ManagedKind(q) = ManagedKind(r) /\ start.rows[q].there /\ start.rows[r].there
           => start.rows[q].url # start.rows[r].url

storesVars == <<rowVars, provVars, pairVars, healthVars>>

StoresInit ==
  /\ \E start \in Starts : RowsInit(start.rows, start.budget)
  /\ ProvInit
  /\ PairInit
  /\ HealthInit

StoresNext ==
  \/ PairRows /\ UNCHANGED <<provVars, healthVars>>
  \/ ProvNext /\ UNCHANGED <<pairVars, healthVars>>
  \/ PairNext /\ UNCHANGED <<provVars, healthVars>>
  \/ HealthNext /\ UNCHANGED <<provVars, pairVars>>

StoresSpec == StoresInit /\ [][StoresNext]_storesVars
=============================================================================
