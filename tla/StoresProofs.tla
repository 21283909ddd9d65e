---------------------------- MODULE StoresProofs ----------------------------
(***************************************************************************)
(* Proofs about ManagedStores for any number of rows, executions, callers,  *)
(* sweeps and restarts, and any budget.  The parts share only the rows, so  *)
(* each part's invariant is kept by its own steps and by every step that    *)
(* leaves alone what the part relies on in the rows.                        *)
(***************************************************************************)
EXTENDS ManagedStores, FiniteSetTheorems, FunctionTheorems, WellFoundedInduction, TLAPS

-----------------------------------------------------------------------------
(* The rows *)

\* r is or was registered: a row is only removed once it is paused, and its id is never
\* used again.
Met(r) == row[r].there \/ row[r].status = "paused"

\* What is left of a removed row
RowsKept == \A r \in Rows : Met(r) \/ row[r] = NoRow

RowsInv == TypeOK /\ OneRowPerDeployment /\ RowsKept

-----------------------------------------------------------------------------
(* Provisioning *)

Steps == {"idle", "create", "readback", "env", "storage", "check", "build", "trigger",
          "verify", "admin", "config"}

AppRecord == [store: Stores \cup {None}, sound: BOOLEAN, env: BOOLEAN, data: BOOLEAN, up: BOOLEAN]
JobRecord == [at: Steps, store: Stores \cup {None}, path: Paths \cup {"none"}, uuid: Apps \cup {0}]

ProvTypeOK ==
  /\ app \in [Apps -> AppRecord]
  /\ registered \subseteq Apps
  /\ job \in [Jobs -> JobRecord]
  /\ poll \subseteq Rows
  /\ stray \in [Stores -> Nat]
  /\ overlapped \subseteq Stores

\* Execution j of store s is the one that makes the store's application.
Making(j, s) == job[j].store = s /\ job[j].path \in {"image", "legacy"}

\* What an execution has in hand at each of its steps
JobSound(j) ==
  /\ job[j].at = "idle" => job[j] = NoJob
  /\ job[j].at # "idle" => job[j].store \in Stores /\ job[j].path \in Paths /\ Met(job[j].store)
  /\ job[j].at = "create" => job[j].uuid = 0 /\ job[j].path # "again"
  /\ job[j].at \notin {"idle", "create"} => job[j].uuid \in Apps /\ app[job[j].uuid].store # None
  /\ job[j].at \in {"readback", "check"} => job[j].path = "image"
  /\ job[j].at \in {"env", "storage"} => job[j].path # "again"
  /\ job[j].at = "build" => job[j].path = "legacy"
  /\ job[j].at = "trigger" => job[j].path # "legacy"

JobsSound == \A j \in Jobs : JobSound(j)

\* What is registered was proved.
RegisteredProved == \A a \in registered : app[a].sound /\ app[a].env /\ app[a].data

\* Two executions that make an application do not make the same.
OwnApps ==
  \A i, j \in Jobs :
    /\ job[i].path \in {"image", "legacy"} /\ job[j].path \in {"image", "legacy"}
    /\ job[i].uuid = job[j].uuid /\ job[i].uuid # 0
    => i = j

\* An application is not registered before its execution proves it, and is from then on.
JobProved(j) ==
  /\ job[j].at \in {"readback", "env", "storage", "check"} => job[j].uuid \notin registered
  /\ job[j].at \in {"storage", "check"} => app[job[j].uuid].env
  /\ job[j].path = "image" /\ job[j].at \in {"trigger", "verify", "admin", "config"}
       => job[j].uuid \in registered
  /\ job[j].path = "image" /\ job[j].at \in {"admin", "config"} => app[job[j].uuid].up

AppsProved == RegisteredProved /\ OwnApps /\ \A j \in Jobs : JobProved(j)

\* The application a row records exists.
RowsApps == \A s \in Stores : row[s].uuid # 0 => row[s].uuid \in Apps /\ app[row[s].uuid].store # None

\* A store that no two executions found bare has one execution making its application,
\* and the row records what that one made.
OneMaker ==
  \A s \in Stores \ overlapped :
    /\ \A i, j \in Jobs : Making(i, s) /\ Making(j, s) => i = j
    /\ \A j \in Jobs : Making(j, s) /\ (job[j].at = "create" \/ Unrecorded(j)) => row[s].uuid = 0
    /\ \A j \in Jobs :
         Making(j, s) /\ job[j].path = "image" /\ job[j].at # "create" /\ row[s].there
           => row[s].uuid = job[j].uuid

\* An application of the store is recorded, or about to be.
Accounted(s) == row[s].uuid # 0 \/ \E j \in Jobs : job[j].store = s /\ Unrecorded(j)

MadeCounted ==
  \A s \in Stores \ overlapped :
    /\ IsFiniteSet(Made(s))
    /\ Cardinality(Made(s)) <= stray[s] + (IF Accounted(s) THEN 1 ELSE 0)

HealthyStores ==
  \A s \in Stores \ overlapped :
    row[s].release = "healthy" => row[s].uuid \in registered /\ app[row[s].uuid].up

ProvInv ==
  /\ ProvTypeOK
  /\ JobsSound
  /\ AppsProved
  /\ RowsApps
  /\ OneMaker
  /\ MadeCounted
  /\ HealthyStores

-----------------------------------------------------------------------------
(* First administrators *)

\* A password is told, taken or missed once it is generated.
AdminInv ==
  /\ issued \in Nat
  /\ taken \in [Rows -> SUBSET Nat] /\ told \in [Rows -> SUBSET Nat] /\ missed \in [Rows -> SUBSET Nat]
  /\ \A h \in Rows : \A p \in taken[h] \cup told[h] \cup missed[h] : p <= issued
  /\ AdminTold

-----------------------------------------------------------------------------
(* Pairing *)

Reading == [Stores -> [ho: Nat, tills: 0 .. MaxTills]]

CallerRecord ==
  [at: {"idle", "next", "configure", "register", "list"}, kind: {"none", "wire", "wireAll", "push"},
   todo: SUBSET Stores, read: Reading \cup {<<>>}, store: Stores \cup {None}, token: Nat]

PairTypeOK ==
  /\ site \in [Stores -> [tills: 0 .. MaxTills, token: Nat]]
  /\ branch \in [Stores -> Nat]
  /\ offered \in [Stores -> Nat]
  /\ caller \in [Callers -> CallerRecord]
  /\ minted \in Nat
  /\ wired \subseteq Stores
  /\ crossed \subseteq Stores
  /\ edited \subseteq Stores

\* What a caller has in hand at each of its steps
CallersSound ==
  \A k \in Callers :
    /\ caller[k].at = "idle" => caller[k].todo = {} /\ caller[k].store = None
    /\ caller[k].at = "next" => caller[k].kind = "wireAll" /\ caller[k].store = None
    /\ caller[k].at \notin {"idle", "next"} => caller[k].store \in Stores
    /\ caller[k].at \in {"register", "list"} => caller[k].kind # "push"
    /\ caller[k].at # "idle" => caller[k].read \in Reading
    /\ caller[k].at \notin {"idle", "next"} /\ caller[k].kind # "push" => caller[k].token # 0
    /\ caller[k].store \notin caller[k].todo
    /\ \A s \in InHand(k) : Met(s)

\* A store that two callers never had in hand at once is in one hand at most.
OneHand == \A s \in Stores \ crossed : \A i, k \in Callers : s \in InHand(i) /\ s \in InHand(k) => i = k

\* What the caller that has the store in hand knows of its credential, and what a wiring
\* has established by the time it reaches a step
CredentialsKnown ==
  \A s \in Stores \ crossed : row[s].there =>
    \A k \in Callers :
      /\ s \in caller[k].todo =>
           /\ caller[k].read[s].ho # 0 => caller[k].read[s].ho = row[s].ho
           /\ s \in wired => caller[k].read[s].ho # 0
      /\ s = caller[k].store /\ caller[k].kind # "push" =>
           /\ caller[k].token = row[s].ho
           /\ caller[k].at \in {"register", "list"} => site[s].token = caller[k].token

\* A wired branch has a credential, for good.
WiredHave ==
  /\ \A s \in wired : Met(s)
  /\ \A s \in wired \ crossed : row[s].there => row[s].ho # 0

\* A caller's reading of the tills is stale only where an edit of them is remembered.
TillsKnown ==
  \A s \in Stores \ (edited \cup crossed) : row[s].there =>
    \A k \in Callers : s \in InHand(k) => caller[k].read[s].tills = row[s].tills

PairInv ==
  /\ PairTypeOK
  /\ CallersSound
  /\ OneHand
  /\ CredentialsKnown
  /\ WiredHave
  /\ TillsKnown
  /\ BranchesAgree

-----------------------------------------------------------------------------
(* Health *)

Sources == {"health", "licence", "config", "deploy"}

EventRecord ==
  [id: Nat, fingerprint: Faults, source: Sources, entity: {Entity(r) : r \in Rows}, message: Messages,
   occurrences: Nat, first: Nat, last: Nat]

CheckRecord ==
  [at: {"idle", "next", "probe", "deliver"}, todo: SUBSET Rows, member: Rows \cup {None}, always: BOOLEAN]

HealthTypeOK ==
  /\ clock \in Nat
  /\ feed \subseteq EventRecord /\ IsFiniteSet(feed)
  /\ seen \in [Rows -> [health: {"unknown", "up", "down"}, healthAt: Nat, error: Messages \cup {None},
                        licence: {"pending", "ok", "failed"}, licenceAt: Nat,
                        licenceError: Messages \cup {None}]]
  /\ check \in [Checks -> CheckRecord]
  /\ \A k \in Checks : check[k].at \in {"probe", "deliver"} => check[k].member \in Rows

\* The feed has the failure behind what is shown of a deployment, whether or not its row
\* is still there.
Explained(source, r, message, at) == \E e \in Existing(source, r, message) : e.last >= at

\* An event is of the failures with its fault, its source and its row's entity.
Failure == [source: Sources, member: Rows, message: Messages, at: Nat]

Of(e, f) ==
  /\ e.fingerprint = f.message.fault
  /\ e.source = f.source /\ e.entity = Entity(f.member)

\* An event tells the time of the first of its failures, and the last of them.
Spans(failures, e) ==
  \E i, j \in DOMAIN failures :
    /\ Of(e, failures[i]) /\ Of(e, failures[j])
    /\ e.first = failures[i].at /\ e.last = failures[j].at /\ e.message = failures[j].message
    /\ \A k \in DOMAIN failures : Of(e, failures[k]) => i <= k /\ k <= j

HasNewest(events) ==
  \E e \in events : \A d \in events : d.last < e.last \/ (d.last = e.last /\ d.id <= e.id)

\* The feed against the failures there were: every failure has its one event, and the
\* events of a fault count its failures.
InTime ==
  /\ suffered \in Seq(Failure)
  /\ \A i, j \in DOMAIN suffered : i <= j => suffered[i].at <= suffered[j].at
  /\ \A i \in DOMAIN suffered : suffered[i].at <= clock

FeedInv ==
  /\ InTime
  /\ \A e \in feed : Spans(suffered, e)
  /\ \A i \in DOMAIN suffered : \E e \in feed : Of(e, suffered[i])
  /\ \A e, d \in feed :
       e.fingerprint = d.fingerprint /\ e.source = d.source /\ e.entity = d.entity => e = d
  /\ \A f \in Faults : Total(EventsOf(f)) = Cardinality(Occurred(f))
  /\ \A f \in Faults : EventsOf(f) # {} => HasNewest(EventsOf(f))

HealthInv ==
  /\ HealthTypeOK /\ FeedInv
  /\ \A e \in feed : e.last <= clock
  /\ \A r \in Rows :
       /\ seen[r].health = "down" => Explained("health", r, seen[r].error, seen[r].healthAt)
       /\ seen[r].licence = "failed" => Explained("licence", r, seen[r].licenceError, seen[r].licenceAt)

IInv == RowsInv /\ ProvInv /\ AdminInv /\ PairInv /\ HealthInv

-----------------------------------------------------------------------------
(* Steps that write rows without registering, repointing or removing any *)

\* s is still what it was to whoever works on it.
Stays(s) == Met(s) => Met(s)' /\ (row'[s].there => row[s].there)

RowsQuiet ==
  /\ row' \in [Rows -> StoreRecord]
  /\ \A r \in Rows :
       /\ row'[r].there = row[r].there /\ row'[r].url = row[r].url
       /\ ~row[r].there => row'[r] = row[r]
  /\ asked' = asked \/ asked' = [r \in Rows |-> Free]
  /\ unchecked' = unchecked

LEMMA QuietKeepsRows ==
  ASSUME RowsInv, RowsQuiet
  PROVE  RowsInv' /\ \A r \in Rows : Stays(r)
<1> USE DEF RowsInv, RowsQuiet
<1>1. Free \in [op: {"none", "create", "edit"}, url: Urls \cup {None}, company: Companies \cup {None}]
  BY DEF Free
<1>2. TypeOK'
  BY <1>1 DEF TypeOK
<1>3. OneRowPerDeployment'
  BY DEF OneRowPerDeployment
<1>4. \A r \in Rows : Met(r)' \/ row'[r] = NoRow
  BY DEF RowsKept, Met
<1>5. \A r \in Rows : Stays(r)
  BY DEF Stays, Met
<1> QED
  BY <1>2, <1>3, <1>4, <1>5 DEF RowsKept

\* An UPDATE of a row that leaves its URL alone
LEMMA SetIsQuiet ==
  ASSUME RowsInv, NEW r \in Rows, NEW new \in StoreRecord,
         row[r].there => new.there /\ new.url = row[r].url,
         row' = Set(r, new),
         asked' = asked \/ asked' = [q \in Rows |-> Free],
         unchecked' = unchecked
  PROVE  /\ RowsQuiet
         /\ \A q \in Rows : row'[q] = IF q = r /\ row[r].there THEN new ELSE row[q]
<1> USE DEF RowsInv, TypeOK
<1>1. \A q \in Rows : row'[q] = IF q = r /\ row[r].there THEN new ELSE row[q]
  BY DEF Set
<1>2. row' \in [Rows -> StoreRecord]
  BY DEF Set
<1>3. \A q \in Rows : /\ row'[q].there = row[q].there /\ row'[q].url = row[q].url
                      /\ ~row[q].there => row'[q] = row[q]
  <2>1. row[r].there \in BOOLEAN /\ new.there \in BOOLEAN
    BY DEF StoreRecord
  <2> QED
    BY <1>1, <2>1
<1> QED
  BY <1>1, <1>2, <1>3 DEF RowsQuiet

-----------------------------------------------------------------------------
(* The office's requests *)

\* What provisioning and pairing rely on in a row when the office edits it
OfficeLeaves ==
  \A s \in Stores :
    /\ row'[s].uuid = row[s].uuid /\ row'[s].release = row[s].release
    /\ row'[s].ho = row[s].ho /\ row'[s].config = row[s].config
    /\ Stays(s)

LEMMA EditKeeps ==
  ASSUME RowsInv, NEW r \in Rows, NEW new \in StoreRecord, row[r].there,
         row' = Set(r, new), new.there, new.url = row[r].url,
         UNCHANGED <<asked, unchecked>>,
         new.uuid = row[r].uuid, new.release = row[r].release,
         new.ho = row[r].ho, new.config = row[r].config
  PROVE  RowsInv' /\ OfficeLeaves
<1>1. /\ RowsQuiet
      /\ \A q \in Rows : row'[q] = IF q = r /\ row[r].there THEN new ELSE row[q]
  BY SetIsQuiet
<1>2. RowsInv' /\ \A q \in Rows : Stays(q)
  BY <1>1, QuietKeepsRows
<1> QED
  BY <1>1, <1>2 DEF OfficeLeaves, Rows

\* A request that begins to wait writes nothing.
LEMMA AskKeeps ==
  ASSUME RowsInv, NEW r \in Rows, NEW what, UNCHANGED <<row, unchecked>>,
         asked' = [asked EXCEPT ![r] = what],
         what \in [op: {"none", "create", "edit"}, url: Urls \cup {None}, company: Companies \cup {None}]
  PROVE  RowsInv' /\ OfficeLeaves
<1> USE DEF RowsInv
<1>1. TypeOK' /\ OneRowPerDeployment'
  BY DEF TypeOK, OneRowPerDeployment
<1>2. RowsKept'
  BY DEF RowsKept, Met
<1>3. OfficeLeaves
  BY DEF OfficeLeaves, Stays, Met
<1> QED
  BY <1>1, <1>2, <1>3

\* The check for a clash is made of the rows as they are when the new one is written.
LEMMA CreatedKeeps ==
  ASSUME RowsInv, NEW r \in Rows, Created(r, 1)
  PROVE  RowsInv' /\ OfficeLeaves
<1> DEFINE new == IF r \in Stores THEN CreateStore(r, 1) ELSE CreatePanel(r)
<1> USE DEF RowsInv
<1>0. asked[r].url \in Urls \cup {None} /\ asked[r].company \in Companies \cup {None}
  BY DEF TypeOK
<1>1. /\ new \in StoreRecord
      /\ new.there /\ new.url = asked[r].url /\ new.uuid = 0 /\ new.release = "idle"
      /\ new.ho = 0 /\ new.config = "pending"
  <2>1. NoRow \in StoreRecord /\ NoRow.uuid = 0 /\ NoRow.release = "idle" /\ NoRow.ho = 0
        /\ NoRow.config = "pending"
    BY RowsAssumption DEF NoRow, StoreRecord, DeployStatuses
  <2>2. 1 \in 0 .. MaxTills
    BY RowsAssumption
  <2>3. CASE r \in Stores
    BY <1>0, <2>1, <2>2, <2>3 DEF CreateStore, StoreRecord
  <2>4. CASE r \notin Stores
    BY <1>0, <2>1, <2>4 DEF CreatePanel, StoreRecord
  <2> QED
    BY <2>3, <2>4
<1>2. row' = [row EXCEPT ![r] = new] /\ asked' = [asked EXCEPT ![r] = Free] /\ unchecked' = unchecked
  BY DEF Created
<1>3. row[r] = NoRow /\ ~Clash(r, asked[r].url)
  BY DEF Created
<1>4. /\ ~NoRow.there /\ NoRow.status = "active" /\ NoRow.uuid = 0 /\ NoRow.release = "idle"
      /\ NoRow.ho = 0 /\ NoRow.config = "pending"
  BY DEF NoRow
<1> HIDE DEF new
<1>5. \A q \in Rows : row'[q] = IF q = r THEN new ELSE row[q]
  BY <1>2 DEF TypeOK
<1>6. Free \in [op: {"none", "create", "edit"}, url: Urls \cup {None}, company: Companies \cup {None}]
      /\ Free.op = "none"
  BY DEF Free
<1>7. TypeOK'
  BY <1>1, <1>2, <1>6 DEF TypeOK
<1>8. OneRowPerDeployment'
  <2> SUFFICES ASSUME NEW p \in Rows, NEW q \in Rows, p # q, ManagedKind(p) = ManagedKind(q),
                      row'[p].there, row'[q].there, row'[q].url = row'[p].url
               PROVE  p \in unchecked \/ q \in unchecked
    BY <1>2 DEF OneRowPerDeployment
  <2>1. CASE p # r /\ q # r
    BY <1>5, <2>1 DEF OneRowPerDeployment
  <2>2. CASE p = r
    BY <1>1, <1>3, <1>5, <2>2 DEF Clash
  <2>3. CASE q = r
    BY <1>1, <1>3, <1>5, <2>3 DEF Clash
  <2> QED
    BY <2>1, <2>2, <2>3
<1>9. RowsKept'
  BY <1>1, <1>5 DEF RowsKept, Met
<1>10. OfficeLeaves
  BY <1>1, <1>3, <1>4, <1>5 DEF OfficeLeaves, Stays, Met, Rows
<1> QED
  BY <1>7, <1>8, <1>9, <1>10

\* A row an onboarding creates is remembered for its URL.
LEMMA OnboardKeeps ==
  ASSUME RowsInv, NEW r \in Rows, NEW u \in Urls, NEW c \in Companies, NEW n \in 0 .. MaxTills,
         Onboard(r, u, c, n)
  PROVE  RowsInv' /\ OfficeLeaves
<1> DEFINE new == [NoRow EXCEPT !.there = TRUE, !.url = u, !.company = c, !.tills = n]
<1> USE DEF RowsInv
<1>1. /\ new \in StoreRecord
      /\ new.there /\ new.url = u /\ new.uuid = 0 /\ new.release = "idle"
      /\ new.ho = 0 /\ new.config = "pending"
  BY RowsAssumption DEF NoRow, StoreRecord, DeployStatuses
<1>2. row' = [row EXCEPT ![r] = new] /\ asked' = asked /\ unchecked' = unchecked \cup {r}
  BY DEF Onboard
<1>3. row[r] = NoRow
  BY DEF Onboard
<1>4. /\ ~NoRow.there /\ NoRow.status = "active" /\ NoRow.uuid = 0 /\ NoRow.release = "idle"
      /\ NoRow.ho = 0 /\ NoRow.config = "pending"
  BY DEF NoRow
<1> HIDE DEF new
<1>5. \A q \in Rows : row'[q] = IF q = r THEN new ELSE row[q]
  BY <1>2 DEF TypeOK
<1>6. TypeOK'
  BY <1>1, <1>2 DEF TypeOK
<1>7. OneRowPerDeployment'
  BY <1>2, <1>5 DEF OneRowPerDeployment
<1>8. RowsKept'
  BY <1>1, <1>5 DEF RowsKept, Met
<1>9. OfficeLeaves
  BY <1>1, <1>3, <1>4, <1>5 DEF OfficeLeaves, Stays, Met, Rows
<1> QED
  BY <1>6, <1>7, <1>8, <1>9

\* An edit sets the URL of a row that is still there, and is remembered for it.
LEMMA EditedKeeps ==
  ASSUME RowsInv, NEW r \in Rows, Edited(r)
  PROVE  RowsInv' /\ OfficeLeaves
<1> DEFINE new == [row[r] EXCEPT !.url = asked[r].url]
<1> USE DEF RowsInv
<1>0. asked[r].url \in Urls \cup {None} /\ row[r] \in StoreRecord
  BY DEF TypeOK
<1>1. /\ new \in StoreRecord /\ new.there = row[r].there /\ new.status = row[r].status
      /\ new.uuid = row[r].uuid /\ new.release = row[r].release
      /\ new.ho = row[r].ho /\ new.config = row[r].config
  BY <1>0 DEF StoreRecord
<1>2. /\ row' = Set(r, new) /\ asked' = [asked EXCEPT ![r] = Free]
      /\ unchecked' = IF row[r].there THEN unchecked \cup {r} ELSE unchecked
  BY DEF Edited, UpdateStore, UpdatePanel
<1> HIDE DEF new
<1>3. \A q \in Rows : row'[q] = IF q = r /\ row[r].there THEN new ELSE row[q]
  BY <1>2 DEF Set, TypeOK
<1>4. Free \in [op: {"none", "create", "edit"}, url: Urls \cup {None}, company: Companies \cup {None}]
      /\ Free.op = "none"
  BY DEF Free
<1>5. TypeOK'
  BY <1>1, <1>2, <1>4 DEF TypeOK, Set
<1>6. OneRowPerDeployment'
  BY <1>1, <1>2, <1>3 DEF OneRowPerDeployment
<1>7. RowsKept'
  BY <1>1, <1>3 DEF RowsKept, Met
<1>8. OfficeLeaves
  BY <1>1, <1>3 DEF OfficeLeaves, Stays, Met, Rows
<1> QED
  BY <1>5, <1>6, <1>7, <1>8

\* Only a paused row is removed.
LEMMA DeleteKeeps ==
  ASSUME RowsInv, NEW r \in Rows, Delete(r)
  PROVE  RowsInv' /\ OfficeLeaves
<1> DEFINE new == [row[r] EXCEPT !.there = FALSE]
<1> USE DEF RowsInv
<1>1. /\ new \in StoreRecord /\ ~new.there /\ new.status = "paused"
      /\ new.uuid = row[r].uuid /\ new.release = row[r].release
      /\ new.ho = row[r].ho /\ new.config = row[r].config
  BY DEF Delete, StoreRecord, TypeOK
<1>2. row' = [row EXCEPT ![r] = new] /\ UNCHANGED <<asked, unchecked>> /\ row[r].there
  BY DEF Delete, Set
<1> HIDE DEF new
<1>3. \A q \in Rows : row'[q] = IF q = r THEN new ELSE row[q]
  BY <1>2 DEF TypeOK
<1>4. TypeOK' /\ OneRowPerDeployment'
  BY <1>1, <1>2, <1>3 DEF TypeOK, OneRowPerDeployment
<1>5. RowsKept'
  BY <1>1, <1>3 DEF RowsKept, Met
<1>6. OfficeLeaves
  BY <1>1, <1>2, <1>3 DEF OfficeLeaves, Stays, Met, Rows
<1> QED
  BY <1>4, <1>5, <1>6

\* Whatever the office does, the rows stay sound, and what other parts rely on stays.
LEMMA OfficeKeeps ==
  ASSUME RowsInv, RowsNext
  PROVE  RowsInv' /\ OfficeLeaves
<1> USE DEF RowsInv
<1>1. ASSUME NEW r \in Rows, NEW u \in Urls, NEW c \in Companies, AskCreate(r, u, c)
      PROVE  RowsInv' /\ OfficeLeaves
  <2>1. [op |-> "create", url |-> u, company |-> c]
          \in [op: {"none", "create", "edit"}, url: Urls \cup {None}, company: Companies \cup {None}]
    OBVIOUS
  <2> QED
    BY <1>1, <2>1, AskKeeps DEF AskCreate
<1>2. ASSUME NEW r \in Rows, NEW u \in Urls, AskEdit(r, u)
      PROVE  RowsInv' /\ OfficeLeaves
  <2>1. [op |-> "edit", url |-> u, company |-> None]
          \in [op: {"none", "create", "edit"}, url: Urls \cup {None}, company: Companies \cup {None}]
    OBVIOUS
  <2> QED
    BY <1>2, <2>1, AskKeeps DEF AskEdit
<1>3. ASSUME NEW r \in Rows, Refused(r)
      PROVE  RowsInv' /\ OfficeLeaves
  BY <1>3, AskKeeps DEF Refused, Free
<1>4. ASSUME NEW r \in Rows, r \in Stores, NEW n \in 1 .. MaxTills, EditTills(r, n)
      PROVE  RowsInv' /\ OfficeLeaves
  <2> DEFINE new == [row[r] EXCEPT !.tills = n]
  <2>1. /\ new \in StoreRecord /\ new.there = row[r].there /\ new.url = row[r].url
        /\ new.uuid = row[r].uuid /\ new.release = row[r].release
        /\ new.ho = row[r].ho /\ new.config = row[r].config
    BY RowsAssumption DEF TypeOK, StoreRecord
  <2> HIDE DEF new
  <2> QED
    BY <1>4, <2>1, EditKeeps DEF EditTills, new
<1>5. ASSUME NEW r \in Rows, NEW status \in {"active", "paused"}, SetStatus(r, status)
      PROVE  RowsInv' /\ OfficeLeaves
  <2> DEFINE new == [row[r] EXCEPT !.status = status]
  <2>1. /\ new \in StoreRecord /\ new.there = row[r].there /\ new.url = row[r].url
        /\ new.uuid = row[r].uuid /\ new.release = row[r].release
        /\ new.ho = row[r].ho /\ new.config = row[r].config
    BY DEF TypeOK, StoreRecord
  <2> HIDE DEF new
  <2> QED
    BY <1>5, <2>1, EditKeeps DEF SetStatus, new
<1>6. ASSUME NEW r \in Rows, NEW u \in Urls, NEW c \in Companies,
             NEW n \in IF r \in Stores THEN 0 .. MaxTills ELSE {0}, Onboard(r, u, c, n)
      PROVE  RowsInv' /\ OfficeLeaves
  BY <1>6, OnboardKeeps, RowsAssumption
<1> QED
  BY <1>1, <1>2, <1>3, <1>4, <1>5, <1>6, CreatedKeeps, EditedKeeps, DeleteKeeps
     DEF RowsNext, PostStore, PostPanel, PutStore, PutPanel, Pause, Resume, DeleteStore, DeletePanel

-----------------------------------------------------------------------------
(* First administrators *)

\* Somebody is told the new password exactly where the deployment takes it and neither the
\* answer nor the email is lost.
LEMMA HandsKeeps ==
  ASSUME AdminInv, NEW h \in Rows, NEW takes \in BOOLEAN, NEW tells \in BOOLEAN, NEW reaches \in BOOLEAN,
         Generates, Hands(h, takes, tells, reaches),
         reaches => takes = tells
  PROVE  AdminInv'
<1> DEFINE p == issued + 1
<1> USE DEF AdminInv
<1>1. p \in Nat /\ issued' = p /\ p > issued
  BY DEF Generates
<1> HIDE DEF p
<1>2. /\ taken' = IF takes THEN [taken EXCEPT ![h] = @ \cup {p}] ELSE taken
      /\ told' = IF tells /\ reaches THEN [told EXCEPT ![h] = @ \cup {p}] ELSE told
      /\ missed' = IF takes /\ ~reaches THEN [missed EXCEPT ![h] = @ \cup {p}] ELSE missed
  BY <1>1 DEF Hands
<1>3. /\ taken' \in [Rows -> SUBSET Nat] /\ told' \in [Rows -> SUBSET Nat]
      /\ missed' \in [Rows -> SUBSET Nat]
  BY <1>1, <1>2
<1>4. ASSUME NEW q \in Rows
      PROVE  /\ taken'[q] = taken[q] \/ (q = h /\ taken'[q] = taken[q] \cup {p})
             /\ told'[q] = told[q] \/ (q = h /\ told'[q] = told[q] \cup {p})
             /\ missed'[q] = missed[q] \/ (q = h /\ missed'[q] = missed[q] \cup {p})
  BY <1>2
<1>5. \A q \in Rows : \A x \in taken'[q] \cup told'[q] \cup missed'[q] : x <= p
  <2> TAKE q \in Rows
  <2> TAKE x \in taken'[q] \cup told'[q] \cup missed'[q]
  <2>1. x \in taken[q] \cup told[q] \cup missed[q] \/ x = p
    BY <1>4
  <2>2. CASE x \in taken[q] \cup told[q] \cup missed[q]
    <3>1. x <= issued /\ x \in Nat
      BY <2>2
    <3> QED
      BY <1>1, <3>1
  <2> QED
    BY <1>1, <2>1, <2>2
<1>6. \A q \in Rows : p \notin taken[q] \cup told[q] \cup missed[q]
  BY <1>1
<1>7. AdminTold'
  <2> SUFFICES ASSUME NEW q \in Rows PROVE told'[q] = taken'[q] \ missed'[q]
    BY DEF AdminTold
  <2>1. told[q] = taken[q] \ missed[q] /\ p \notin taken[q] \cup told[q] \cup missed[q]
    BY <1>6 DEF AdminTold
  <2>2. CASE q # h
    BY <1>2, <2>1, <2>2
  <2>3. CASE q = h /\ takes /\ reaches
    <3>1. taken'[q] = taken[q] \cup {p} /\ told'[q] = told[q] \cup {p} /\ missed'[q] = missed[q]
      BY <1>2, <2>3
    <3> QED
      BY <2>1, <3>1
  <2>4. CASE q = h /\ takes /\ ~reaches
    <3>1. taken'[q] = taken[q] \cup {p} /\ told'[q] = told[q] /\ missed'[q] = missed[q] \cup {p}
      BY <1>2, <2>4
    <3> QED
      BY <2>1, <3>1
  <2>5. CASE q = h /\ ~takes
    <3>1. taken'[q] = taken[q] /\ told'[q] = told[q] /\ missed'[q] = missed[q]
      BY <1>2, <2>5
    <3> QED
      BY <2>1, <3>1
  <2> QED
    BY <2>2, <2>3, <2>4, <2>5
<1> QED
  BY <1>1, <1>3, <1>5, <1>7

\* Whoever hands out a password tells it by the deployment's answer.
LEMMA ProvKeepsAdmin ==
  ASSUME AdminInv, ProvInv, ProvNext
  PROVE  AdminInv'
<1>1. CASE UNCHANGED <<issued, taken, told, missed>>
  BY <1>1 DEF AdminInv, AdminTold
<1>2. ASSUME NEW j \in Jobs, NEW reaches \in BOOLEAN, BootstrapAdmin(j, reaches)
      PROVE  AdminInv'
  <2> DEFINE s == job[j].store
  <2>1. s \in Rows
    BY <1>2 DEF BootstrapAdmin, At, ProvInv, JobsSound, JobSound, Rows
  <2>2. CASE Generates /\ Hands(s, Bootstrapped(s), Emails(s), reaches)
    BY <2>1, <2>2, HandsKeeps DEF Bootstrapped, Emails
  <2> QED
    BY <1>1, <1>2, <2>2 DEF BootstrapAdmin
<1>3. ASSUME NEW h \in Rows, NEW heard \in BOOLEAN, NEW emailed \in BOOLEAN,
             AttemptAdmin(h, heard, emailed)
      PROVE  AdminInv'
  BY <1>3, HandsKeeps DEF AttemptAdmin, Bootstrapped, Emails
<1>4. ASSUME NEW s \in Stores, NEW heard \in BOOLEAN, ResetStoreAdmin(s, heard)
      PROVE  AdminInv'
  BY <1>4, HandsKeeps DEF ResetStoreAdmin, ResetAdmin, Rows
<1>5. ASSUME NEW p \in Panels, NEW heard \in BOOLEAN, ResetPanelAdmin(p, heard)
      PROVE  AdminInv'
  BY <1>5, HandsKeeps DEF ResetPanelAdmin, ResetAdmin, Rows, Bootstrapped, Emails
<1>6. ASSUME NEW j \in Jobs, JobStep(j)
      PROVE  AdminInv'
  BY <1>1, <1>2, <1>6 DEF JobStep, CreateImageApplication, CreateLegacyApplication, CreateUnheard, Makes,
     ReadBack, SetEnvironment, AddStorage, Register, Build, TriggerDeploy, Verify, FinishProvisioning,
     Fail, adminVars
<1>7. ASSUME NEW j \in Jobs, NEW s \in Stores, NEW release \in BOOLEAN, StartProvisioning(j, s, release)
      PROVE  AdminInv'
  BY <1>1, <1>7 DEF StartProvisioning, adminVars
<1>8. ASSUME NEW h \in Rows, ScheduleAdmin(h) \/ AdminDeadline(h)
      PROVE  AdminInv'
  BY <1>1, <1>8 DEF ScheduleAdmin, AdminDeadline
<1>9. CASE CrashProvisioning
  BY <1>1, <1>9 DEF CrashProvisioning
<1> QED
  BY <1>3, <1>4, <1>5, <1>6, <1>7, <1>8, <1>9 DEF ProvNext

-----------------------------------------------------------------------------
(* Provisioning: what a step writes *)

Releases == {"idle", "deploying", "healthy", "failed"}

\* A write of provisioning to the row of s: the application, the two statuses and nothing else
ProvWrites(s, u, x) ==
  \E d \in DeployStatuses : row' = Set(s, [row[s] EXCEPT !.uuid = u, !.deploy = d, !.release = x])

\* What pairing relies on in a row when provisioning writes it
ProvLeaves ==
  /\ RowsQuiet
  /\ \A s \in Stores : row'[s].ho = row[s].ho /\ row'[s].config = row[s].config
                       /\ row'[s].tills = row[s].tills

LEMMA ProvWritesFrame ==
  ASSUME RowsInv, NEW s \in Stores, NEW u \in Nat, NEW x \in Releases, ProvWrites(s, u, x),
         asked' = asked \/ asked' = [r \in Rows |-> Free], unchecked' = unchecked
  PROVE  /\ ProvLeaves
         /\ \A q \in Stores : q # s => row'[q] = row[q]
         /\ row'[s].uuid = IF row[s].there THEN u ELSE row[s].uuid
         /\ row'[s].release = IF row[s].there THEN x ELSE row[s].release
<1>1. PICK d \in DeployStatuses :
        row' = Set(s, [row[s] EXCEPT !.uuid = u, !.deploy = d, !.release = x])
  BY DEF ProvWrites
<1> DEFINE new == [row[s] EXCEPT !.uuid = u, !.deploy = d, !.release = x]
<1>2. s \in Rows /\ row[s] \in StoreRecord
  BY DEF Rows, RowsInv, TypeOK
<1>3. /\ new \in StoreRecord
      /\ new.there = row[s].there /\ new.url = row[s].url /\ new.ho = row[s].ho
      /\ new.config = row[s].config /\ new.tills = row[s].tills /\ new.uuid = u /\ new.release = x
  BY <1>2 DEF StoreRecord, Releases
<1>4. row' = Set(s, new)
  BY <1>1
<1> HIDE DEF new
<1>5. /\ RowsQuiet
      /\ \A q \in Rows : row'[q] = IF q = s /\ row[s].there THEN new ELSE row[q]
  BY <1>2, <1>3, <1>4, SetIsQuiet
<1> QED
  BY <1>3, <1>5 DEF ProvLeaves, Rows

\* Rows that nothing writes
LEMMA ProvWritesNothing ==
  ASSUME RowsInv, row' = row, asked' = asked \/ asked' = [r \in Rows |-> Free], unchecked' = unchecked
  PROVE  ProvLeaves
  BY DEF RowsInv, TypeOK, ProvLeaves, RowsQuiet

-----------------------------------------------------------------------------
(* Provisioning: a step that only moves an execution on *)

\* What a step may do to the applications: it changes what a job still has in hand.
AppsKeep ==
  /\ app' \in [Apps -> AppRecord]
  /\ \A a \in Apps :
       /\ app'[a].store = app[a].store /\ app'[a].sound = app[a].sound
       /\ app[a].env => app'[a].env
       /\ app[a].up => app'[a].up
       /\ a \in registered => app'[a].data = app[a].data

\* The steps of j that write no row and make nothing, from where they are taken to where
\* they lead, with what they have established there
Moves(j, there) ==
  /\ job[j].at \notin {"idle", "create"}
  /\ job' = [job EXCEPT ![j].at = there]
  /\ AppsKeep
  /\ UNCHANGED <<row, registered, poll, stray, overlapped>>
  /\ \/ job[j].at = "readback" /\ there = "env"
     \/ job[j].at = "env" /\ there = "storage" /\ app'[job[j].uuid].env
     \/ job[j].at = "storage" /\ there = IF job[j].path = "image" THEN "check" ELSE "build"
     \/ job[j].at = "trigger" /\ there = "verify"
     \/ job[j].at = "verify" /\ there = "admin"
          /\ (job[j].path = "image" => app[job[j].uuid].up)
     \/ job[j].at = "admin" /\ there = "config"

LEMMA MovesFrame ==
  ASSUME ProvInv, NEW j \in Jobs,
         \/ ReadBack(j) \/ SetEnvironment(j) \/ (\E attached \in BOOLEAN : AddStorage(j, attached))
         \/ TriggerDeploy(j) \/ Verify(j) \/ (\E reaches \in BOOLEAN : BootstrapAdmin(j, reaches))
  PROVE  \E there \in Steps : Moves(j, there)
<1> USE DEF ProvInv, ProvTypeOK
<1> DEFINE a == job[j].uuid
<1>0. job[j].at \notin {"idle", "create"} => a \in Apps
  BY DEF JobsSound, JobSound
<1>1. app' = app => AppsKeep
  BY DEF AppsKeep
<1>2. CASE ReadBack(j)
  BY <1>1, <1>2 DEF ReadBack, At, Goes, adminVars, Moves, Steps
<1>3. CASE SetEnvironment(j)
  <2>1. a \in Apps /\ app' = [app EXCEPT ![a].env = TRUE]
    BY <1>0, <1>3 DEF SetEnvironment, At
  <2>2. AppsKeep /\ app'[a].env
    BY <2>1 DEF AppsKeep, AppRecord
  <2> QED
    BY <1>3, <2>2 DEF SetEnvironment, At, Goes, adminVars, Moves, Steps
<1>4. ASSUME NEW attached \in BOOLEAN, AddStorage(j, attached)
      PROVE  \E there \in Steps : Moves(j, there)
  <2>1. a \in Apps /\ a \notin registered /\ app' = [app EXCEPT ![a].data = attached]
    BY <1>0, <1>4 DEF AddStorage, At, AppsProved, JobProved
  <2>2. AppsKeep
    BY <2>1 DEF AppsKeep, AppRecord
  <2> QED
    BY <1>4, <2>2 DEF AddStorage, At, Goes, adminVars, Moves, Steps
<1>5. CASE TriggerDeploy(j)
  <2>1. a \in Apps /\ app' = [app EXCEPT ![a].up = TRUE]
    BY <1>0, <1>5 DEF TriggerDeploy, At
  <2>2. AppsKeep
    BY <2>1 DEF AppsKeep, AppRecord
  <2> QED
    BY <1>5, <2>2 DEF TriggerDeploy, At, Goes, adminVars, Moves, Steps
<1>6. CASE Verify(j)
  BY <1>1, <1>6 DEF Verify, At, Goes, adminVars, Moves, Steps
<1>7. ASSUME NEW reaches \in BOOLEAN, BootstrapAdmin(j, reaches)
      PROVE  \E there \in Steps : Moves(j, there)
  BY <1>1, <1>7 DEF BootstrapAdmin, At, Goes, adminVars, Moves, Steps
<1> QED
  BY <1>2, <1>3, <1>4, <1>5, <1>6, <1>7

LEMMA MovesKeeps ==
  ASSUME RowsInv, ProvInv, NEW j \in Jobs, NEW there \in Steps, Moves(j, there)
  PROVE  ProvInv'
<1> USE DEF ProvInv
<1>1. /\ UNCHANGED <<row, registered, poll, stray, overlapped>>
      /\ AppsKeep
  BY DEF Moves
<1>2. \A i \in Jobs :
        /\ job'[i].store = job[i].store /\ job'[i].path = job[i].path /\ job'[i].uuid = job[i].uuid
        /\ job'[i].at = IF i = j THEN there ELSE job[i].at
  BY DEF Moves, ProvTypeOK, JobRecord
<1>3. job' \in [Jobs -> JobRecord]
  BY DEF Moves, ProvTypeOK, JobRecord
<1>4. \A s \in Stores : Made(s)' = Made(s)
  BY <1>1 DEF AppsKeep, Made
<1>5. \A i \in Jobs : Unrecorded(i)' = Unrecorded(i)
  BY <1>2 DEF Unrecorded, Moves, JobsSound, JobSound
<1>6. ProvTypeOK'
  BY <1>1, <1>3 DEF ProvTypeOK, AppsKeep
<1>7. JobsSound'
  <2> SUFFICES ASSUME NEW i \in Jobs PROVE JobSound(i)'
    BY DEF JobsSound
  <2>1. JobSound(i)
    BY DEF JobsSound
  <2>2. job[i].at \notin {"idle", "create"} => app'[job[i].uuid].store = app[job[i].uuid].store
    BY <1>1, <2>1 DEF JobSound, AppsKeep
  <2>3. CASE i # j
    <3>1. job'[i] = job[i]
      BY <2>3 DEF Moves, ProvTypeOK
    <3> QED
      BY <1>1, <2>1, <2>2, <3>1 DEF JobSound, Met
  <2>4. CASE i = j
    BY <1>1, <1>2, <2>1, <2>2, <2>4 DEF JobSound, Met, Moves, Paths, Steps
  <2> QED
    BY <2>3, <2>4
<1>8. AppsProved'
  <2>1. RegisteredProved'
    BY <1>1 DEF AppsProved, RegisteredProved, AppsKeep, ProvTypeOK
  <2>2. OwnApps'
    BY <1>2 DEF AppsProved, OwnApps
  <2>3. ASSUME NEW i \in Jobs PROVE JobProved(i)'
    <3>1. JobProved(i) /\ JobSound(i)
      BY DEF AppsProved, JobsSound
    <3>2. job[i].at \notin {"idle", "create"} =>
            /\ app[job[i].uuid].env => app'[job[i].uuid].env
            /\ app[job[i].uuid].up => app'[job[i].uuid].up
      BY <1>1, <3>1 DEF JobSound, AppsKeep
    <3>3. CASE i # j
      BY <1>1, <1>2, <3>1, <3>2, <3>3 DEF JobProved
    <3>4. CASE i = j
      BY <1>1, <1>2, <3>1, <3>2, <3>4 DEF JobProved, JobSound, Moves
    <3> QED
      BY <3>3, <3>4
  <2> QED
    BY <2>1, <2>2, <2>3 DEF AppsProved
<1>9. RowsApps'
  BY <1>1 DEF RowsApps, AppsKeep
<1>10. OneMaker'
  <2>1. \A i \in Jobs, s \in Stores : Making(i, s)' = Making(i, s)
    BY <1>2 DEF Making
  <2>2. \A i \in Jobs : (job[i].at = "create")' = (job[i].at = "create")
    BY <1>2 DEF Moves
  <2> QED
    BY <1>1, <1>2, <1>5, <2>1, <2>2 DEF OneMaker
<1>11. MadeCounted'
  <2>1. \A s \in Stores : Accounted(s)' = Accounted(s)
    BY <1>1, <1>2, <1>5 DEF Accounted
  <2> QED
    BY <1>1, <1>4, <2>1 DEF MadeCounted
<1>12. HealthyStores'
  BY <1>1 DEF HealthyStores, AppsKeep, ProvTypeOK
<1> QED
  BY <1>6, <1>7, <1>8, <1>9, <1>10, <1>11, <1>12

-----------------------------------------------------------------------------
(* Provisioning: an application is made *)

\* The new application is nobody's yet, and it is the store's.
LEMMA MakesFrame ==
  ASSUME RowsInv, ProvInv, NEW j \in Jobs, NEW a \in Apps, NEW sound \in BOOLEAN, Makes(j, a, sound)
  PROVE  /\ job[j].at = "create" /\ job[j].store \in Stores /\ job[j].uuid = 0
         /\ Making(j, job[j].store) /\ Met(job[j].store)
         /\ app' \in [Apps -> AppRecord] /\ app'[a].store = job[j].store
         /\ \A b \in Apps : b # a => app'[b] = app[b]
         /\ app[a].store = None /\ a \notin registered /\ a # 0
         /\ \A i \in Jobs : job[i].uuid # a
         /\ \A s \in Stores : row[s].uuid # a
         /\ \A s \in Stores : Made(s)' = IF s = job[j].store THEN Made(s) \cup {a} ELSE Made(s)
         /\ UNCHANGED <<registered, poll, overlapped>>
<1> USE DEF ProvInv, ProvTypeOK
<1>1. job[j].at = "create" /\ app[a] = NoApp /\ UNCHANGED <<registered, poll, overlapped>>
      /\ app' = [app EXCEPT ![a] = [NoApp EXCEPT !.store = job[j].store, !.sound = sound]]
  BY DEF Makes, At, adminVars
<1>2. /\ job[j].store \in Stores /\ job[j].uuid = 0 /\ job[j].path \in {"image", "legacy"}
      /\ Met(job[j].store)
  BY <1>1 DEF JobsSound, JobSound, Paths
<1>3. NoApp.store = None /\ ~NoApp.sound
  BY DEF NoApp
<1>4. app' \in [Apps -> AppRecord] /\ app'[a].store = job[j].store
  BY <1>1, <1>2 DEF NoApp, AppRecord
<1>5. \A b \in Apps : b # a => app'[b] = app[b]
  BY <1>1
<1>6. app[a].store = None /\ a \notin registered /\ a # 0
  BY <1>1, <1>3, AppsAssumption DEF AppsProved, RegisteredProved
<1>7. \A i \in Jobs : job[i].uuid # a
  <2> TAKE i \in Jobs
  <2>1. JobSound(i)
    BY DEF JobsSound
  <2>2. NoJob.uuid = 0
    BY DEF NoJob
  <2> QED
    BY <1>6, <2>1, <2>2 DEF JobSound
<1>8. \A s \in Stores : row[s].uuid # a
  BY <1>6 DEF RowsApps
<1>9. \A s \in Stores : s # None
  BY RowsAssumption DEF Rows
<1>10. \A s \in Stores : Made(s)' = IF s = job[j].store THEN Made(s) \cup {a} ELSE Made(s)
  BY <1>4, <1>5, <1>6, <1>9 DEF Made
<1> QED
  BY <1>1, <1>2, <1>4, <1>5, <1>6, <1>7, <1>8, <1>10 DEF Making

\* How a creation ends: recorded where the row is still there, left to be recorded when it is
\* built, or unheard of
Creates(j, a, u, x) ==
  LET s == job[j].store
  IN /\ ProvWrites(s, u, x) \/ (row' = row /\ u = row[s].uuid /\ x = row[s].release)
     /\ UNCHANGED <<asked, unchecked>>
     /\ \/ /\ job[j].path = "image"
           /\ job' = [job EXCEPT ![j] = [at |-> "readback", store |-> s, path |-> "image", uuid |-> a]]
           /\ u = a /\ x = "deploying"
           /\ stray' = IF row[s].there THEN stray ELSE [stray EXCEPT ![s] = @ + 1]
        \/ /\ job[j].path = "legacy"
           /\ job' = [job EXCEPT ![j] = [at |-> "env", store |-> s, path |-> "legacy", uuid |-> a]]
           /\ u = row[s].uuid /\ x = row[s].release
           /\ stray' = stray
        \/ /\ job' = [job EXCEPT ![j] = NoJob]
           /\ u = row[s].uuid /\ x = row[s].release
           /\ stray' = [stray EXCEPT ![s] = @ + 1]

LEMMA CreatesFrame ==
  ASSUME RowsInv, ProvInv, NEW j \in Jobs, NEW a \in Apps, NEW sound \in BOOLEAN,
         \/ CreateImageApplication(j, a, sound) \/ CreateLegacyApplication(j, a, sound)
         \/ CreateUnheard(j, a, sound),
         UNCHANGED <<asked, unchecked>>
  PROVE  /\ Makes(j, a, sound)
         /\ \E u \in Nat, x \in Releases : Creates(j, a, u, x)
<1> DEFINE s == job[j].store
<1>1. Makes(j, a, sound)
  BY DEF CreateImageApplication, CreateLegacyApplication, CreateUnheard
<1>2. job[j].at = "create" /\ s \in Stores /\ job[j].uuid = 0 /\ job[j] \in JobRecord
  BY <1>1, MakesFrame DEF ProvInv, ProvTypeOK
<1>3. /\ row[s] \in StoreRecord /\ row[s].uuid \in Nat /\ row[s].release \in Releases
      /\ row[s].deploy \in DeployStatuses
  BY <1>2 DEF RowsInv, TypeOK, Rows, StoreRecord, Releases
<1>4. a \in Nat
  BY AppsAssumption
<1>5. CASE CreateImageApplication(j, a, sound)
  <2>1. job' = [job EXCEPT ![j] = [at |-> "readback", store |-> s, path |-> "image", uuid |-> a]]
    BY <1>2, <1>5 DEF CreateImageApplication, JobRecord, ProvInv, ProvTypeOK
  <2>2. row' = Set(s, [row[s] EXCEPT !.uuid = a, !.release = "deploying"])
    BY <1>5 DEF CreateImageApplication, Recorded
  <2>3. [row[s] EXCEPT !.uuid = a, !.release = "deploying"]
          = [row[s] EXCEPT !.uuid = a, !.deploy = row[s].deploy, !.release = "deploying"]
    BY <1>3 DEF StoreRecord
  <2>4. ProvWrites(s, a, "deploying")
    BY <1>3, <2>2, <2>3 DEF ProvWrites
  <2>5. Creates(j, a, a, "deploying")
    BY <1>5, <2>1, <2>4 DEF CreateImageApplication, Strays, Creates
  <2> QED
    BY <1>1, <1>4, <2>5 DEF Releases
<1>6. CASE CreateLegacyApplication(j, a, sound)
  <2>1. job' = [job EXCEPT ![j] = [at |-> "env", store |-> s, path |-> "legacy", uuid |-> a]]
    BY <1>2, <1>6 DEF CreateLegacyApplication, JobRecord, ProvInv, ProvTypeOK
  <2>2. Creates(j, a, row[s].uuid, row[s].release)
    BY <1>6, <2>1 DEF CreateLegacyApplication, Creates
  <2> QED
    BY <1>1, <1>3, <2>2
<1>7. CASE CreateUnheard(j, a, sound)
  <2>1. row' = Set(s, [row[s] EXCEPT !.deploy = "failed", !.release = row[s].release])
    BY <1>2, <1>7 DEF CreateUnheard, Failed
  <2>2. [row[s] EXCEPT !.deploy = "failed", !.release = row[s].release]
          = [row[s] EXCEPT !.uuid = row[s].uuid, !.deploy = "failed", !.release = row[s].release]
    BY <1>3 DEF StoreRecord
  <2>3. ProvWrites(s, row[s].uuid, row[s].release)
    BY <2>1, <2>2 DEF ProvWrites, DeployStatuses
  <2>4. Creates(j, a, row[s].uuid, row[s].release)
    BY <1>7, <2>3 DEF CreateUnheard, Strays, Creates
  <2> QED
    BY <1>1, <1>3, <2>4
<1> QED
  BY <1>5, <1>6, <1>7

\* The creation is accounted for whichever way it ends, as the only one of its store.
LEMMA CreatesKeeps ==
  ASSUME RowsInv, ProvInv, NEW j \in Jobs, NEW a \in Apps, NEW sound \in BOOLEAN, Makes(j, a, sound),
         NEW u \in Nat, NEW x \in Releases, Creates(j, a, u, x)
  PROVE  ProvLeaves /\ ProvInv'
<1> USE DEF ProvInv
<1>0. PICK s : s = job[j].store
  OBVIOUS
<1>1. /\ job[j].at = "create" /\ s \in Stores /\ Making(j, s) /\ Met(s) /\ job[j].uuid = 0
      /\ app' \in [Apps -> AppRecord] /\ app'[a].store = s /\ s # None
      /\ \A b \in Apps : b # a => app'[b] = app[b]
      /\ app[a].store = None /\ a \notin registered /\ a # 0
      /\ \A i \in Jobs : job[i].uuid # a
      /\ \A q \in Stores : row[q].uuid # a
      /\ \A q \in Stores : Made(q)' = IF q = s THEN Made(q) \cup {a} ELSE Made(q)
      /\ UNCHANGED <<registered, poll, overlapped>>
  BY <1>0, MakesFrame, RowsAssumption DEF Rows
<1>2. /\ ProvLeaves
      /\ \A q \in Stores : q # s => row'[q] = row[q]
      /\ row'[s].uuid = IF row[s].there THEN u ELSE row[s].uuid
      /\ row'[s].release = IF row[s].there THEN x ELSE row[s].release
  BY <1>0, <1>1, ProvWritesFrame, ProvWritesNothing DEF Creates
<1>3. \A q \in Rows : Stays(q)
  BY <1>2, QuietKeepsRows DEF ProvLeaves
<1>4. /\ \A i \in Jobs : i # j => job'[i] = job[i]
      /\ job' \in [Jobs -> JobRecord]
      /\ \/ /\ job[j].path = "image" /\ u = a /\ x = "deploying"
            /\ job'[j] = [at |-> "readback", store |-> s, path |-> "image", uuid |-> a]
            /\ stray' = IF row[s].there THEN stray ELSE [stray EXCEPT ![s] = @ + 1]
         \/ /\ job[j].path = "legacy" /\ u = row[s].uuid /\ x = row[s].release
            /\ job'[j] = [at |-> "env", store |-> s, path |-> "legacy", uuid |-> a]
            /\ stray' = stray
         \/ /\ job'[j] = NoJob /\ u = row[s].uuid /\ x = row[s].release
            /\ stray' = [stray EXCEPT ![s] = @ + 1]
  BY <1>0, <1>1 DEF Creates, ProvTypeOK, JobRecord, NoJob, Paths, Steps
<1>5. /\ row[s].uuid = 0 \/ s \in overlapped
      /\ s \notin overlapped => \A i \in Jobs : Making(i, s) => i = j
  BY <1>1 DEF OneMaker
<1>6. ProvTypeOK'
  BY <1>1, <1>4 DEF ProvTypeOK
<1>7. JobsSound'
  <2> SUFFICES ASSUME NEW i \in Jobs PROVE JobSound(i)'
    BY DEF JobsSound
  <2>1. JobSound(i)
    BY DEF JobsSound
  <2>2. CASE i # j
    <3>0. PICK t : t = job[i].store
      OBVIOUS
    <3>1. job[i].at # "idle" => Met(t)'
      BY <1>3, <2>1, <3>0 DEF JobSound, Stays, Rows
    <3> QED
      BY <1>1, <1>4, <2>1, <2>2, <3>0, <3>1 DEF JobSound, Met
  <2>3. CASE i = j
    <3>1. Met(s)'
      BY <1>1, <1>3 DEF Stays, Rows
    <3>2. CASE job'[j] = NoJob
      BY <2>3, <3>2 DEF JobSound, NoJob
    <3>3. CASE job'[j] = [at |-> "readback", store |-> s, path |-> "image", uuid |-> a]
      BY <1>1, <2>3, <3>1, <3>3 DEF JobSound, Paths, Met
    <3>4. CASE job'[j] = [at |-> "env", store |-> s, path |-> "legacy", uuid |-> a]
      BY <1>1, <2>3, <3>1, <3>4 DEF JobSound, Paths, Met
    <3> QED
      BY <1>4, <3>2, <3>3, <3>4
  <2> QED
    BY <2>2, <2>3
<1>8. AppsProved'
  <2>1. RegisteredProved'
    BY <1>1 DEF AppsProved, RegisteredProved, ProvTypeOK
  <2>2. OwnApps'
    BY <1>1, <1>4 DEF AppsProved, OwnApps, NoJob
  <2>3. ASSUME NEW i \in Jobs PROVE JobProved(i)'
    <3>1. JobProved(i) /\ JobSound(i)
      BY DEF AppsProved, JobsSound
    <3>2. CASE i # j
      BY <1>1, <1>4, <3>1, <3>2 DEF JobProved, JobSound
    <3>3. CASE i = j
      BY <1>1, <1>4, <3>3 DEF JobProved, NoJob
    <3> QED
      BY <3>2, <3>3
  <2> QED
    BY <2>1, <2>2, <2>3 DEF AppsProved
<1>9. RowsApps'
  BY <1>1, <1>2, <1>4 DEF RowsApps
<1>10. \A i \in Jobs : i # j => Unrecorded(i)' = Unrecorded(i)
  BY <1>4 DEF Unrecorded
<1>11. /\ ~Unrecorded(j)
       /\ job'[j].path = "legacy" => Unrecorded(j)' /\ job'[j].store = s
  BY <1>1, <1>4 DEF Unrecorded, NoJob
<1>12. OneMaker'
  <2> SUFFICES ASSUME NEW q \in Stores, q \notin overlapped
               PROVE  /\ \A i, k \in Jobs : Making(i, q)' /\ Making(k, q)' => i = k
                      /\ \A i \in Jobs : Making(i, q)' /\ (job'[i].at = "create" \/ Unrecorded(i)')
                                           => row'[q].uuid = 0
                      /\ \A i \in Jobs :
                           Making(i, q)' /\ job'[i].path = "image" /\ job'[i].at # "create" /\ row'[q].there
                             => row'[q].uuid = job'[i].uuid
    BY <1>1 DEF OneMaker
  <2>1. \A i \in Jobs : Making(i, q)' => Making(i, q)
    BY <1>1, <1>4 DEF Making, NoJob
  <2>2. CASE q # s
    <3>1. \A i \in Jobs : Making(i, q)' => i # j
      BY <1>4, <2>2, RowsAssumption DEF Making, NoJob, Rows
    <3> QED
      BY <1>2, <1>4, <1>10, <2>1, <2>2, <3>1 DEF OneMaker
  <2>3. CASE q = s
    <3>1. \A i \in Jobs : Making(i, q)' => i = j
      BY <1>5, <2>1, <2>3
    <3>2. row[s].uuid = 0 /\ row'[s].there = row[s].there
      BY <1>1, <1>2, <1>5, <2>3 DEF ProvLeaves, RowsQuiet, Rows
    <3>3. Making(j, s)' => ~Unrecorded(j)' \/ row'[s].uuid = 0
      BY <1>2, <1>4, <3>2 DEF Unrecorded, Making
    <3>4. Making(j, s)' /\ job'[j].path = "image" /\ row'[s].there => row'[s].uuid = job'[j].uuid
      BY <1>2, <1>4, <3>2 DEF Making, NoJob
    <3>5. Making(j, s)' => job'[j].at # "create"
      BY <1>4 DEF Making, NoJob
    <3> QED
      BY <2>3, <3>1, <3>3, <3>4, <3>5
  <2> QED
    BY <2>2, <2>3
<1>13. MadeCounted'
  <2> SUFFICES ASSUME NEW q \in Stores, q \notin overlapped
               PROVE  /\ IsFiniteSet(Made(q)')
                      /\ Cardinality(Made(q)') <= stray'[q] + (IF Accounted(q)' THEN 1 ELSE 0)
    BY <1>1 DEF MadeCounted
  <2>1. /\ IsFiniteSet(Made(q)) /\ Cardinality(Made(q)) \in Nat /\ stray[q] \in Nat
        /\ Cardinality(Made(q)) <= stray[q] + (IF Accounted(q) THEN 1 ELSE 0)
    BY FS_CardinalityType DEF MadeCounted, ProvTypeOK
  <2>2. CASE q # s
    <3>1. Made(q)' = Made(q) /\ stray'[q] = stray[q] /\ row'[q] = row[q]
      BY <1>1, <1>2, <1>4, <2>2 DEF ProvTypeOK
    <3>2. \A i \in Jobs : (job'[i].store = q /\ Unrecorded(i)') = (job[i].store = q /\ Unrecorded(i))
      BY <1>4, <1>10, <1>11, <2>2 DEF NoJob, Unrecorded
    <3>3. Accounted(q)' = Accounted(q)
      BY <3>1, <3>2 DEF Accounted
    <3> QED
      BY <2>1, <3>1, <3>3
  <2>3. CASE q = s
    <3>0. PICK old, new : old = Made(q) /\ new = Made(q)'
      OBVIOUS
    <3>a. new = old \cup {a} /\ IsFiniteSet(old)
      BY <1>1, <2>1, <2>3, <3>0
    <3>b. /\ IsFiniteSet(new)
          /\ Cardinality(new) = Cardinality(old) \/ Cardinality(new) = Cardinality(old) + 1
      BY <3>a, FS_AddElement
    <3>1. /\ IsFiniteSet(Made(q)') /\ Cardinality(Made(q)') <= Cardinality(Made(q)) + 1
          /\ Cardinality(Made(q)') \in Nat
      BY <2>1, <3>0, <3>b
    <3>2. ~Accounted(s)
      <4>1. \A i \in Jobs : job[i].store = s /\ Unrecorded(i) => Making(i, s)
        BY DEF Unrecorded, Making
      <4> QED
        BY <1>5, <1>11, <2>3, <4>1 DEF Accounted
    <3>3. (Accounted(s)' /\ stray'[s] = stray[s]) \/ stray'[s] = stray[s] + 1
      BY <1>1, <1>2, <1>4, <1>11 DEF Accounted, ProvTypeOK
    <3> QED
      BY <2>1, <2>3, <3>1, <3>2, <3>3
  <2> QED
    BY <2>2, <2>3
<1>14. HealthyStores'
  <2> SUFFICES ASSUME NEW q \in Stores, q \notin overlapped, row'[q].release = "healthy"
               PROVE  row'[q].uuid \in registered /\ app'[row'[q].uuid].up
    BY <1>1 DEF HealthyStores
  <2>1. row'[q].uuid = row[q].uuid /\ row'[q].release = row[q].release
    BY <1>2, <1>4
  <2>2. row[q].uuid \in registered /\ app[row[q].uuid].up
    BY <2>1 DEF HealthyStores
  <2> QED
    BY <1>1, <2>1, <2>2 DEF ProvTypeOK
<1> QED
  BY <1>2, <1>6, <1>7, <1>8, <1>9, <1>12, <1>13, <1>14

-----------------------------------------------------------------------------
(* Provisioning: an application is registered, built, given up *)

\* What was proved is registered, and what is registered is what the row records.
LEMMA RegisterKeeps ==
  ASSUME RowsInv, ProvInv, NEW j \in Jobs, Register(j), UNCHANGED <<asked, unchecked>>
  PROVE  ProvLeaves /\ ProvInv'
<1> USE DEF ProvInv
<1>0. PICK s, a : s = job[j].store /\ a = job[j].uuid
  OBVIOUS
<1>1. /\ job[j].at = "check" /\ job[j].path = "image" /\ s \in Stores /\ Met(s)
      /\ a \in Apps /\ app[a].store # None /\ a # 0 /\ a \in Nat
      /\ app[a].sound /\ app[a].data /\ app[a].env
  BY <1>0, AppsAssumption DEF Register, At, Proved, JobsSound, JobSound, AppsProved, JobProved
<1>2. /\ job' = [job EXCEPT ![j].at = "trigger"]
      /\ registered' = registered \cup {a}
      /\ row' = Set(s, [row[s] EXCEPT !.uuid = a, !.deploy = "provisioning", !.release = "deploying"])
      /\ UNCHANGED <<app, poll, stray, overlapped>>
  BY <1>0 DEF Register, Goes, adminVars
<1>3. ProvWrites(s, a, "deploying")
  BY <1>2 DEF ProvWrites, DeployStatuses
<1>4. /\ ProvLeaves
      /\ \A q \in Stores : q # s => row'[q] = row[q]
      /\ row'[s].uuid = IF row[s].there THEN a ELSE row[s].uuid
      /\ row'[s].release = IF row[s].there THEN "deploying" ELSE row[s].release
  BY <1>1, <1>2, <1>3, ProvWritesFrame DEF Releases
<1>5. /\ \A q \in Rows : Stays(q)
      /\ \A q \in Rows : row'[q].there = row[q].there
  BY <1>4, QuietKeepsRows DEF ProvLeaves, RowsQuiet
<1>6. /\ job' \in [Jobs -> JobRecord]
      /\ \A i \in Jobs :
           /\ job'[i].store = job[i].store /\ job'[i].path = job[i].path /\ job'[i].uuid = job[i].uuid
           /\ job'[i].at = IF i = j THEN "trigger" ELSE job[i].at
  BY <1>2 DEF ProvTypeOK, JobRecord, Steps
<1>7. ProvTypeOK'
  BY <1>1, <1>2, <1>6 DEF ProvTypeOK
<1>8. JobsSound'
  <2> SUFFICES ASSUME NEW i \in Jobs PROVE JobSound(i)'
    BY DEF JobsSound
  <2>0. PICK t : t = job[i].store
    OBVIOUS
  <2>1. JobSound(i) /\ (job[i].at # "idle" => t \in Stores /\ Met(t)')
    BY <1>5, <2>0 DEF JobsSound, JobSound, Stays, Rows
  <2>2. CASE i # j
    <3>1. job'[i] = job[i]
      BY <1>2, <2>2 DEF ProvTypeOK
    <3> QED
      BY <1>2, <2>0, <2>1, <3>1 DEF JobSound, Met
  <2>3. CASE i = j
    BY <1>0, <1>1, <1>2, <1>6, <2>0, <2>1, <2>3 DEF JobSound, Met, Paths
  <2> QED
    BY <2>2, <2>3
<1>9. AppsProved'
  <2>1. RegisteredProved'
    BY <1>1, <1>2 DEF AppsProved, RegisteredProved
  <2>2. OwnApps'
    BY <1>6 DEF AppsProved, OwnApps
  <2>3. ASSUME NEW i \in Jobs PROVE JobProved(i)'
    <3>1. JobProved(i) /\ JobSound(i)
      BY DEF AppsProved, JobsSound
    <3>2. CASE i # j
      <4>1. job[i].at \in {"readback", "env", "storage", "check"} => job[i].uuid # a
        BY <1>0, <1>1, <3>1, <3>2 DEF AppsProved, OwnApps, JobSound, Paths
      <4> QED
        BY <1>2, <1>6, <3>1, <3>2, <4>1 DEF JobProved
    <3>3. CASE i = j
      BY <1>0, <1>2, <1>6, <3>3 DEF JobProved
    <3> QED
      BY <3>2, <3>3
  <2> QED
    BY <2>1, <2>2, <2>3 DEF AppsProved
<1>10. RowsApps'
  BY <1>1, <1>2, <1>4 DEF RowsApps
<1>11. \A i \in Jobs : Unrecorded(i)' = Unrecorded(i)
  BY <1>1, <1>6 DEF Unrecorded
<1>12. OneMaker'
  <2>1. \A i \in Jobs, q \in Stores : Making(i, q)' = Making(i, q)
    BY <1>6 DEF Making
  <2>2. \A i \in Jobs : (job'[i].at = "create") = (job[i].at = "create")
    BY <1>1, <1>6
  <2>3. Making(j, s) /\ ~Unrecorded(j) /\ job[j].at # "create"
    BY <1>0, <1>1 DEF Making, Unrecorded
  <2> SUFFICES ASSUME NEW q \in Stores, q \notin overlapped
               PROVE  /\ \A i, k \in Jobs : Making(i, q)' /\ Making(k, q)' => i = k
                      /\ \A i \in Jobs : Making(i, q)' /\ (job'[i].at = "create" \/ Unrecorded(i)')
                                           => row'[q].uuid = 0
                      /\ \A i \in Jobs :
                           Making(i, q)' /\ job'[i].path = "image" /\ job'[i].at # "create" /\ row'[q].there
                             => row'[q].uuid = job'[i].uuid
    BY <1>2 DEF OneMaker
  <2>4. CASE q # s
    BY <1>4, <1>6, <1>11, <2>1, <2>2, <2>4 DEF OneMaker
  <2>5. CASE q = s
    <3>1. \A i \in Jobs : Making(i, q) => i = j
      BY <2>3, <2>5 DEF OneMaker
    <3> QED
      BY <1>0, <1>4, <1>5, <1>6, <1>11, <2>1, <2>2, <2>3, <2>5, <3>1 DEF OneMaker, Rows
  <2> QED
    BY <2>4, <2>5
<1>13. MadeCounted'
  <2>1. \A q \in Stores : Made(q)' = Made(q)
    BY <1>2 DEF Made
  <2>2. \A q \in Stores : Accounted(q) => Accounted(q)'
    BY <1>1, <1>4, <1>6, <1>11 DEF Accounted
  <2> SUFFICES ASSUME NEW q \in Stores, q \notin overlapped
               PROVE  /\ IsFiniteSet(Made(q)')
                      /\ Cardinality(Made(q)') <= stray'[q] + (IF Accounted(q)' THEN 1 ELSE 0)
    BY <1>2 DEF MadeCounted
  <2>3. /\ IsFiniteSet(Made(q)) /\ Cardinality(Made(q)) \in Nat /\ stray[q] \in Nat
        /\ Cardinality(Made(q)) <= stray[q] + (IF Accounted(q) THEN 1 ELSE 0)
    BY FS_CardinalityType DEF MadeCounted, ProvTypeOK
  <2> QED
    BY <1>2, <2>1, <2>2, <2>3
<1>14. HealthyStores'
  BY <1>2, <1>4 DEF HealthyStores
<1> QED
  BY <1>4, <1>7, <1>8, <1>9, <1>10, <1>12, <1>13, <1>14

\* A legacy application is recorded once it is built, and lost where its row is gone.
LEMMA BuildKeeps ==
  ASSUME RowsInv, ProvInv, NEW j \in Jobs, Build(j), UNCHANGED <<asked, unchecked>>
  PROVE  ProvLeaves /\ ProvInv'
<1> USE DEF ProvInv
<1>0. PICK s, a : s = job[j].store /\ a = job[j].uuid
  OBVIOUS
<1>1. /\ job[j].at = "build" /\ job[j].path = "legacy" /\ s \in Stores /\ Met(s)
      /\ a \in Apps /\ app[a].store # None /\ a # 0 /\ a \in Nat
  BY <1>0, AppsAssumption DEF Build, At, JobsSound, JobSound
<1>2. /\ job' = [job EXCEPT ![j].at = "verify"]
      /\ app' = [app EXCEPT ![a].up = TRUE]
      /\ row' = Set(s, [row[s] EXCEPT !.uuid = a, !.deploy = "provisioning"])
      /\ stray' = IF row[s].there THEN stray ELSE [stray EXCEPT ![s] = @ + 1]
      /\ UNCHANGED <<registered, poll, overlapped>>
  BY <1>0 DEF Build, Goes, adminVars
<1>3. row[s] \in StoreRecord /\ row[s].release \in Releases
  BY <1>1 DEF RowsInv, TypeOK, StoreRecord, Releases, Rows
<1>4. [row[s] EXCEPT !.uuid = a, !.deploy = "provisioning"]
        = [row[s] EXCEPT !.uuid = a, !.deploy = "provisioning", !.release = row[s].release]
  BY <1>3 DEF StoreRecord
<1>5. ProvWrites(s, a, row[s].release)
  BY <1>2, <1>4 DEF ProvWrites, DeployStatuses
<1>6. /\ ProvLeaves
      /\ \A q \in Stores : q # s => row'[q] = row[q]
      /\ row'[s].uuid = IF row[s].there THEN a ELSE row[s].uuid
      /\ row'[s].release = row[s].release
  BY <1>1, <1>3, <1>5, ProvWritesFrame
<1>7. /\ \A q \in Rows : Stays(q)
      /\ \A q \in Rows : row'[q].there = row[q].there
  BY <1>6, QuietKeepsRows DEF ProvLeaves, RowsQuiet
<1>8. /\ job' \in [Jobs -> JobRecord]
      /\ \A i \in Jobs :
           /\ job'[i].store = job[i].store /\ job'[i].path = job[i].path /\ job'[i].uuid = job[i].uuid
           /\ job'[i].at = IF i = j THEN "verify" ELSE job[i].at
  BY <1>2 DEF ProvTypeOK, JobRecord, Steps
<1>9. AppsKeep
  BY <1>1, <1>2 DEF AppsKeep, ProvTypeOK, AppRecord
<1>10. ProvTypeOK'
  <2>1. stray' \in [Stores -> Nat]
    BY <1>1, <1>2 DEF ProvTypeOK
  <2> QED
    BY <1>2, <1>8, <1>9, <2>1 DEF ProvTypeOK, AppsKeep
<1>11. JobsSound'
  <2> SUFFICES ASSUME NEW i \in Jobs PROVE JobSound(i)'
    BY DEF JobsSound
  <2>0. PICK t : t = job[i].store
    OBVIOUS
  <2>1. JobSound(i) /\ (job[i].at # "idle" => t \in Stores /\ Met(t)')
    BY <1>7, <2>0 DEF JobsSound, JobSound, Stays, Rows
  <2>2. job[i].at \notin {"idle", "create"} => app'[job[i].uuid].store = app[job[i].uuid].store
    BY <1>9, <2>1 DEF JobSound, AppsKeep
  <2>3. CASE i # j
    <3>1. job'[i] = job[i]
      BY <1>2, <2>3 DEF ProvTypeOK
    <3> QED
      BY <1>2, <2>0, <2>1, <2>2, <3>1 DEF JobSound, Met
  <2>4. CASE i = j
    BY <1>0, <1>1, <1>8, <2>0, <2>1, <2>2, <2>4 DEF JobSound, Met, Paths
  <2> QED
    BY <2>3, <2>4
<1>12. AppsProved'
  <2>1. RegisteredProved'
    BY <1>2, <1>9 DEF AppsProved, RegisteredProved, AppsKeep, ProvTypeOK
  <2>2. OwnApps'
    BY <1>8 DEF AppsProved, OwnApps
  <2>3. ASSUME NEW i \in Jobs PROVE JobProved(i)'
    <3>1. JobProved(i) /\ JobSound(i)
      BY DEF AppsProved, JobsSound
    <3>2. job[i].at \notin {"idle", "create"} =>
            /\ app[job[i].uuid].env => app'[job[i].uuid].env
            /\ app[job[i].uuid].up => app'[job[i].uuid].up
      BY <1>9, <3>1 DEF JobSound, AppsKeep
    <3> QED
      BY <1>1, <1>2, <1>8, <3>1, <3>2 DEF JobProved
  <2> QED
    BY <2>1, <2>2, <2>3 DEF AppsProved
<1>13. RowsApps'
  <2> SUFFICES ASSUME NEW q \in Stores, row'[q].uuid # 0
               PROVE  row'[q].uuid \in Apps /\ app'[row'[q].uuid].store # None
    BY DEF RowsApps
  <2>1. row'[q].uuid = row[q].uuid \/ row'[q].uuid = a
    BY <1>6
  <2>2. row'[q].uuid \in Apps /\ app[row'[q].uuid].store # None
    BY <1>1, <2>1 DEF RowsApps
  <2> QED
    BY <1>9, <2>2 DEF AppsKeep
<1>14. /\ Making(j, s) /\ Unrecorded(j) /\ ~Unrecorded(j)'
       /\ \A i \in Jobs : i # j => Unrecorded(i)' = Unrecorded(i)
  BY <1>0, <1>1, <1>8 DEF Making, Unrecorded
<1>15. OneMaker'
  <2>1. \A i \in Jobs, q \in Stores : Making(i, q)' = Making(i, q)
    BY <1>8 DEF Making
  <2>2. \A i \in Jobs : (job'[i].at = "create") = (job[i].at = "create")
    BY <1>1, <1>8
  <2> SUFFICES ASSUME NEW q \in Stores, q \notin overlapped
               PROVE  /\ \A i, k \in Jobs : Making(i, q)' /\ Making(k, q)' => i = k
                      /\ \A i \in Jobs : Making(i, q)' /\ (job'[i].at = "create" \/ Unrecorded(i)')
                                           => row'[q].uuid = 0
                      /\ \A i \in Jobs :
                           Making(i, q)' /\ job'[i].path = "image" /\ job'[i].at # "create" /\ row'[q].there
                             => row'[q].uuid = job'[i].uuid
    BY <1>2 DEF OneMaker
  <2>3. CASE q # s
    <3>1. \A i \in Jobs : Making(i, q) => i # j
      BY <1>0, <2>3 DEF Making
    <3> QED
      BY <1>6, <1>8, <1>14, <2>1, <2>2, <2>3, <3>1 DEF OneMaker
  <2>4. CASE q = s
    <3>1. \A i \in Jobs : Making(i, q) => i = j
      BY <1>14, <2>4 DEF OneMaker
    <3> QED
      BY <1>1, <1>8, <1>14, <2>1, <2>4, <3>1
  <2> QED
    BY <2>3, <2>4
<1>16. MadeCounted'
  <2> SUFFICES ASSUME NEW q \in Stores, q \notin overlapped
               PROVE  /\ IsFiniteSet(Made(q)')
                      /\ Cardinality(Made(q)') <= stray'[q] + (IF Accounted(q)' THEN 1 ELSE 0)
    BY <1>2 DEF MadeCounted
  <2>1. /\ IsFiniteSet(Made(q)) /\ Cardinality(Made(q)) \in Nat /\ stray[q] \in Nat
        /\ Cardinality(Made(q)) <= stray[q] + (IF Accounted(q) THEN 1 ELSE 0)
    BY FS_CardinalityType DEF MadeCounted, ProvTypeOK
  <2>2. Made(q)' = Made(q)
    BY <1>9 DEF Made, AppsKeep
  <2>3. CASE q # s
    <3>1. Accounted(q) => Accounted(q)'
      BY <1>0, <1>6, <1>8, <1>14, <2>3 DEF Accounted
    <3>2. stray'[q] = stray[q]
      BY <1>2, <2>3 DEF ProvTypeOK
    <3> QED
      BY <2>1, <2>2, <3>1, <3>2
  <2>4. CASE q = s
    <3>1. (Accounted(q)' /\ stray'[q] = stray[q]) \/ stray'[q] = stray[q] + 1
      BY <1>1, <1>2, <1>6, <2>4 DEF Accounted, ProvTypeOK
    <3> QED
      BY <2>1, <2>2, <3>1
  <2> QED
    BY <2>3, <2>4
<1>17. HealthyStores'
  <2> SUFFICES ASSUME NEW q \in Stores, q \notin overlapped, row'[q].release = "healthy"
               PROVE  row'[q].uuid \in registered /\ app'[row'[q].uuid].up
    BY <1>2 DEF HealthyStores
  <2>1. row[q].release = "healthy" /\ row[q].uuid \in registered /\ app[row[q].uuid].up
    BY <1>6 DEF HealthyStores
  <2>2. q # s
    <3>1. s \notin overlapped => row[s].uuid = 0
      BY <1>1, <1>14 DEF OneMaker
    <3> QED
      BY <2>1, <3>1, AppsAssumption DEF ProvTypeOK
  <2> QED
    BY <1>6, <1>9, <2>1, <2>2 DEF AppsKeep, ProvTypeOK
<1> QED
  BY <1>6, <1>10, <1>11, <1>12, <1>13, <1>15, <1>16, <1>17

\* How an execution ends, with what it leaves in the row and what it leaves unrecorded
EndsWith(j, x) ==
  LET s == job[j].store
  IN /\ job[j].at # "idle"
     /\ ProvWrites(s, row[s].uuid, x)
     /\ x = row[s].release \/ x = "failed" \/ (x = "healthy" /\ job[j].path = "image" /\ job[j].at = "config")
     /\ stray' = IF Unrecorded(j) THEN [stray EXCEPT ![s] = @ + 1] ELSE stray
     /\ job' = [job EXCEPT ![j] = NoJob]
     /\ UNCHANGED <<app, registered, poll, overlapped>>

LEMMA EndsFrame ==
  ASSUME RowsInv, ProvInv, NEW j \in Jobs, FinishProvisioning(j) \/ Fail(j)
  PROVE  job[j].store \in Stores /\ \E x \in Releases : EndsWith(j, x)
<1> DEFINE s == job[j].store
<1>1. job[j].at # "idle" /\ s \in Stores
  BY DEF FinishProvisioning, Fail, At, ProvInv, JobsSound, JobSound
<1>2. row[s] \in StoreRecord /\ row[s].release \in Releases
  BY <1>1 DEF RowsInv, TypeOK, StoreRecord, Releases, Rows
<1>3. \A d, x : [row[s] EXCEPT !.deploy = d, !.release = x]
                  = [row[s] EXCEPT !.uuid = row[s].uuid, !.deploy = d, !.release = x]
  BY <1>2 DEF StoreRecord
<1>4. CASE FinishProvisioning(j)
  <2>1. row' = Set(s, [row[s] EXCEPT !.deploy = "deployed",
                                     !.release = IF job[j].path = "image" THEN "healthy" ELSE row[s].release])
    BY <1>2, <1>4 DEF FinishProvisioning, Ends, Deployed, StoreRecord
  <2>2. ProvWrites(s, row[s].uuid, IF job[j].path = "image" THEN "healthy" ELSE row[s].release)
    BY <1>3, <2>1 DEF ProvWrites, DeployStatuses
  <2> QED
    BY <1>1, <1>2, <1>4, <2>2 DEF FinishProvisioning, Ends, EndsWith, At, adminVars, Releases
<1>5. CASE Fail(j)
  <2> DEFINE x == IF job[j].path = "image" /\ job[j].uuid # 0 THEN "failed" ELSE row[s].release
  <2>1. row' = Set(s, [row[s] EXCEPT !.deploy = "failed", !.release = x])
    BY <1>2, <1>5 DEF Fail, Ends, Failed, StoreRecord
  <2>2. ProvWrites(s, row[s].uuid, x)
    BY <1>3, <2>1 DEF ProvWrites, DeployStatuses
  <2>3. x \in Releases
    BY <1>2 DEF Releases
  <2> QED
    BY <1>1, <1>5, <2>2, <2>3 DEF Fail, Ends, EndsWith, adminVars
<1> QED
  BY <1>1, <1>4, <1>5

LEMMA EndsKeeps ==
  ASSUME RowsInv, ProvInv, NEW j \in Jobs, FinishProvisioning(j) \/ Fail(j), UNCHANGED <<asked, unchecked>>
  PROVE  ProvLeaves /\ ProvInv'
<1> USE DEF ProvInv
<1>0. PICK s : s = job[j].store
  OBVIOUS
<1>1. s \in Stores /\ job[j].at # "idle"
  BY <1>0, EndsFrame DEF EndsWith
<1>2. PICK x \in Releases : EndsWith(j, x)
  BY EndsFrame
<1>3. row[s].uuid \in Nat
  BY <1>1 DEF RowsInv, TypeOK, Rows, StoreRecord
<1>4. /\ ProvLeaves
      /\ \A q \in Stores : q # s => row'[q] = row[q]
      /\ row'[s].uuid = row[s].uuid
      /\ row'[s].release = IF row[s].there THEN x ELSE row[s].release
  BY <1>0, <1>1, <1>2, <1>3, ProvWritesFrame DEF EndsWith
<1>5. /\ \A q \in Rows : Stays(q)
      /\ \A q \in Rows : row'[q].there = row[q].there
  BY <1>4, QuietKeepsRows DEF ProvLeaves, RowsQuiet
<1>6. /\ stray' = IF Unrecorded(j) THEN [stray EXCEPT ![s] = @ + 1] ELSE stray
      /\ UNCHANGED <<app, registered, poll, overlapped>>
      /\ \A i \in Jobs : job'[i] = IF i = j THEN NoJob ELSE job[i]
      /\ job' \in [Jobs -> JobRecord]
  BY <1>0, <1>2 DEF EndsWith, ProvTypeOK, JobRecord, NoJob, Steps
<1>7. NoJob.at = "idle" /\ NoJob.store = None /\ NoJob.path = "none" /\ NoJob.uuid = 0
  BY DEF NoJob
<1>8. ProvTypeOK'
  <2>1. stray' \in [Stores -> Nat]
    BY <1>1, <1>6 DEF ProvTypeOK
  <2> QED
    BY <1>6, <2>1 DEF ProvTypeOK
<1>9. JobsSound'
  <2> SUFFICES ASSUME NEW i \in Jobs PROVE JobSound(i)'
    BY DEF JobsSound
  <2>0. PICK t : t = job[i].store
    OBVIOUS
  <2>1. JobSound(i) /\ (job[i].at # "idle" => t \in Stores /\ Met(t)')
    BY <1>5, <2>0 DEF JobsSound, JobSound, Stays, Rows
  <2>2. CASE i # j
    BY <1>6, <2>0, <2>1, <2>2 DEF JobSound, Met
  <2>3. CASE i = j
    BY <1>6, <1>7, <2>3 DEF JobSound
  <2> QED
    BY <2>2, <2>3
<1>10. AppsProved'
  <2>1. RegisteredProved'
    BY <1>6 DEF AppsProved, RegisteredProved
  <2>2. OwnApps'
    BY <1>6, <1>7 DEF AppsProved, OwnApps
  <2>3. ASSUME NEW i \in Jobs PROVE JobProved(i)'
    BY <1>6, <1>7 DEF AppsProved, JobProved
  <2> QED
    BY <2>1, <2>2, <2>3 DEF AppsProved
<1>11. RowsApps'
  BY <1>4, <1>6 DEF RowsApps
<1>12. \A i \in Jobs : i # j => Unrecorded(i)' = Unrecorded(i)
  BY <1>6 DEF Unrecorded
<1>13. ~Unrecorded(j)'
  BY <1>6, <1>7 DEF Unrecorded
<1>14. OneMaker'
  <2>1. \A i \in Jobs, q \in Stores : Making(i, q)' => Making(i, q) /\ i # j
    BY <1>6, <1>7 DEF Making
  <2>2. \A q \in Stores : row'[q].uuid = row[q].uuid /\ row'[q].there = row[q].there
    BY <1>4, <1>5 DEF Rows
  <2> QED
    BY <1>6, <1>12, <2>1, <2>2 DEF OneMaker
<1>15. MadeCounted'
  <2> SUFFICES ASSUME NEW q \in Stores, q \notin overlapped
               PROVE  /\ IsFiniteSet(Made(q)')
                      /\ Cardinality(Made(q)') <= stray'[q] + (IF Accounted(q)' THEN 1 ELSE 0)
    BY <1>6 DEF MadeCounted
  <2>1. /\ IsFiniteSet(Made(q)) /\ Cardinality(Made(q)) \in Nat /\ stray[q] \in Nat
        /\ Cardinality(Made(q)) <= stray[q] + (IF Accounted(q) THEN 1 ELSE 0)
    BY FS_CardinalityType DEF MadeCounted, ProvTypeOK
  <2>2. Made(q)' = Made(q)
    BY <1>6 DEF Made
  <2>3. CASE q = s /\ Unrecorded(j)
    <3>1. stray'[q] = stray[q] + 1
      BY <1>1, <1>6, <2>3 DEF ProvTypeOK
    <3> QED
      BY <2>1, <2>2, <3>1
  <2>4. CASE ~(q = s /\ Unrecorded(j))
    <3>1. stray'[q] = stray[q]
      BY <1>1, <1>6, <2>4 DEF ProvTypeOK
    <3>2. Accounted(q) => Accounted(q)'
      BY <1>0, <1>4, <1>6, <1>12, <2>4 DEF Accounted
    <3> QED
      BY <2>1, <2>2, <3>1, <3>2
  <2> QED
    BY <2>3, <2>4
<1>16. HealthyStores'
  <2> SUFFICES ASSUME NEW q \in Stores, q \notin overlapped, row'[q].release = "healthy"
               PROVE  row[q].uuid \in registered /\ app[row[q].uuid].up
    BY <1>4, <1>6 DEF HealthyStores
  <2>1. CASE row[q].release = "healthy"
    BY <2>1 DEF HealthyStores
  <2>2. CASE row[q].release # "healthy"
    <3>1. q = s /\ row[s].there /\ job[j].path = "image" /\ job[j].at = "config"
      BY <1>0, <1>2, <1>4, <2>2 DEF EndsWith
    <3>2. job[j].uuid \in registered /\ app[job[j].uuid].up
      BY <3>1 DEF AppsProved, JobProved
    <3>3. row[s].uuid = job[j].uuid
      BY <1>0, <3>1 DEF OneMaker, Making
    <3> QED
      BY <3>1, <3>2, <3>3
  <2> QED
    BY <2>1, <2>2
<1> QED
  BY <1>4, <1>8, <1>9, <1>10, <1>11, <1>14, <1>15, <1>16

-----------------------------------------------------------------------------
(* Provisioning: an execution starts *)

\* An execution that finds no application is either the only one at work for its store or
\* remembered as one of two.
LEMMA StartKeeps ==
  ASSUME RowsInv, ProvInv, NEW j \in Jobs, NEW s \in Stores, NEW release \in BOOLEAN,
         StartProvisioning(j, s, release)
  PROVE  ProvLeaves /\ ProvInv'
<1> USE DEF ProvInv
<1>0. PICK path : path = PathFor(s, release)
  OBVIOUS
<1>1. /\ job[j].at = "idle" /\ row[s].there
      /\ row' = Set(s, [row[s] EXCEPT !.deploy = IF LegacyRefused(path) THEN "failed" ELSE "provisioning"])
      /\ job' = IF LegacyRefused(path) THEN job
                ELSE [job EXCEPT ![j] = [at |-> IF path = "again" THEN "trigger" ELSE "create",
                                         store |-> s, path |-> path, uuid |-> row[s].uuid]]
      /\ overlapped' = IF path # "again" /\ Overlap(s) THEN overlapped \cup {s} ELSE overlapped
      /\ UNCHANGED <<app, registered, poll, stray, asked, unchecked>>
  BY <1>0 DEF StartProvisioning, At, adminVars
<1>2. /\ row[s] \in StoreRecord /\ row[s].release \in Releases /\ row[s].uuid \in Nat /\ Met(s)
      /\ row[s].uuid # 0 => row[s].uuid \in Apps /\ app[row[s].uuid].store # None
  BY <1>1 DEF RowsInv, TypeOK, StoreRecord, Releases, Rows, Met, RowsApps
<1>3. path \in Paths /\ (path = "again" <=> row[s].uuid # 0)
  BY <1>0 DEF PathFor, Paths
<1>4. \A d : [row[s] EXCEPT !.deploy = d]
                = [row[s] EXCEPT !.uuid = row[s].uuid, !.deploy = d, !.release = row[s].release]
  BY <1>2 DEF StoreRecord
<1>5. ProvWrites(s, row[s].uuid, row[s].release)
  BY <1>1, <1>4 DEF ProvWrites, DeployStatuses
<1>6. ProvLeaves /\ \A q \in Stores : row'[q].uuid = row[q].uuid /\ row'[q].release = row[q].release
  BY <1>1, <1>2, <1>5, ProvWritesFrame
<1>7. /\ \A q \in Rows : Stays(q)
      /\ \A q \in Rows : row'[q].there = row[q].there
  BY <1>6, QuietKeepsRows DEF ProvLeaves, RowsQuiet
<1>8. /\ \A i \in Jobs : i # j => job'[i] = job[i]
      /\ \/ job'[j] = job[j]
         \/ job'[j] = [at |-> IF path = "again" THEN "trigger" ELSE "create",
                       store |-> s, path |-> path, uuid |-> row[s].uuid]
      /\ job' \in [Jobs -> JobRecord]
  BY <1>1, <1>2, <1>3 DEF ProvTypeOK, JobRecord, Steps, Paths
<1>9. ProvTypeOK' /\ overlapped \subseteq overlapped'
  BY <1>1, <1>8 DEF ProvTypeOK
<1>10. job[j] = NoJob /\ NoJob.store = None /\ NoJob.path = "none" /\ NoJob.uuid = 0 /\ NoJob.at = "idle"
  BY <1>1 DEF JobsSound, JobSound, NoJob
<1>11. JobsSound'
  <2> SUFFICES ASSUME NEW i \in Jobs PROVE JobSound(i)'
    BY DEF JobsSound
  <2>0. PICK t : t = job[i].store
    OBVIOUS
  <2>1. JobSound(i) /\ (job[i].at # "idle" => t \in Stores /\ Met(t)') /\ Met(s)'
    BY <1>2, <1>7, <2>0 DEF JobsSound, JobSound, Stays, Rows
  <2>2. CASE job'[i] = job[i]
    BY <1>1, <2>0, <2>1, <2>2 DEF JobSound, Met
  <2>3. CASE i = j /\ job'[j] = [at |-> IF path = "again" THEN "trigger" ELSE "create",
                                 store |-> s, path |-> path, uuid |-> row[s].uuid]
    <3>1. path = "again" => row[s].uuid \in Apps /\ app'[row[s].uuid].store # None
      BY <1>1, <1>2, <1>3
    <3> QED
      BY <1>3, <2>1, <2>3, <3>1 DEF JobSound, Met, Paths
  <2> QED
    BY <1>8, <2>2, <2>3
<1>12. AppsProved'
  <2>1. RegisteredProved'
    BY <1>1 DEF AppsProved, RegisteredProved
  <2>2. OwnApps'
    BY <1>3, <1>8 DEF AppsProved, OwnApps
  <2>3. ASSUME NEW i \in Jobs PROVE JobProved(i)'
    <3>1. CASE job'[i] = job[i]
      BY <1>1, <3>1 DEF AppsProved, JobProved
    <3>2. CASE i = j /\ job'[j] = [at |-> IF path = "again" THEN "trigger" ELSE "create",
                                   store |-> s, path |-> path, uuid |-> row[s].uuid]
      BY <3>2 DEF JobProved
    <3> QED
      BY <1>8, <3>1, <3>2
  <2> QED
    BY <2>1, <2>2, <2>3 DEF AppsProved
<1>13. RowsApps'
  BY <1>1, <1>6 DEF RowsApps
<1>14. \A i \in Jobs : Unrecorded(i)' = Unrecorded(i)
  BY <1>8, <1>10 DEF Unrecorded
<1>15. OneMaker'
  <2>1. \A i \in Jobs : i # j => \A q \in Stores : Making(i, q)' = Making(i, q)
    BY <1>8 DEF Making
  <2>2. \A q \in Stores : Making(j, q)' => q = s /\ path # "again" /\ job'[j].at = "create"
    <3>1. \A q \in Stores : q # None
      BY RowsAssumption DEF Rows
    <3> QED
      BY <1>8, <1>10, <3>1 DEF Making
  <2>3. \A i \in Jobs : path # "again" /\ s \notin overlapped' => ~Making(i, s)
    BY <1>1 DEF Overlap, Making
  <2> SUFFICES ASSUME NEW q \in Stores, q \notin overlapped'
               PROVE  /\ \A i, k \in Jobs : Making(i, q)' /\ Making(k, q)' => i = k
                      /\ \A i \in Jobs : Making(i, q)' /\ (job'[i].at = "create" \/ Unrecorded(i)')
                                           => row'[q].uuid = 0
                      /\ \A i \in Jobs :
                           Making(i, q)' /\ job'[i].path = "image" /\ job'[i].at # "create" /\ row'[q].there
                             => row'[q].uuid = job'[i].uuid
    BY DEF OneMaker
  <2>4. CASE Making(j, q)'
    <3>1. q = s /\ \A i \in Jobs : Making(i, q)' => i = j
      BY <2>1, <2>2, <2>3, <2>4
    <3>2. row'[q].uuid = 0 /\ job'[j].at = "create"
      BY <1>3, <1>6, <2>2, <2>4
    <3> QED
      BY <3>1, <3>2
  <2>5. CASE ~Making(j, q)'
    <3>1. \A i \in Jobs : Making(i, q)' => Making(i, q) /\ job'[i] = job[i]
      BY <1>8, <2>1, <2>5
    <3>2. row'[q].uuid = row[q].uuid /\ row'[q].there = row[q].there /\ q \notin overlapped
      BY <1>6, <1>7, <1>9 DEF Rows
    <3> QED
      BY <1>14, <3>1, <3>2 DEF OneMaker
  <2> QED
    BY <2>4, <2>5
<1>16. MadeCounted'
  <2>1. \A q \in Stores : Accounted(q)' = Accounted(q)
    <3>1. \A i \in Jobs : Unrecorded(i) => job'[i] = job[i]
      BY <1>8, <1>10 DEF Unrecorded
    <3> QED
      BY <1>6, <1>14, <3>1 DEF Accounted
  <2>2. \A q \in Stores : Made(q)' = Made(q)
    BY <1>1 DEF Made
  <2> QED
    BY <1>1, <1>9, <2>1, <2>2 DEF MadeCounted
<1>17. HealthyStores'
  BY <1>1, <1>6, <1>9 DEF HealthyStores
<1> QED
  BY <1>6, <1>9, <1>11, <1>12, <1>13, <1>15, <1>16, <1>17

-----------------------------------------------------------------------------
(* Provisioning: a restart, and what others do *)

\* What a restart forgets was not recorded.
LEMMA RestartKeeps ==
  ASSUME RowsInv, ProvInv, CrashProvisioning
  PROVE  ProvLeaves /\ ProvInv'
<1> USE DEF ProvInv
<1> DEFINE lost(s) == {j \in Jobs : job[j].store = s /\ Unrecorded(j)}
<1>1. /\ stray' = [s \in Stores |-> stray[s] + Cardinality(lost(s))]
      /\ \A i \in Jobs : job'[i] = NoJob
      /\ job' = [i \in Jobs |-> NoJob]
      /\ poll' = {} /\ asked' = [r \in Rows |-> Free]
      /\ UNCHANGED <<row, unchecked, app, registered, overlapped>>
  BY DEF CrashProvisioning
<1>2. NoJob.at = "idle" /\ NoJob.store = None /\ NoJob.path = "none" /\ NoJob.uuid = 0 /\ NoJob \in JobRecord
  BY DEF NoJob, JobRecord, Steps
<1>3. ProvLeaves
  BY <1>1, ProvWritesNothing
<1>4. \A s \in Stores : /\ Cardinality(lost(s)) \in Nat
                        /\ Cardinality(lost(s)) = 0 <=> lost(s) = {}
  <2> TAKE s \in Stores
  <2>1. IsFiniteSet(lost(s))
    BY AppsAssumption, FS_Subset
  <2> QED
    BY <2>1, FS_CardinalityType, FS_EmptySet
<1> HIDE DEF lost
<1>5. ProvTypeOK'
  <2>1. stray' \in [Stores -> Nat]
    BY <1>1, <1>4 DEF ProvTypeOK
  <2> QED
    BY <1>1, <1>2, <2>1 DEF ProvTypeOK
<1>6. JobsSound'
  BY <1>1, <1>2 DEF JobsSound, JobSound
<1>7. AppsProved'
  BY <1>1, <1>2 DEF AppsProved, RegisteredProved, OwnApps, JobProved
<1>8. RowsApps' /\ HealthyStores'
  BY <1>1 DEF RowsApps, HealthyStores
<1>9. OneMaker'
  BY <1>1, <1>2 DEF OneMaker, Making
<1>10. MadeCounted'
  <2> SUFFICES ASSUME NEW q \in Stores, q \notin overlapped
               PROVE  /\ IsFiniteSet(Made(q)')
                      /\ Cardinality(Made(q)') <= stray'[q] + (IF Accounted(q)' THEN 1 ELSE 0)
    BY <1>1 DEF MadeCounted
  <2>1. /\ IsFiniteSet(Made(q)) /\ Cardinality(Made(q)) \in Nat /\ stray[q] \in Nat
        /\ Cardinality(Made(q)) <= stray[q] + (IF Accounted(q) THEN 1 ELSE 0)
    BY FS_CardinalityType DEF MadeCounted, ProvTypeOK
  <2>2. Made(q)' = Made(q) /\ stray'[q] = stray[q] + Cardinality(lost(q))
    BY <1>1 DEF Made
  <2>3. CASE row[q].uuid # 0
    <3>1. Accounted(q) /\ Accounted(q)'
      BY <1>1, <2>3 DEF Accounted
    <3> QED
      BY <1>4, <2>1, <2>2, <3>1
  <2>4. CASE row[q].uuid = 0
    <3>1. Accounted(q) => lost(q) # {}
      BY <2>4 DEF Accounted, lost
    <3> QED
      BY <1>4, <2>1, <2>2, <3>1
  <2> QED
    BY <2>3, <2>4
<1> QED
  BY <1>3, <1>5, <1>6, <1>7, <1>8, <1>9, <1>10

\* Steps that leave alone the applications, the executions and what the rows say of them
LEMMA OthersKeepProv ==
  ASSUME ProvInv, UNCHANGED <<app, registered, job, stray, overlapped>>, poll' \subseteq Rows,
         \A s \in Stores : /\ row'[s].uuid = row[s].uuid /\ row'[s].release = row[s].release
                           /\ Stays(s)
  PROVE  ProvInv'
<1> USE DEF ProvInv
<1>1. ProvTypeOK' /\ AppsProved' /\ RowsApps' /\ HealthyStores'
  BY DEF ProvTypeOK, AppsProved, RegisteredProved, OwnApps, JobProved, RowsApps, HealthyStores
<1>2. JobsSound'
  <2> SUFFICES ASSUME NEW i \in Jobs PROVE JobSound(i)'
    BY DEF JobsSound
  <2>0. PICK t : t = job[i].store
    OBVIOUS
  <2>1. JobSound(i) /\ (job[i].at # "idle" => t \in Stores /\ Met(t)')
    BY <2>0 DEF JobsSound, JobSound, Stays
  <2> QED
    BY <2>0, <2>1 DEF JobSound, Met
<1>3. \A i \in Jobs : Unrecorded(i)' = Unrecorded(i)
  BY DEF Unrecorded
<1>4. \A i \in Jobs, s \in Stores : Making(i, s) /\ row'[s].there => row[s].there
  BY DEF Making, JobsSound, JobSound, NoJob, Stays
<1>5. OneMaker'
  <2>1. \A i \in Jobs, s \in Stores : Making(i, s)' = Making(i, s)
    BY DEF Making
  <2> QED
    BY <1>3, <1>4, <2>1 DEF OneMaker
<1>6. MadeCounted'
  <2>1. \A s \in Stores : Accounted(s)' = Accounted(s) /\ Made(s)' = Made(s)
    BY <1>3 DEF Accounted, Made
  <2> QED
    BY <2>1 DEF MadeCounted
<1> QED
  BY <1>1, <1>2, <1>5, <1>6

\* Every step of provisioning
LEMMA ProvKeeps ==
  ASSUME RowsInv, ProvInv, ProvNext
  PROVE  ProvLeaves /\ ProvInv'
<1>1. ASSUME NEW j \in Jobs, JobStep(j), UNCHANGED <<asked, unchecked, spend>>
      PROVE  ProvLeaves /\ ProvInv'
  <2>1. ASSUME NEW a \in Apps, NEW sound \in BOOLEAN,
               \/ CreateImageApplication(j, a, sound) \/ CreateLegacyApplication(j, a, sound)
               \/ CreateUnheard(j, a, sound)
        PROVE  ProvLeaves /\ ProvInv'
    <3>1. Makes(j, a, sound)
      BY <1>1, <2>1, CreatesFrame
    <3>2. PICK u \in Nat, x \in Releases : Creates(j, a, u, x)
      BY <1>1, <2>1, CreatesFrame
    <3> QED
      BY <3>1, <3>2, CreatesKeeps
  <2>2. CASE \/ ReadBack(j) \/ SetEnvironment(j) \/ (\E attached \in BOOLEAN : AddStorage(j, attached))
             \/ TriggerDeploy(j) \/ Verify(j) \/ (\E reaches \in BOOLEAN : BootstrapAdmin(j, reaches))
    <3>1. PICK there \in Steps : Moves(j, there)
      BY <2>2, MovesFrame
    <3> QED
      BY <1>1, <3>1, MovesKeeps, ProvWritesNothing DEF Moves
  <2> QED
    BY <1>1, <2>1, <2>2, RegisterKeeps, BuildKeeps, EndsKeeps DEF JobStep
<1>2. ASSUME UNCHANGED <<row, asked, unchecked, app, registered, job, stray, overlapped>>,
             poll' \subseteq Rows
      PROVE  ProvLeaves /\ ProvInv'
  BY <1>2, ProvWritesNothing, OthersKeepProv DEF Stays, Met
<1>3. ASSUME NEW h \in Rows, ScheduleAdmin(h)
      PROVE  ProvLeaves /\ ProvInv'
  BY <1>2, <1>3 DEF ScheduleAdmin, ProvInv, ProvTypeOK
<1>4. ASSUME NEW h \in Rows, NEW heard \in BOOLEAN, NEW emailed \in BOOLEAN,
             AttemptAdmin(h, heard, emailed), UNCHANGED <<asked, unchecked, spend>>
      PROVE  ProvLeaves /\ ProvInv'
  BY <1>2, <1>4 DEF AttemptAdmin, ProvInv, ProvTypeOK
<1>5. ASSUME NEW h \in Rows, AdminDeadline(h), UNCHANGED <<asked, unchecked, spend>>
      PROVE  ProvLeaves /\ ProvInv'
  BY <1>2, <1>5 DEF AdminDeadline, ProvInv, ProvTypeOK
<1>6. ASSUME NEW h \in Rows, NEW takes, NEW tells, NEW heard, ResetAdmin(h, takes, tells, heard)
      PROVE  ProvLeaves /\ ProvInv'
  BY <1>2, <1>6 DEF ResetAdmin, ProvInv, ProvTypeOK
<1> QED
  BY <1>1, <1>3, <1>4, <1>5, <1>6, StartKeeps, RestartKeeps
     DEF ProvNext, ResetStoreAdmin, ResetPanelAdmin, Rows

-----------------------------------------------------------------------------
(* Pairing: what a step writes in the rows *)

\* What provisioning, and a reader of the tills, rely on in a row when pairing writes it
PairLeaves ==
  /\ RowsQuiet
  /\ \A s \in Stores : /\ row'[s].uuid = row[s].uuid /\ row'[s].release = row[s].release
                       /\ row'[s].tills = row[s].tills

\* Of two branches without a credential, each gets its own.
LEMMA OrderTyped ==
  ASSUME NEW S, IsFiniteSet(S)
  PROVE  \E f \in [S -> 1 .. Cardinality(S)] : \A s, t \in S : s # t => f[s] # f[t]
<1>1. PICK n \in Nat : ExistsBijection(1 .. n, S)
  BY FS_NatBijection
<1>2. Cardinality(S) = n /\ ExistsBijection(S, 1 .. n)
  BY <1>1, FS_CountingElements, Fun_ExistsBijSymmetric
<1> QED
  BY <1>2 DEF ExistsBijection, Bijection, Injection, IsInjective

LEMMA PushListFrame ==
  ASSUME RowsInv, PairInv, NEW c, NEW arrives \in BOOLEAN, PushList(c, arrives),
         UNCHANGED <<asked, unchecked>>
  PROVE  /\ PairLeaves
         /\ \A s \in Stores : /\ row[s].ho # 0 => row'[s].ho = row[s].ho
                              /\ row'[s].ho \in Nat /\ row'[s].config = row[s].config
         /\ minted' \in Nat /\ offered' \in [Stores -> Nat]
<1> DEFINE bare == {s \in Branches(c) : row[s].ho = 0}
           order == CHOOSE f \in [bare -> 1 .. Cardinality(bare)] :
                      \A s, t \in bare : s # t => f[s] # f[t]
           new(s) == [row[s] EXCEPT !.ho = minted + order[s]]
<1> USE DEF RowsInv, TypeOK
<1>1. /\ minted' = minted + Cardinality(bare)
      /\ row' = [s \in Rows |-> IF s \in bare THEN new(s) ELSE row[s]]
      /\ offered' = IF arrives
                    THEN [s \in Stores |-> IF s \in Branches(c) THEN row'[s].ho ELSE offered[s]]
                    ELSE offered
  BY DEF PushList
<1>2. IsFiniteSet(bare) /\ Cardinality(bare) \in Nat
  BY RowsAssumption, FS_Subset, FS_CardinalityType DEF Branches
<1>3. order \in [bare -> 1 .. Cardinality(bare)]
  BY <1>2, OrderTyped
<1>4. minted \in Nat
  BY DEF PairInv, PairTypeOK
<1>5. ASSUME NEW s \in bare
      PROVE  /\ new(s) \in StoreRecord /\ new(s).ho \in Nat
             /\ row[s].there /\ row[s].ho = 0
             /\ new(s).there = row[s].there /\ new(s).url = row[s].url /\ new(s).uuid = row[s].uuid
             /\ new(s).release = row[s].release /\ new(s).tills = row[s].tills
             /\ new(s).config = row[s].config
  <2>1. s \in Rows /\ row[s] \in StoreRecord
    BY DEF Branches, Rows
  <2>2. minted + order[s] \in Nat
    <3> HIDE DEF order, bare
    <3>1. order[s] \in 1 .. Cardinality(bare)
      BY <1>3
    <3> QED
      BY <1>2, <1>4, <3>1
  <2> HIDE DEF order
  <2> QED
    BY <2>1, <2>2 DEF StoreRecord, Branches
<1> HIDE DEF bare, order, new
<1>6. \A s \in Rows : row'[s] = IF s \in bare THEN new(s) ELSE row[s]
  BY <1>1
<1>7. row' \in [Rows -> StoreRecord]
  BY <1>1, <1>5
<1>8. RowsQuiet
  BY <1>5, <1>6, <1>7 DEF RowsQuiet
<1>9. \A s \in Stores : row[s].ho \in Nat
  BY DEF Rows, StoreRecord
<1>10. \A s \in Stores : /\ row[s].ho # 0 => row'[s].ho = row[s].ho
                         /\ row'[s].ho \in Nat /\ row'[s].config = row[s].config
                         /\ row'[s].uuid = row[s].uuid /\ row'[s].release = row[s].release
                         /\ row'[s].tills = row[s].tills
  BY <1>5, <1>6, <1>9 DEF Rows
<1>11. offered' \in [Stores -> Nat]
  <2>1. offered \in [Stores -> Nat]
    BY DEF PairInv, PairTypeOK
  <2>2. \A s \in Stores : (IF s \in Branches(c) THEN row'[s].ho ELSE offered[s]) \in Nat
    BY <1>10, <2>1
  <2>3. [s \in Stores |-> IF s \in Branches(c) THEN row'[s].ho ELSE offered[s]] \in [Stores -> Nat]
    BY <2>2
  <2>4. CASE arrives
    BY <1>1, <2>3, <2>4
  <2>5. CASE ~arrives
    BY <1>1, <2>1, <2>5
  <2> QED
    BY <2>4, <2>5
<1>12. minted' \in Nat
  BY <1>1, <1>2, <1>4
<1>13. PairLeaves
  BY <1>8, <1>10 DEF PairLeaves
<1> QED
  BY <1>10, <1>11, <1>12, <1>13

\* The credential a wiring works with, and the row that holds it from then on
LEMMA TakesUpFrame ==
  ASSUME RowsInv, PairInv, NEW k \in Callers, NEW s \in Stores, NEW kind, NEW todo, NEW read \in Reading,
         TakesUp(k, kind, s, todo, read), UNCHANGED <<asked, unchecked>>
  PROVE  \E token \in Nat :
           /\ PairLeaves
           /\ caller' = [caller EXCEPT ![k] = [at |-> "configure", kind |-> kind, todo |-> todo,
                                               read |-> read, store |-> s, token |-> token]]
           /\ minted' \in Nat /\ wired' = wired /\ token # 0
           /\ \A q \in Stores : row'[q].config = row[q].config
           /\ \A q \in Stores : q # s => row'[q].ho = row[q].ho
           /\ row'[s].ho = IF row[s].there /\ read[s].ho = 0 THEN token ELSE row[s].ho
           /\ read[s].ho # 0 => token = read[s].ho
<1> DEFINE token == IF Keeps(read[s].ho) THEN read[s].ho ELSE minted + 1
<1> USE DEF RowsInv, TypeOK
<1>1. /\ caller' = [caller EXCEPT ![k] = [at |-> "configure", kind |-> kind, todo |-> todo,
                                          read |-> read, store |-> s, token |-> token]]
      /\ minted' = (IF Keeps(read[s].ho) THEN minted ELSE token) /\ wired' = wired
      /\ row' = IF Keeps(read[s].ho) THEN row ELSE Set(s, [row[s] EXCEPT !.ho = token])
  BY DEF TakesUp
<1>2. minted \in Nat /\ read[s].ho \in Nat /\ s \in Rows /\ row[s] \in StoreRecord
  BY DEF PairInv, PairTypeOK, Reading, Rows
<1>3. token \in Nat /\ token # 0 /\ minted' \in Nat
      /\ (read[s].ho # 0 => token = read[s].ho /\ row' = row)
      /\ (read[s].ho = 0 => row' = Set(s, [row[s] EXCEPT !.ho = token]))
  BY <1>1, <1>2 DEF Keeps
<1> HIDE DEF token
<1>4. CASE read[s].ho # 0
  BY <1>1, <1>3, <1>4 DEF PairLeaves, RowsQuiet
<1>5. CASE read[s].ho = 0
  <2> DEFINE new == [row[s] EXCEPT !.ho = token]
  <2>1. /\ new \in StoreRecord /\ new.there = row[s].there /\ new.url = row[s].url /\ new.ho = token
        /\ new.uuid = row[s].uuid /\ new.release = row[s].release /\ new.tills = row[s].tills
        /\ new.config = row[s].config
    BY <1>2, <1>3 DEF StoreRecord
  <2>2. row' = Set(s, new)
    BY <1>3, <1>5
  <2> HIDE DEF new
  <2>3. /\ RowsQuiet
        /\ \A q \in Rows : row'[q] = IF q = s /\ row[s].there THEN new ELSE row[q]
    BY <1>2, <2>1, <2>2, SetIsQuiet
  <2> QED
    BY <1>1, <1>3, <1>5, <2>1, <2>3 DEF PairLeaves, Rows
<1> QED
  BY <1>4, <1>5

-----------------------------------------------------------------------------
(* Pairing: what the callers' steps keep *)

LEMMA InHandTyped ==
  ASSUME PairInv, NEW k \in Callers
  PROVE  /\ InHand(k) \subseteq Stores
         /\ \A s \in Stores : s \in InHand(k) <=> s \in caller[k].todo \/ s = caller[k].store
         /\ caller[k].at = "idle" => InHand(k) = {}
<1>1. caller[k].todo \subseteq Stores /\ caller[k].store \in Stores \cup {None}
  BY DEF PairInv, PairTypeOK, CallerRecord
<1>2. \A s \in Stores : s # None
  BY RowsAssumption DEF Rows
<1>3. caller[k].at = "idle" => caller[k].todo = {} /\ caller[k].store = None
  BY DEF PairInv, CallersSound
<1> QED
  BY <1>1, <1>2, <1>3 DEF InHand

\* Steps that leave alone the deployments, the callers and what pairing relies on in the
\* rows: an edit of a store's tills is remembered.
LEMMA OthersKeepPair ==
  ASSUME RowsInv, PairInv,
         UNCHANGED <<site, branch, offered, caller, minted, wired, crossed>>,
         edited' = edited \cup {s \in Stores : row'[s].tills # row[s].tills},
         \A s \in Stores : /\ row'[s].ho = row[s].ho /\ row'[s].config = row[s].config
                           /\ Stays(s)
  PROVE  PairInv'
<1> USE DEF PairInv
<1>1. PairTypeOK'
  BY DEF PairTypeOK
<1>2. \A k \in Callers : InHand(k)' = InHand(k)
  BY DEF InHand
<1>3. \A k \in Callers : InHand(k) \subseteq Stores /\ caller[k].todo \subseteq InHand(k)
                         /\ (caller[k].store \in Stores => caller[k].store \in InHand(k))
  BY InHandTyped DEF InHand
<1>4. \A k \in Callers : \A s \in InHand(k) : Met(s) /\ Met(s)' /\ (row'[s].there => row[s].there)
  BY <1>3 DEF CallersSound, Stays
<1>5. \A s \in wired : Met(s) /\ Met(s)' /\ (row'[s].there => row[s].there)
  BY DEF WiredHave, Stays, PairTypeOK
<1>6. CallersSound'
  BY <1>2, <1>4 DEF CallersSound
<1>7. OneHand'
  BY <1>2 DEF OneHand
<1>8. CredentialsKnown'
  BY <1>3, <1>4 DEF CredentialsKnown
<1>9. WiredHave'
  BY <1>5 DEF WiredHave, PairTypeOK
<1>10. TillsKnown'
  BY <1>2, <1>4 DEF TillsKnown
<1>11. BranchesAgree'
  <2>1. Paired'
    BY <1>5 DEF BranchesAgree, Paired, PairTypeOK
  <2>2. \A s \in Stores : row[s].config = "ok" => Met(s)
    BY DEF RowsInv, RowsKept, NoRow, Rows
  <2>3. \A s \in Stores : row'[s].there /\ row[s].config = "ok" => row[s].there
    BY <2>2 DEF Stays
  <2>4. OkIsApplied'
    BY <2>3 DEF BranchesAgree, OkIsApplied
  <2> QED
    BY <2>1, <2>4 DEF BranchesAgree
<1> QED
  BY <1>1, <1>6, <1>7, <1>8, <1>9, <1>10, <1>11

\* A caller that takes stores in hand and calls nobody yet: it has just read their rows.
LEMMA BeginsKeeps ==
  ASSUME RowsInv, PairInv, NEW k \in Callers, NEW set \in SUBSET Stores, NEW new \in CallerRecord,
         caller[k].at = "idle",
         \A s \in set : row[s].there,
         caller' = [caller EXCEPT ![k] = new],
         crossed' = crossed \cup {s \in set : \E i \in Callers : s \in InHand(i)},
         UNCHANGED <<row, site, branch, offered, minted, wired, edited>>,
         new.read = Snapshot, new.token = 0, set = new.todo \cup ({new.store} \ {None}),
         \/ new.at = "next" /\ new.kind = "wireAll" /\ new.store = None
         \/ new.at = "configure" /\ new.kind = "push" /\ new.store \in Stores /\ new.todo = {}
  PROVE  PairInv'
<1> USE DEF PairInv
<1>1. \A i \in Callers : caller'[i] = IF i = k THEN new ELSE caller[i]
  BY DEF PairTypeOK
<1>2. PairTypeOK'
  BY DEF PairTypeOK
<1>3. Snapshot \in Reading /\ \A s \in Stores : Snapshot[s].ho = row[s].ho /\ Snapshot[s].tills = row[s].tills
  BY DEF Snapshot, Reading, RowsInv, TypeOK, StoreRecord, Rows
<1>4. \A i \in Callers : InHand(i)' = IF i = k THEN set ELSE InHand(i)
  BY <1>1 DEF InHand
<1>5. /\ \A i \in Callers : InHand(i) \subseteq Stores
      /\ InHand(k) = {}
      /\ \A i \in Callers, s \in Stores : s \in InHand(i) <=> s \in caller[i].todo \/ s = caller[i].store
  BY InHandTyped
<1>6. \A s \in Stores : s # None
  BY RowsAssumption DEF Rows
<1>7. CallersSound'
  <2>1. \A s \in Stores : Met(s)' = Met(s)
    BY DEF Met
  <2>2. \A s \in set : Met(s)'
    BY DEF Met
  <2> SUFFICES ASSUME NEW i \in Callers
               PROVE  /\ caller'[i].at = "idle" => caller'[i].todo = {} /\ caller'[i].store = None
                      /\ caller'[i].at = "next" => caller'[i].kind = "wireAll" /\ caller'[i].store = None
                      /\ caller'[i].at \notin {"idle", "next"} => caller'[i].store \in Stores
                      /\ caller'[i].at \in {"register", "list"} => caller'[i].kind # "push"
                      /\ caller'[i].at # "idle" => caller'[i].read \in Reading
                      /\ caller'[i].at \notin {"idle", "next"} /\ caller'[i].kind # "push"
                           => caller'[i].token # 0
                      /\ caller'[i].store \notin caller'[i].todo
                      /\ \A s \in InHand(i)' : Met(s)'
    BY DEF CallersSound
  <2>3. CASE i = k
    BY <1>1, <1>3, <1>4, <1>6, <2>2, <2>3
  <2>4. CASE i # k
    BY <1>1, <1>4, <1>5, <2>1, <2>4 DEF CallersSound
  <2> QED
    BY <2>3, <2>4
<1>8. \A s \in set, i \in Callers : s \notin crossed' => ~(s \in InHand(i))
  BY <1>4
<1>9. OneHand'
  BY <1>4, <1>8 DEF OneHand
<1>10. CredentialsKnown'
  <2> SUFFICES ASSUME NEW s \in Stores, s \notin crossed', row[s].there, NEW i \in Callers
               PROVE  /\ s \in caller'[i].todo =>
                           /\ caller'[i].read[s].ho # 0 => caller'[i].read[s].ho = row[s].ho
                           /\ s \in wired => caller'[i].read[s].ho # 0
                      /\ s = caller'[i].store /\ caller'[i].kind # "push" =>
                           /\ caller'[i].token = row[s].ho
                           /\ caller'[i].at \in {"register", "list"} => site[s].token = caller'[i].token
    BY DEF CredentialsKnown
  <2>1. CASE i = k
    BY <1>1, <1>3, <1>6, <2>1 DEF WiredHave
  <2>2. CASE i # k
    BY <1>1, <2>2 DEF CredentialsKnown
  <2> QED
    BY <2>1, <2>2
<1>11. WiredHave'
  BY DEF WiredHave, Met
<1>12. TillsKnown'
  <2> SUFFICES ASSUME NEW s \in Stores, s \notin edited, s \notin crossed', row[s].there, NEW i \in Callers,
                      s \in InHand(i)'
               PROVE  caller'[i].read[s].tills = row[s].tills
    BY DEF TillsKnown
  <2>1. CASE i = k
    BY <1>1, <1>3, <2>1
  <2>2. CASE i # k
    BY <1>1, <1>4, <2>2 DEF TillsKnown
  <2> QED
    BY <2>1, <2>2
<1>13. BranchesAgree'
  BY DEF BranchesAgree, Paired, OkIsApplied
<1> QED
  BY <1>2, <1>7, <1>9, <1>10, <1>11, <1>12, <1>13

\* A wiring takes up a store it has, or has just taken, in hand alone: the row holds the
\* credential it works with, and a branch that is wired keeps the one it has.
LEMMA TakesUpKeeps ==
  ASSUME RowsInv, PairInv, NEW k \in Callers, NEW s \in Stores, NEW kind \in {"wire", "wireAll"},
         NEW todo \in SUBSET Stores, NEW read \in Reading,
         TakesUp(k, kind, s, todo, read), UNCHANGED <<asked, unchecked, site, branch, offered, edited>>,
         crossed \subseteq crossed', crossed' \subseteq Stores,
         s \notin todo,
         \A q \in todo \cup {s} :
           /\ Met(q)
           /\ q \notin crossed' =>
                /\ \A i \in Callers : i # k => q \notin InHand(i)
                /\ row[q].there => /\ read[q].ho # 0 => read[q].ho = row[q].ho
                                   /\ q \in wired => read[q].ho # 0
                                   /\ q \notin edited => read[q].tills = row[q].tills
  PROVE  PairLeaves /\ PairInv'
<1> USE DEF PairInv
<1>0. PICK token \in Nat :
        /\ PairLeaves
        /\ caller' = [caller EXCEPT ![k] = [at |-> "configure", kind |-> kind, todo |-> todo,
                                            read |-> read, store |-> s, token |-> token]]
        /\ minted' \in Nat /\ wired' = wired /\ token # 0
        /\ \A q \in Stores : row'[q].config = row[q].config
        /\ \A q \in Stores : q # s => row'[q].ho = row[q].ho
        /\ row'[s].ho = IF row[s].there /\ read[s].ho = 0 THEN token ELSE row[s].ho
        /\ read[s].ho # 0 => token = read[s].ho
  BY TakesUpFrame
<1> DEFINE new == [at |-> "configure", kind |-> kind, todo |-> todo, read |-> read, store |-> s,
                   token |-> token]
<1>1. /\ new \in CallerRecord /\ new.at = "configure" /\ new.kind = kind /\ new.todo = todo
      /\ new.read = read /\ new.store = s /\ new.token = token /\ kind # "push"
  BY DEF CallerRecord
<1>2. caller' = [caller EXCEPT ![k] = new]
  BY <1>0
<1> HIDE DEF new
<1>3. \A i \in Callers : caller'[i] = IF i = k THEN new ELSE caller[i]
  BY <1>2 DEF PairTypeOK
<1>4. PairTypeOK'
  BY <1>0, <1>1, <1>2 DEF PairTypeOK
<1>5. \A q \in Stores : /\ row'[q].there = row[q].there /\ row'[q].tills = row[q].tills
                        /\ Stays(q)
  <2>1. \A q \in Rows : Stays(q)
    BY <1>0, QuietKeepsRows DEF PairLeaves
  <2> QED
    BY <1>0, <2>1 DEF PairLeaves, RowsQuiet, Rows
<1>6. \A q \in Stores : q # None
  BY RowsAssumption DEF Rows
<1>7. \A i \in Callers : InHand(i)' = IF i = k THEN todo \cup {s} ELSE InHand(i)
  BY <1>1, <1>3, <1>6 DEF InHand
<1>8. /\ \A i \in Callers : InHand(i) \subseteq Stores
      /\ \A i \in Callers, q \in Stores : q \in InHand(i) <=> q \in caller[i].todo \/ q = caller[i].store
  BY InHandTyped
<1>9. /\ \A i \in Callers : \A q \in InHand(i) : Met(q)'
      /\ \A q \in todo \cup {s} : Met(q)'
      /\ \A q \in wired : Met(q)'
  BY <1>5, <1>8 DEF Stays, CallersSound, WiredHave, PairTypeOK
<1>10. CallersSound'
  <2> SUFFICES ASSUME NEW i \in Callers
               PROVE  /\ caller'[i].at = "idle" => caller'[i].todo = {} /\ caller'[i].store = None
                      /\ caller'[i].at = "next" => caller'[i].kind = "wireAll" /\ caller'[i].store = None
                      /\ caller'[i].at \notin {"idle", "next"} => caller'[i].store \in Stores
                      /\ caller'[i].at \in {"register", "list"} => caller'[i].kind # "push"
                      /\ caller'[i].at # "idle" => caller'[i].read \in Reading
                      /\ caller'[i].at \notin {"idle", "next"} /\ caller'[i].kind # "push"
                           => caller'[i].token # 0
                      /\ caller'[i].store \notin caller'[i].todo
                      /\ \A q \in InHand(i)' : Met(q)'
    BY DEF CallersSound
  <2>1. CASE i = k
    BY <1>0, <1>1, <1>3, <1>7, <1>9, <2>1
  <2>2. CASE i # k
    BY <1>3, <1>7, <1>9, <2>2 DEF CallersSound
  <2> QED
    BY <2>1, <2>2
<1>11. OneHand'
  BY <1>7 DEF OneHand
<1>12. s \notin crossed' /\ row[s].there =>
         /\ row'[s].ho = token
         /\ read[s].ho # 0 => row'[s].ho = row[s].ho
         /\ s \in wired => row'[s].ho = row[s].ho
  BY <1>0
<1>13. CredentialsKnown'
  <2> SUFFICES ASSUME NEW q \in Stores, q \notin crossed', row[q].there, NEW i \in Callers
               PROVE  /\ q \in caller'[i].todo =>
                           /\ caller'[i].read[q].ho # 0 => caller'[i].read[q].ho = row'[q].ho
                           /\ q \in wired => caller'[i].read[q].ho # 0
                      /\ q = caller'[i].store /\ caller'[i].kind # "push" =>
                           /\ caller'[i].token = row'[q].ho
                           /\ caller'[i].at \in {"register", "list"} => site[q].token = caller'[i].token
    BY <1>0, <1>5 DEF CredentialsKnown
  <2>1. CASE i = k
    BY <1>0, <1>1, <1>3, <1>12, <2>1
  <2>2. CASE i # k
    <3>1. q \in InHand(i) => q # s
      BY <2>2
    <3> QED
      BY <1>0, <1>3, <1>8, <2>2, <3>1 DEF CredentialsKnown
  <2> QED
    BY <2>1, <2>2
<1>14. \A q \in wired \ crossed' : row[q].there => row'[q].ho = row[q].ho
  BY <1>0, <1>12 DEF PairTypeOK
<1>15. WiredHave'
  BY <1>0, <1>5, <1>9, <1>14 DEF WiredHave, PairTypeOK
<1>16. TillsKnown'
  <2> SUFFICES ASSUME NEW q \in Stores, q \notin edited, q \notin crossed', row[q].there,
                      NEW i \in Callers, q \in InHand(i)'
               PROVE  caller'[i].read[q].tills = row[q].tills
    BY <1>5 DEF TillsKnown
  <2>1. CASE i = k
    BY <1>1, <1>3, <1>7, <2>1
  <2>2. CASE i # k
    BY <1>3, <1>7, <2>2 DEF TillsKnown
  <2> QED
    BY <2>1, <2>2
<1>17. BranchesAgree'
  BY <1>0, <1>5, <1>14 DEF BranchesAgree, Paired, OkIsApplied, PairTypeOK
<1> QED
  BY <1>0, <1>4, <1>10, <1>11, <1>13, <1>15, <1>16, <1>17

\* A caller ends its work or a store's wiring, skips a store, or goes on with its wiring.
LetsGo(k) ==
  \/ Finish(k)
  \/ caller[k].kind = "wireAll" /\ caller' = [caller EXCEPT ![k].at = "next", ![k].store = None, ![k].token = 0]
  \/ \E s \in caller[k].todo : caller[k].at = "next" /\ caller' = [caller EXCEPT ![k].todo = @ \ {s}]

GoesOn(k) ==
  /\ caller[k].at \in {"configure", "register"} /\ caller[k].kind # "push"
  /\ \E there \in {"register", "list"} : caller' = [caller EXCEPT ![k].at = there]

\* It has nothing more in hand than before, and knows what it knew.
CallerMoves(k) ==
  /\ caller' \in [Callers -> CallerRecord]
  /\ \A i \in Callers : i # k => caller'[i] = caller[i]
  /\ \A i \in Callers : InHand(i)' \subseteq InHand(i)
  /\ \/ caller'[k].at = "idle" /\ caller'[k].todo = {} /\ caller'[k].store = None
     \/ /\ caller'[k].at \in {"next", "register", "list"}
        /\ caller'[k].kind = caller[k].kind /\ caller[k].kind # "push"
        /\ caller'[k].read = caller[k].read /\ caller'[k].todo \subseteq caller[k].todo
        /\ caller'[k].at = "next" => caller[k].kind = "wireAll" /\ caller'[k].store = None
        /\ caller'[k].at # "next" => /\ caller'[k].store = caller[k].store
                                     /\ caller'[k].token = caller[k].token
                                     /\ caller[k].at \in {"configure", "register"}

LEMMA CallerMovesFrame ==
  ASSUME PairInv, NEW k \in Callers, caller[k].at # "idle", LetsGo(k) \/ GoesOn(k)
  PROVE  CallerMoves(k)
<1>1. caller \in [Callers -> CallerRecord] /\ caller[k] \in CallerRecord
  BY DEF PairInv, PairTypeOK
<1>2. caller[k].at = "next" => caller[k].kind = "wireAll" /\ caller[k].store = None
  BY DEF PairInv, CallersSound
<1>3. /\ NoCaller \in CallerRecord /\ NoCaller.at = "idle" /\ NoCaller.todo = {} /\ NoCaller.store = None
  BY DEF NoCaller, CallerRecord
<1>4. CASE Finish(k)
  BY <1>1, <1>3, <1>4 DEF Finish, InHand, CallerMoves
<1>5. CASE caller[k].kind = "wireAll"
             /\ caller' = [caller EXCEPT ![k].at = "next", ![k].store = None, ![k].token = 0]
  BY <1>1, <1>5 DEF InHand, CallerRecord, CallerMoves
<1>6. ASSUME NEW s \in caller[k].todo, caller[k].at = "next", caller' = [caller EXCEPT ![k].todo = @ \ {s}]
      PROVE  CallerMoves(k)
  BY <1>1, <1>2, <1>6 DEF InHand, CallerRecord, CallerMoves
<1>7. ASSUME NEW there \in {"register", "list"}, caller[k].at \in {"configure", "register"},
             caller[k].kind # "push", caller' = [caller EXCEPT ![k].at = there]
      PROVE  CallerMoves(k)
  <2>1. /\ caller' \in [Callers -> CallerRecord]
        /\ \A i \in Callers : i # k => caller'[i] = caller[i]
        /\ caller'[k] = [caller[k] EXCEPT !.at = there]
    BY <1>1, <1>7 DEF CallerRecord
  <2>2. /\ caller'[k].at = there /\ caller'[k].kind = caller[k].kind /\ caller'[k].todo = caller[k].todo
        /\ caller'[k].read = caller[k].read /\ caller'[k].store = caller[k].store
        /\ caller'[k].token = caller[k].token
    BY <1>1, <2>1 DEF CallerRecord
  <2>3. \A i \in Callers : InHand(i)' = InHand(i)
    BY <2>1, <2>2 DEF InHand
  <2> QED
    BY <1>7, <2>1, <2>2, <2>3 DEF CallerMoves
<1> QED
  BY <1>4, <1>5, <1>6, <1>7 DEF LetsGo, GoesOn

\* What a step of a caller's may do to the deployments and the rows: it touches the
\* credential of the branch it has in hand only, and none that a row has.
LEMMA CallerMovesKeeps ==
  ASSUME RowsInv, PairInv, NEW k \in Callers, caller[k].at # "idle", CallerMoves(k),
         PairLeaves, PairTypeOK', crossed' = crossed,
         \A q \in Stores : row[q].ho # 0 => row'[q].ho = row[q].ho,
         \A q \in Stores : q = caller[k].store \/ site'[q].token = site[q].token,
         caller'[k].at \in {"register", "list"} =>
           \A q \in Stores \ crossed :
             q = caller[k].store /\ row[q].there => site'[q].token = caller[k].token,
         wired \subseteq wired', wired' \subseteq wired \cup ({caller[k].store} \ {None}),
         wired' # wired => caller[k].kind # "push" /\ caller[k].at = "register",
         \A q \in edited \ edited' : q = caller[k].store /\ caller[k].kind = "push",
         BranchesAgree'
  PROVE  PairInv'
<1> USE DEF PairInv
<1>1. \A q \in Stores : /\ row'[q].there = row[q].there /\ row'[q].tills = row[q].tills
                        /\ Stays(q) /\ row[q].ho \in Nat
  <2>1. \A q \in Rows : Stays(q)
    BY QuietKeepsRows DEF PairLeaves
  <2> QED
    BY <2>1 DEF PairLeaves, RowsQuiet, Rows, RowsInv, TypeOK, StoreRecord
<1>2. \A q \in Stores : q # None
  BY RowsAssumption DEF Rows
<1>3. /\ \A i \in Callers : InHand(i) \subseteq Stores /\ InHand(i)' \subseteq InHand(i)
      /\ \A i \in Callers, q \in Stores : q \in InHand(i) <=> q \in caller[i].todo \/ q = caller[i].store
      /\ \A i \in Callers : caller[i].todo \subseteq Stores
  BY InHandTyped DEF CallerMoves, PairTypeOK, CallerRecord
<1>4. \A i \in Callers : i # k => caller'[i] = caller[i]
  BY DEF CallerMoves
<1>5. CallersSound'
  <2> SUFFICES ASSUME NEW i \in Callers
               PROVE  /\ caller'[i].at = "idle" => caller'[i].todo = {} /\ caller'[i].store = None
                      /\ caller'[i].at = "next" => caller'[i].kind = "wireAll" /\ caller'[i].store = None
                      /\ caller'[i].at \notin {"idle", "next"} => caller'[i].store \in Stores
                      /\ caller'[i].at \in {"register", "list"} => caller'[i].kind # "push"
                      /\ caller'[i].at # "idle" => caller'[i].read \in Reading
                      /\ caller'[i].at \notin {"idle", "next"} /\ caller'[i].kind # "push"
                           => caller'[i].token # 0
                      /\ caller'[i].store \notin caller'[i].todo
                      /\ \A q \in InHand(i)' : Met(q)'
    BY DEF CallersSound
  <2>1. \A q \in InHand(i)' : Met(q)'
    BY <1>1, <1>3 DEF CallersSound, Stays
  <2>2. CASE i # k
    BY <1>4, <2>1, <2>2 DEF CallersSound
  <2>3. CASE i = k /\ caller'[k].at = "idle"
    BY <2>1, <2>3 DEF CallerMoves
  <2>4. CASE i = k /\ caller'[k].at = "next"
    BY <1>2, <1>3, <2>1, <2>4 DEF CallerMoves, CallersSound
  <2>5. CASE i = k /\ caller'[k].at \in {"register", "list"}
    BY <1>3, <2>1, <2>5 DEF CallerMoves, CallersSound
  <2> QED
    BY <2>2, <2>3, <2>4, <2>5 DEF CallerMoves
<1>6. OneHand'
  BY <1>3 DEF OneHand
<1>7. CredentialsKnown'
  <2> SUFFICES ASSUME NEW q \in Stores, q \notin crossed, row[q].there, NEW i \in Callers
               PROVE  /\ q \in caller'[i].todo =>
                           /\ caller'[i].read[q].ho # 0 => caller'[i].read[q].ho = row'[q].ho
                           /\ q \in wired' => caller'[i].read[q].ho # 0
                      /\ q = caller'[i].store /\ caller'[i].kind # "push" =>
                           /\ caller'[i].token = row'[q].ho
                           /\ caller'[i].at \in {"register", "list"} => site'[q].token = caller'[i].token
    BY <1>1 DEF CredentialsKnown
  <2>1. /\ q \in caller[i].todo =>
             /\ caller[i].read[q].ho # 0 => caller[i].read[q].ho = row[q].ho
             /\ q \in wired => caller[i].read[q].ho # 0
        /\ q = caller[i].store /\ caller[i].kind # "push" =>
             /\ caller[i].token = row[q].ho
             /\ caller[i].at \in {"register", "list"} => site[q].token = caller[i].token
    BY DEF CredentialsKnown
  <2>2. q \in InHand(i) /\ q = caller[k].store => i = k
    BY <1>3 DEF OneHand
  <2>3. q \in caller[i].todo => (q \in wired' => q \in wired)
    BY <1>3, <2>2 DEF CallersSound
  <2>4. q = caller[i].store /\ caller[i].kind # "push" => row'[q].ho = row[q].ho
    BY <1>2, <2>1 DEF CallersSound
  <2>5. CASE i # k
    <3>1. q = caller[i].store => site'[q].token = site[q].token
      BY <1>3, <2>2, <2>5
    <3> QED
      BY <1>4, <2>1, <2>3, <2>4, <2>5, <3>1
  <2>6. CASE i = k
    BY <1>2, <2>1, <2>3, <2>4, <2>6 DEF CallerMoves
  <2> QED
    BY <2>5, <2>6
<1>8. WiredHave'
  <2>1. wired \subseteq Stores /\ wired' \subseteq Stores
    BY DEF PairTypeOK
  <2>2. \A q \in wired : Met(q)' /\ (q \notin crossed /\ row'[q].there => row'[q].ho # 0)
    BY <1>1, <2>1 DEF WiredHave, Stays
  <2>3. ASSUME NEW q \in wired', q \notin wired
        PROVE  Met(q)' /\ (q \notin crossed /\ row'[q].there => row'[q].ho # 0)
    <3>1. q = caller[k].store /\ caller[k].kind # "push" /\ caller[k].at = "register" /\ q \in InHand(k)
      BY <1>3, <2>1, <2>3
    <3>2. Met(q)'
      BY <1>1, <2>1, <3>1 DEF CallersSound, Stays
    <3>3. q \notin crossed /\ row[q].there => row[q].ho # 0
      BY <2>1, <3>1 DEF CallersSound, CredentialsKnown
    <3> QED
      BY <1>1, <2>1, <3>2, <3>3
  <2> QED
    BY <2>2, <2>3 DEF WiredHave
<1>9. TillsKnown'
  <2> SUFFICES ASSUME NEW q \in Stores, q \notin edited', q \notin crossed, row[q].there,
                      NEW i \in Callers, q \in InHand(i)'
               PROVE  caller'[i].read[q].tills = row[q].tills
    BY <1>1 DEF TillsKnown
  <2>1. q \in InHand(i)
    BY <1>3
  <2>2. caller'[k].at = "idle" => InHand(k)' = {}
    BY DEF CallerMoves, InHand
  <2>3. q \notin edited
    <3>1. q \in edited => i = k /\ caller[k].kind = "push"
      BY <1>3, <2>1 DEF OneHand
    <3> QED
      BY <2>2, <3>1 DEF CallerMoves
  <2>4. caller[i].read[q].tills = row[q].tills
    BY <2>1, <2>3 DEF TillsKnown
  <2> QED
    BY <1>4, <2>2, <2>4 DEF CallerMoves
<1> QED
  BY <1>5, <1>6, <1>7, <1>8, <1>9

-----------------------------------------------------------------------------
(* Pairing: the steps *)

LEMMA RowsAsTheyWere ==
  ASSUME RowsInv, UNCHANGED row, asked' = asked \/ asked' = [r \in Rows |-> Free], unchecked' = unchecked
  PROVE  PairLeaves
  BY DEF RowsInv, TypeOK, PairLeaves, RowsQuiet

\* What a caller reads as it begins
LEMMA SnapshotRead ==
  ASSUME RowsInv
  PROVE  Snapshot \in Reading /\ \A s \in Stores : Snapshot[s].ho = row[s].ho /\ Snapshot[s].tills = row[s].tills
  BY DEF Snapshot, Reading, RowsInv, TypeOK, StoreRecord, Rows

LEMMA WireNewKeeps ==
  ASSUME RowsInv, PairInv, NEW k \in Callers, NEW s \in Stores, WireNew(k, s)
  PROVE  PairLeaves /\ PairInv'
<1>1. /\ TakesUp(k, "wire", s, {}, Snapshot) /\ row[s].there /\ caller[k].at = "idle"
      /\ UNCHANGED <<asked, unchecked, site, branch, offered, edited>>
      /\ crossed' = crossed \cup {q \in {s} : \E i \in Callers : q \in InHand(i)}
  BY DEF WireNew, Begins, deployments
<1>2. crossed \subseteq crossed' /\ crossed' \subseteq Stores
  BY <1>1 DEF PairInv, PairTypeOK
<1>3. s \notin crossed' => \A i \in Callers : s \notin InHand(i)
  BY <1>1
<1>4. row[s].there /\ s \notin crossed' /\ s \in wired => row[s].ho # 0
  BY <1>2 DEF PairInv, WiredHave
<1>5. Met(s)
  BY <1>1 DEF Met
<1>6. Snapshot \in Reading /\ Snapshot[s].ho = row[s].ho /\ Snapshot[s].tills = row[s].tills
  BY SnapshotRead
<1> HIDE DEF Snapshot
<1>7. \A q \in {} \cup {s} :
           /\ Met(q)
           /\ q \notin crossed' =>
                /\ \A i \in Callers : i # k => q \notin InHand(i)
                /\ row[q].there => /\ Snapshot[q].ho # 0 => Snapshot[q].ho = row[q].ho
                                   /\ q \in wired => Snapshot[q].ho # 0
                                   /\ q \notin edited => Snapshot[q].tills = row[q].tills
  BY <1>3, <1>4, <1>5, <1>6
<1> DEFINE todo == {q \in Stores : FALSE}
           read == Snapshot
<1>8. todo = {} /\ todo \in SUBSET Stores /\ s \notin todo
  OBVIOUS
<1>9. TakesUp(k, "wire", s, todo, read)
  BY <1>1, <1>8
<1>10. read \in Reading
  BY <1>6
<1>11. ASSUME NEW q \in todo \cup {s}
       PROVE  /\ Met(q)
              /\ q \notin crossed' =>
                   /\ \A i \in Callers : i # k => q \notin InHand(i)
                   /\ row[q].there => /\ read[q].ho # 0 => read[q].ho = row[q].ho
                                      /\ q \in wired => read[q].ho # 0
                                      /\ q \notin edited => read[q].tills = row[q].tills
  BY <1>7, <1>8, <1>11
<1>12. UNCHANGED <<asked, unchecked, site, branch, offered, edited>>
  BY <1>1
<1> HIDE DEF todo, read
<1>13. PICK kind \in {"wire", "wireAll"} : kind = "wire"
  OBVIOUS
<1>14. TakesUp(k, kind, s, todo, read)
  BY <1>9, <1>13
<1> QED
  BY <1>2, <1>8, <1>10, <1>11, <1>12, <1>14, TakesUpKeeps, SMTT(60)

LEMMA BeginningsKeep ==
  ASSUME RowsInv, PairInv, NEW k \in Callers,
         (\E s \in Stores : Push(k, s)) \/ (\E c \in Companies : WireAll(k, c))
  PROVE  PairLeaves /\ PairInv'
<1>1. Snapshot \in Reading
  BY SnapshotRead
<1>2. ASSUME NEW s \in Stores, Push(k, s)
      PROVE  PairLeaves /\ PairInv'
  <2> DEFINE new == [NoCaller EXCEPT !.at = "configure", !.kind = "push", !.store = s, !.read = Snapshot]
  <2>1. /\ new \in CallerRecord /\ new.at = "configure" /\ new.kind = "push" /\ new.store = s
        /\ new.todo = {} /\ new.read = Snapshot /\ new.token = 0
    BY <1>1 DEF NoCaller, CallerRecord
  <2>2. /\ caller' = [caller EXCEPT ![k] = new] /\ row[s].there /\ caller[k].at = "idle"
        /\ crossed' = crossed \cup {q \in {s} : \E i \in Callers : q \in InHand(i)}
        /\ UNCHANGED <<row, asked, unchecked, site, branch, offered, minted, wired, edited>>
    BY <1>2 DEF Push, Begins, deployments
  <2>3. s # None
    BY RowsAssumption DEF Rows
  <2>4. {s} = new.todo \cup ({new.store} \ {None})
    BY <2>1, <2>3
  <2>5. {s} \in SUBSET Stores /\ \A q \in {s} : row[q].there
    BY <2>2
  <2> HIDE DEF new
  <2>6. PairInv'
    BY <2>1, <2>2, <2>4, <2>5, BeginsKeeps
  <2> QED
    BY <2>2, <2>6, RowsAsTheyWere
<1>3. ASSUME NEW c \in Companies, WireAll(k, c)
      PROVE  PairLeaves /\ PairInv'
  <2> DEFINE new == [NoCaller EXCEPT !.at = "next", !.kind = "wireAll", !.todo = Branches(c), !.read = Snapshot]
  <2>0. Branches(c) \in SUBSET Stores /\ \A q \in Branches(c) : row[q].there
    BY DEF Branches
  <2>1. /\ new \in CallerRecord /\ new.at = "next" /\ new.kind = "wireAll" /\ new.store = None
        /\ new.todo = Branches(c) /\ new.read = Snapshot /\ new.token = 0
    BY <1>1, <2>0 DEF NoCaller, CallerRecord
  <2>2. /\ caller' = [caller EXCEPT ![k] = new] /\ caller[k].at = "idle"
        /\ crossed' = crossed \cup {q \in Branches(c) : \E i \in Callers : q \in InHand(i)}
        /\ UNCHANGED <<row, asked, unchecked, site, branch, offered, minted, wired, edited>>
    BY <1>3 DEF WireAll, Begins, deployments
  <2>3. Branches(c) = new.todo \cup ({new.store} \ {None})
    BY <2>1
  <2> HIDE DEF new
  <2> QED
    BY <2>0, <2>1, <2>2, <2>3, BeginsKeeps, RowsAsTheyWere
<1> QED
  BY <1>2, <1>3

LEMMA NextStoreKeeps ==
  ASSUME RowsInv, PairInv, NEW k \in Callers, NextStore(k), UNCHANGED <<asked, unchecked>>
  PROVE  PairLeaves /\ PairInv'
<1>1. /\ caller[k].at = "next" /\ caller[k].kind = "wireAll"
      /\ caller[k].read \in Reading /\ caller[k].todo \subseteq Stores
      /\ UNCHANGED <<site, branch, offered, crossed, edited>>
  BY DEF NextStore, deployments, PairInv, CallersSound, PairTypeOK, CallerRecord
<1>2. CASE UNCHANGED <<row, minted, wired>> /\ LetsGo(k)
  <2>1. PairLeaves /\ CallerMoves(k)
    BY <1>1, <1>2, RowsAsTheyWere, CallerMovesFrame
  <2>2. PairTypeOK' /\ BranchesAgree'
    BY <1>1, <1>2, <2>1 DEF PairInv, PairTypeOK, CallerMoves, BranchesAgree, Paired, OkIsApplied
  <2>3. caller'[k].at \notin {"register", "list"}
    BY <1>1, <2>1 DEF CallerMoves
  <2> QED
    BY <1>1, <1>2, <2>1, <2>2, <2>3, CallerMovesKeeps
<1>3. ASSUME NEW s \in caller[k].todo,
             TakesUp(k, "wireAll", s, caller[k].todo \ {s}, caller[k].read)
      PROVE  PairLeaves /\ PairInv'
  <2> DEFINE todo == caller[k].todo \ {s}
             read == caller[k].read
  <2>1. crossed \subseteq crossed' /\ crossed' \subseteq Stores /\ s \in Stores /\ s \notin todo
        /\ todo \in SUBSET Stores /\ todo \cup {s} \subseteq InHand(k)
    BY <1>1 DEF PairInv, PairTypeOK, InHand
  <2>2. ASSUME NEW q \in todo \cup {s}
        PROVE  /\ Met(q)
               /\ q \notin crossed' =>
                    /\ \A i \in Callers : i # k => q \notin InHand(i)
                    /\ row[q].there => /\ read[q].ho # 0 => read[q].ho = row[q].ho
                                       /\ q \in wired => read[q].ho # 0
                                       /\ q \notin edited => read[q].tills = row[q].tills
    <3>1. q \in InHand(k) /\ q \in Stores /\ q \in caller[k].todo
      BY <1>1, <2>1
    <3> QED
      BY <1>1, <3>1 DEF PairInv, CallersSound, OneHand, CredentialsKnown, TillsKnown
  <2> HIDE DEF todo, read
  <2>3. TakesUp(k, "wireAll", s, todo, read) /\ read \in Reading
    BY <1>1, <1>3 DEF todo, read
  <2> QED
    BY <1>1, <2>1, <2>2, <2>3, TakesUpKeeps
<1>4. \/ UNCHANGED <<row, minted, wired>> /\ LetsGo(k)
      \/ \E s \in caller[k].todo : TakesUp(k, "wireAll", s, caller[k].todo \ {s}, caller[k].read)
  BY DEF NextStore, LetsGo
<1> QED
  BY <1>2, <1>3, <1>4

\* A store that is done lets its caller go on to the next, or end.
LEMMA StoreDoneLetsGo ==
  ASSUME NEW k \in Callers, StoreDone(k)
  PROVE  LetsGo(k)
  BY DEF StoreDone, LetsGo

\* The branch gets the credential its row has, and the tills the caller read; an ok is only
\* recorded, or left standing, for the tills of the row.
LEMMA ConfigureKeeps ==
  ASSUME RowsInv, PairInv, NEW k \in Callers, NEW arrives \in BOOLEAN, NEW heard \in BOOLEAN,
         Configure(k, arrives, heard), UNCHANGED <<asked, unchecked>>
  PROVE  PairLeaves /\ PairInv'
<1>0. PICK s : s = caller[k].store
  OBVIOUS
<1>1. /\ caller[k].at = "configure" /\ s \in Stores /\ s \in InHand(k) /\ caller[k].read \in Reading
      /\ caller[k].read[s].tills \in 0 .. MaxTills /\ caller[k].token \in Nat /\ s \in Rows
  BY <1>0, RowsAssumption
     DEF Configure, PairInv, CallersSound, PairTypeOK, CallerRecord, InHand, Reading, Rows
<1>2. /\ heard => arrives
      /\ UNCHANGED <<branch, offered, minted, wired, crossed>>
  BY DEF Configure
<1>3. /\ site' \in [Stores -> [tills: 0 .. MaxTills, token: Nat]]
      /\ \A q \in Stores : q # s \/ ~arrives => site'[q] = site[q]
      /\ arrives => /\ site'[s].tills = caller[k].read[s].tills
                    /\ site'[s].token = IF caller[k].kind = "push" THEN site[s].token ELSE caller[k].token
  BY <1>0, <1>1 DEF Configure, Configured, PairInv, PairTypeOK
<1>4. row[s].there /\ s \notin crossed =>
        /\ caller[k].kind # "push" => caller[k].token = row[s].ho
        /\ s \notin edited => caller[k].read[s].tills = row[s].tills
  BY <1>0, <1>1 DEF PairInv, CredentialsKnown, TillsKnown
<1>5. CASE caller[k].kind = "push"
  <2> DEFINE new == [row[s] EXCEPT !.config = ConfigResult(heard)]
  <2>1. /\ row' = Set(s, new)
        /\ edited' = IF heard /\ caller[k].read[s].tills = row[s].tills THEN edited \ {s} ELSE edited
        /\ Finish(k)
    BY <1>0, <1>5 DEF Configure
  <2>2. /\ new \in StoreRecord /\ new.there = row[s].there /\ new.url = row[s].url
        /\ new.ho = row[s].ho /\ new.uuid = row[s].uuid /\ new.release = row[s].release
        /\ new.tills = row[s].tills /\ new.config = IF heard THEN "ok" ELSE "failed"
    BY <1>1 DEF ConfigResult, StoreRecord, RowsInv, TypeOK
  <2> HIDE DEF new
  <2>3. /\ RowsQuiet
        /\ \A q \in Rows : row'[q] = IF q = s /\ row[s].there THEN new ELSE row[q]
    BY <1>1, <2>1, <2>2, SetIsQuiet
  <2>4. PairLeaves /\ \A q \in Stores : row'[q].ho = row[q].ho /\ row'[q].there = row[q].there
    BY <2>2, <2>3 DEF PairLeaves, Rows
  <2>5. CallerMoves(k) /\ caller'[k].at = "idle"
    <3>1. caller'[k].at = "idle"
      BY <2>1 DEF Finish, NoCaller, PairInv, PairTypeOK
    <3> QED
      BY <1>1, <2>1, <3>1, CallerMovesFrame DEF LetsGo
  <2>6. PairTypeOK'
    BY <1>2, <1>3, <2>1, <2>5 DEF PairInv, PairTypeOK, CallerMoves
  <2>7. Paired'
    BY <1>2, <1>3, <1>5, <2>4 DEF PairInv, PairTypeOK, BranchesAgree, Paired
  <2>8. OkIsApplied'
    <3> SUFFICES ASSUME NEW q \in Stores, q \notin edited', q \notin crossed, row[q].there,
                        row'[q].config = "ok"
                 PROVE  site'[q].tills = row[q].tills
      BY <1>2, <2>4 DEF OkIsApplied, PairLeaves
    <3>1. CASE q # s
      BY <1>3, <2>1, <2>3, <3>1 DEF PairInv, BranchesAgree, OkIsApplied, Rows
    <3>2. CASE q = s
      <4>1. heard /\ arrives
        BY <1>2, <2>2, <2>3, <3>2 DEF Rows
      <4> QED
        BY <1>3, <1>4, <2>1, <3>2, <4>1
    <3> QED
      BY <3>1, <3>2
  <2> QED
    BY <1>0, <1>1, <1>2, <1>3, <1>5, <2>1, <2>4, <2>5, <2>6, <2>7, <2>8, CallerMovesKeeps DEF BranchesAgree
<1>6. CASE caller[k].kind # "push"
  <2>1. /\ row' = row
        /\ edited' = IF arrives /\ caller[k].read[s].tills # row[s].tills THEN edited \cup {s} ELSE edited
        /\ IF heard THEN caller' = [caller EXCEPT ![k].at = "register"] ELSE StoreDone(k)
    BY <1>0, <1>6 DEF Configure
  <2>2. PairLeaves
    BY <2>1, RowsAsTheyWere
  <2>3. LetsGo(k) \/ GoesOn(k)
    BY <1>1, <1>6, <2>1, StoreDoneLetsGo DEF GoesOn
  <2>4. CallerMoves(k)
    BY <1>1, <2>3, CallerMovesFrame
  <2>5. caller'[k].at \in {"register", "list"} => arrives
    <3>1. StoreDone(k) => caller'[k].at \in {"next", "idle"}
      BY DEF StoreDone, Finish, NoCaller, PairInv, PairTypeOK, CallerRecord
    <3> QED
      BY <1>2, <2>1, <3>1
  <2>6. PairTypeOK'
    BY <1>1, <1>2, <1>3, <2>1, <2>4 DEF PairInv, PairTypeOK, CallerMoves
  <2>7. Paired'
    BY <1>2, <1>3, <1>4, <1>6, <2>1 DEF PairInv, PairTypeOK, BranchesAgree, Paired
  <2>8. OkIsApplied'
    BY <1>2, <1>3, <2>1 DEF PairInv, BranchesAgree, OkIsApplied
  <2> QED
    BY <1>0, <1>1, <1>2, <1>3, <1>6, <2>1, <2>2, <2>4, <2>5, <2>6, <2>7, <2>8, CallerMovesKeeps DEF BranchesAgree
<1> QED
  BY <1>5, <1>6

\* The Head Office gets the credential that the branch has taken.
LEMMA RegisterBranchKeeps ==
  ASSUME RowsInv, PairInv, NEW k \in Callers, NEW arrives \in BOOLEAN, NEW heard \in BOOLEAN,
         RegisterBranch(k, arrives, heard), UNCHANGED <<asked, unchecked>>
  PROVE  PairLeaves /\ PairInv'
<1>0. PICK s : s = caller[k].store
  OBVIOUS
<1>1. /\ caller[k].at = "register" /\ caller[k].kind # "push" /\ s \in Stores /\ s # None
      /\ caller[k].token \in Nat
  BY <1>0, RowsAssumption DEF RegisterBranch, PairInv, CallersSound, PairTypeOK, CallerRecord, Rows
<1>2. /\ heard => arrives
      /\ branch' = IF arrives THEN [branch EXCEPT ![s] = caller[k].token] ELSE branch
      /\ IF heard THEN caller' = [caller EXCEPT ![k].at = "list"] ELSE StoreDone(k)
      /\ wired' = IF heard THEN wired \cup {s} ELSE wired
      /\ UNCHANGED <<row, site, offered, minted, crossed, edited>>
  BY <1>0 DEF RegisterBranch
<1>3. row[s].there /\ s \notin crossed => caller[k].token = row[s].ho /\ site[s].token = caller[k].token
  BY <1>0, <1>1 DEF PairInv, CredentialsKnown
<1>4. LetsGo(k) \/ GoesOn(k)
  BY <1>1, <1>2, StoreDoneLetsGo DEF GoesOn
<1>5. PairLeaves /\ CallerMoves(k)
  BY <1>1, <1>2, <1>4, RowsAsTheyWere, CallerMovesFrame
<1>6. PairTypeOK'
  BY <1>1, <1>2, <1>5 DEF PairInv, PairTypeOK, CallerMoves
<1>7. Paired'
  BY <1>1, <1>2, <1>3 DEF PairInv, PairTypeOK, BranchesAgree, Paired
<1>8. OkIsApplied'
  BY <1>2 DEF PairInv, BranchesAgree, OkIsApplied
<1> QED
  BY <1>0, <1>1, <1>2, <1>3, <1>5, <1>6, <1>7, <1>8, CallerMovesKeeps DEF BranchesAgree

\* The list gives a credential to branches that have none, which no wiring has in hand as
\* one that has.
LEMMA ListKeeps ==
  ASSUME RowsInv, PairInv, NEW k \in Callers, NEW arrives \in BOOLEAN,
         ListAfterWiring(k, arrives), UNCHANGED <<asked, unchecked>>
  PROVE  PairLeaves /\ PairInv'
<1>1. /\ caller[k].at = "list" /\ StoreDone(k)
      /\ UNCHANGED <<site, branch, wired, crossed, edited>>
  BY DEF ListAfterWiring, history
<1>2. /\ PairLeaves
      /\ \A s \in Stores : /\ row[s].ho # 0 => row'[s].ho = row[s].ho
                           /\ row'[s].ho \in Nat /\ row'[s].config = row[s].config
      /\ minted' \in Nat /\ offered' \in [Stores -> Nat]
  <2> DEFINE c == row[caller[k].store].company
  <2>1. CASE HasPanel(c)
    <3>1. PICK d : d = c
      OBVIOUS
    <3>2. PushList(d, arrives)
      BY <2>1, <3>1 DEF ListAfterWiring
    <3> QED
      BY <3>2, PushListFrame
  <2>2. CASE ~HasPanel(c)
    <3>1. UNCHANGED <<row, minted, offered>>
      BY <2>2 DEF ListAfterWiring
    <3> QED
      BY <3>1, RowsAsTheyWere DEF PairInv, PairTypeOK, RowsInv, TypeOK, StoreRecord, Rows
  <2> QED
    BY <2>1, <2>2
<1>3. CallerMoves(k)
  BY <1>1, StoreDoneLetsGo, CallerMovesFrame
<1>4. PairTypeOK'
  BY <1>1, <1>2, <1>3 DEF PairInv, PairTypeOK, CallerMoves
<1>5. \A s \in Stores : row'[s].there = row[s].there /\ row'[s].tills = row[s].tills
  BY <1>2 DEF PairLeaves, RowsQuiet, Rows
<1>6. BranchesAgree'
  <2>1. \A s \in wired \ crossed : row[s].there => row[s].ho # 0 /\ s \in Stores
    BY DEF PairInv, WiredHave, PairTypeOK
  <2> QED
    BY <1>1, <1>2, <1>5, <2>1 DEF PairInv, BranchesAgree, Paired, OkIsApplied, PairTypeOK
<1>7. caller'[k].at \notin {"register", "list"}
  BY <1>1 DEF StoreDone, Finish, NoCaller, PairInv, PairTypeOK, CallerRecord
<1> QED
  BY <1>1, <1>2, <1>3, <1>4, <1>6, <1>7, CallerMovesKeeps

\* Rows may get a credential, Head Offices a list, and callers be forgotten.
LEMMA ListsAndRestartsKeep ==
  ASSUME RowsInv, PairInv, PairLeaves,
         \A s \in Stores : /\ row[s].ho # 0 => row'[s].ho = row[s].ho
                           /\ row'[s].ho \in Nat /\ row'[s].config = row[s].config,
         minted' \in Nat, offered' \in [Stores -> Nat],
         UNCHANGED <<site, wired, crossed, edited>>,
         caller' = caller \/ caller' = [k \in Callers |-> NoCaller],
         branch' \in [Stores -> Nat],
         \A s \in Stores : branch[s] # 0 => branch'[s] = branch[s]
  PROVE  PairInv'
<1> USE DEF PairInv
<1>1. \A s \in Stores : /\ row'[s].there = row[s].there /\ row'[s].tills = row[s].tills
                        /\ Stays(s)
  <2>1. \A q \in Rows : Stays(q)
    BY QuietKeepsRows DEF PairLeaves
  <2> QED
    BY <2>1 DEF PairLeaves, RowsQuiet, Rows
<1>2. /\ NoCaller \in CallerRecord /\ NoCaller.at = "idle" /\ NoCaller.todo = {} /\ NoCaller.store = None
  BY DEF NoCaller, CallerRecord
<1>3. PairTypeOK'
  BY <1>2 DEF PairTypeOK
<1>4. \A s \in Stores : s # None
  BY RowsAssumption DEF Rows
<1>5. \A k \in Callers : caller'[k] = caller[k] \/ caller'[k] = NoCaller
  OBVIOUS
<1>6. \A k \in Callers : InHand(k) \subseteq Stores /\ InHand(k)' \subseteq InHand(k)
  BY <1>2, <1>5, InHandTyped DEF InHand
<1>7. CallersSound'
  <2> SUFFICES ASSUME NEW i \in Callers
               PROVE  /\ caller'[i].at = "idle" => caller'[i].todo = {} /\ caller'[i].store = None
                      /\ caller'[i].at = "next" => caller'[i].kind = "wireAll" /\ caller'[i].store = None
                      /\ caller'[i].at \notin {"idle", "next"} => caller'[i].store \in Stores
                      /\ caller'[i].at \in {"register", "list"} => caller'[i].kind # "push"
                      /\ caller'[i].at # "idle" => caller'[i].read \in Reading
                      /\ caller'[i].at \notin {"idle", "next"} /\ caller'[i].kind # "push"
                           => caller'[i].token # 0
                      /\ caller'[i].store \notin caller'[i].todo
                      /\ \A q \in InHand(i)' : Met(q)'
    BY DEF CallersSound
  <2>1. \A q \in InHand(i)' : Met(q)'
    BY <1>1, <1>6 DEF CallersSound, Stays
  <2>2. CASE caller'[i] = NoCaller
    BY <1>2, <2>1, <2>2
  <2>3. CASE caller'[i] = caller[i]
    BY <2>1, <2>3 DEF CallersSound
  <2> QED
    BY <1>5, <2>2, <2>3
<1>8. OneHand'
  BY <1>6 DEF OneHand
<1>9. CredentialsKnown'
  <2> SUFFICES ASSUME NEW q \in Stores, q \notin crossed, row[q].there, NEW i \in Callers
               PROVE  /\ q \in caller'[i].todo =>
                           /\ caller'[i].read[q].ho # 0 => caller'[i].read[q].ho = row'[q].ho
                           /\ q \in wired => caller'[i].read[q].ho # 0
                      /\ q = caller'[i].store /\ caller'[i].kind # "push" =>
                           /\ caller'[i].token = row'[q].ho
                           /\ caller'[i].at \in {"register", "list"} => site[q].token = caller'[i].token
    BY <1>1 DEF CredentialsKnown
  <2>1. CASE caller'[i] = NoCaller
    BY <1>2, <1>4, <2>1
  <2>2. CASE caller'[i] = caller[i]
    <3>1. q = caller[i].store /\ caller[i].kind # "push" => caller[i].token # 0
      BY <1>4 DEF CallersSound
    <3> QED
      BY <2>2, <3>1 DEF CredentialsKnown
  <2> QED
    BY <1>5, <2>1, <2>2
<1>10. WiredHave'
  BY <1>1 DEF WiredHave, Stays, PairTypeOK
<1>11. TillsKnown'
  <2>1. \A k \in Callers : InHand(k)' # {} => caller'[k] = caller[k]
    BY <1>2, <1>5 DEF InHand
  <2> QED
    BY <1>1, <1>6, <2>1 DEF TillsKnown
<1>12. BranchesAgree'
  BY <1>1 DEF BranchesAgree, Paired, OkIsApplied, WiredHave, PairTypeOK
<1> QED
  BY <1>3, <1>7, <1>8, <1>9, <1>10, <1>11, <1>12

\* Every step of pairing
LEMMA PairKeeps ==
  ASSUME RowsInv, PairInv, PairNext
  PROVE  PairLeaves /\ PairInv'
<1>1. ASSUME NEW k \in Callers, CallerStep(k), UNCHANGED <<asked, unchecked, spend>>
      PROVE  PairLeaves /\ PairInv'
  BY <1>1, NextStoreKeeps, ConfigureKeeps, RegisterBranchKeeps, ListKeeps DEF CallerStep
<1>2. ASSUME NEW c \in Companies, NEW arrives \in BOOLEAN, PushStores(c, arrives)
      PROVE  PairLeaves /\ PairInv'
  <2>1. /\ PushList(c, arrives)
        /\ UNCHANGED <<site, branch, caller, wired, crossed, edited, asked, unchecked>>
    BY <1>2 DEF PushStores, history
  <2>2. /\ PairLeaves
        /\ \A s \in Stores : /\ row[s].ho # 0 => row'[s].ho = row[s].ho
                             /\ row'[s].ho \in Nat /\ row'[s].config = row[s].config
        /\ minted' \in Nat /\ offered' \in [Stores -> Nat]
    BY <2>1, PushListFrame
  <2> QED
    BY <2>1, <2>2, ListsAndRestartsKeep DEF PairInv, PairTypeOK
<1>3. \A s \in Stores : row[s].ho \in Nat
  BY DEF RowsInv, TypeOK, StoreRecord, Rows
<1>4. ASSUME NEW s \in Stores, MerchantRegisters(s)
      PROVE  PairLeaves /\ PairInv'
  <2>1. /\ branch[s] = 0 /\ branch' = [branch EXCEPT ![s] = offered[s]]
        /\ UNCHANGED <<row, site, offered, caller, minted, wired, crossed, edited, asked, unchecked>>
    BY <1>4 DEF MerchantRegisters, history
  <2>2. branch' \in [Stores -> Nat] /\ \A q \in Stores : branch[q] # 0 => branch'[q] = branch[q]
    BY <2>1 DEF PairInv, PairTypeOK
  <2> QED
    BY <1>3, <2>1, <2>2, RowsAsTheyWere, ListsAndRestartsKeep DEF PairInv, PairTypeOK
<1>5. CASE CrashPairing
  BY <1>3, <1>5, RowsAsTheyWere, ListsAndRestartsKeep DEF CrashPairing, deployments, history, PairInv, PairTypeOK
<1> QED
  BY <1>1, <1>2, <1>4, <1>5, WireNewKeeps, BeginningsKeep DEF PairNext

-----------------------------------------------------------------------------
(* Health *)

\* An occurrence is counted in the feed, and none is lost: what was explained stays so.
LEMMA RecordKeeps ==
  ASSUME HealthInv, NEW source \in Sources, NEW r \in Rows, NEW message \in Messages,
         RecordErrorEvent(source, r, message), UNCHANGED clock
  PROVE  /\ feed' \subseteq EventRecord /\ IsFiniteSet(feed')
         /\ \A e \in feed' : e.last <= clock
         /\ Explained(source, r, message, clock)'
         /\ \A other, q, m : \A at \in Nat : Explained(other, q, m, at) => Explained(other, q, m, at)'
<1> DEFINE known == Existing(source, r, message)
           later(e) == [e EXCEPT !.message = message, !.occurrences = @ + 1, !.last = clock]
           new == NewEvent(source, r, message)
<1> USE DEF HealthInv, HealthTypeOK
<1>1. /\ known \subseteq feed /\ known \subseteq EventRecord
      /\ feed' = IF known = {} THEN feed \cup {new} ELSE (feed \ known) \cup {later(e) : e \in known}
  BY DEF RecordErrorEvent, Existing
<1>2. ASSUME NEW e \in EventRecord
      PROVE  /\ later(e) \in EventRecord
             /\ later(e).fingerprint = e.fingerprint /\ later(e).source = e.source
             /\ later(e).entity = e.entity /\ later(e).last = clock
  <2>1. clock \in Nat /\ e.occurrences + 1 \in Nat
    BY DEF EventRecord
  <2>2. later(e) = [e EXCEPT !.message = message, !.occurrences = e.occurrences + 1, !.last = clock]
    BY DEF EventRecord
  <2> HIDE DEF HealthInv, HealthTypeOK
  <2> QED
    BY <2>1, <2>2 DEF EventRecord
<1>3. /\ new \in EventRecord /\ new.fingerprint = ErrorFingerprint(message) /\ new.source = source
      /\ new.entity = Entity(r) /\ new.last = clock
  <2>1. Cardinality(feed) \in Nat
    BY FS_CardinalityType
  <2>2. ErrorFingerprint(message) \in Faults
    BY DEF ErrorFingerprint, Messages
  <2> QED
    BY <2>1, <2>2 DEF NewEvent, EventRecord
<1>4. \A e \in known : e.fingerprint = ErrorFingerprint(message) /\ e.source = source /\ e.entity = Entity(r)
  BY DEF Existing
<1>5. \A e \in feed \ known : e \in feed'
  BY <1>1
<1>6. \A e \in known : later(e) \in feed'
  BY <1>1
<1>7. IsFiniteSet(feed')
  <2> DEFINE again == {later(e) : e \in known}
             f == [e \in known |-> later(e)]
  <2>1. IsFiniteSet(known) /\ IsFiniteSet(feed \ known)
    BY <1>1, FS_Subset
  <2>2. f \in Surjection(known, again)
    BY DEF Surjection
  <2>3. IsFiniteSet(again)
    BY <2>1, <2>2, FS_Surjection
  <2>4. IsFiniteSet((feed \ known) \cup again)
    BY <2>1, <2>3, FS_Union
  <2>5. IsFiniteSet(feed \cup {new})
    BY FS_AddElement
  <2> QED
    BY <1>1, <2>4, <2>5
<1> HIDE DEF known, later, new
<1>8. feed' \subseteq EventRecord /\ \A e \in feed' : e.last <= clock
  BY <1>1, <1>2, <1>3
<1>9. Explained(source, r, message, clock)'
  <2>1. CASE known = {}
    <3>1. new \in feed'
      BY <1>1, <2>1
    <3> QED
      BY <1>3, <3>1 DEF Explained, Existing
  <2>2. ASSUME NEW e \in known
        PROVE  Explained(source, r, message, clock)'
    <3>1. later(e) \in feed' /\ e \in EventRecord
      BY <1>1, <1>6
    <3> QED
      BY <1>2, <1>4, <3>1 DEF Explained, Existing
  <2> QED
    BY <2>1, <2>2
<1>10. ASSUME NEW other, NEW q, NEW m, NEW at \in Nat, Explained(other, q, m, at)
       PROVE  Explained(other, q, m, at)'
  <2>1. PICK e \in feed : /\ e.fingerprint = ErrorFingerprint(m) /\ e.source = other /\ e.entity = Entity(q)
                          /\ e.last >= at
    BY <1>10 DEF Explained, Existing
  <2>2. CASE e \notin known
    BY <1>5, <2>1, <2>2 DEF Explained, Existing
  <2>3. CASE e \in known
    <3>1. later(e) \in feed' /\ e \in EventRecord /\ e.last \in Nat /\ e.last <= clock
      BY <1>1, <1>6, <2>3 DEF EventRecord
    <3>2. /\ later(e).fingerprint = ErrorFingerprint(m) /\ later(e).source = other
          /\ later(e).entity = Entity(q) /\ later(e).last >= at
      BY <1>2, <2>1, <3>1
    <3> QED
      BY <3>1, <3>2 DEF Explained, Existing
  <2> QED
    BY <2>2, <2>3
<1> QED
  BY <1>7, <1>8, <1>9, <1>10

\* What a recorded failure f does to the feed: its event e is new, or takes the place of
\* the one there was and counts one more.
Grows(e, f) ==
  /\ suffered' = Append(suffered, f)
  /\ feed' = {d \in feed : ~Of(d, f)} \cup {e}
  /\ Of(e, f) /\ e.last = f.at /\ e.message = f.message
  /\ \/ /\ \A d \in feed : ~Of(d, f)
        /\ e.occurrences = 1 /\ e.first = f.at
     \/ \E d \in feed :
          /\ Of(d, f) /\ e.id = d.id
          /\ e.occurrences = d.occurrences + 1 /\ e.first = d.first

LEMMA RecordGrows ==
  ASSUME HealthInv, NEW source \in Sources, NEW r \in Rows, NEW message \in Messages,
         RecordErrorEvent(source, r, message)
  PROVE  \E e \in EventRecord, f \in Failure : f.at = clock /\ Grows(e, f)
<1> DEFINE f == [source |-> source, member |-> r, message |-> message, at |-> clock]
           known == Existing(source, r, message)
           later(e) == [e EXCEPT !.message = message, !.occurrences = @ + 1, !.last = clock]
           new == NewEvent(source, r, message)
<1>0. clock \in Nat /\ feed \subseteq EventRecord /\ IsFiniteSet(feed)
  BY DEF HealthInv, HealthTypeOK
<1>1. f \in Failure /\ f.at = clock /\ suffered' = Append(suffered, f)
  BY <1>0 DEF Failure, RecordErrorEvent
<1>2. known = {d \in feed : Of(d, f)}
  BY DEF Existing, Of, ErrorFingerprint
<1>3. CASE known = {}
  <2>1. feed' = feed \cup {new}
    BY <1>3 DEF RecordErrorEvent
  <2>2. /\ new \in EventRecord /\ Of(new, f) /\ new.last = clock /\ new.message = message
        /\ new.occurrences = 1 /\ new.first = clock
    <3>1. Cardinality(feed) \in Nat
      BY <1>0, FS_CardinalityType
    <3>2. ErrorFingerprint(message) \in Faults
      BY DEF ErrorFingerprint, Messages
    <3> QED
      BY <1>0, <3>1, <3>2 DEF NewEvent, EventRecord, Of, ErrorFingerprint
  <2>3. \A d \in feed : ~Of(d, f)
    BY <1>2, <1>3
  <2>4. feed' = {d \in feed : ~Of(d, f)} \cup {new}
    BY <2>1, <2>3
  <2> HIDE DEF new, known
  <2>5. f.at = clock /\ f.message = message
    OBVIOUS
  <2> HIDE DEF f
  <2>6. Grows(new, f)
    BY <1>1, <2>2, <2>3, <2>4, <2>5 DEF Grows
  <2> QED
    BY <1>1, <2>2, <2>6
<1>4. ASSUME NEW k \in known
      PROVE  \E e \in EventRecord, ff \in Failure : ff.at = clock /\ Grows(e, ff)
  <2>1. k \in feed /\ k \in EventRecord /\ Of(k, f)
    BY <1>0, <1>2
  <2>2. known = {k}
    <3>1. \A e, d \in feed :
            e.fingerprint = d.fingerprint /\ e.source = d.source /\ e.entity = d.entity => e = d
      BY DEF HealthInv, FeedInv
    <3> HIDE DEF known, f
    <3> QED
      BY <1>2, <1>4, <3>1 DEF Of
  <2>3. feed' = (feed \ known) \cup {later(e) : e \in known}
    BY <1>4 DEF RecordErrorEvent
  <2>4. feed' = {d \in feed : ~Of(d, f)} \cup {later(k)}
    <3> HIDE DEF known, later, f
    <3>1. {later(e) : e \in known} = {later(k)}
      BY <2>2
    <3>2. feed \ known = {d \in feed : ~Of(d, f)}
      BY <1>2
    <3> QED
      BY <2>3, <3>1, <3>2
  <2>5. later(k) = [k EXCEPT !.message = message, !.occurrences = k.occurrences + 1, !.last = clock]
    BY <2>1 DEF EventRecord
  <2>6. k.occurrences + 1 \in Nat
    BY <2>1 DEF EventRecord
  <2>7. /\ later(k) \in EventRecord /\ later(k).last = clock /\ later(k).message = message
        /\ later(k).id = k.id /\ later(k).occurrences = k.occurrences + 1 /\ later(k).first = k.first
        /\ later(k).fingerprint = k.fingerprint /\ later(k).source = k.source /\ later(k).entity = k.entity
    BY <1>0, <2>1, <2>5, <2>6 DEF EventRecord
  <2>8. Of(later(k), f)
    BY <2>1, <2>7 DEF Of
  <2>9. f.at = clock /\ f.message = message
    OBVIOUS
  <2> HIDE DEF f, later, known
  <2>10. Grows(later(k), f)
    BY <1>1, <2>1, <2>4, <2>7, <2>8, <2>9 DEF Grows
  <2> QED
    BY <1>1, <2>7, <2>10
<1> QED
  <2> HIDE DEF known
  <2> QED
    BY <1>3, <1>4

\* The occurrences of some events, and of one more.
LEMMA TotalAdds ==
  ASSUME NEW E \in SUBSET EventRecord, IsFiniteSet(E), NEW e \in EventRecord, e \notin E
  PROVE  Total(E) \in Nat /\ Total(E \cup {e}) = Total(E) + e.occurrences
<1> DEFINE counts(d) == {d} \X (1 .. d.occurrences)
           all(S) == UNION {counts(d) : d \in S}
<1>1. ASSUME NEW d \in EventRecord
      PROVE  IsFiniteSet(counts(d)) /\ Cardinality(counts(d)) = d.occurrences
  <2>1. d.occurrences \in Nat
    BY DEF EventRecord
  <2>2. IsFiniteSet(1 .. d.occurrences) /\ Cardinality(1 .. d.occurrences) = d.occurrences
    BY <2>1, FS_Interval
  <2>3. IsFiniteSet({d}) /\ Cardinality({d}) = 1
    BY FS_Singleton
  <2>4. IsFiniteSet(counts(d)) /\ Cardinality(counts(d)) = 1 * d.occurrences
    BY <2>2, <2>3, FS_Product
  <2> QED
    BY <2>1, <2>4
<1>2. IsFiniteSet(all(E))
  <2> DEFINE parts == {counts(d) : d \in E}
             f == [d \in E |-> counts(d)]
  <2>1. f \in Surjection(E, parts)
    BY DEF Surjection
  <2>2. IsFiniteSet(parts)
    BY <2>1, FS_Surjection
  <2>3. \A T \in parts : IsFiniteSet(T)
    BY <1>1
  <2> HIDE DEF parts
  <2> QED
    BY <2>2, <2>3, FS_UNION DEF parts
<1>3. all(E \cup {e}) = all(E) \cup counts(e)
  BY Zenon
<1>4. all(E) \cap counts(e) = {}
  OBVIOUS
<1>5. /\ Cardinality(all(E) \cap counts(e)) = 0 /\ Cardinality(all(E)) \in Nat
      /\ IsFiniteSet(counts(e)) /\ Cardinality(counts(e)) = e.occurrences /\ e.occurrences \in Nat
  <2> HIDE DEF all, counts
  <2> QED
    BY <1>1, <1>2, <1>4, FS_EmptySet, FS_CardinalityType DEF EventRecord
<1>6. Cardinality(all(E) \cup counts(e)) = Cardinality(all(E)) + e.occurrences
  <2> HIDE DEF all, counts
  <2>1. Cardinality(all(E) \cup counts(e))
          = Cardinality(all(E)) + Cardinality(counts(e)) - Cardinality(all(E) \cap counts(e))
    BY <1>2, <1>5, FS_Union
  <2> QED
    BY <1>5, <2>1
<1>7. Total(E) = Cardinality(all(E)) /\ Total(E \cup {e}) = Cardinality(all(E \cup {e}))
  BY DEF Total
<1> HIDE DEF all, counts
<1> QED
  BY <1>3, <1>5, <1>6, <1>7

\* A failure more, and the event that counts it.
LEMMA GrowsKeeps ==
  ASSUME HealthInv, NEW e \in EventRecord, NEW f \in Failure, f.at = clock, Grows(e, f), clock' = clock,
         feed' \subseteq EventRecord
  PROVE  FeedInv'
<1> DEFINE n == Len(suffered) + 1
           known == {d \in feed : Of(d, f)}
           other == {d \in feed : ~Of(d, f)}
<1>0. /\ clock \in Nat /\ feed \subseteq EventRecord /\ IsFiniteSet(feed)
      /\ suffered \in Seq(Failure) /\ FeedInv /\ InTime /\ \A d \in feed : d.last <= clock
  BY DEF HealthInv, HealthTypeOK, FeedInv, InTime
<1>1. /\ n \in Nat \ {0} /\ DOMAIN suffered = 1 .. n - 1 /\ DOMAIN suffered' = 1 .. n
      /\ suffered' \in Seq(Failure) /\ suffered'[n] = f
      /\ \A i \in 1 .. n - 1 : suffered'[i] = suffered[i] /\ suffered[i] \in Failure
  BY <1>0 DEF Grows
<1>2. feed' = other \cup {e} /\ Of(e, f) /\ e.last = clock /\ e.message = f.message
  BY DEF Grows
<1>3. known = {} \/ \E k \in feed : known = {k} /\ e.id = k.id /\ e.occurrences = k.occurrences + 1
                                   /\ e.first = k.first
  <2>1. \A a, b \in feed : Of(a, f) /\ Of(b, f) => a = b
    BY <1>0 DEF FeedInv, Of
  <2>2. CASE \A d \in feed : ~Of(d, f)
    BY <2>2
  <2>3. ASSUME NEW k \in feed, Of(k, f), e.id = k.id, e.occurrences = k.occurrences + 1, e.first = k.first
        PROVE  known = {k}
    BY <2>1, <2>3
  <2> QED
    BY <2>2, <2>3 DEF Grows
<1>4. known = {} => e.occurrences = 1 /\ e.first = clock
  BY DEF Grows
<1>5. \A a : Of(a, f) => \A g \in Failure : Of(a, g) <=> Of(e, g)
  BY <1>2 DEF Of
<1>6. InTime'
  <2>1. \A i \in 1 .. n : suffered'[i].at <= clock
    <3> TAKE i \in 1 .. n
    <3>1. CASE i = n
      BY <1>0, <1>1, <3>1
    <3>2. CASE i # n
      BY <1>0, <1>1, <3>2 DEF InTime
    <3> QED
      BY <3>1, <3>2
  <2>2. \A i, j \in 1 .. n : i <= j => suffered'[i].at <= suffered'[j].at
    <3> TAKE i, j \in 1 .. n
    <3>1. CASE j = n
      BY <1>1, <2>1, <3>1
    <3>2. CASE j # n
      BY <1>0, <1>1, <3>2 DEF InTime
    <3> QED
      BY <3>1, <3>2
  <2> QED
    BY <1>1, <2>1, <2>2 DEF InTime
<1>7. ASSUME NEW d \in feed'
      PROVE  Spans(suffered', d)
  <2>1. CASE d \in other
    <3>1. PICK i, j \in 1 .. n - 1 :
            /\ Of(d, suffered[i]) /\ Of(d, suffered[j])
            /\ d.first = suffered[i].at /\ d.last = suffered[j].at /\ d.message = suffered[j].message
            /\ \A k \in 1 .. n - 1 : Of(d, suffered[k]) => i <= k /\ k <= j
      BY <1>0, <1>1, <2>1 DEF FeedInv, Spans
    <3>2. \A k \in 1 .. n : Of(d, suffered'[k]) => k # n /\ Of(d, suffered[k])
      BY <1>1, <2>1
    <3>3. \A k \in 1 .. n : Of(d, suffered'[k]) => i <= k /\ k <= j
      BY <1>1, <3>1, <3>2
    <3>4. i \in 1 .. n /\ j \in 1 .. n /\ suffered'[i] = suffered[i] /\ suffered'[j] = suffered[j]
      BY <1>1
    <3> QED
      BY <1>1, <3>1, <3>3, <3>4 DEF Spans
  <2>2. CASE d = e /\ known = {}
    <3>1. \A k \in 1 .. n - 1 : ~Of(e, suffered[k])
      <4>1. ASSUME NEW k \in 1 .. n - 1, Of(e, suffered[k])
            PROVE  FALSE
        <5>1. PICK a \in feed : Of(a, suffered[k])
          BY <1>0, <1>1 DEF FeedInv
        <5>2. Of(a, f)
          BY <1>2, <4>1, <5>1 DEF Of
        <5> QED
          BY <2>2, <5>2
      <4> QED
        BY <4>1
    <3>2. \A k \in 1 .. n : Of(e, suffered'[k]) => k = n
      BY <1>1, <3>1
    <3>3. n \in 1 .. n /\ e.first = f.at
      BY <1>1, <1>4, <2>2
    <3> QED
      BY <1>1, <1>2, <2>2, <3>2, <3>3 DEF Spans
  <2>3. ASSUME NEW k \in feed, Of(k, f), e.first = k.first, d = e
        PROVE  Spans(suffered', d)
    <3>1. PICK i, j \in 1 .. n - 1 :
            /\ Of(k, suffered[i]) /\ k.first = suffered[i].at
            /\ \A l \in 1 .. n - 1 : Of(k, suffered[l]) => i <= l
      BY <1>0, <1>1 DEF FeedInv, Spans
    <3>2. Of(e, suffered[i]) /\ \A l \in 1 .. n - 1 : Of(e, suffered[l]) => i <= l
      BY <1>1, <1>5, <2>3, <3>1
    <3>3. \A l \in 1 .. n : Of(e, suffered'[l]) => i <= l /\ l <= n
      BY <1>1, <3>2
    <3>4. i \in 1 .. n /\ n \in 1 .. n /\ suffered'[i] = suffered[i] /\ e.last = f.at
      BY <1>1, <1>2
    <3> QED
      BY <1>1, <1>2, <2>3, <3>1, <3>2, <3>3, <3>4 DEF Spans
  <2> QED
    BY <1>2, <1>3, <2>1, <2>2, <2>3
<1>8. \A i \in DOMAIN suffered' : \E d \in feed' : Of(d, suffered'[i])
  <2> TAKE i \in DOMAIN suffered'
  <2>1. CASE i = n
    BY <1>1, <1>2, <2>1
  <2>2. CASE i # n
    <3>1. i \in 1 .. n - 1 /\ suffered'[i] = suffered[i] /\ suffered[i] \in Failure
      BY <1>1, <2>2
    <3>2. PICK d \in feed : Of(d, suffered[i])
      BY <1>0, <1>1, <3>1 DEF FeedInv
    <3>3. Of(d, f) => Of(e, suffered[i])
      BY <1>5, <3>1, <3>2
    <3> QED
      BY <1>2, <3>1, <3>2, <3>3
  <2> QED
    BY <2>1, <2>2
<1>9. \A c, d \in feed' :
        c.fingerprint = d.fingerprint /\ c.source = d.source /\ c.entity = d.entity => c = d
  BY <1>0, <1>2 DEF FeedInv, Of
<1>10. ASSUME NEW g \in Faults
       PROVE  /\ (Total(EventsOf(g)) = Cardinality(Occurred(g)))'
              /\ (EventsOf(g) # {} => HasNewest(EventsOf(g)))'
  <2> DEFINE rest == {d \in other : d.fingerprint = g}
  <2>0. /\ Total(EventsOf(g)) = Cardinality(Occurred(g))
        /\ EventsOf(g) # {} => HasNewest(EventsOf(g))
    BY <1>0 DEF FeedInv
  <2>1. f.message.fault = e.fingerprint
    BY <1>2 DEF Of
  <2>2. IsFiniteSet(Occurred(g)) /\ Cardinality(Occurred(g)) \in Nat /\ Occurred(g) \subseteq 1 .. n - 1
    <3>1. Occurred(g) \subseteq 1 .. n - 1
      BY <1>1 DEF Occurred
    <3>2. IsFiniteSet(1 .. n - 1)
      BY <1>1, FS_Interval
    <3> QED
      BY <3>1, <3>2, FS_Subset, FS_CardinalityType
  <2>3. CASE g # e.fingerprint
    <3>1. EventsOf(g)' = EventsOf(g)
      BY <1>2, <2>3 DEF EventsOf, Of
    <3>2. Occurred(g)' = Occurred(g)
      BY <1>1, <2>1, <2>3 DEF Occurred
    <3> QED
      BY <2>0, <3>1, <3>2 DEF Total, HasNewest
  <2>4. CASE g = e.fingerprint
    <3>1. EventsOf(g)' = rest \cup {e} /\ EventsOf(g) = rest \cup known
      BY <1>2, <2>1, <2>4 DEF EventsOf, Of
    <3>2. Occurred(g)' = Occurred(g) \cup {n} /\ n \notin Occurred(g)
      BY <1>1, <2>1, <2>4 DEF Occurred
    <3>3. Cardinality(Occurred(g) \cup {n}) = Cardinality(Occurred(g)) + 1
      BY <2>2, <3>2, FS_AddElement
    <3>4. rest \subseteq EventRecord /\ IsFiniteSet(rest) /\ e \notin rest
      <4>1. rest \in SUBSET feed
        OBVIOUS
      <4> QED
        BY <1>0, <1>2, <4>1, FS_Subset
    <3>5. Total(rest) \in Nat /\ Total(rest \cup {e}) = Total(rest) + e.occurrences
      <4> HIDE DEF rest
      <4> QED
        BY <3>4, TotalAdds
    <3>6. Total(rest \cup {e}) = Cardinality(Occurred(g)) + 1
      <4>1. CASE known = {}
        <5>1. Total(rest) = Cardinality(Occurred(g))
          BY <2>0, <3>1, <4>1
        <5> QED
          BY <1>4, <3>5, <4>1, <5>1
      <4>2. ASSUME NEW k \in feed, known = {k}, e.occurrences = k.occurrences + 1
            PROVE  Total(rest \cup {e}) = Cardinality(Occurred(g)) + 1
        <5>1. k \notin rest /\ k \in EventRecord
          BY <1>0, <4>2
        <5>2. Total(rest \cup {k}) = Total(rest) + k.occurrences
          <6> HIDE DEF rest
          <6> QED
            BY <3>4, <5>1, TotalAdds
        <5>3. Total(rest \cup {k}) = Cardinality(Occurred(g))
          BY <2>0, <3>1, <4>2
        <5>4. k.occurrences \in Nat
          BY <5>1 DEF EventRecord
        <5> HIDE DEF rest
        <5> QED
          BY <2>2, <3>5, <4>2, <5>2, <5>3, <5>4
      <4> QED
        BY <1>3, <4>1, <4>2
    <3>7. HasNewest(rest \cup {e})
      <4>1. \A d \in rest : d.last <= e.last /\ d.last \in Nat /\ d.id \in Nat
        BY <1>0, <1>2, <3>4 DEF EventRecord
      <4>2. e.last \in Nat /\ e.id \in Nat
        BY DEF EventRecord
      <4>3. CASE known = {}
        <5>1. CASE rest = {}
          BY <5>1, <4>2 DEF HasNewest
        <5>2. CASE rest # {}
          <6>1. PICK m \in rest : \A d \in rest : d.last < m.last \/ (d.last = m.last /\ d.id <= m.id)
            BY <2>0, <3>1, <4>3, <5>2 DEF HasNewest
          <6> HIDE DEF rest
          <6>2. CASE m.last = e.last /\ e.id <= m.id
            <7>1. \A d \in rest \cup {e} : d.last < m.last \/ (d.last = m.last /\ d.id <= m.id)
              BY <6>1, <6>2
            <7> QED
              BY <7>1 DEF HasNewest
          <6>3. CASE ~(m.last = e.last /\ e.id <= m.id)
            <7>1. \A d \in rest \cup {e} : d.last < e.last \/ (d.last = e.last /\ d.id <= e.id)
              BY <4>1, <4>2, <6>1, <6>3
            <7> QED
              BY <7>1 DEF HasNewest
          <6> QED
            BY <6>2, <6>3
        <5> QED
          BY <5>1, <5>2
      <4>4. ASSUME NEW k \in feed, known = {k}, e.id = k.id
            PROVE  HasNewest(rest \cup {e})
        <5>1. PICK m \in rest \cup {k} :
                \A d \in rest \cup {k} : d.last < m.last \/ (d.last = m.last /\ d.id <= m.id)
          BY <2>0, <3>1, <4>4 DEF HasNewest
        <5>2. k.last \in Nat /\ k.last <= e.last
          BY <1>0, <1>2 DEF EventRecord
        <5> HIDE DEF rest
        <5>3. CASE m \in rest /\ m.last = e.last /\ e.id <= m.id
          <6>1. \A d \in rest \cup {e} : d.last < m.last \/ (d.last = m.last /\ d.id <= m.id)
            BY <5>1, <5>3
          <6> QED
            BY <5>3, <6>1 DEF HasNewest
        <5>4. CASE ~(m \in rest /\ m.last = e.last /\ e.id <= m.id)
          <6>1. \A d \in rest \cup {e} : d.last < e.last \/ (d.last = e.last /\ d.id <= e.id)
            BY <4>1, <4>2, <4>4, <5>1, <5>2, <5>4
          <6> QED
            BY <6>1 DEF HasNewest
        <5> QED
          BY <5>3, <5>4
      <4> QED
        BY <1>3, <4>3, <4>4
    <3>8. (Total(EventsOf(g)))' = Total(rest \cup {e}) /\ HasNewest(EventsOf(g))' <=> HasNewest(rest \cup {e})
      BY <3>1 DEF Total, HasNewest
    <3>9. (Cardinality(Occurred(g)))' = Cardinality(Occurred(g)) + 1
      BY <3>2, <3>3
    <3> HIDE DEF rest
    <3> QED
      BY <3>6, <3>7, <3>8, <3>9
  <2> QED
    BY <2>3, <2>4
<1> QED
  BY <1>6, <1>7, <1>8, <1>9, <1>10 DEF FeedInv

LEMMA FeedStays ==
  ASSUME HealthInv, UNCHANGED <<feed, suffered>>, clock' \in Nat, clock' >= clock
  PROVE  FeedInv'
<1>1. FeedInv /\ clock \in Nat /\ suffered \in Seq(Failure)
  BY DEF HealthInv, HealthTypeOK, FeedInv, InTime
<1>2. \A i \in DOMAIN suffered : suffered[i].at \in Nat
  <2>1. \A i \in DOMAIN suffered : suffered[i] \in Failure
    BY <1>1
  <2> QED
    BY <2>1 DEF Failure
<1>3. InTime'
  BY <1>1, <1>2 DEF FeedInv, InTime
<1>5. \A f \in Faults : EventsOf(f)' = EventsOf(f) /\ Occurred(f)' = Occurred(f)
  BY DEF EventsOf, Occurred
<1>6. \A f \in Faults : (Total(EventsOf(f)) = Cardinality(Occurred(f)))'
                        /\ (EventsOf(f) # {} => HasNewest(EventsOf(f)))'
  BY <1>1, <1>5 DEF FeedInv, Total, HasNewest
<1> QED
  BY <1>1, <1>3, <1>6 DEF FeedInv

\* A step that records at most one failure, and shows a deployment as failing only with it
Shows(r, source, message) ==
  /\ RecordErrorEvent(source, r, message) /\ message \in Messages /\ source \in Sources
  /\ \/ seen' = seen
     \/ /\ source = "health"
        /\ seen' = [seen EXCEPT ![r].health = "down", ![r].healthAt = clock, ![r].error = message]
     \/ /\ source = "licence"
        /\ seen' = [seen EXCEPT ![r].licence = "failed", ![r].licenceAt = clock, ![r].licenceError = message]

ShowsNothing(r) ==
  /\ NoErrorEvent
  /\ \/ seen' = seen
     \/ seen' = [seen EXCEPT ![r].health = "up", ![r].healthAt = clock, ![r].error = None]
     \/ seen' = [seen EXCEPT ![r].licence = "ok", ![r].licenceAt = clock]

LEMMA ShowsKeeps ==
  ASSUME HealthInv, NEW r \in Rows, NEW source, NEW message, Shows(r, source, message),
         clock' = clock, check' \in [Checks -> CheckRecord],
         \A k \in Checks : check'[k].at \in {"probe", "deliver"} => check'[k].member \in Rows
  PROVE  HealthInv'
<1>1. /\ feed' \subseteq EventRecord /\ IsFiniteSet(feed')
      /\ \A e \in feed' : e.last <= clock
      /\ Explained(source, r, message, clock)'
      /\ \A other, q, m : \A at \in Nat : Explained(other, q, m, at) => Explained(other, q, m, at)'
  BY RecordKeeps DEF Shows
<1>2. /\ clock \in Nat /\ message \in Messages
      /\ seen \in [Rows -> [health: {"unknown", "up", "down"}, healthAt: Nat, error: Messages \cup {None},
                            licence: {"pending", "ok", "failed"}, licenceAt: Nat,
                            licenceError: Messages \cup {None}]]
  BY DEF HealthInv, HealthTypeOK, Shows
<1>3. HealthTypeOK'
  BY <1>1, <1>2 DEF HealthTypeOK, Shows
<1>4. ASSUME NEW q \in Rows
      PROVE  /\ (seen[q].health = "down" => Explained("health", q, seen[q].error, seen[q].healthAt))'
             /\ (seen[q].licence = "failed" => Explained("licence", q, seen[q].licenceError, seen[q].licenceAt))'
  <2>0. PICK h, l, at, when : h = seen[q].error /\ l = seen[q].licenceError /\ at = seen[q].healthAt
                              /\ when = seen[q].licenceAt
    OBVIOUS
  <2>1. /\ seen[q].health = "down" => Explained("health", q, h, at)'
        /\ seen[q].licence = "failed" => Explained("licence", q, l, when)'
    BY <1>1, <1>2, <2>0 DEF HealthInv
  <2>2. /\ \/ /\ seen'[q].health = seen[q].health /\ seen'[q].error = h /\ seen'[q].healthAt = at
           \/ q = r /\ source = "health" /\ seen'[q].error = message /\ seen'[q].healthAt = clock
        /\ \/ /\ seen'[q].licence = seen[q].licence /\ seen'[q].licenceError = l /\ seen'[q].licenceAt = when
           \/ q = r /\ source = "licence" /\ seen'[q].licenceError = message /\ seen'[q].licenceAt = clock
    BY <1>2, <2>0 DEF Shows
  <2> QED
    BY <1>1, <2>1, <2>2 DEF Explained, Existing
<1>5. \A e \in feed' : e.last <= clock'
  BY <1>1
<1>6. FeedInv'
  <2>1. PICK e \in EventRecord, f \in Failure : f.at = clock /\ Grows(e, f)
    BY RecordGrows DEF Shows
  <2> QED
    BY <1>1, <2>1, GrowsKeeps
<1> QED
  BY <1>3, <1>4, <1>5, <1>6 DEF HealthInv

LEMMA ShowsNothingKeeps ==
  ASSUME HealthInv, NEW r, ShowsNothing(r),
         clock' \in Nat, clock' >= clock,
         check' \in [Checks -> CheckRecord],
         \A k \in Checks : check'[k].at \in {"probe", "deliver"} => check'[k].member \in Rows
  PROVE  HealthInv'
<1>0. FeedInv'
  BY FeedStays DEF ShowsNothing, NoErrorEvent
<1> USE DEF HealthInv, HealthTypeOK, ShowsNothing, NoErrorEvent
<1>1. HealthTypeOK'
  OBVIOUS
<1>2. \A e \in feed' : e.last <= clock'
  BY DEF EventRecord
<1>3. \A q \in Rows :
        /\ seen'[q].health = "down" =>
             seen[q].health = "down" /\ seen'[q].error = seen[q].error /\ seen'[q].healthAt = seen[q].healthAt
        /\ seen'[q].licence = "failed" =>
             /\ seen[q].licence = "failed" /\ seen'[q].licenceError = seen[q].licenceError
             /\ seen'[q].licenceAt = seen[q].licenceAt
  OBVIOUS
<1> QED
  BY <1>0, <1>1, <1>2, <1>3 DEF Explained, Existing

\* Every step of the sweeps and the checks
LEMMA HealthKeeps ==
  ASSUME HealthInv, HealthNext
  PROVE  HealthInv'
<1> DEFINE CheckOK == /\ check' \in [Checks -> CheckRecord]
                      /\ \A k \in Checks : check'[k].at \in {"probe", "deliver"} => check'[k].member \in Rows
<1>0. /\ clock \in Nat
      /\ check \in [Checks -> CheckRecord]
      /\ \A k \in Checks : check[k].at \in {"probe", "deliver"} => check[k].member \in Rows
  BY DEF HealthInv, HealthTypeOK
<1>1. ASSUME NEW k \in Checks, MemberDone(k)
      PROVE  CheckOK
  <2>1. [check[k] EXCEPT !.at = "next", !.member = None] \in CheckRecord
    BY <1>0 DEF CheckRecord
  <2>2. check' = [check EXCEPT ![k] = [check[k] EXCEPT !.at = "next", !.member = None]]
    BY <1>1 DEF MemberDone
  <2>3. [check[k] EXCEPT !.at = "next", !.member = None].at = "next"
    BY <1>0 DEF CheckRecord
  <2> QED
    BY <1>0, <2>1, <2>2, <2>3
<1>2. ASSUME NEW k \in Checks, RunHealthSweep(k) \/ (\E r \in Rows : CheckHealth(k, r)) \/ NextMember(k)
      PROVE  HealthInv'
  <2>1. ShowsNothing(None) /\ clock' = clock
    BY <1>2 DEF RunHealthSweep, CheckHealth, NextMember, ShowsNothing, NoErrorEvent
  <2>2. ASSUME NEW new \in CheckRecord, new.at = "next", check' = [check EXCEPT ![k] = new]
        PROVE  CheckOK
    BY <1>0, <2>2
  <2>3. ASSUME RunHealthSweep(k)
        PROVE  CheckOK
    <3> DEFINE todo == {r \in Rows : row[r].there /\ row[r].status = "active"}
               new == [NoCheck EXCEPT !.at = "next", !.todo = todo]
    <3>1. new \in CheckRecord /\ new.at = "next"
      BY DEF NoCheck, CheckRecord
    <3>2. check' = [check EXCEPT ![k] = new]
      BY <2>3 DEF RunHealthSweep
    <3> HIDE DEF new
    <3> QED
      BY <2>2, <3>1, <3>2
  <2>4. ASSUME NEW r \in Rows, CheckHealth(k, r)
        PROVE  CheckOK
    <3> DEFINE new == [NoCheck EXCEPT !.at = "next", !.todo = {r}, !.always = TRUE]
    <3>1. new \in CheckRecord /\ new.at = "next"
      BY DEF NoCheck, CheckRecord
    <3>2. check' = [check EXCEPT ![k] = new]
      BY <2>4 DEF CheckHealth
    <3> HIDE DEF new
    <3> QED
      BY <2>2, <3>1, <3>2
  <2>5. ASSUME check' = [check EXCEPT ![k] = NoCheck]
        PROVE  CheckOK
    <3>1. NoCheck \in CheckRecord /\ NoCheck.at = "idle"
      BY DEF NoCheck, CheckRecord
    <3> QED
      BY <1>0, <2>5, <3>1
  <2>6. ASSUME NEW r \in check[k].todo,
               check' = [check EXCEPT ![k].at = "probe", ![k].todo = @ \ {r}, ![k].member = r]
        PROVE  CheckOK
    <3> DEFINE new == [check[k] EXCEPT !.at = "probe", !.todo = @ \ {r}, !.member = r]
    <3>1. new \in CheckRecord /\ new.member \in Rows
      BY <1>0 DEF CheckRecord
    <3>2. check' = [check EXCEPT ![k] = new]
      BY <2>6
    <3> HIDE DEF new
    <3> QED
      BY <1>0, <3>1, <3>2
  <2>7. CheckOK
    BY <1>2, <2>3, <2>4, <2>5, <2>6 DEF NextMember
  <2> QED
    BY <1>0, <2>1, <2>7, ShowsNothingKeeps
<1>3. ASSUME NEW k \in Checks, NEW needed \in BOOLEAN, AnswersProbe(k, needed)
      PROVE  HealthInv'
  <2>0. check' = [check EXCEPT ![k].at = "deliver"] => CheckOK
    <3>1. [check[k] EXCEPT !.at = "deliver"] \in CheckRecord /\ [check[k] EXCEPT !.at = "deliver"].member \in Rows
      BY <1>0, <1>3 DEF AnswersProbe, CheckRecord
    <3> QED
      BY <1>0, <3>1
  <2>1. CheckOK
    BY <1>1, <1>3, <2>0 DEF AnswersProbe
  <2>2. PICK r : r = check[k].member
    OBVIOUS
  <2>3. ShowsNothing(r) /\ clock' = clock
    BY <1>3, <2>2 DEF AnswersProbe, RecordUp, ShowsNothing
  <2> QED
    BY <1>0, <2>1, <2>3, ShowsNothingKeeps
<1>4. ASSUME NEW k \in Checks, TakesLicence(k)
      PROVE  HealthInv'
  <2>1. CheckOK
    BY <1>1, <1>4 DEF TakesLicence
  <2>2. PICK r : r = check[k].member
    OBVIOUS
  <2>3. ShowsNothing(r) /\ clock' = clock
    BY <1>4, <2>2 DEF TakesLicence, RecordDelivered, ShowsNothing
  <2> QED
    BY <1>0, <2>1, <2>3, ShowsNothingKeeps
<1>5. ASSUME NEW k \in Checks, NEW message \in Messages, FailsProbe(k, message)
      PROVE  HealthInv'
  <2>1. CheckOK
    BY <1>1, <1>5 DEF FailsProbe
  <2>2. PICK r \in Rows : r = check[k].member
    BY <1>0, <1>5 DEF FailsProbe
  <2>3. clock' = clock /\ (ShowsNothing(r) \/ Shows(r, "health", message))
    BY <1>5, <2>2 DEF FailsProbe, RecordDown, Shows, ShowsNothing, Sources
  <2> QED
    BY <1>0, <2>1, <2>3, ShowsKeeps, ShowsNothingKeeps
<1>6. ASSUME NEW k \in Checks, NEW message \in Messages, RefusesLicence(k, message)
      PROVE  HealthInv'
  <2>1. CheckOK
    BY <1>1, <1>6 DEF RefusesLicence
  <2>2. PICK r \in Rows : r = check[k].member
    BY <1>0, <1>6 DEF RefusesLicence
  <2>3. clock' = clock /\ (ShowsNothing(r) \/ Shows(r, "licence", message))
    BY <1>6, <2>2 DEF RefusesLicence, RecordUndelivered, Shows, ShowsNothing, Sources
  <2> QED
    BY <1>0, <2>1, <2>3, ShowsKeeps, ShowsNothingKeeps
<1>7. ASSUME NEW source \in {"config", "deploy"}, NEW r \in Rows, NEW message \in Messages,
             Report(source, r, message)
      PROVE  HealthInv'
  <2>1. CheckOK /\ clock' = clock /\ Shows(r, source, message)
    BY <1>0, <1>7 DEF Report, Shows, Sources
  <2> QED
    BY <2>1, ShowsKeeps
<1>8. CASE Second
  <2>1. CheckOK /\ clock' = clock + 1 /\ ShowsNothing(None)
    BY <1>0, <1>8 DEF Second, ShowsNothing, NoErrorEvent
  <2> QED
    BY <1>0, <2>1, ShowsNothingKeeps
<1> QED
  BY <1>2, <1>3, <1>4, <1>5, <1>6, <1>7, <1>8 DEF HealthNext, CheckStep

-----------------------------------------------------------------------------
(* All together *)

LEMMA InitIInv == StoresInit => IInv
<1> SUFFICES ASSUME StoresInit PROVE IInv
  OBVIOUS
<1>1. PICK start \in Starts : RowsInit(start.rows, start.budget)
  BY DEF StoresInit
<1>2. /\ row = start.rows /\ row \in [Rows -> StoreRecord]
      /\ \A r \in Rows : row[r] = NoRow \/ JustCreated(r, row[r])
      /\ \A q, r \in Rows : q # r /\ ManagedKind(q) = ManagedKind(r) /\ row[q].there /\ row[r].there
                              => row[q].url # row[r].url
      /\ asked = [r \in Rows |-> Free] /\ unchecked = {}
  BY <1>1, StartsAssumption DEF RowsInit
<1>3. Free \in [op: {"none", "create", "edit"}, url: Urls \cup {None}, company: Companies \cup {None}]
      /\ Free.op = "none"
  BY DEF Free
<1>4. /\ ~NoRow.there /\ NoRow.config = "pending" /\ NoRow.uuid = 0 /\ NoRow.release = "idle"
      /\ NoRow.ho = 0
  BY DEF NoRow
<1>5. \A r \in Rows : JustCreated(r, row[r]) =>
        /\ row[r].there /\ row[r].config = "pending" /\ row[r].uuid = 0
        /\ row[r].release = "idle" /\ row[r].ho = 0
  BY DEF JustCreated, NoRow
<1>6. \A r \in Rows : /\ row[r].config = "pending" /\ row[r].uuid = 0 /\ row[r].release = "idle"
                      /\ row[r].there \/ row[r] = NoRow
  BY <1>2, <1>4, <1>5
<1>7. RowsInv
  BY <1>2, <1>3, <1>6 DEF RowsInv, TypeOK, OneRowPerDeployment, RowsKept, Met
<1>8. ProvInv
  <2>1. /\ app = [a \in Apps |-> NoApp] /\ registered = {} /\ job = [j \in Jobs |-> NoJob] /\ poll = {}
        /\ stray = [s \in Stores |-> 0] /\ overlapped = {}
    BY DEF StoresInit, ProvInit
  <2>2. NoApp \in AppRecord /\ NoJob \in JobRecord /\ NoApp.store = None
        /\ NoJob.at = "idle" /\ NoJob.path = "none" /\ NoJob.uuid = 0
    BY DEF NoApp, NoJob, AppRecord, JobRecord, Steps
  <2>3. ProvTypeOK
    BY <2>1, <2>2 DEF ProvTypeOK
  <2>4. JobsSound
    BY <2>1, <2>2 DEF JobsSound, JobSound
  <2>5. AppsProved
    BY <2>1, <2>2 DEF AppsProved, RegisteredProved, OwnApps, JobProved
  <2>6. RowsApps /\ HealthyStores
    BY <1>6 DEF RowsApps, HealthyStores, Rows
  <2>7. OneMaker
    BY <2>1, <2>2 DEF OneMaker, Making
  <2>8. MadeCounted
    <3> SUFFICES ASSUME NEW s \in Stores
                 PROVE  /\ IsFiniteSet(Made(s))
                        /\ Cardinality(Made(s)) <= stray[s] + (IF Accounted(s) THEN 1 ELSE 0)
      BY DEF MadeCounted
    <3>1. Made(s) = {}
      BY <2>1, <2>2, RowsAssumption DEF Made, Rows
    <3> QED
      BY <2>1, <3>1, FS_EmptySet
  <2> QED
    BY <2>3, <2>4, <2>5, <2>6, <2>7, <2>8 DEF ProvInv
<1>9. AdminInv
  BY DEF StoresInit, ProvInit, AdminInv, AdminTold
<1>10. PairInv
  <2>1. /\ site = [s \in Stores |-> NoSite] /\ branch = [s \in Stores |-> 0]
        /\ offered = [s \in Stores |-> 0] /\ caller = [k \in Callers |-> NoCaller]
        /\ minted = 0 /\ wired = {} /\ crossed = {} /\ edited = {}
    BY DEF StoresInit, PairInit
  <2>2. /\ NoCaller \in CallerRecord /\ NoCaller.at = "idle" /\ NoCaller.todo = {}
        /\ NoCaller.store = None
    BY DEF NoCaller, CallerRecord
  <2>3. PairTypeOK
    BY <2>1, <2>2, RowsAssumption DEF PairTypeOK, NoSite
  <2>4. \A k \in Callers : InHand(k) = {}
    BY <2>1, <2>2 DEF InHand
  <2>5. \A s \in Stores : s # None
    BY RowsAssumption DEF Rows
  <2>6. CallersSound /\ OneHand /\ WiredHave /\ TillsKnown
    BY <2>1, <2>2, <2>4 DEF CallersSound, OneHand, WiredHave, TillsKnown
  <2>7. CredentialsKnown
    BY <2>1, <2>2, <2>5 DEF CredentialsKnown
  <2>8. BranchesAgree
    BY <1>6, <2>1 DEF BranchesAgree, Paired, OkIsApplied, Rows
  <2> QED
    BY <2>3, <2>6, <2>7, <2>8 DEF PairInv
<1>11. HealthInv
  <2>1. /\ clock = 1 /\ seen = [r \in Rows |-> Unseen] /\ check = [k \in Checks |-> NoCheck]
        /\ feed = {} /\ suffered = <<>>
    BY DEF StoresInit, HealthInit
  <2>2. NoCheck \in CheckRecord /\ NoCheck.at = "idle"
    BY DEF NoCheck, CheckRecord
  <2>3. IsFiniteSet(feed)
    BY <2>1, FS_EmptySet
  <2>4. FeedInv
    <3>1. \A f \in Faults : EventsOf(f) = {} /\ Occurred(f) = {}
      BY <2>1 DEF EventsOf, Occurred
    <3>2. Total({}) = Cardinality({})
      BY DEF Total
    <3>3. InTime
      BY <2>1 DEF InTime
    <3>4. \A f \in Faults : /\ Total(EventsOf(f)) = Cardinality(Occurred(f))
                            /\ EventsOf(f) # {} => HasNewest(EventsOf(f))
      BY <3>1, <3>2, Zenon
    <3>5. DOMAIN suffered = {}
      BY <2>1
    <3> QED
      BY <2>1, <3>3, <3>4, <3>5 DEF FeedInv
  <2> QED
    BY <2>1, <2>2, <2>3, <2>4 DEF HealthInv, HealthTypeOK, Unseen
<1> QED
  BY <1>7, <1>8, <1>9, <1>10, <1>11 DEF IInv

\* The parts meet in the rows: each leaves the others what they rely on.
LEMMA NextIInv == IInv /\ [StoresNext]_storesVars => IInv'
<1> SUFFICES ASSUME IInv, [StoresNext]_storesVars PROVE IInv'
  OBVIOUS
<1> USE DEF IInv
<1>1. ASSUME UNCHANGED healthVars
      PROVE  HealthInv'
  <2>1. UNCHANGED <<clock, seen, feed, check, suffered>>
    BY <1>1 DEF healthVars
  <2>2. FeedInv'
    <3>1. clock \in Nat
      BY DEF HealthInv, HealthTypeOK
    <3> QED
      BY <2>1, <3>1, FeedStays
  <2> QED
    BY <2>1, <2>2 DEF HealthInv, HealthTypeOK, Explained, Existing
<1>2. UNCHANGED provVars => AdminInv'
  BY DEF provVars, AdminInv, AdminTold
<1>3. ASSUME OfficeLeaves \/ PairLeaves \/ UNCHANGED row, RowsInv', UNCHANGED provVars,
             \A s \in Stores : Stays(s)
      PROVE  ProvInv'
  BY <1>3, OthersKeepProv DEF provVars, OfficeLeaves, PairLeaves, ProvInv, ProvTypeOK
<1>4. CASE PairRows /\ UNCHANGED <<provVars, healthVars>>
  <2>1. RowsInv' /\ OfficeLeaves
    BY <1>4, OfficeKeeps DEF PairRows
  <2>2. ProvInv'
    BY <1>3, <1>4, <2>1 DEF OfficeLeaves
  <2>3. PairInv'
    BY <1>4, <2>1, OthersKeepPair DEF PairRows, deployments, OfficeLeaves
  <2> QED
    BY <1>1, <1>2, <1>4, <2>1, <2>2, <2>3
<1>5. CASE ProvNext /\ UNCHANGED <<pairVars, healthVars>>
  <2>1. ProvLeaves /\ ProvInv'
    BY <1>5, ProvKeeps
  <2>2. RowsInv' /\ \A r \in Rows : Stays(r)
    BY <2>1, QuietKeepsRows DEF ProvLeaves
  <2>3. edited' = edited \cup {s \in Stores : row'[s].tills # row[s].tills}
    BY <1>5, <2>1 DEF ProvLeaves, pairVars
  <2>4. PairInv'
    BY <1>5, <2>1, <2>2, <2>3, OthersKeepPair DEF ProvLeaves, pairVars, Rows
  <2>5. AdminInv'
    BY <1>5, ProvKeepsAdmin
  <2> QED
    BY <1>1, <1>5, <2>1, <2>2, <2>4, <2>5
<1>6. CASE PairNext /\ UNCHANGED <<provVars, healthVars>>
  <2>1. PairLeaves /\ PairInv'
    BY <1>6, PairKeeps
  <2>2. RowsInv' /\ \A r \in Rows : Stays(r)
    BY <2>1, QuietKeepsRows DEF PairLeaves
  <2>3. ProvInv'
    BY <1>3, <1>6, <2>1, <2>2 DEF Rows
  <2> QED
    BY <1>1, <1>2, <1>6, <2>1, <2>2, <2>3
<1>7. ASSUME UNCHANGED <<row, asked, unchecked, provVars, pairVars>>
      PROVE  RowsInv' /\ ProvInv' /\ AdminInv' /\ PairInv'
  <2>1. RowsInv' /\ \A s \in Stores : Stays(s)
    BY <1>7 DEF RowsInv, TypeOK, OneRowPerDeployment, RowsKept, Met, Stays
  <2>2. edited' = edited \cup {s \in Stores : row'[s].tills # row[s].tills}
    BY <1>7 DEF pairVars
  <2>3. PairInv'
    BY <1>7, <2>1, <2>2, OthersKeepPair DEF pairVars
  <2> QED
    BY <1>2, <1>3, <1>7, <2>1, <2>3
<1>8. CASE HealthNext /\ UNCHANGED <<provVars, pairVars>>
  <2>1. UNCHANGED <<row, asked, unchecked>>
    BY <1>8 DEF HealthNext, RunHealthSweep, CheckHealth, Report, Second, rowVars
  <2> QED
    BY <1>7, <1>8, <2>1, HealthKeeps
<1>9. CASE UNCHANGED storesVars
  BY <1>1, <1>7, <1>9 DEF storesVars, rowVars
<1> QED
  BY <1>4, <1>5, <1>6, <1>8, <1>9 DEF StoresNext

\* Whatever the office, the executions, the callers, the sweeps and restarts do at once, each
\* part keeps its invariant.
THEOREM Invariance == StoresSpec => []IInv
  BY InitIInv, NextIInv, PTL DEF StoresSpec

\* "One deployment, one registry row": a row's URL is another's only where an edit set it,
\* however many requests wait for an answer at once.
THEOREM RowsAreSound == StoresSpec => []RowsSound
<1>1. IInv => RowsSound
  BY DEF IInv, RowsInv, RowsSound
<1> QED
  BY <1>1, Invariance, PTL

\* "Persist the UUID first (so a retry cannot create a duplicate)", and "a failed check
\* leaves the app unregistered": a store has one application but for those that were lost
\* or made twice, and what is registered, or recorded as healthy, is proved.
THEOREM AppsAreSound == StoresSpec => []AppsSound
<1>1. ASSUME IInv
      PROVE  AppsSound
  <2>1. OneApplication
    <3> SUFFICES ASSUME NEW s \in Stores \ overlapped
                 PROVE  Cardinality(Made(s)) <= 1 + stray[s]
      BY DEF OneApplication
    <3>1. Cardinality(Made(s)) \in Nat /\ stray[s] \in Nat
      BY <1>1, FS_CardinalityType DEF IInv, ProvInv, ProvTypeOK, MadeCounted
    <3> QED
      BY <1>1, <3>1 DEF IInv, ProvInv, MadeCounted
  <2>2. HealthyIsProved
    BY <1>1 DEF IInv, ProvInv, AppsProved, RegisteredProved, HealthyStores, HealthyIsProved
  <2> QED
    BY <2>1, <2>2 DEF AppsSound
<1> QED
  BY <1>1, Invariance, PTL

\* Nobody is told a password the deployment did not take, and the one it has is known to
\* somebody unless an answer or an email was lost.
THEOREM AdminIsTold == StoresSpec => []AdminTold
<1>1. IInv => AdminTold
  BY DEF IInv, AdminInv
<1> QED
  BY <1>1, Invariance, PTL

\* A branch that a wiring has paired stays paired, and an ok means the tills of the row,
\* whatever further wirings, lists, failed calls and restarts follow.
THEOREM BranchesAlwaysAgree == StoresSpec => []BranchesAgree
<1>1. IInv => BranchesAgree
  BY DEF IInv, PairInv
<1> QED
  BY <1>1, Invariance, PTL

-----------------------------------------------------------------------------
(* What the feed tells *)

LEMMA Extremes ==
  ASSUME NEW n \in Nat, NEW S \in SUBSET (1 .. n), S # {}
  PROVE  /\ Min(S) \in S /\ Max(S) \in S
         /\ \A x \in S : Min(S) <= x /\ x <= Max(S)
<1>1. ASSUME NEW T \in SUBSET Nat, T # {}
      PROVE  \E m \in T : \A x \in T : m <= x
  <2>1. PICK m \in T : \A x \in T : <<x, m>> \notin OpToRel(<, Nat)
    BY <1>1, NatLessThanWellFounded, WFMin, Zenon
  <2>2. \A x \in T : ~(x < m)
    BY <2>1, Zenon DEF OpToRel
  <2> QED
    BY <2>2
<1>2. PICK a \in S : \A x \in S : a <= x
  BY <1>1
<1>3. PICK b \in S : \A x \in S : x <= b
  <2> DEFINE T == {n - x : x \in S}
  <2>1. T \in SUBSET Nat /\ T # {}
    <3>1. \A x \in S : x \in Nat /\ n - x \in Nat
      OBVIOUS
    <3>2. PICK x \in S : n - x \in T
      OBVIOUS
    <3> QED
      BY <3>1, <3>2
  <2>2. PICK m \in T : \A t \in T : m <= t
    BY <1>1, <2>1
  <2>3. PICK b \in S : m = n - b
    BY <2>2
  <2>4. \A x \in S : n - b <= n - x
    BY <2>2, <2>3
  <2> QED
    BY <2>4
<1>4. Min(S) \in S /\ \A x \in S : Min(S) <= x
  BY <1>2 DEF Min
<1>5. Max(S) \in S /\ \A x \in S : x <= Max(S)
  BY <1>3 DEF Max
<1> QED
  BY <1>4, <1>5

LEMMA ExtremesAre ==
  ASSUME NEW S \in SUBSET Nat, NEW m \in S
  PROVE  /\ (\A x \in S : x <= m) => Max(S) = m
         /\ (\A x \in S : m <= x) => Min(S) = m
<1>1. ASSUME \A x \in S : x <= m PROVE Max(S) = m
  <2>1. Max(S) \in S /\ \A x \in S : Max(S) >= x
    BY <1>1 DEF Max
  <2>2. m \in Nat /\ Max(S) \in Nat
    BY <2>1
  <2>3. m <= Max(S) /\ Max(S) <= m
    BY <1>1, <2>1, <2>2
  <2> QED
    BY <2>2, <2>3
<1>2. ASSUME \A x \in S : m <= x PROVE Min(S) = m
  <2>1. Min(S) \in S /\ \A x \in S : Min(S) <= x
    BY <1>2 DEF Min
  <2>2. m \in Nat /\ Min(S) \in Nat
    BY <2>1
  <2>3. m <= Min(S) /\ Min(S) <= m
    BY <1>2, <2>1, <2>2
  <2> QED
    BY <2>2, <2>3
<1> QED
  BY <1>1, <1>2

\* The failures of a fault, in order, and its events.
LEMMA Occurrences ==
  ASSUME HealthInv, NEW e0 \in feed
  PROVE  LET fault == e0.fingerprint
             all == Occurred(fault)
         IN  /\ fault \in Faults /\ IsFiniteSet(all)
             /\ all \subseteq 1 .. Len(suffered) /\ all # {} /\ DOMAIN suffered = 1 .. Len(suffered)
             /\ \A i \in all : suffered[i] \in Failure /\ \E e \in EventsOf(fault) : Of(e, suffered[i])
             /\ \A e \in EventsOf(fault) :
                  \E i, j \in all :
                    /\ Of(e, suffered[i]) /\ Of(e, suffered[j])
                    /\ e.first = suffered[i].at /\ e.last = suffered[j].at
                    /\ e.message = suffered[j].message
                    /\ \A k \in all : Of(e, suffered[k]) => i <= k /\ k <= j
<1> DEFINE fault == e0.fingerprint
           all == Occurred(fault)
<1>0. FeedInv /\ suffered \in Seq(Failure) /\ feed \subseteq EventRecord
  BY DEF HealthInv, HealthTypeOK, FeedInv, InTime
<1>1. fault \in Faults /\ DOMAIN suffered = 1 .. Len(suffered) /\ Len(suffered) \in Nat
  BY <1>0 DEF EventRecord
<1>2. all \subseteq 1 .. Len(suffered)
  BY <1>1 DEF Occurred
<1>3. \A i \in all : suffered[i] \in Failure /\ suffered[i].message.fault = fault
  BY <1>0, <1>2 DEF Occurred
<1>4. \A i \in all : \E e \in EventsOf(fault) : Of(e, suffered[i])
  BY <1>0, <1>1, <1>2, <1>3 DEF FeedInv, EventsOf, Of
<1>5. \A e \in EventsOf(fault) : \A i \in DOMAIN suffered : Of(e, suffered[i]) => i \in all
  BY DEF EventsOf, Of, Occurred
<1>6. \A e \in EventsOf(fault) :
        \E i, j \in all :
          /\ Of(e, suffered[i]) /\ Of(e, suffered[j])
          /\ e.first = suffered[i].at /\ e.last = suffered[j].at
          /\ e.message = suffered[j].message
          /\ \A k \in all : Of(e, suffered[k]) => i <= k /\ k <= j
  <2> TAKE e \in EventsOf(fault)
  <2>1. PICK i, j \in DOMAIN suffered :
          /\ Of(e, suffered[i]) /\ Of(e, suffered[j])
          /\ e.first = suffered[i].at /\ e.last = suffered[j].at /\ e.message = suffered[j].message
          /\ \A k \in DOMAIN suffered : Of(e, suffered[k]) => i <= k /\ k <= j
    BY <1>0 DEF FeedInv, Spans, EventsOf
  <2>2. i \in all /\ j \in all
    BY <1>5, <2>1
  <2> HIDE DEF all
  <2> QED
    BY <1>1, <1>2, <2>1, <2>2
<1>7. all # {}
  BY <1>6 DEF EventsOf
<1>8. IsFiniteSet(all)
  <2>1. IsFiniteSet(1 .. Len(suffered))
    BY <1>1, FS_Interval
  <2> QED
    BY <1>2, <2>1, FS_Subset
<1> HIDE DEF all
<1> QED
  BY <1>1, <1>2, <1>3, <1>4, <1>6, <1>7, <1>8 DEF all

\* The rows of a kind that a fault struck have an entity each, for ids are not shared.
LEMMA StruckCount ==
  ASSUME HealthInv, NEW e0 \in feed, NEW kind, NEW set \in SUBSET Rows,
         \A r \in Rows : r \in set <=> ManagedKind(r) = kind
  PROVE  Cardinality(OfKind(kind, EventsOf(e0.fingerprint))) = Cardinality(Struck(set, e0.fingerprint))
<1> DEFINE fault == e0.fingerprint
           all == Occurred(fault)
           rows == Struck(set, fault)
           entities == OfKind(kind, EventsOf(fault))
           named == [r \in rows |-> Entity(r)]
<1>1. /\ IsFiniteSet(all) /\ \A i \in all : suffered[i] \in Failure
      /\ \A i \in all : \E e \in EventsOf(fault) : Of(e, suffered[i])
      /\ \A e \in EventsOf(fault) : \E i \in all : Of(e, suffered[i])
  BY Occurrences
<1>2. rows \subseteq Rows /\ \A r \in rows : ManagedKind(r) = kind
  BY DEF Struck
<1>3. \A r \in rows : \E i \in all : suffered[i].member = r
  BY DEF Struck
<1>4. \A i \in all : suffered[i].member \in Rows /\ (suffered[i].member \in set => suffered[i].member \in rows)
  BY <1>1 DEF Struck, Failure
<1>5. IsFiniteSet(rows)
  <2> DEFINE dom == {i \in all : suffered[i].member \in set}
             mem == [i \in dom |-> suffered[i].member]
  <2>1. mem \in Surjection(dom, rows)
    <3>1. \A i \in dom : mem[i] \in rows
      BY <1>4
    <3>2. \A r \in rows : \E i \in dom : mem[i] = r
      BY <1>3 DEF Struck
    <3> HIDE DEF rows, all
    <3> QED
      BY <3>1, <3>2 DEF Surjection
  <2>2. IsFiniteSet(dom)
    BY <1>1, FS_Subset
  <2> QED
    BY <2>1, <2>2, FS_Surjection
<1>6. \A r \in rows : Entity(r) \in entities
  <2> TAKE r \in rows
  <2>1. PICK i \in all : suffered[i].member = r
    BY <1>3
  <2>2. PICK e \in EventsOf(fault) : Of(e, suffered[i])
    BY <1>1
  <2>3. e.entity = Entity(r) /\ e.entity[1] = kind
    BY <1>2, <2>1, <2>2 DEF Of, Entity
  <2> QED
    BY <2>3 DEF OfKind
<1>7. \A x \in entities : \E r \in rows : Entity(r) = x
  <2> TAKE x \in entities
  <2>1. PICK e \in EventsOf(fault) : e.entity[1] = kind /\ x = e.entity
    BY DEF OfKind
  <2>2. PICK i \in all : Of(e, suffered[i])
    BY <1>1
  <2>3. /\ x = Entity(suffered[i].member) /\ suffered[i].member \in Rows
        /\ ManagedKind(suffered[i].member) = kind
    BY <1>4, <2>1, <2>2 DEF Of, Entity
  <2> QED
    BY <1>4, <2>2, <2>3
<1>8. \A q, r \in rows : Entity(q) = Entity(r) => q = r
  BY <1>2, IdAssumption DEF Entity
<1> HIDE DEF rows, entities, all, fault
<1>9. named \in Bijection(rows, entities)
  <2>1. named \in [rows -> entities] /\ \A r \in rows : named[r] = Entity(r)
    BY <1>6
  <2> HIDE DEF named
  <2>2. named \in Injection(rows, entities)
    <3>1. \A q, r \in rows : named[q] = named[r] => q = r
      BY <1>8, <2>1, Zenon
    <3> QED
      BY <2>1, <3>1, Zenon DEF Injection, IsInjective
  <2>3. named \in Surjection(rows, entities)
    BY <1>7, <2>1 DEF Surjection
  <2> QED
    BY <2>2, <2>3 DEF Bijection
<1>10. Cardinality(entities) = Cardinality(rows)
  BY <1>5, <1>9, FS_Bijection DEF ExistsBijection
<1> QED
  BY <1>10 DEF rows, entities, fault

\* What a group tells of a fault (the second part of FeedComplete).
Tells(g) ==
  LET all   == Occurred(g.fingerprint)
      first == suffered[Min(all)]
      last  == suffered[Max(all)]
  IN /\ g.occurrences = Cardinality(all)
     /\ g.stores = Cardinality(Struck(Stores, g.fingerprint))
     /\ g.panels = Cardinality(Struck(Panels, g.fingerprint))
     /\ g.firstSeen = first.at /\ g.lastSeen = last.at
     /\ \/ g.message = last.message
        \/ \E i \in all \ {Max(all)} : suffered[i].at = last.at

LEMMA GroupTells ==
  ASSUME HealthInv, NEW e0 \in feed
  PROVE  Tells(ErrorGroup(e0.fingerprint))
<1> DEFINE fault == e0.fingerprint
           events == EventsOf(fault)
           all == Occurred(fault)
           a == Min(all)
           b == Max(all)
           g == ErrorGroup(fault)
<1>0. FeedInv /\ feed \subseteq EventRecord
  BY DEF HealthInv, HealthTypeOK
<1>1. /\ fault \in Faults /\ all \subseteq 1 .. Len(suffered) /\ all # {}
      /\ DOMAIN suffered = 1 .. Len(suffered)
      /\ \A i \in all : suffered[i] \in Failure /\ \E e \in events : Of(e, suffered[i])
      /\ \A e \in events :
           \E i, j \in all :
             /\ Of(e, suffered[i]) /\ Of(e, suffered[j])
             /\ e.first = suffered[i].at /\ e.last = suffered[j].at
             /\ e.message = suffered[j].message
             /\ \A k \in all : Of(e, suffered[k]) => i <= k /\ k <= j
  BY Occurrences
<1>2. a \in all /\ b \in all /\ \A i \in all : a <= i /\ i <= b
  <2>1. Len(suffered) \in Nat
    BY DEF HealthInv, FeedInv, InTime
  <2> HIDE DEF all
  <2> QED
    BY <1>1, <2>1, Extremes
<1>3. /\ \A i \in all : suffered[i].at \in Nat
      /\ \A i \in all : suffered[a].at <= suffered[i].at /\ suffered[i].at <= suffered[b].at
  <2>1. \A i, j \in DOMAIN suffered : i <= j => suffered[i].at <= suffered[j].at
    BY <1>0 DEF FeedInv, InTime
  <2> HIDE DEF all, a, b
  <2> QED
    BY <1>1, <1>2, <2>1 DEF Failure
<1>4. \A c, d \in events : \A i \in all : Of(c, suffered[i]) /\ Of(d, suffered[i]) => c = d
  BY <1>0 DEF FeedInv, Of, EventsOf
<1>5. \A c \in events : c.first \in Nat /\ c.last \in Nat /\ c.id \in Nat
  BY <1>0 DEF EventsOf, EventRecord
<1> HIDE DEF all, a, b, events
<1>6. PICK ea \in events : ea.first = suffered[a].at
  <2>1. PICK e \in events : Of(e, suffered[a])
    BY <1>1, <1>2
  <2>2. PICK i \in all : e.first = suffered[i].at /\ (Of(e, suffered[a]) => i <= a)
    BY <1>1, <1>2
  <2>3. i = a
    BY <1>1, <1>2, <2>1, <2>2
  <2> QED
    BY <2>2, <2>3
<1>7. PICK eb \in events : Of(eb, suffered[b]) /\ eb.last = suffered[b].at /\ eb.message = suffered[b].message
  <2>1. PICK e \in events : Of(e, suffered[b])
    BY <1>1, <1>2
  <2>2. PICK j \in all : /\ e.last = suffered[j].at /\ e.message = suffered[j].message
                         /\ (Of(e, suffered[b]) => b <= j)
    BY <1>1, <1>2
  <2>3. j = b
    BY <1>1, <1>2, <2>1, <2>2
  <2> QED
    BY <2>1, <2>2, <2>3
<1>8. \A e \in events : suffered[a].at <= e.first /\ e.last <= suffered[b].at
  BY <1>1, <1>3
<1>9. Min({e.first : e \in events}) = suffered[a].at
  <2>1. {e.first : e \in events} \in SUBSET Nat /\ suffered[a].at \in {e.first : e \in events}
    BY <1>5, <1>6
  <2> QED
    BY <1>8, <2>1, ExtremesAre
<1>10. Max({e.last : e \in events}) = suffered[b].at
  <2>1. {e.last : e \in events} \in SUBSET Nat /\ suffered[b].at \in {e.last : e \in events}
    BY <1>5, <1>7
  <2> QED
    BY <1>8, <2>1, ExtremesAre
<1>11. \/ Newest(events).message = suffered[b].message
       \/ \E i \in all \ {b} : suffered[i].at = suffered[b].at
  <2> DEFINE m == Newest(events)
  <2>1. HasNewest(events)
    BY <1>0, <1>1, <1>7 DEF FeedInv, events
  <2>2. m \in events /\ \A d \in events : d.last < m.last \/ (d.last = m.last /\ d.id <= m.id)
    BY <2>1 DEF HasNewest, Newest
  <2> HIDE DEF m
  <2>3. PICK j \in all : Of(m, suffered[j]) /\ m.last = suffered[j].at
    BY <1>1, <2>2
  <2>4. m.last = suffered[b].at
    BY <1>5, <1>7, <1>8, <2>2
  <2>5. CASE j = b
    <3>1. m = eb
      BY <1>2, <1>4, <1>7, <2>2, <2>3, <2>5
    <3> QED
      BY <1>7, <3>1 DEF m
  <2>6. CASE j # b
    BY <2>3, <2>4, <2>6
  <2> QED
    BY <2>5, <2>6
<1>12. Total(events) = Cardinality(all)
  BY <1>0, <1>1 DEF FeedInv, events, all
<1>13. /\ Cardinality(OfKind("store", events)) = Cardinality(Struck(Stores, fault))
       /\ Cardinality(OfKind("head-office", events)) = Cardinality(Struck(Panels, fault))
  <2>1. /\ Stores \in SUBSET Rows /\ Panels \in SUBSET Rows
        /\ \A r \in Rows : r \in Stores <=> ManagedKind(r) = "store"
        /\ \A r \in Rows : r \in Panels <=> ManagedKind(r) = "head-office"
    BY RowsAssumption DEF Rows, ManagedKind
  <2> QED
    BY <2>1, StruckCount DEF events
<1>14. /\ g.fingerprint = fault /\ g.message = Newest(events).message /\ g.occurrences = Total(events)
       /\ g.stores = Cardinality(OfKind("store", events))
       /\ g.panels = Cardinality(OfKind("head-office", events))
       /\ g.firstSeen = Min({e.first : e \in events}) /\ g.lastSeen = Max({e.last : e \in events})
  BY DEF ErrorGroup, events
<1> HIDE DEF g
<1> QED
  BY <1>9, <1>10, <1>11, <1>12, <1>13, <1>14 DEF Tells, all, a, b, g

LEMMA FeedIsComplete ==
  ASSUME HealthInv
  PROVE  FeedComplete
<1>0. FeedInv /\ feed \subseteq EventRecord
  BY DEF HealthInv, HealthTypeOK
<1>1. \A fault : ErrorGroup(fault).fingerprint = fault
  BY DEF ErrorGroup
<1>2. {g.fingerprint : g \in ErrorGroups} = {e.fingerprint : e \in feed}
  BY <1>1 DEF ErrorGroups
<1>3. {e.fingerprint : e \in feed} = {suffered[i].message.fault : i \in DOMAIN suffered}
  <2>1. \A i \in DOMAIN suffered : \E e \in feed : e.fingerprint = suffered[i].message.fault
    BY <1>0 DEF FeedInv, Of
  <2>2. \A e \in feed : \E i \in DOMAIN suffered : e.fingerprint = suffered[i].message.fault
    BY <1>0 DEF FeedInv, Spans, Of
  <2> QED
    BY <2>1, <2>2
<1>4. \A g \in ErrorGroups : Tells(g)
  BY GroupTells DEF ErrorGroups
<1> QED
  BY <1>2, <1>3, <1>4 DEF FeedComplete, Tells

-----------------------------------------------------------------------------
(* What is shown and what the feed tells, always *)

\* No "red badge with nothing behind it": what is shown as offline, or as undelivered, is in
\* the feed with the failure that made it so.
THEOREM RedIsExplained == StoresSpec => []RedExplained
<1>1. ASSUME IInv
      PROVE  RedExplained
  <2> SUFFICES ASSUME NEW r \in Rows
               PROVE  /\ HealthState(r, FALSE) = "offline" =>
                           \E e \in Existing("health", r, seen[r].error) : e.last >= seen[r].healthAt
                      /\ seen[r].licence = "failed" =>
                           \E e \in Existing("licence", r, seen[r].licenceError) : e.last >= seen[r].licenceAt
    BY DEF RedExplained
  <2>1. HealthState(r, FALSE) = "offline" => seen[r].health = "down"
    BY DEF HealthState
  <2> QED
    BY <1>1, <2>1 DEF IInv, HealthInv, Explained
<1> QED
  BY <1>1, Invariance, PTL

\* The feed is sound: no badge is red with nothing behind it, and there is one group for each
\* fault that occurred, which counts all its occurrences and the stores and Head Offices it
\* struck, however many sweeps and checks recorded them at once (recordErrorEvent,
\* listErrorGroups).
THEOREM FeedIsSound == StoresSpec => []FeedSound
<1>1. ASSUME IInv
      PROVE  FeedComplete
  BY <1>1, FeedIsComplete DEF IInv
<1>2. StoresSpec => []FeedComplete
  BY <1>1, Invariance, PTL
<1>3. FeedComplete /\ RedExplained <=> FeedSound
  BY DEF FeedSound
<1> QED
  BY <1>2, <1>3, RedIsExplained, PTL
=============================================================================
