---------------------------- MODULE FleetHealth ----------------------------
(***************************************************************************)
(* What the office sees of the fleet: the result of the last probe of each  *)
(* deployment (services/healthSweep.ts and the health routes), the states   *)
(* derived from it (services/fleetView.ts) and the feed of failures         *)
(* (recordErrorEvent and listErrorGroups in config/registryDb.ts,           *)
(* routes/errors.ts), in which the occurrences of one fault are grouped.    *)
(* A sweep works from the rows it read when it began and waits for every    *)
(* deployment in turn; the timer's sweep, a sweep the office asks for and   *)
(* the check of one deployment may run at once.                             *)
(***************************************************************************)
EXTENDS StoreRows, Sequences, FiniteSetsExt

CONSTANTS
  Id,          \* the rows' ids: those of stores and of panels collide
  Faults,      \* what may go wrong, told apart by its wording
  Details,     \* what differs between two messages of a fault: a time, a number, a URL
  Checks       \* executions of the sweep and of the check of one deployment

\* Both tables number their rows (AUTOINCREMENT).
ASSUME IdAssumption ==
  \A q, r \in Rows : ManagedKind(q) = ManagedKind(r) /\ Id[q] = Id[r] => q = r

VARIABLES
  clock,       \* seconds, the grain of the registry's times
  seen,        \* the health and licence columns of the rows (the messages of a panel
               \* and of a licence have none: they are a history)
  feed,        \* the error_events table
  check,       \* in memory: what each execution is at
  suffered     \* history: the failures recorded, in order

healthVars == <<clock, seen, feed, check, suffered>>

Messages == [fault: Faults, detail: Details]

Unseen == [health |-> "unknown", healthAt |-> 0, error |-> None,
           licence |-> "pending", licenceAt |-> 0, licenceError |-> None]

NoCheck == [at |-> "idle", todo |-> {}, member |-> None, always |-> FALSE]

-----------------------------------------------------------------------------
(* recordErrorEvent *)

ErrorFingerprint(message) == message.fault

\* Weakened: a store and a Head Office with one id are one.
EntityById(r) == <<"store", Id[r]>>

Entity(r) == <<ManagedKind(r), Id[r]>>

NewEvent(source, r, message) ==
  [id |-> Cardinality(feed) + 1, fingerprint |-> ErrorFingerprint(message), source |-> source,
   entity |-> Entity(r), message |-> message, occurrences |-> 1, first |-> clock, last |-> clock]

Existing(source, r, message) ==
  {e \in feed : /\ e.fingerprint = ErrorFingerprint(message)
                /\ e.source = source
                /\ e.entity = Entity(r)}

RecordErrorEvent(source, r, message) ==
  LET known == Existing(source, r, message)
      again == {[e EXCEPT !.message = message, !.occurrences = @ + 1, !.last = clock] : e \in known}
  IN /\ feed' = IF known = {} THEN feed \cup {NewEvent(source, r, message)}
                ELSE (feed \ known) \cup again
     /\ suffered' = Append(suffered, [source |-> source, member |-> r, message |-> message,
                                      at |-> clock])

NoErrorEvent == UNCHANGED <<feed, suffered>>

-----------------------------------------------------------------------------
(* recordHealthResult, recordPanelHealth; recordLicencePush, recordPanelLicencePush *)

\* Nothing is recorded of a row that is gone.
RecordUp(r) ==
  /\ seen' = IF row[r].there
             THEN [seen EXCEPT ![r].health = "up", ![r].healthAt = clock, ![r].error = None]
             ELSE seen
  /\ NoErrorEvent

RecordDown(r, message) ==
  IF row[r].there
  THEN /\ seen' = [seen EXCEPT ![r].health = "down", ![r].healthAt = clock, ![r].error = message]
       /\ RecordErrorEvent("health", r, message)
  ELSE UNCHANGED seen /\ NoErrorEvent

RecordDelivered(r) ==
  /\ seen' = IF row[r].there THEN [seen EXCEPT ![r].licence = "ok", ![r].licenceAt = clock] ELSE seen
  /\ NoErrorEvent

\* The failure of a delivery to a row that is gone meanwhile is recorded all the same.
RecordUndelivered(r, message) ==
  /\ seen' = IF row[r].there
             THEN [seen EXCEPT ![r].licence = "failed", ![r].licenceAt = clock,
                               ![r].licenceError = message]
             ELSE seen
  /\ RecordErrorEvent("licence", r, message)

-----------------------------------------------------------------------------
(* runHealthSweep; POST /stores/:id/health and POST /panels/:id/health *)

RunHealthSweep(k) ==
  /\ check[k].at = "idle"
  /\ Spends("sweep")
  /\ check' = [check EXCEPT ![k] =
       [NoCheck EXCEPT !.at = "next",
                       !.todo = {r \in Rows : row[r].there /\ row[r].status = "active"}]]
  /\ UNCHANGED <<row, asked, unchecked, clock, seen, feed, suffered>>

\* The check of one deployment, paused or not, sends it its licence too.
CheckHealth(k, r) ==
  /\ check[k].at = "idle" /\ row[r].there
  /\ Spends("check")
  /\ check' = [check EXCEPT ![k] = [NoCheck EXCEPT !.at = "next", !.todo = {r}, !.always = TRUE]]
  /\ UNCHANGED <<row, asked, unchecked, clock, seen, feed, suffered>>

\* The stores, then the Head Offices
NextMember(k) ==
  /\ check[k].at = "next"
  /\ \/ /\ check[k].todo = {}
        /\ check' = [check EXCEPT ![k] = NoCheck]
     \/ \E r \in check[k].todo :
          /\ check[k].todo \cap Stores # {} => r \in Stores
          /\ check' = [check EXCEPT ![k].at = "probe", ![k].todo = @ \ {r}, ![k].member = r]
  /\ UNCHANGED <<clock, seen, feed, suffered>>

MemberDone(k) == check' = [check EXCEPT ![k].at = "next", ![k].member = None]

\* needed: licenceNeedsDelivery of the row as the sweep read it
AnswersProbe(k, needed) ==
  /\ check[k].at = "probe"
  /\ check[k].always => needed
  /\ RecordUp(check[k].member)
  /\ IF needed THEN check' = [check EXCEPT ![k].at = "deliver"] ELSE MemberDone(k)
  /\ UNCHANGED clock

FailsProbe(k, message) ==
  /\ check[k].at = "probe"
  /\ RecordDown(check[k].member, message)
  /\ MemberDone(k)
  /\ UNCHANGED clock

\* A check reads the row again, and stops where it is gone.
TakesLicence(k) ==
  /\ check[k].at = "deliver"
  /\ RecordDelivered(check[k].member)
  /\ MemberDone(k)
  /\ UNCHANGED clock

RefusesLicence(k, message) ==
  LET r == check[k].member
  IN /\ check[k].at = "deliver"
     /\ IF check[k].always /\ ~row[r].there THEN UNCHANGED seen /\ NoErrorEvent
        ELSE RecordUndelivered(r, message)
     /\ MemberDone(k)
     /\ UNCHANGED clock

\* A failed push (recordConfigResult) or deployment (setStoreDeployStatus,
\* setPanelDeployStatus), as BranchPairing and StoreProvisioning come to them
Report(source, r, message) ==
  /\ source = "config" => row[r].there /\ r \in Stores
  /\ Spends("report")
  /\ RecordErrorEvent(source, r, message)
  /\ UNCHANGED <<row, asked, unchecked, clock, seen, check>>

Second ==
  /\ Spends("second")
  /\ clock' = clock + 1
  /\ UNCHANGED <<row, asked, unchecked, seen, feed, check, suffered>>

-----------------------------------------------------------------------------
(* fleetView.ts *)

\* The configuration's version is 1 for good, so that only the last push tells.
ConfigState(r) ==
  CASE row[r].config = "failed" -> "failed"
    [] row[r].config = "pending" -> "unknown"
    [] OTHER -> "current"

\* trouble: the register warns of the subscription
HealthState(r, trouble) ==
  CASE seen[r].health = "unknown" -> "unknown"
    [] seen[r].health = "down" -> "offline"
    [] OTHER -> IF ConfigState(r) # "current" \/ trouble THEN "warning" ELSE "healthy"

-----------------------------------------------------------------------------
(* listErrorGroups; the group routes/errors.ts derives from its events *)

EventsOf(fingerprint) == {e \in feed : e.fingerprint = fingerprint}

\* SUM(occurrences), one by one
Total(events) == Cardinality(UNION {{e} \X (1 .. e.occurrences) : e \in events})

\* The newest occurrence, the higher id within one second
Newest(events) ==
  CHOOSE e \in events : \A d \in events : d.last < e.last \/ (d.last = e.last /\ d.id <= e.id)

OfKind(kind, events) == {e.entity : e \in {d \in events : d.entity[1] = kind}}

ErrorGroup(fingerprint) ==
  LET events == EventsOf(fingerprint)
  IN [fingerprint |-> fingerprint, message |-> Newest(events).message,
      occurrences |-> Total(events), sources |-> {e.source : e \in events},
      stores |-> Cardinality(OfKind("store", events)),
      panels |-> Cardinality(OfKind("head-office", events)),
      firstSeen |-> Min({e.first : e \in events}), lastSeen |-> Max({e.last : e \in events})]

ErrorGroups == {ErrorGroup(e.fingerprint) : e \in feed}

-----------------------------------------------------------------------------
HealthInit ==
  /\ clock = 1
  /\ seen = [r \in Rows |-> Unseen]
  /\ feed = {} /\ suffered = <<>>
  /\ check = [k \in Checks |-> NoCheck]

CheckStep(k) ==
  \/ NextMember(k)
  \/ \E needed \in BOOLEAN : AnswersProbe(k, needed)
  \/ TakesLicence(k)
  \/ \E message \in Messages : FailsProbe(k, message) \/ RefusesLicence(k, message)

HealthNext ==
  \/ \E k \in Checks : RunHealthSweep(k)
  \/ \E k \in Checks, r \in Rows : CheckHealth(k, r)
  \/ (\E k \in Checks : CheckStep(k)) /\ UNCHANGED rowVars
  \/ \E source \in {"config", "deploy"}, r \in Rows, message \in Messages :
       Report(source, r, message)
  \/ Second

-----------------------------------------------------------------------------
(* Properties *)

Occurred(fault) == {i \in DOMAIN suffered : suffered[i].message.fault = fault}

Struck(set, fault) == {r \in set : \E i \in Occurred(fault) : suffered[i].member = r}

\* "One row per distinct fault": the feed has one group for each fault that occurred,
\* which counts every occurrence, the stores and the Head Offices it struck, "counted
\* apart because ids collide", and shows the message of the latest occurrence, unless
\* another deployment suffered the fault in the same second.
FeedComplete ==
  /\ {g.fingerprint : g \in ErrorGroups} = {suffered[i].message.fault : i \in DOMAIN suffered}
  /\ \A g \in ErrorGroups :
       LET all   == Occurred(g.fingerprint)
           first == suffered[Min(all)]
           last  == suffered[Max(all)]
       IN /\ g.occurrences = Cardinality(all)
          /\ g.stores = Cardinality(Struck(Stores, g.fingerprint))
          /\ g.panels = Cardinality(Struck(Panels, g.fingerprint))
          /\ g.firstSeen = first.at /\ g.lastSeen = last.at
          /\ \/ g.message = last.message
             \/ \E i \in all \ {Max(all)} : suffered[i].at = last.at

\* No "red badge with nothing behind it": a deployment shown as offline, or whose last
\* licence delivery failed, is in the feed with the failure that made it so, whichever
\* sweeps and checks ran at once and whatever rows were paused or removed under them.
RedExplained ==
  \A r \in Rows : row[r].there =>
    /\ HealthState(r, FALSE) = "offline" =>
         \E e \in Existing("health", r, seen[r].error) : e.last >= seen[r].healthAt
    /\ seen[r].licence = "failed" =>
         \E e \in Existing("licence", r, seen[r].licenceError) : e.last >= seen[r].licenceAt

FeedSound == FeedComplete /\ RedExplained
=============================================================================
