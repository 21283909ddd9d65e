------------------------------ MODULE Promotion ------------------------------
(***************************************************************************)
(* Promoting a staging-tested release to production: startPromotion,        *)
(* reconcilePromotion and settlePromotionFromBatches of                     *)
(* services/promotion.ts, and the CI callback of routes/releases.ts.        *)
(*                                                                         *)
(* An operator's request inserts the promotion's row, dispatches a GitHub   *)
(* workflow and looks for its run.  The workflow calls the control plane    *)
(* back, which rolls the release out in two batches, stores then head       *)
(* offices.  Polls of the office page settle the row from the batches or    *)
(* from GitHub's verdict, and expire it.  These run in any order.           *)
(***************************************************************************)
EXTENDS Releases

CONSTANTS
  Staged,           \* the digest staging tested under each tag
  MaxPromotions,    \* bound on promotion rows
  MaxRuns,          \* bound on workflow runs
  MaxCrashes        \* bound on restarts of the control plane

ASSUME SizeAssumption ==
  /\ Staged \in [Tags -> Digests]
  /\ MaxPromotions \in Nat \ {0}
  /\ MaxRuns \in Nat \ {0}
  /\ MaxCrashes \in Nat

Promotions == 1 .. MaxPromotions   \* release_promotions.id, in order of creation
Runs       == 1 .. MaxRuns         \* workflow runs, in order of creation

VARIABLES
  promo,      \* release_promotions: status, tag, approved digest, linked batches, GitHub run
  old,        \* the promotions that grew, in flight, older than PROMOTION_TIMEOUT_MINUTES
  op,         \* in memory, where the request that inserted each promotion is
  run,        \* GitHub: the tag of each run and whether it concluded
  callback,   \* in memory: each run's CI request, the promotion it is bound to, the digest that one got
  batch,      \* release_batches: the status of each run's batches
  poll,       \* in memory: the promotion and run a poll asks GitHub about
  crashes     \* bookkeeping of the bound

vars == <<promo, old, op, run, callback, batch, poll, crashes>>

-----------------------------------------------------------------------------
InFlight(p) == promo[p].status \in {"dispatching", "running"}
Linked(p)   == {k \in Kinds : promo[p].link[k] # None}

Made   == {p \in Promotions : promo[p].status # "none"}
Active == {p \in Promotions : InFlight(p)}

Newest(S) == IF S = {} THEN None ELSE Max(S)

\* updateReleasePromotion of one status
Mark(rows, p, status) == [rows EXCEPT ![p].status = status]

\* The partial unique index: no two rows share one of the statuses in flight.
UniqueRefuses(rows, p, status) ==
  status \in {"dispatching", "running"} /\ \E q \in Promotions \ {p} : rows[q].status = status

\* expireStalePromotions
Expired ==
  [p \in Promotions |->
     IF p \in old /\ InFlight(p) THEN [promo[p] EXCEPT !.status = "failed"] ELSE promo[p]]

\* settlePromotionFromBatches, the batches being what the rows link
Settled(rows, b, p) ==
  LET how == {b[rows[p].link[k]][k] : k \in {k \in Kinds : rows[p].link[k] # None}}
  IN  IF how = {} THEN rows
      ELSE IF "running" \in how
           THEN IF rows[p].status = "dispatching" THEN Mark(rows, p, "running") ELSE rows
      ELSE Mark(rows, p, IF how = {"complete"} THEN "complete" ELSE "failed")

-----------------------------------------------------------------------------
(* The operator's request *)

\* The approval: the row is inserted unless the index refuses it.  What the request read
\* before, from staging and from GitHub, has only decided that it goes on.
StartPromotion(tag) ==
  /\ Cardinality(Made) < MaxPromotions
  /\ LET p == Cardinality(Made) + 1 IN
     IF UniqueRefuses(Expired, p, "dispatching")
     THEN promo' = Expired /\ UNCHANGED op
     ELSE /\ promo' = [Expired EXCEPT ![p] = [status |-> "dispatching", tag |-> tag,
                         digest |-> Staged[tag], link |-> [k \in Kinds |-> None], run |-> None]]
          /\ op' = [op EXCEPT ![p] = "posting"]
  /\ UNCHANGED <<old, run, callback, batch, poll, crashes>>

FreeRuns == {w \in Runs : run[w].tag = None}
NewRun(tag) == run' = [run EXCEPT ![Min(FreeRuns)] = [tag |-> tag, concluded |-> FALSE]]

\* dispatchPromotion's POST: accepted, accepted with its reply lost, or refused
PostAccepted(p) ==
  /\ op[p] = "posting"
  /\ FreeRuns # {} /\ NewRun(promo[p].tag)
  /\ op' = [op EXCEPT ![p] = "finding"]
  /\ UNCHANGED <<promo, old, callback, batch, poll, crashes>>

PostThrows(p) ==
  /\ op[p] = "posting"
  /\ \/ UNCHANGED run
     \/ FreeRuns # {} /\ NewRun(promo[p].tag)
  /\ promo' = Mark(promo, p, "failed")
  /\ op' = [op EXCEPT ![p] = "done"]
  /\ UNCHANGED <<old, callback, batch, poll, crashes>>

\* findDispatchedRun returns the newest run of the workflow, or gives up; the row becomes
\* running whatever it is by now, or the index throws and the request's catch fails it.
FindRun(p, w) ==
  /\ op[p] = "finding"
  /\ w \in {None, Newest(Runs \ FreeRuns)}
  /\ promo' = IF UniqueRefuses(promo, p, "running")
              THEN Mark(promo, p, "failed")
              ELSE [promo EXCEPT ![p].status = "running", ![p].run = w]
  /\ op' = [op EXCEPT ![p] = "done"]
  /\ UNCHANGED <<old, run, callback, batch, poll, crashes>>

-----------------------------------------------------------------------------
(* GitHub *)

\* The manual fallback: the workflow dispatched by hand for any tag
ManualRun(tag) ==
  /\ FreeRuns # {} /\ NewRun(tag)
  /\ UNCHANGED <<promo, old, op, callback, batch, poll, crashes>>

RunConcludes(w) ==
  /\ run[w].tag # None /\ ~run[w].concluded
  /\ run' = [run EXCEPT ![w].concluded = TRUE]
  /\ UNCHANGED <<promo, old, op, callback, batch, poll, crashes>>

-----------------------------------------------------------------------------
(* The CI callback *)

\* Weakened: the call is not compared with the promotion in flight.
OtherTagInFlightIgnored(w) == FALSE

OtherTagInFlight(w) == Active # {} /\ promo[Max(Active)].tag # run[w].tag

\* getActiveReleasePromotionByTag
Bound(w) == Newest({p \in Active : promo[p].tag = run[w].tag})

\* Weakened: the manifest's digests are taken as they come.
DigestMismatchIgnored(p, d) == FALSE

DigestMismatch(p, d) == p # None /\ promo[p].digest # d

\* A run calls back before it concludes.
Calls(w) == callback[w].pc = "ready" /\ run[w].tag # None /\ ~run[w].concluded

Ends(w) == callback' = [callback EXCEPT ![w].pc = "done"]

\* The refusals: another tag in flight, a digest nobody approved, the index
RefuseCall(w, d) ==
  /\ Calls(w)
  /\ LET p == Bound(w) IN
     \/ OtherTagInFlight(w) /\ UNCHANGED promo
     \/ /\ ~OtherTagInFlight(w)
        /\ DigestMismatch(p, d)
        /\ promo' = Mark(promo, p, "failed")
     \/ /\ ~OtherTagInFlight(w)
        /\ p # None /\ ~DigestMismatch(p, d)
        /\ UniqueRefuses(promo, p, "running")
        /\ UNCHANGED promo
  /\ Ends(w)
  /\ UNCHANGED <<old, op, run, batch, poll, crashes>>

Admits(w, d) ==
  /\ Calls(w)
  /\ ~OtherTagInFlight(w)
  /\ ~DigestMismatch(Bound(w), d)
  /\ Bound(w) # None => ~UniqueRefuses(promo, Bound(w), "running")

\* linkPromotionBatch
Link(rows, p, k, w) == IF p = None THEN rows ELSE [rows EXCEPT ![p].link[k] = w]

\* promotionForCi, the releases' registration and the store batch up to its first await
AcceptCall(w, d) ==
  /\ Admits(w, d)
  /\ LET p == Bound(w) IN
     /\ promo' = Link(IF p = None THEN promo ELSE Mark(promo, p, "running"), p, "store", w)
     /\ callback' = [callback EXCEPT ![w] = [pc |-> "store", bound |-> p,
          digest |-> IF p = None THEN None ELSE d]]
  /\ batch' = [batch EXCEPT ![w]["store"] = "running"]
  /\ UNCHANGED <<old, op, run, poll, crashes>>

FailBound(p) ==
  promo' = IF p # None /\ InFlight(p) THEN Mark(promo, p, "failed") ELSE promo

\* The registration is refused before any batch, or the batch at work throws and is
\* left running: the handler's catch fails the promotion if it is still in flight.
CallThrows(w, d) ==
  /\ \/ Admits(w, d) /\ FailBound(Bound(w))
     \/ callback[w].pc \in Kinds /\ FailBound(callback[w].bound)
  /\ Ends(w)
  /\ UNCHANGED <<old, op, run, batch, poll, crashes>>

\* A partial batch is settled as a failed one.
BatchVerdicts == {"complete", "failed"}

\* Whatever the store batch's verdict, the head offices' batch begins in the same turn.
StoreBatchEnds(w, how) ==
  /\ callback[w].pc = "store"
  /\ batch' = [batch EXCEPT ![w] = [store |-> how, ho |-> "running"]]
  /\ promo' = Link(promo, callback[w].bound, "ho", w)
  /\ callback' = [callback EXCEPT ![w].pc = "ho"]
  /\ UNCHANGED <<old, op, run, poll, crashes>>

HoBatchEnds(w, how) ==
  /\ callback[w].pc = "ho"
  /\ batch' = [batch EXCEPT ![w]["ho"] = how]
  /\ promo' = IF callback[w].bound = None THEN promo ELSE Settled(promo, batch', callback[w].bound)
  /\ Ends(w)
  /\ UNCHANGED <<old, op, run, poll, crashes>>

-----------------------------------------------------------------------------
(* Polls of the office page, time and restarts *)

\* reconcilePromotion up to its await
PollBegins ==
  /\ poll = None
  /\ LET live == {p \in Active : p \notin old}
         p    == Newest(live) IN
     /\ promo' = IF p # None /\ Linked(p) # {} THEN Settled(Expired, batch, p) ELSE Expired
     /\ poll' = IF p # None /\ Linked(p) = {} /\ promo[p].run # None
                THEN [promotion |-> p, run |-> promo[p].run] ELSE None
  /\ <<promo, poll>>' # <<promo, poll>>
  /\ UNCHANGED <<old, op, run, callback, batch, crashes>>

\* Weakened: the row is judged as it was when the poll began, before any batch.
UnreachedThen(p) == TRUE

Unreached(p) == Linked(p) = {}

\* runStatus after its await, judged by the row as it now is; any conclusion fails a
\* promotion without batches, a success as workflow_completed_without_release.
PollAnswered ==
  /\ poll # None
  /\ LET p       == poll.promotion
         verdict == run[poll.run].concluded /\ Unreached(p) IN
     promo' = IF verdict \/ (InFlight(p) /\ p \in old) THEN Mark(promo, p, "failed") ELSE promo
  /\ poll' = None
  /\ UNCHANGED <<old, op, run, callback, batch, crashes>>

\* GitHub could not be read: the row read before the await is all the poll goes by.
PollUnanswered ==
  /\ poll # None
  /\ promo' = IF poll.promotion \in old THEN Mark(promo, poll.promotion, "failed") ELSE promo
  /\ poll' = None
  /\ UNCHANGED <<old, op, run, callback, batch, crashes>>

\* Weakened: the age of a promotion counts only once its workflow has been found.
AgesFound(p) ==
  /\ p \in Active \ old
  /\ promo[p].run # None
  /\ old' = old \cup {p}
  /\ UNCHANGED <<promo, op, run, callback, batch, poll, crashes>>

Ages(p) ==
  /\ p \in Active \ old
  /\ old' = old \cup {p}
  /\ UNCHANGED <<promo, op, run, callback, batch, poll, crashes>>

\* A restart loses every request; the rows and what GitHub runs stay.
Crash ==
  /\ crashes < MaxCrashes
  /\ crashes' = crashes + 1
  /\ op' = [p \in Promotions |-> IF op[p] = "ready" THEN "ready" ELSE "done"]
  /\ callback' = [w \in Runs |-> IF callback[w].pc = "ready" THEN callback[w]
                                 ELSE [callback[w] EXCEPT !.pc = "done"]]
  /\ poll' = None
  /\ UNCHANGED <<promo, old, run, batch>>

Init ==
  /\ promo = [p \in Promotions |-> [status |-> "none", tag |-> None, digest |-> None,
                                    link |-> [k \in Kinds |-> None], run |-> None]]
  /\ old = {}
  /\ op = [p \in Promotions |-> "ready"]
  /\ run = [w \in Runs |-> [tag |-> None, concluded |-> FALSE]]
  /\ callback = [w \in Runs |-> [pc |-> "ready", bound |-> None, digest |-> None]]
  /\ batch = [w \in Runs |-> [k \in Kinds |-> "none"]]
  /\ poll = None
  /\ crashes = 0

Request(p) == PostAccepted(p) \/ PostThrows(p) \/ \E w \in Runs \cup {None} : FindRun(p, w)

Callback(w) ==
  \/ \E d \in Digests : RefuseCall(w, d) \/ AcceptCall(w, d) \/ CallThrows(w, d)
  \/ \E how \in BatchVerdicts : StoreBatchEnds(w, how) \/ HoBatchEnds(w, how)

Poll == PollBegins \/ PollAnswered \/ PollUnanswered

GitHub ==
  \/ \E tag \in Tags : ManualRun(tag)
  \/ \E w \in Runs : RunConcludes(w)

Next ==
  \/ \E tag \in Tags : StartPromotion(tag)
  \/ \E p \in Promotions : Request(p) \/ Ages(p)
  \/ \E w \in Runs : Callback(w)
  \/ Poll \/ GitHub \/ Crash

Spec == Init /\ [][Next]_vars

\* Time passes, an awaited call returns or throws, and the office page polls.
FairSpec ==
  /\ Spec
  /\ \A p \in Promotions : WF_vars(Request(p)) /\ WF_vars(Ages(p))
  /\ WF_vars(Poll)

-----------------------------------------------------------------------------
(* Properties *)

\* Every variable keeps to the values its column or its handler's step can have.
TypeOK ==
  /\ promo \in [Promotions ->
       [status : {"none", "dispatching", "running", "complete", "failed"},
        tag : Tags \cup {None}, digest : Digests \cup {None},
        link : [Kinds -> Runs \cup {None}], run : Runs \cup {None}]]
  /\ old \subseteq Promotions
  /\ op \in [Promotions -> {"ready", "posting", "finding", "done"}]
  /\ run \in [Runs -> [tag : Tags \cup {None}, concluded : BOOLEAN]]
  /\ callback \in [Runs -> [pc : {"ready", "done"} \cup Kinds,
                            bound : Promotions \cup {None}, digest : Digests \cup {None}]]
  /\ batch \in [Runs -> [Kinds -> {"none", "running"} \cup BatchVerdicts]]
  /\ poll \in {None} \cup [promotion : Promotions, run : Runs]
  /\ crashes \in 0 .. MaxCrashes

\* Every batch a promotion owns rolls out the digest its operator approved, whatever
\* the tag's manifest was changed to before the workflow read it (promotionForCi).
ApprovedDigests ==
  \A p \in Promotions, k \in Kinds :
    LET w == promo[p].link[k] IN
    w # None => callback[w].digest = promo[p].digest /\ run[w].tag = promo[p].tag

\* No promotion is complete on the stores alone: whatever settles it, and in whatever
\* order callbacks and polls come, both kinds have had their batch.
CompleteOwnsBatches == \A p \in Promotions : promo[p].status = "complete" => Linked(p) = Kinds

\* A promotion's batches: the digests approved, on both kinds before it is complete.
BatchesApproved == TypeOK /\ ApprovedDigests /\ CompleteOwnsBatches

\* No rollout begins beside a promotion of another release in flight: "that would put
\* two releases on the same fleet" (routes/releases.ts).
OneReleaseOnFleet ==
  [][\A w \in Runs : callback[w].pc = "ready" /\ callback'[w].pc = "store"
       => \A p \in Active : promo[p].tag = run[w].tag]_vars

\* GitHub's verdict on the workflow, asked for over an await, never fails a promotion
\* that a rollout has reached meanwhile (runStatus reads the row again).
VerdictSparesRollout ==
  [][\A p \in Active \ old : Linked(p) # {} /\ poll # None /\ poll' = None => InFlight(p)']_vars

\* Every promotion ends: no lost reply, lost callback or restart keeps it in flight.
PromotionEnds == \A p \in Promotions : InFlight(p) ~> ~InFlight(p)

\* The claim of the table's comment and of docs/tenant-app-release-workflow.md, that a
\* second promotion is refused until the first finishes.
SecondRefused == \A p, q \in Active : p = q

\* The claim of docs/tenant-app-release-workflow.md on PROMOTION_TIMEOUT_MINUTES, that the
\* timeout frees only a lock no workflow callback reaches.
ExpiryFreesUnreached ==
  [][\A p \in old \cap Active : Linked(p) # {} /\ promo'[p].status = "failed"
       => \E k \in Linked(p) : batch'[promo[p].link[k]][k] # "running"]_vars
=============================================================================
