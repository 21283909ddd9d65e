-------------------------- MODULE PromotionProofs --------------------------
(***************************************************************************)
(* Proofs about Promotion for any number of promotions, workflow runs,      *)
(* tags, digests and restarts: a promotion's batches roll out what its      *)
(* operator approved, no rollout begins beside a promotion of another       *)
(* release, and GitHub's verdict spares a rollout it did not know of.  And  *)
(* about ReleaseCandidate: what a release, once recorded, may become.       *)
(***************************************************************************)
EXTENDS Promotion, ReleaseCandidate, FiniteSetTheorems, WellFoundedInduction, TLAPS

Statuses == {"none", "dispatching", "running", "complete", "failed"}
Row == [status : Statuses, tag : Tags \cup {None}, digest : Digests \cup {None},
        link : [Kinds -> Runs \cup {None}], run : Runs \cup {None}]

\* Rows are numbered in the order they are inserted, and only an inserted one is worked on.
Inserted ==
  /\ \A p, q \in Promotions : p \in Made /\ q < p => q \in Made
  /\ \A p \in Promotions : op[p] # "ready" => p \in Made
  /\ poll # None => poll.promotion \in Made

\* What the two unique indexes leave in flight: the newest row, which no batch has reached,
\* and one row that is running.
Indexed ==
  /\ \A p \in Promotions : promo[p].status = "dispatching" =>
       Linked(p) = {} /\ \A q \in Made : q <= p
  /\ \A p, q \in Promotions :
       promo[p].status = "running" /\ promo[q].status = "running" => p = q

\* A callback that was let in is bound to the promotion whose tag it has and whose digest
\* it was checked against, and that promotion has its batches.
CallsBound ==
  \A w \in Runs :
    /\ callback[w].pc = "ready" => callback[w].bound = None
    /\ callback[w].pc # "ready" => run[w].tag # None
    /\ callback[w].bound # None =>
         /\ callback[w].bound \in Made
         /\ callback[w].digest = promo[callback[w].bound].digest
         /\ run[w].tag = promo[callback[w].bound].tag
         /\ promo[callback[w].bound].link["store"] # None
         /\ callback[w].pc = "ho" => promo[callback[w].bound].link["ho"] # None
    /\ callback[w].pc = "store" => batch[w]["store"] = "running"

\* A promotion's batches are those of callbacks bound to it, and a store batch that ended
\* was followed by one for the head offices.
LinksBound ==
  \A p \in Promotions :
    /\ \A k \in Kinds : promo[p].link[k] # None => callback[promo[p].link[k]].bound = p
    /\ promo[p].link["store"] # None /\ batch[promo[p].link["store"]]["store"] \in BatchVerdicts
         => promo[p].link["ho"] # None

\* The inductive invariant.
IInv == TypeOK /\ Inserted /\ Indexed /\ CallsBound /\ LinksBound /\ CompleteOwnsBatches

-----------------------------------------------------------------------------
(* Least and greatest members, and the numbers of the rows *)

\* A set of naturals that is not empty has a least member.
LEMMA LeastMember ==
  ASSUME NEW S \in SUBSET Nat, S # {}
  PROVE  \E n \in S : \A m \in S : n <= m
<1>1. PICK n \in S : \A m \in S : <<m, n>> \notin OpToRel(<, Nat)
  BY NatLessThanWellFounded, WFMin, Zenon
<1>2. ASSUME NEW m \in S PROVE ~(m < n)
  BY <1>1, Zenon DEF OpToRel
<1>3. ASSUME NEW m \in S PROVE n <= m
  BY <1>2, <1>3
<1> QED
  BY <1>3

\* The least of a set of naturals is in it.
LEMMA MinMember ==
  ASSUME NEW S \in SUBSET Nat, S # {}
  PROVE  Min(S) \in S
BY LeastMember DEF Min

\* The greatest of a bounded set of naturals is in it, and none of it is greater.
LEMMA MaxMember ==
  ASSUME NEW n \in Nat, NEW S \in SUBSET (1 .. n), S # {}
  PROVE  Max(S) \in S /\ \A m \in S : m <= Max(S)
<1> DEFINE T == {n - m : m \in S}
<1>1. T \in SUBSET Nat /\ T # {}
  <2>1. ASSUME NEW m \in S PROVE n - m \in Nat /\ n - m \in T
    OBVIOUS
  <2> QED
    BY <2>1
<1>2. PICK t \in T : \A u \in T : t <= u
  BY <1>1, LeastMember
<1>3. PICK x \in S : t = n - x
  BY <1>2
<1>4. \A m \in S : x >= m
  BY <1>2, <1>3
<1> QED
  BY <1>4 DEF Max

\* What is newest in a set of rows or of runs is in it, and nothing of it is newer.
LEMMA NewestMember ==
  ASSUME NEW n \in Nat, NEW S \in SUBSET (1 .. n)
  PROVE  /\ S = {} => Newest(S) = None
         /\ S # {} => Newest(S) \in S /\ \A m \in S : m <= Newest(S)
BY MaxMember DEF Newest

\* Rows and runs are naturals, and NULL is none of them.
LEMMA Numbers ==
  /\ Promotions \subseteq Nat \ {None}
  /\ Runs \subseteq Nat \ {None}
  /\ MaxPromotions \in Nat /\ MaxRuns \in Nat
BY NameAssumption, SizeAssumption DEF Promotions, Runs

\* The next row's number is one past those of the rows there are.
LEMMA NextRow ==
  ASSUME Inserted
  PROVE  /\ Cardinality(Made) \in Nat
         /\ Made = 1 .. Cardinality(Made)
<1>1. Made \subseteq 1 .. MaxPromotions /\ MaxPromotions \in Nat
  BY Numbers DEF Made, Promotions
<1>2. CASE Made = {}
  BY <1>2, FS_EmptySet
<1>3. CASE Made # {}
  <2>1. PICK m \in Made : \A q \in Made : q <= m
    BY <1>1, <1>3, MaxMember
  <2>2. m \in Nat /\ m >= 1 /\ m <= MaxPromotions
    BY <1>1
  <2>3. 1 .. m \subseteq Made
    BY <1>1, <2>1, <2>2 DEF Inserted, Promotions, Made
  <2>4. Made \subseteq 1 .. m
    BY <1>1, <2>1, <2>2
  <2>5. Made = 1 .. m
    BY <2>3, <2>4
  <2>6. Cardinality(1 .. m) = m
    <3>1. 1 \in Int /\ m \in Int /\ ~(1 > m)
      BY <2>2
    <3>2. Cardinality(1 .. m) = m - 1 + 1
      BY <3>1, FS_Interval
    <3> QED
      BY <2>2, <3>2
  <2> QED
    BY <2>2, <2>5, <2>6
<1> QED
  BY <1>2, <1>3

-----------------------------------------------------------------------------
(* What the operators on rows do *)

\* Marking a row changes its status and nothing else.
LEMMA MarkRow ==
  ASSUME NEW rows \in [Promotions -> Row], NEW p \in Promotions, NEW s \in Statuses
  PROVE  /\ Mark(rows, p, s) \in [Promotions -> Row]
         /\ \A q \in Promotions :
              /\ Mark(rows, p, s)[q].status = IF q = p THEN s ELSE rows[q].status
              /\ Mark(rows, p, s)[q].tag = rows[q].tag
              /\ Mark(rows, p, s)[q].digest = rows[q].digest
              /\ Mark(rows, p, s)[q].link = rows[q].link
              /\ Mark(rows, p, s)[q].run = rows[q].run
<1>1. [rows[p] EXCEPT !.status = s] \in Row
  BY DEF Row
<1>2. Mark(rows, p, s) = [rows EXCEPT ![p] = [rows[p] EXCEPT !.status = s]]
  BY DEF Mark
<1>3. Mark(rows, p, s) \in [Promotions -> Row]
  BY <1>1, <1>2
<1>4. \A q \in Promotions :
        Mark(rows, p, s)[q] = IF q = p THEN [rows[p] EXCEPT !.status = s] ELSE rows[q]
  BY <1>2
<1>5. rows[p] \in Row
  OBVIOUS
<1> QED
  BY <1>3, <1>4, <1>5 DEF Row

\* Expiry fails rows in flight, and changes nothing else of them.
LEMMA ExpiredRows ==
  ASSUME promo \in [Promotions -> Row]
  PROVE  /\ Expired \in [Promotions -> Row]
         /\ \A q \in Promotions :
              /\ \/ Expired[q].status = promo[q].status
                 \/ InFlight(q) /\ Expired[q].status = "failed"
              /\ Expired[q].tag = promo[q].tag
              /\ Expired[q].digest = promo[q].digest
              /\ Expired[q].link = promo[q].link
              /\ Expired[q].run = promo[q].run
<1>1. ASSUME NEW q \in Promotions
      PROVE  /\ [promo[q] EXCEPT !.status = "failed"] \in Row
             /\ [promo[q] EXCEPT !.status = "failed"].status = "failed"
             /\ [promo[q] EXCEPT !.status = "failed"].tag = promo[q].tag
             /\ [promo[q] EXCEPT !.status = "failed"].digest = promo[q].digest
             /\ [promo[q] EXCEPT !.status = "failed"].link = promo[q].link
             /\ [promo[q] EXCEPT !.status = "failed"].run = promo[q].run
  BY DEF Row, Statuses
<1>2. Expired \in [Promotions -> Row]
  BY <1>1 DEF Expired
<1>3. ASSUME NEW q \in Promotions
      PROVE  Expired[q] = IF q \in old /\ InFlight(q)
                          THEN [promo[q] EXCEPT !.status = "failed"] ELSE promo[q]
  BY DEF Expired
<1> QED
  BY <1>1, <1>2, <1>3

\* Settling a row marks it by its batches: running from dispatching, complete when every
\* batch is, failed otherwise, and not at all before it has one.
LEMMA SettledRows ==
  ASSUME NEW rows \in [Promotions -> Row], NEW p \in Promotions, NEW b
  PROVE  \/ Settled(rows, b, p) = rows
         \/ /\ \E k \in Kinds : rows[p].link[k] # None
            /\ \/ rows[p].status = "dispatching" /\ Settled(rows, b, p) = Mark(rows, p, "running")
               \/ Settled(rows, b, p) = Mark(rows, p, "failed")
               \/ /\ \A k \in Kinds : rows[p].link[k] # None => b[rows[p].link[k]][k] = "complete"
                  /\ Settled(rows, b, p) = Mark(rows, p, "complete")
<1> DEFINE how == {b[rows[p].link[k]][k] : k \in {k \in Kinds : rows[p].link[k] # None}}
<1>1. how # {} => \E k \in Kinds : rows[p].link[k] # None
  OBVIOUS
<1>2. how = {"complete"} =>
        \A k \in Kinds : rows[p].link[k] # None => b[rows[p].link[k]][k] = "complete"
  OBVIOUS
<1>3. Settled(rows, b, p) =
        IF how = {} THEN rows
        ELSE IF "running" \in how
             THEN IF rows[p].status = "dispatching" THEN Mark(rows, p, "running") ELSE rows
        ELSE Mark(rows, p, IF how = {"complete"} THEN "complete" ELSE "failed")
  BY DEF Settled
<1> HIDE DEF how
<1> QED
  BY <1>1, <1>2, <1>3

\* Linking a batch sets one link of one row.
LEMMA LinkRow ==
  ASSUME NEW rows \in [Promotions -> Row], NEW p \in Promotions, NEW k \in Kinds, NEW w \in Runs
  PROVE  /\ Link(rows, p, k, w) \in [Promotions -> Row]
         /\ \A q \in Promotions :
              /\ \A j \in Kinds : Link(rows, p, k, w)[q].link[j] =
                   IF q = p /\ j = k THEN w ELSE rows[q].link[j]
              /\ Link(rows, p, k, w)[q].status = rows[q].status
              /\ Link(rows, p, k, w)[q].tag = rows[q].tag
              /\ Link(rows, p, k, w)[q].digest = rows[q].digest
              /\ Link(rows, p, k, w)[q].run = rows[q].run
<1> DEFINE new == [rows[p] EXCEPT !.link = [rows[p].link EXCEPT ![k] = w]]
<1>1. p # None
  BY Numbers
<1>2. Link(rows, p, k, w) = [rows EXCEPT ![p] = new]
  BY <1>1 DEF Link
<1>3. rows[p] \in Row /\ rows[p].link \in [Kinds -> Runs \cup {None}]
  BY DEF Row
<1>4. /\ new \in Row
      /\ new.link = [rows[p].link EXCEPT ![k] = w]
      /\ new.status = rows[p].status /\ new.tag = rows[p].tag
      /\ new.digest = rows[p].digest /\ new.run = rows[p].run
  BY <1>3 DEF Row
<1> HIDE DEF new
<1>5. Link(rows, p, k, w) \in [Promotions -> Row]
  BY <1>2, <1>4
<1>6. \A q \in Promotions : Link(rows, p, k, w)[q] = IF q = p THEN new ELSE rows[q]
  BY <1>2
<1>7. \A j \in Kinds : new.link[j] = IF j = k THEN w ELSE rows[p].link[j]
  BY <1>3, <1>4
<1> QED
  BY <1>4, <1>5, <1>6, <1>7

-----------------------------------------------------------------------------
(* Steps that insert no row and make no batch *)

\* Statuses move as the indexes and the settling allow; nothing else of a row but its run does.
RowsFollow(rows) ==
  /\ rows \in [Promotions -> Row]
  /\ \A p \in Promotions :
       /\ rows[p].tag = promo[p].tag
       /\ rows[p].digest = promo[p].digest
       /\ rows[p].link = promo[p].link
       /\ rows[p].status = "none" <=> promo[p].status = "none"
       /\ rows[p].status = "dispatching" => promo[p].status = "dispatching"
       /\ rows[p].status = "complete" => promo[p].status = "complete" \/ Linked(p) = Kinds
  /\ \A p, q \in Promotions :
       rows[p].status = "running" /\ rows[q].status = "running" => p = q

\* Callbacks stay bound as they are, or end; a run keeps its tag, a store batch its verdict.
CallsQuiet ==
  \A w \in Runs :
    /\ callback'[w].bound = callback[w].bound
    /\ callback'[w].digest = callback[w].digest
    /\ callback'[w].pc # callback[w].pc => callback'[w].pc = "done" /\ run[w].tag # None
    /\ run[w].tag # None => run'[w].tag = run[w].tag
    /\ batch'[w]["store"] = batch[w]["store"]

RequestsQuiet ==
  /\ \A p \in Promotions : op'[p] # "ready" => op[p] # "ready"
  /\ poll' # None => poll'.promotion \in Made

Quiet == RowsFollow(promo') /\ CallsQuiet /\ RequestsQuiet

\* Such steps keep the inductive invariant.
LEMMA QuietKeeps ==
  ASSUME IInv, TypeOK', Quiet
  PROVE  IInv'
<1> USE DEF IInv, Quiet
<1>1. /\ \A p \in Promotions : p \in Made' <=> p \in Made
      /\ \A p \in Promotions : Linked(p)' = Linked(p)
  BY DEF RowsFollow, Made, Linked
<1>2. Made' = Made
  BY <1>1 DEF Made
<1>3. Inserted'
  BY <1>2 DEF Inserted, RequestsQuiet
<1>4. Indexed'
  BY <1>1, <1>2 DEF Indexed, RowsFollow
<1>5. CompleteOwnsBatches'
  BY <1>1 DEF CompleteOwnsBatches, RowsFollow
<1>6. CallsBound'
  <2> SUFFICES ASSUME NEW w \in Runs
               PROVE  /\ callback'[w].pc = "ready" => callback'[w].bound = None
                      /\ callback'[w].pc # "ready" => run'[w].tag # None
                      /\ callback'[w].bound # None =>
                           /\ callback'[w].bound \in Made'
                           /\ callback'[w].digest = promo'[callback'[w].bound].digest
                           /\ run'[w].tag = promo'[callback'[w].bound].tag
                           /\ promo'[callback'[w].bound].link["store"] # None
                           /\ callback'[w].pc = "ho" => promo'[callback'[w].bound].link["ho"] # None
                      /\ callback'[w].pc = "store" => batch'[w]["store"] = "running"
    BY DEF CallsBound
  <2>1. callback[w].bound # None =>
          /\ callback[w].bound \in Promotions
          /\ callback[w].pc # "ready" /\ run[w].tag # None
    BY DEF CallsBound, Made
  <2> QED
    BY <1>2, <2>1 DEF CallsBound, CallsQuiet, RowsFollow
<1>7. LinksBound'
  <2> SUFFICES ASSUME NEW p \in Promotions
               PROVE  /\ \A k \in Kinds : promo'[p].link[k] # None =>
                           callback'[promo'[p].link[k]].bound = p
                      /\ /\ promo'[p].link["store"] # None
                         /\ batch'[promo'[p].link["store"]]["store"] \in BatchVerdicts
                         => promo'[p].link["ho"] # None
    BY DEF LinksBound
  <2>1. \A k \in Kinds : promo[p].link[k] # None => promo[p].link[k] \in Runs
    BY DEF TypeOK
  <2> QED
    BY <2>1 DEF LinksBound, CallsQuiet, RowsFollow, Kinds
<1> QED
  BY <1>3, <1>4, <1>5, <1>6, <1>7

-----------------------------------------------------------------------------
(* The rows such steps write *)

\* The rows have the types of their columns.
LEMMA RowTypes ==
  ASSUME TypeOK
  PROVE  promo \in [Promotions -> Row]
BY DEF TypeOK, Row, Statuses

\* Rows left alone, or only expired, follow.
LEMMA SameFollow ==
  ASSUME IInv
  PROVE  RowsFollow(promo) /\ RowsFollow(Expired)
<1> USE DEF IInv
<1>1. promo \in [Promotions -> Row]
  BY RowTypes
<1>2. RowsFollow(promo)
  BY <1>1 DEF RowsFollow, Indexed
<1>3. RowsFollow(Expired)
  <2>1. /\ Expired \in [Promotions -> Row]
        /\ \A q \in Promotions :
             /\ \/ Expired[q].status = promo[q].status
                \/ InFlight(q) /\ Expired[q].status = "failed"
             /\ Expired[q].tag = promo[q].tag
             /\ Expired[q].digest = promo[q].digest
             /\ Expired[q].link = promo[q].link
    BY <1>1, ExpiredRows
  <2> QED
    BY <2>1 DEF RowsFollow, Indexed, InFlight
<1> QED
  BY <1>2, <1>3

\* Rows of which one more is marked follow, if the index lets it run and its batches complete it.
LEMMA MarkFollow ==
  ASSUME NEW rows, RowsFollow(rows), NEW p \in Made, NEW s \in {"running", "complete", "failed"},
         s = "running" => \A q \in Promotions \ {p} : rows[q].status # "running",
         s = "complete" => Linked(p) = Kinds
  PROVE  RowsFollow(Mark(rows, p, s))
<1>1. p \in Promotions /\ promo[p].status # "none" /\ s \in Statuses
  BY DEF Made, Statuses
<1>2. rows \in [Promotions -> Row]
  BY DEF RowsFollow
<1>3. /\ Mark(rows, p, s) \in [Promotions -> Row]
      /\ \A q \in Promotions :
           /\ Mark(rows, p, s)[q].status = IF q = p THEN s ELSE rows[q].status
           /\ Mark(rows, p, s)[q].tag = rows[q].tag
           /\ Mark(rows, p, s)[q].digest = rows[q].digest
           /\ Mark(rows, p, s)[q].link = rows[q].link
  BY <1>1, <1>2, MarkRow
<1> HIDE DEF Mark
<1> QED
  BY <1>1, <1>3 DEF RowsFollow

\* Rows of which one is settled by its batches follow: it is complete on both kinds only.
LEMMA SettledFollow ==
  ASSUME IInv, NEW rows, RowsFollow(rows), NEW p \in Made, NEW b,
         \A w \in Runs : b[w]["store"] = batch[w]["store"]
  PROVE  RowsFollow(Settled(rows, b, p))
<1> USE DEF IInv
<1>1. /\ p \in Promotions /\ rows \in [Promotions -> Row]
      /\ rows[p].link = promo[p].link
      /\ promo[p].link \in [Kinds -> Runs \cup {None}]
  BY DEF Made, RowsFollow, TypeOK
<1>2. CASE Settled(rows, b, p) = rows
  BY <1>2
<1>3. ASSUME \E k \in Kinds : rows[p].link[k] # None
      PROVE  /\ promo[p].link["store"] # None /\ promo[p].link["store"] \in Runs
             /\ rows[p].status # "dispatching"
  <2>1. PICK k \in Kinds : promo[p].link[k] # None
    BY <1>1, <1>3
  <2>2. promo[p].link[k] \in Runs /\ callback[promo[p].link[k]].bound = p
    BY <1>1, <2>1 DEF LinksBound
  <2>3. p # None
    BY <1>1, Numbers
  <2>4. promo[p].link["store"] # None
    BY <2>2, <2>3 DEF CallsBound
  <2>5. Linked(p) # {}
    BY <2>1 DEF Linked
  <2> QED
    BY <1>1, <2>4, <2>5 DEF Indexed, RowsFollow, Kinds
<1>4. CASE /\ \E k \in Kinds : rows[p].link[k] # None
           /\ Settled(rows, b, p) = Mark(rows, p, "failed")
  BY <1>4, MarkFollow
<1>5. CASE /\ \E k \in Kinds : rows[p].link[k] # None
           /\ \A k \in Kinds : rows[p].link[k] # None => b[rows[p].link[k]][k] = "complete"
           /\ Settled(rows, b, p) = Mark(rows, p, "complete")
  <2>1. batch[promo[p].link["store"]]["store"] = "complete" /\ promo[p].link["store"] # None
    BY <1>1, <1>3, <1>5 DEF Kinds
  <2>2. promo[p].link["ho"] # None
    BY <1>1, <2>1 DEF LinksBound, BatchVerdicts
  <2>3. Linked(p) = Kinds
    BY <2>1, <2>2 DEF Linked, Kinds
  <2> QED
    BY <1>5, <2>3, MarkFollow
<1> QED
  BY <1>1, <1>2, <1>3, <1>4, <1>5, SettledRows

-----------------------------------------------------------------------------
(* The steps that insert no row and make no batch are quiet *)

\* A dispatch makes a new run and leaves the runs there are alone.
LEMMA NewRunFrame ==
  ASSUME TypeOK, FreeRuns # {}, NEW tag \in Tags \cup {None}, NewRun(tag)
  PROVE  /\ run' \in [Runs -> [tag : Tags \cup {None}, concluded : BOOLEAN]]
         /\ \A w \in Runs : run[w].tag # None => run'[w].tag = run[w].tag
<1>1. FreeRuns \in SUBSET Nat
  BY Numbers DEF FreeRuns
<1>2. Min(FreeRuns) \in FreeRuns
  BY <1>1, MinMember
<1> DEFINE m == Min(FreeRuns)
<1>3. m \in Runs /\ run[m].tag = None
  BY <1>2 DEF FreeRuns
<1>4. run' = [run EXCEPT ![m] = [tag |-> tag, concluded |-> FALSE]]
  BY DEF NewRun
<1> HIDE DEF m
<1> QED
  BY <1>3, <1>4 DEF TypeOK

\* The request that inserted a row, over its awaits.
LEMMA RequestQuiet ==
  ASSUME IInv, NEW p \in Promotions, Request(p)
  PROVE  TypeOK' /\ Quiet
<1> USE DEF IInv
<1>1. op[p] # "ready" /\ p \in Made
  BY DEF Request, PostAccepted, PostThrows, FindRun, Inserted
<1>2. UNCHANGED <<old, callback, batch, poll, crashes>>
  BY DEF Request, PostAccepted, PostThrows, FindRun
<1>3. \E l \in {"finding", "done"} : op' = [op EXCEPT ![p] = l]
  BY DEF Request, PostAccepted, PostThrows, FindRun
<1>4. /\ op' \in [Promotions -> {"ready", "posting", "finding", "done"}]
      /\ RequestsQuiet
  <2>1. PICK l \in {"finding", "done"} : op' = [op EXCEPT ![p] = l]
    BY <1>3
  <2> QED
    BY <1>1, <1>2, <2>1 DEF TypeOK, RequestsQuiet, Inserted
<1>5. /\ run' \in [Runs -> [tag : Tags \cup {None}, concluded : BOOLEAN]]
      /\ \A w \in Runs : run[w].tag # None => run'[w].tag = run[w].tag
  <2>1. promo[p].tag \in Tags \cup {None}
    BY DEF TypeOK
  <2>2. run' = run \/ (FreeRuns # {} /\ NewRun(promo[p].tag))
    BY DEF Request, PostAccepted, PostThrows, FindRun
  <2>3. CASE run' = run
    BY <2>3 DEF TypeOK
  <2>4. CASE FreeRuns # {} /\ NewRun(promo[p].tag)
    BY <2>1, <2>4, NewRunFrame
  <2> QED
    BY <2>2, <2>3, <2>4
<1>6. RowsFollow(promo')
  <2>1. CASE PostAccepted(p)
    BY <2>1, SameFollow DEF PostAccepted
  <2>2. CASE PostThrows(p)
    BY <1>1, <2>2, SameFollow, MarkFollow DEF PostThrows
  <2>3. ASSUME NEW w \in Runs \cup {None}, FindRun(p, w)
        PROVE  RowsFollow(promo')
    <3>1. CASE UniqueRefuses(promo, p, "running")
      BY <1>1, <2>3, <3>1, SameFollow, MarkFollow DEF FindRun
    <3>2. CASE ~UniqueRefuses(promo, p, "running")
      <4>1. promo \in [Promotions -> Row] /\ promo[p] \in Row
        BY RowTypes
      <4> DEFINE new == [promo[p] EXCEPT !.status = "running", !.run = w]
      <4>2. promo' = [promo EXCEPT ![p] = new]
        BY <2>3, <3>2 DEF FindRun
      <4>3. /\ new \in Row /\ new.status = "running" /\ new.tag = promo[p].tag
            /\ new.digest = promo[p].digest /\ new.link = promo[p].link
        BY <4>1 DEF Row, Statuses
      <4> HIDE DEF new
      <4>4. /\ promo' \in [Promotions -> Row]
            /\ \A q \in Promotions : promo'[q] = IF q = p THEN new ELSE promo[q]
        BY <4>1, <4>2, <4>3
      <4>5. \A q \in Promotions \ {p} : promo[q].status # "running"
        BY <3>2 DEF UniqueRefuses
      <4>6. RowsFollow(promo)
        BY SameFollow
      <4> QED
        BY <1>1, <4>3, <4>4, <4>5, <4>6 DEF RowsFollow, Made
    <3> QED
      BY <3>1, <3>2
  <2> QED
    BY <2>1, <2>2, <2>3 DEF Request
<1>7. TypeOK'
  BY <1>2, <1>4, <1>5, <1>6 DEF TypeOK, RowsFollow, Row, Statuses
<1>8. CallsQuiet
  BY <1>2, <1>5 DEF CallsQuiet
<1> QED
  BY <1>4, <1>6, <1>7, <1>8 DEF Quiet

\* The workflow, dispatched by hand or concluding.
LEMMA GitHubQuiet ==
  ASSUME IInv, GitHub
  PROVE  TypeOK' /\ Quiet
<1> USE DEF IInv
<1>1. UNCHANGED <<promo, old, op, callback, batch, poll, crashes>>
  BY DEF GitHub, ManualRun, RunConcludes
<1>2. /\ run' \in [Runs -> [tag : Tags \cup {None}, concluded : BOOLEAN]]
      /\ \A w \in Runs : run[w].tag # None => run'[w].tag = run[w].tag
  <2>1. ASSUME NEW tag \in Tags, ManualRun(tag)
        PROVE  FreeRuns # {} /\ NewRun(tag)
    BY <2>1 DEF ManualRun
  <2>2. ASSUME NEW w \in Runs, RunConcludes(w)
        PROVE  /\ run' \in [Runs -> [tag : Tags \cup {None}, concluded : BOOLEAN]]
               /\ \A x \in Runs : run[x].tag # None => run'[x].tag = run[x].tag
    BY <2>2 DEF RunConcludes, TypeOK
  <2> QED
    BY <2>1, <2>2, NewRunFrame DEF GitHub
<1>3. RowsFollow(promo')
  BY <1>1, SameFollow
<1>4. TypeOK' /\ CallsQuiet /\ RequestsQuiet
  BY <1>1, <1>2 DEF TypeOK, CallsQuiet, RequestsQuiet, Inserted
<1> QED
  BY <1>3, <1>4 DEF Quiet

\* The promotion a call is bound to is one in flight with the tag of its run.
LEMMA BoundMember ==
  ASSUME NEW w \in Runs, Bound(w) # None
  PROVE  /\ Bound(w) \in Active /\ Bound(w) \in Made
         /\ promo[Bound(w)].tag = run[w].tag
         /\ \A p \in Active : promo[p].tag = run[w].tag => p <= Bound(w)
<1> DEFINE S == {p \in Active : promo[p].tag = run[w].tag}
<1>1. S \in SUBSET (1 .. MaxPromotions) /\ MaxPromotions \in Nat
  BY Numbers DEF Active, Promotions
<1>2. Bound(w) = Newest(S)
  BY DEF Bound
<1>3. Bound(w) \in S /\ \A m \in S : m <= Bound(w)
  <2> HIDE DEF S
  <2> QED
    BY <1>1, <1>2, NewestMember
<1> QED
  BY <1>3 DEF Active, Made, InFlight

\* A callback that is refused, or that throws, ends; the promotion it is for fails or not.
LEMMA CallEndsQuiet ==
  ASSUME IInv, NEW w \in Runs, NEW d \in Digests, RefuseCall(w, d) \/ CallThrows(w, d)
  PROVE  TypeOK' /\ Quiet
<1> USE DEF IInv
<1>1. /\ UNCHANGED <<old, op, run, batch, poll, crashes>>
      /\ callback' = [callback EXCEPT ![w].pc = "done"]
  BY DEF RefuseCall, CallThrows, Ends
<1>2. run[w].tag # None
  BY DEF RefuseCall, CallThrows, Admits, Calls, CallsBound, Kinds
<1>4. RowsFollow(promo')
  <2>1. CASE promo' = promo
    BY <2>1, SameFollow
  <2>2. CASE \E p \in Made : promo' = Mark(promo, p, "failed")
    BY <2>2, SameFollow, MarkFollow
  <2>3. promo' = promo \/ \E p \in Made : promo' = Mark(promo, p, "failed")
    <3>1. CASE RefuseCall(w, d)
      BY <3>1, BoundMember DEF RefuseCall, DigestMismatch
    <3>2. CASE CallThrows(w, d)
      <4>1. PICK p \in {Bound(w), callback[w].bound} : FailBound(p)
        BY <3>2 DEF CallThrows
      <4>2. p = None \/ p \in Made
        BY <4>1, BoundMember DEF CallsBound
      <4> QED
        BY <4>1, <4>2 DEF FailBound
    <3> QED
      BY <3>1, <3>2
  <2> QED
    BY <2>1, <2>2, <2>3
<1>5. callback' \in [Runs -> [pc : {"ready", "done"} \cup Kinds,
                              bound : Promotions \cup {None}, digest : Digests \cup {None}]]
  BY <1>1 DEF TypeOK
<1>6. TypeOK'
  BY <1>1, <1>4, <1>5 DEF TypeOK, RowsFollow, Row, Statuses
<1>7. CallsQuiet
  BY <1>1, <1>2 DEF CallsQuiet, TypeOK
<1>8. RequestsQuiet
  BY <1>1 DEF RequestsQuiet, Inserted
<1> QED
  BY <1>4, <1>6, <1>7, <1>8 DEF Quiet

\* The head offices' batch ends, and its promotion is settled by both.
LEMMA HoBatchQuiet ==
  ASSUME IInv, NEW w \in Runs, NEW how \in BatchVerdicts, HoBatchEnds(w, how)
  PROVE  TypeOK' /\ Quiet
<1> USE DEF IInv
<1>1. /\ UNCHANGED <<old, op, run, poll, crashes>>
      /\ callback[w].pc = "ho"
      /\ callback' = [callback EXCEPT ![w].pc = "done"]
      /\ batch' = [batch EXCEPT ![w]["ho"] = how]
  BY DEF HoBatchEnds, Ends
<1>2. run[w].tag # None
  BY <1>1 DEF CallsBound
<1>3. /\ batch' \in [Runs -> [Kinds -> {"none", "running"} \cup BatchVerdicts]]
      /\ \A x \in Runs : batch'[x]["store"] = batch[x]["store"]
  BY <1>1 DEF TypeOK, Kinds
<1>4. RowsFollow(promo')
  <2>1. CASE callback[w].bound = None
    BY <2>1, SameFollow DEF HoBatchEnds
  <2>2. CASE callback[w].bound # None
    <3>1. callback[w].bound \in Made
      BY <2>2 DEF CallsBound
    <3>2. promo' = Settled(promo, batch', callback[w].bound)
      BY <2>2 DEF HoBatchEnds
    <3>3. RowsFollow(promo)
      BY SameFollow
    <3> QED
      BY <1>3, <3>1, <3>2, <3>3, SettledFollow
  <2> QED
    BY <2>1, <2>2
<1>5. callback' \in [Runs -> [pc : {"ready", "done"} \cup Kinds,
                              bound : Promotions \cup {None}, digest : Digests \cup {None}]]
  BY <1>1 DEF TypeOK
<1>6. TypeOK'
  BY <1>1, <1>3, <1>4, <1>5 DEF TypeOK, RowsFollow, Row, Statuses
<1>7. CallsQuiet
  BY <1>1, <1>2, <1>3 DEF CallsQuiet, TypeOK
<1>8. RequestsQuiet
  BY <1>1 DEF RequestsQuiet, Inserted
<1> QED
  BY <1>4, <1>6, <1>7, <1>8 DEF Quiet

\* A poll settles or expires rows, before its question to GitHub or after the answer.
LEMMA PollQuiet ==
  ASSUME IInv, Poll
  PROVE  TypeOK' /\ Quiet
<1> USE DEF IInv
<1>1. UNCHANGED <<old, op, run, callback, batch, crashes>>
  BY DEF Poll, PollBegins, PollAnswered, PollUnanswered
<1>2. poll # None => poll.promotion \in Made
  BY DEF Inserted
<1>3. /\ RowsFollow(promo')
      /\ poll' \in {None} \cup [promotion : Promotions, run : Runs]
      /\ poll' # None => poll'.promotion \in Made
  <2>1. CASE PollBegins
    <3> DEFINE live == {p \in Active : p \notin old}
               n    == Newest(live)
    <3>1. live \in SUBSET (1 .. MaxPromotions) /\ MaxPromotions \in Nat
      BY Numbers DEF Active, Promotions
    <3>2. n # None => n \in live
      <4> HIDE DEF live
      <4> QED
        BY <3>1, NewestMember
    <3>3. n # None => n \in Made /\ n \in Promotions
      BY <3>2 DEF Active, Made, InFlight
    <3>4. /\ promo' = IF n # None /\ Linked(n) # {} THEN Settled(Expired, batch, n) ELSE Expired
          /\ poll' = IF n # None /\ Linked(n) = {} /\ promo[n].run # None
                     THEN [promotion |-> n, run |-> promo[n].run] ELSE None
      BY <2>1 DEF PollBegins
    <3> HIDE DEF n
    <3>5. RowsFollow(promo')
      BY <3>3, <3>4, SameFollow, SettledFollow
    <3>6. n # None => promo[n].run \in Runs \cup {None}
      BY <3>3 DEF TypeOK
    <3> QED
      BY <3>3, <3>4, <3>5, <3>6
  <2>2. CASE PollAnswered
    BY <1>2, <2>2, SameFollow, MarkFollow DEF PollAnswered
  <2>3. CASE PollUnanswered
    BY <1>2, <2>3, SameFollow, MarkFollow DEF PollUnanswered
  <2> QED
    BY <2>1, <2>2, <2>3 DEF Poll
<1>4. TypeOK'
  BY <1>1, <1>3 DEF TypeOK, RowsFollow, Row, Statuses
<1>5. CallsQuiet /\ RequestsQuiet
  BY <1>1, <1>3 DEF CallsQuiet, RequestsQuiet
<1> QED
  BY <1>3, <1>4, <1>5 DEF Quiet

\* Time passes, or a restart ends every request.
LEMMA TimeQuiet ==
  ASSUME IInv, Crash \/ \E p \in Promotions : Ages(p)
  PROVE  TypeOK' /\ Quiet
<1> USE DEF IInv
<1>1. RowsFollow(promo')
  BY SameFollow DEF Crash, Ages
<1>2. CASE Crash
  <2>1. callback' \in [Runs -> [pc : {"ready", "done"} \cup Kinds,
                                bound : Promotions \cup {None}, digest : Digests \cup {None}]]
    <3> DEFINE Call == [pc : {"ready", "done"} \cup Kinds,
                        bound : Promotions \cup {None}, digest : Digests \cup {None}]
    <3>1. ASSUME NEW w \in Runs
          PROVE  callback[w] \in Call /\ [callback[w] EXCEPT !.pc = "done"] \in Call
      BY DEF TypeOK
    <3> HIDE DEF Call
    <3>2. callback' \in [Runs -> Call]
      BY <1>2, <3>1 DEF Crash
    <3> QED
      BY <3>2 DEF Call
  <2>2. TypeOK'
    BY <1>2, <2>1, SizeAssumption DEF Crash, TypeOK
  <2>3. CallsQuiet
    BY <1>2 DEF Crash, CallsQuiet, CallsBound, TypeOK
  <2>4. RequestsQuiet
    BY <1>2 DEF Crash, RequestsQuiet
  <2> QED
    BY <1>1, <2>2, <2>3, <2>4 DEF Quiet
<1>3. CASE \E p \in Promotions : Ages(p)
  <2>1. UNCHANGED <<promo, op, run, callback, batch, poll, crashes>> /\ old' \subseteq Promotions
    BY <1>3 DEF Ages, TypeOK
  <2>2. TypeOK' /\ CallsQuiet /\ RequestsQuiet
    BY <2>1 DEF TypeOK, CallsQuiet, RequestsQuiet, Inserted
  <2> QED
    BY <1>1, <2>2 DEF Quiet
<1> QED
  BY <1>2, <1>3

-----------------------------------------------------------------------------
(* The steps that insert a row or make a batch *)

\* An approval inserts the next row, when the index finds no other being dispatched.
LEMMA StartKeeps ==
  ASSUME IInv, NEW tag \in Tags, StartPromotion(tag)
  PROVE  IInv'
<1> USE DEF IInv
<1>0. PICK p : p = Cardinality(Made) + 1
  OBVIOUS
<1>1. /\ Cardinality(Made) \in Nat /\ Made = 1 .. Cardinality(Made)
      /\ Cardinality(Made) < MaxPromotions /\ MaxPromotions \in Nat
  BY NextRow, Numbers DEF StartPromotion
<1>2. /\ p \in Promotions /\ p \notin Made
      /\ p <= p /\ \A q \in Made : q < p /\ q <= p
  BY <1>0, <1>1 DEF Promotions
<1>3. UNCHANGED <<old, run, callback, batch, poll, crashes>>
  BY DEF StartPromotion
<1>4. CASE UniqueRefuses(Expired, p, "dispatching")
  <2>1. promo' = Expired /\ UNCHANGED op
    BY <1>0, <1>4 DEF StartPromotion
  <2>2. RowsFollow(promo')
    BY <2>1, SameFollow
  <2>3. TypeOK'
    BY <1>3, <2>1, <2>2 DEF TypeOK, RowsFollow, Row, Statuses
  <2>4. CallsQuiet /\ RequestsQuiet
    BY <1>3, <2>1 DEF CallsQuiet, RequestsQuiet, Inserted
  <2> QED
    BY <2>2, <2>3, <2>4, QuietKeeps DEF Quiet
<1>5. CASE ~UniqueRefuses(Expired, p, "dispatching")
  <2> DEFINE new == [status |-> "dispatching", tag |-> tag, digest |-> Staged[tag],
                     link |-> [k \in Kinds |-> None], run |-> None]
  <2>1. promo' = [Expired EXCEPT ![p] = new] /\ op' = [op EXCEPT ![p] = "posting"]
    BY <1>0, <1>5 DEF StartPromotion
  <2>2. new \in Row
    BY SizeAssumption DEF Row, Statuses
  <2>3. new.status = "dispatching" /\ \A k \in Kinds : new.link[k] = None
    OBVIOUS
  <2> HIDE DEF new
  <2>4. RowsFollow(Expired)
    BY SameFollow
  <2>5. /\ promo' \in [Promotions -> Row]
        /\ \A q \in Promotions : promo'[q] = IF q = p THEN new ELSE Expired[q]
    BY <1>2, <2>1, <2>2, <2>4 DEF RowsFollow
  <2>6. \A q \in Promotions : q # p => Expired[q].status # "dispatching"
    BY <1>5 DEF UniqueRefuses
  <2>7. op' \in [Promotions -> {"ready", "posting", "finding", "done"}]
        /\ \A q \in Promotions : q # p => op'[q] = op[q]
    BY <1>2, <2>1 DEF TypeOK
  <2>8. TypeOK'
    BY <1>3, <2>5, <2>7 DEF TypeOK, Row, Statuses
  <2>9. \A q \in Promotions : q \in Made' <=> q \in Made \/ q = p
    BY <1>2, <2>3, <2>4, <2>5 DEF Made, RowsFollow
  <2>10. Made' \subseteq Promotions /\ Made \subseteq Promotions
    BY DEF Made
  <2>11. Made' = Made \cup {p}
    BY <1>2, <2>9, <2>10
  <2>12. \A q \in Promotions : q < p => q \in Made
    BY <1>0, <1>1 DEF Promotions
  <2>13. Inserted'
    BY <1>2, <1>3, <2>7, <2>11, <2>12 DEF Inserted
  <2>14. /\ Linked(p)' = {}
         /\ \A q \in Promotions : q # p => Linked(q)' = Linked(q)
    <3>1. Linked(p)' = {}
      BY <1>2, <2>3, <2>5 DEF Linked
    <3>2. ASSUME NEW q \in Promotions, q # p PROVE Linked(q)' = Linked(q)
      BY <2>4, <2>5, <3>2 DEF Linked, RowsFollow
    <3> QED
      BY <3>1, <3>2, Zenon DEF Linked
  <2>15. Indexed'
    <3>1. \A q \in Promotions : promo'[q].status = "dispatching" => q = p
      BY <2>5, <2>6
    <3>2. \A q \in Made' : q <= p
      BY <1>1, <1>2, <2>11
    <3>3. \A q \in Promotions : promo'[q].status = "running" =>
            q # p /\ Expired[q].status = "running"
      BY <2>3, <2>5
    <3>4. \A q, r \in Promotions :
            promo'[q].status = "running" /\ promo'[r].status = "running" => q = r
      BY <2>4, <3>3 DEF RowsFollow
    <3>5. \A q \in Promotions : promo'[q].status = "dispatching" =>
            Linked(q)' = {} /\ \A r \in Made' : r <= q
      BY <2>14, <3>1, <3>2 DEF Linked
    <3> QED
      BY <3>4, <3>5 DEF Indexed
  <2>16. CompleteOwnsBatches'
    BY <2>3, <2>4, <2>5, <2>14 DEF CompleteOwnsBatches, RowsFollow
  <2>17. CallsBound'
    <3>1. \A w \in Runs : callback[w].bound # None =>
            callback[w].bound # p /\ callback[w].bound \in Promotions
      BY <1>2 DEF CallsBound, Made
    <3> QED
      BY <1>3, <2>4, <2>5, <2>11, <3>1 DEF CallsBound, RowsFollow
  <2>18. LinksBound'
    BY <1>3, <2>3, <2>4, <2>5 DEF LinksBound, RowsFollow, Kinds
  <2> QED
    BY <2>8, <2>13, <2>15, <2>16, <2>17, <2>18
<1> QED
  BY <1>4, <1>5

\* A call that is admitted runs its promotion and links the store batch to it.
LEMMA AcceptKeeps ==
  ASSUME IInv, NEW w \in Runs, NEW d \in Digests, AcceptCall(w, d)
  PROVE  IInv'
<1> USE DEF IInv
<1>0. PICK p : p = Bound(w)
  OBVIOUS
<1>1. /\ UNCHANGED <<old, op, run, poll, crashes>>
      /\ batch' = [batch EXCEPT ![w]["store"] = "running"]
      /\ callback' = [callback EXCEPT ![w] = [pc |-> "store", bound |-> p,
           digest |-> IF p = None THEN None ELSE d]]
      /\ promo' = Link(IF p = None THEN promo ELSE Mark(promo, p, "running"), p, "store", w)
  BY <1>0 DEF AcceptCall
<1>2. /\ callback[w].pc = "ready" /\ callback[w].bound = None /\ run[w].tag # None
      /\ \A q \in Promotions, k \in Kinds : promo[q].link[k] # w
  <2>1. callback[w].pc = "ready" /\ callback[w].bound = None /\ run[w].tag # None
    BY DEF AcceptCall, Admits, Calls, CallsBound
  <2> QED
    BY <2>1, Numbers DEF LinksBound
<1>3. /\ batch' \in [Runs -> [Kinds -> {"none", "running"} \cup BatchVerdicts]]
      /\ batch'[w]["store"] = "running"
      /\ \A x \in Runs : x # w => batch'[x] = batch[x]
  BY <1>1 DEF TypeOK, Kinds
<1>4. \A x \in Runs : callback'[x] =
        IF x = w THEN [pc |-> "store", bound |-> p, digest |-> IF p = None THEN None ELSE d]
        ELSE callback[x]
  BY <1>1 DEF TypeOK
<1>5. p \in Promotions \cup {None}
  BY <1>0, BoundMember DEF Made
<1>6. callback' \in [Runs -> [pc : {"ready", "done"} \cup Kinds,
                              bound : Promotions \cup {None}, digest : Digests \cup {None}]]
  <2>1. [pc |-> "store", bound |-> p, digest |-> IF p = None THEN None ELSE d] \in
          [pc : {"ready", "done"} \cup Kinds,
           bound : Promotions \cup {None}, digest : Digests \cup {None}]
    BY <1>5 DEF Kinds
  <2> QED
    BY <1>1, <2>1 DEF TypeOK
<1>7. CASE p = None
  <2>1. promo' = promo
    BY <1>1, <1>7 DEF Link
  <2>2. TypeOK'
    BY <1>1, <1>3, <1>6, <2>1 DEF TypeOK
  <2>3. Made' = Made /\ \A q \in Promotions : promo'[q] = promo[q]
    BY <2>1 DEF Made
  <2>4. Inserted' /\ Indexed' /\ CompleteOwnsBatches'
    BY <1>1, <2>1 DEF Inserted, Indexed, CompleteOwnsBatches, Made, Linked
  <2>5. CallsBound'
    <3>1. callback'[w].bound = None /\ callback'[w].pc = "store"
      BY <1>4, <1>7
    <3>2. \A x \in Runs : x # w => callback'[x] = callback[x] /\ batch'[x] = batch[x]
      BY <1>3, <1>4
    <3> QED
      BY <1>1, <1>2, <1>3, <2>1, <2>3, <3>1, <3>2 DEF CallsBound
  <2>6. LinksBound'
    <3>1. \A q \in Promotions, k \in Kinds : promo[q].link[k] \in Runs \cup {None}
      BY DEF TypeOK
    <3> QED
      BY <1>2, <1>3, <1>4, <2>3, <3>1 DEF LinksBound, Kinds
  <2> QED
    BY <2>2, <2>4, <2>5, <2>6
<1>8. CASE p # None
  <2>1. /\ p \in Promotions /\ p \in Made /\ p \in Active /\ promo[p].tag = run[w].tag
    BY <1>0, <1>8, BoundMember DEF Made
  <2>2. promo[p].digest = d /\ \A q \in Promotions \ {p} : promo[q].status # "running"
    BY <1>0, <1>8 DEF AcceptCall, Admits, DigestMismatch, UniqueRefuses
  <2> DEFINE rows == Mark(promo, p, "running")
  <2>3. RowsFollow(rows) /\ rows \in [Promotions -> Row]
    <3>1. RowsFollow(promo)
      BY SameFollow
    <3> QED
      BY <2>1, <2>2, <3>1, MarkFollow DEF RowsFollow
  <2>4. /\ \A q \in Promotions : rows[q].status = IF q = p THEN "running" ELSE promo[q].status
        /\ promo \in [Promotions -> Row]
    BY <2>1, RowTypes, MarkRow DEF Statuses
  <2>5. promo' = Link(rows, p, "store", w) /\ "store" \in Kinds
    BY <1>1, <1>8 DEF Kinds
  <2> HIDE DEF rows
  <2>6. /\ promo' \in [Promotions -> Row]
        /\ \A q \in Promotions :
             /\ \A j \in Kinds : promo'[q].link[j] = IF q = p /\ j = "store" THEN w ELSE rows[q].link[j]
             /\ promo'[q].status = rows[q].status
             /\ promo'[q].tag = rows[q].tag
             /\ promo'[q].digest = rows[q].digest
    BY <2>1, <2>3, <2>5, LinkRow
  <2>7. \A q \in Promotions :
          /\ \A j \in Kinds : promo'[q].link[j] = IF q = p /\ j = "store" THEN w ELSE promo[q].link[j]
          /\ promo'[q].status = IF q = p THEN "running" ELSE promo[q].status
          /\ promo'[q].tag = promo[q].tag
          /\ promo'[q].digest = promo[q].digest
    BY <2>3, <2>4, <2>6 DEF RowsFollow
  <2>8. TypeOK'
    BY <1>1, <1>3, <1>6, <2>6 DEF TypeOK, Row, Statuses
  <2>9. Made' = Made
    BY <2>1, <2>7 DEF Made
  <2>10. w # None
    BY Numbers
  <2>11. \A q \in Promotions : Linked(q) \subseteq Linked(q)' /\ (q # p => Linked(q)' = Linked(q))
    BY <2>7, <2>10 DEF Linked
  <2>12. Inserted'
    BY <1>1, <2>9 DEF Inserted
  <2>13. Indexed'
    <3>1. \A q \in Promotions : promo'[q].status = "dispatching" =>
            q # p /\ promo[q].status = "dispatching"
      BY <2>7
    <3>2. \A q \in Promotions : promo'[q].status = "running" => q = p
      BY <2>2, <2>7
    <3>3. \A q \in Promotions : promo'[q].status = "dispatching" =>
            Linked(q)' = {} /\ \A r \in Made' : r <= q
      BY <2>9, <2>11, <3>1 DEF Indexed, Linked
    <3> QED
      BY <3>2, <3>3 DEF Indexed
  <2>14. CompleteOwnsBatches'
    <3>1. \A q \in Promotions : promo'[q].status = "complete" =>
            q # p /\ promo[q].status = "complete"
      BY <2>7
    <3> QED
      BY <2>11, <3>1 DEF CompleteOwnsBatches, Linked
  <2>15. CallsBound'
    <3> SUFFICES ASSUME NEW x \in Runs
                 PROVE  /\ callback'[x].pc = "ready" => callback'[x].bound = None
                        /\ callback'[x].pc # "ready" => run'[x].tag # None
                        /\ callback'[x].bound # None =>
                             /\ callback'[x].bound \in Made'
                             /\ callback'[x].digest = promo'[callback'[x].bound].digest
                             /\ run'[x].tag = promo'[callback'[x].bound].tag
                             /\ promo'[callback'[x].bound].link["store"] # None
                             /\ callback'[x].pc = "ho" => promo'[callback'[x].bound].link["ho"] # None
                        /\ callback'[x].pc = "store" => batch'[x]["store"] = "running"
      BY DEF CallsBound
    <3>1. CASE x = w
      BY <1>1, <1>2, <1>3, <1>4, <1>8, <2>1, <2>2, <2>7, <2>9, <2>10, <3>1 DEF Kinds
    <3>2. CASE x # w
      <4>1. callback[x].bound # None => callback[x].bound \in Promotions
        BY DEF CallsBound, Made
      <4> QED
        BY <1>1, <1>3, <1>4, <2>7, <2>9, <2>10, <3>2, <4>1 DEF CallsBound, Kinds
    <3> QED
      BY <3>1, <3>2
  <2>16. LinksBound'
    <3> SUFFICES ASSUME NEW q \in Promotions
                 PROVE  /\ \A k \in Kinds : promo'[q].link[k] # None =>
                             callback'[promo'[q].link[k]].bound = q
                        /\ /\ promo'[q].link["store"] # None
                           /\ batch'[promo'[q].link["store"]]["store"] \in BatchVerdicts
                           => promo'[q].link["ho"] # None
      BY DEF LinksBound
    <3>1. \A k \in Kinds : promo[q].link[k] \in Runs \cup {None}
      BY DEF TypeOK
    <3>2. \A k \in Kinds : promo'[q].link[k] # None => callback'[promo'[q].link[k]].bound = q
      BY <1>2, <1>4, <2>7, <3>1 DEF LinksBound
    <3>3. CASE q = p
      BY <1>3, <2>7, <3>2, <3>3 DEF BatchVerdicts, Kinds
    <3>4. CASE q # p
      BY <1>2, <1>3, <2>7, <3>1, <3>2, <3>4 DEF LinksBound, Kinds
    <3> QED
      BY <3>2, <3>3, <3>4
  <2> QED
    BY <2>8, <2>12, <2>13, <2>14, <2>15, <2>16
<1> QED
  BY <1>7, <1>8

\* The stores' batch ends, and the head offices' begins and is linked in the same turn.
LEMMA StoreBatchKeeps ==
  ASSUME IInv, NEW w \in Runs, NEW how \in BatchVerdicts, StoreBatchEnds(w, how)
  PROVE  IInv'
<1> USE DEF IInv
<1>0. PICK p : p = callback[w].bound
  OBVIOUS
<1>1. /\ UNCHANGED <<old, op, run, poll, crashes>>
      /\ callback[w].pc = "store"
      /\ callback' = [callback EXCEPT ![w].pc = "ho"]
      /\ batch' = [batch EXCEPT ![w] = [store |-> how, ho |-> "running"]]
      /\ promo' = Link(promo, p, "ho", w)
  BY <1>0 DEF StoreBatchEnds
<1>2. run[w].tag # None
  BY <1>1 DEF CallsBound
<1>3. /\ batch' \in [Runs -> [Kinds -> {"none", "running"} \cup BatchVerdicts]]
      /\ \A x \in Runs : x # w => batch'[x] = batch[x]
  <2>1. [store |-> how, ho |-> "running"] \in [Kinds -> {"none", "running"} \cup BatchVerdicts]
    BY DEF Kinds
  <2> QED
    BY <1>1, <2>1 DEF TypeOK
<1>4. /\ callback' \in [Runs -> [pc : {"ready", "done"} \cup Kinds,
                                 bound : Promotions \cup {None}, digest : Digests \cup {None}]]
      /\ \A x \in Runs : /\ callback'[x].bound = callback[x].bound
                         /\ callback'[x].digest = callback[x].digest
                         /\ callback'[x].pc = IF x = w THEN "ho" ELSE callback[x].pc
  BY <1>1 DEF TypeOK, Kinds
<1>5. CASE p = None
  <2>1. promo' = promo
    BY <1>1, <1>5 DEF Link
  <2>2. TypeOK'
    BY <1>1, <1>3, <1>4, <2>1 DEF TypeOK
  <2>3. Made' = Made /\ \A q \in Promotions : promo'[q] = promo[q]
    BY <2>1 DEF Made
  <2>4. Inserted' /\ Indexed' /\ CompleteOwnsBatches'
    BY <1>1, <2>1 DEF Inserted, Indexed, CompleteOwnsBatches, Made, Linked
  <2>5. CallsBound'
    <3>1. callback[w].bound = None
      BY <1>0, <1>5
    <3> QED
      BY <1>1, <1>2, <1>3, <1>4, <2>1, <2>3, <3>1 DEF CallsBound
  <2>6. LinksBound'
    <3>1. \A q \in Promotions, k \in Kinds :
            promo[q].link[k] \in Runs \cup {None} /\ promo[q].link[k] # w
      <4>1. \A q \in Promotions : q # None
        BY Numbers
      <4>2. ASSUME NEW q \in Promotions, NEW k \in Kinds, promo[q].link[k] = w PROVE FALSE
        <5>1. w # None /\ callback[w].bound = None
          BY <1>0, <1>5, Numbers
        <5> QED
          BY <4>1, <4>2, <5>1 DEF LinksBound
      <4> QED
        BY <4>2 DEF TypeOK
    <3> QED
      BY <1>3, <1>4, <2>3, <3>1 DEF LinksBound, Kinds
  <2> QED
    BY <2>2, <2>4, <2>5, <2>6
<1>6. CASE p # None
  <2>1. /\ p \in Promotions /\ p \in Made
        /\ promo[p].link["store"] # None /\ promo[p].status # "dispatching"
    <3>1. p \in Promotions /\ p \in Made /\ promo[p].link["store"] # None
      BY <1>0, <1>6 DEF CallsBound, Made
    <3>2. Linked(p) # {}
      BY <3>1 DEF Linked, Kinds
    <3> QED
      BY <3>1, <3>2 DEF Indexed
  <2>2. promo \in [Promotions -> Row] /\ "ho" \in Kinds
    BY RowTypes DEF Kinds
  <2>3. /\ promo' \in [Promotions -> Row]
        /\ \A q \in Promotions :
             /\ \A j \in Kinds : promo'[q].link[j] = IF q = p /\ j = "ho" THEN w ELSE promo[q].link[j]
             /\ promo'[q].status = promo[q].status
             /\ promo'[q].tag = promo[q].tag
             /\ promo'[q].digest = promo[q].digest
    BY <1>1, <2>1, <2>2, LinkRow
  <2>4. TypeOK'
    BY <1>1, <1>3, <1>4, <2>3 DEF TypeOK, Row, Statuses
  <2>5. Made' = Made
    BY <2>3 DEF Made
  <2>6. w # None
    BY Numbers
  <2>7. \A q \in Promotions : Linked(q) \subseteq Linked(q)' /\ (q # p => Linked(q)' = Linked(q))
    BY <2>3, <2>6 DEF Linked
  <2>8. Inserted'
    BY <1>1, <2>5 DEF Inserted
  <2>9. Indexed'
    <3>1. \A q \in Promotions : promo'[q].status = "dispatching" =>
            Linked(q)' = {} /\ \A r \in Made' : r <= q
      BY <2>1, <2>3, <2>5, <2>7 DEF Indexed, Linked
    <3> QED
      BY <2>3, <3>1 DEF Indexed
  <2>10. CompleteOwnsBatches'
    BY <2>3, <2>7 DEF CompleteOwnsBatches, Linked
  <2>11. CallsBound'
    <3> SUFFICES ASSUME NEW x \in Runs
                 PROVE  /\ callback'[x].pc = "ready" => callback'[x].bound = None
                        /\ callback'[x].pc # "ready" => run'[x].tag # None
                        /\ callback'[x].bound # None =>
                             /\ callback'[x].bound \in Made'
                             /\ callback'[x].digest = promo'[callback'[x].bound].digest
                             /\ run'[x].tag = promo'[callback'[x].bound].tag
                             /\ promo'[callback'[x].bound].link["store"] # None
                             /\ callback'[x].pc = "ho" => promo'[callback'[x].bound].link["ho"] # None
                        /\ callback'[x].pc = "store" => batch'[x]["store"] = "running"
      BY DEF CallsBound
    <3>1. callback[x].bound # None => callback[x].bound \in Promotions
      BY DEF CallsBound, Made
    <3>2. CASE x = w
      BY <1>0, <1>1, <1>2, <1>4, <1>6, <2>1, <2>3, <2>5, <2>6, <3>2 DEF CallsBound, Kinds
    <3>3. CASE x # w
      BY <1>1, <1>3, <1>4, <2>3, <2>5, <2>6, <3>1, <3>3 DEF CallsBound, Kinds
    <3> QED
      BY <3>2, <3>3
  <2>12. LinksBound'
    <3> SUFFICES ASSUME NEW q \in Promotions
                 PROVE  /\ \A k \in Kinds : promo'[q].link[k] # None =>
                             callback'[promo'[q].link[k]].bound = q
                        /\ /\ promo'[q].link["store"] # None
                           /\ batch'[promo'[q].link["store"]]["store"] \in BatchVerdicts
                           => promo'[q].link["ho"] # None
      BY DEF LinksBound
    <3>1. \A k \in Kinds : promo[q].link[k] \in Runs \cup {None}
      BY DEF TypeOK
    <3>2. \A k \in Kinds : promo'[q].link[k] # None => callback'[promo'[q].link[k]].bound = q
      BY <1>0, <1>4, <2>3, <3>1 DEF LinksBound
    <3>3. CASE q = p
      BY <2>3, <2>6, <3>2, <3>3 DEF Kinds
    <3>4. CASE q # p
      <4>1. \A k \in Kinds : promo[q].link[k] # w
        BY <1>0, <2>6, <3>4 DEF LinksBound
      <4> QED
        BY <1>3, <2>3, <3>1, <3>2, <3>4, <4>1 DEF LinksBound, Kinds
    <3> QED
      BY <3>2, <3>3, <3>4
  <2> QED
    BY <2>4, <2>8, <2>9, <2>10, <2>11, <2>12
<1> QED
  BY <1>5, <1>6

-----------------------------------------------------------------------------
(* The theorems *)

\* No promotion yet, no run, no call.
LEMMA InitIInv ==
  ASSUME Init
  PROVE  IInv
<1>1. TypeOK
  <2>1. promo \in [Promotions -> Row]
    <3>1. [status |-> "none", tag |-> None, digest |-> None,
           link |-> [k \in Kinds |-> None], run |-> None] \in Row
      BY DEF Row, Statuses
    <3> QED
      BY <3>1 DEF Init
  <2>2. callback \in [Runs -> [pc : {"ready", "done"} \cup Kinds,
                               bound : Promotions \cup {None}, digest : Digests \cup {None}]]
    BY DEF Init
  <2>3. /\ run \in [Runs -> [tag : Tags \cup {None}, concluded : BOOLEAN]]
        /\ batch \in [Runs -> [Kinds -> {"none", "running"} \cup BatchVerdicts]]
    BY DEF Init
  <2> QED
    BY <2>1, <2>2, <2>3, SizeAssumption DEF Init, TypeOK, Row, Statuses
<1>2. Made = {}
  BY DEF Init, Made
<1>3. Inserted /\ Indexed /\ CompleteOwnsBatches
  BY <1>2 DEF Init, Inserted, Indexed, CompleteOwnsBatches
<1>4. CallsBound /\ LinksBound
  BY DEF Init, CallsBound, LinksBound, Kinds
<1> QED
  BY <1>1, <1>3, <1>4 DEF IInv

\* Every step, in whatever order requests, callbacks, polls and restarts come, keeps it.
LEMMA StepIInv ==
  ASSUME IInv, [Next]_vars
  PROVE  IInv'
<1>1. ASSUME TypeOK' /\ Quiet PROVE IInv'
  BY <1>1, QuietKeeps
<1>2. CASE \E p \in Promotions : Request(p) \/ Ages(p)
  BY <1>1, <1>2, RequestQuiet, TimeQuiet
<1>3. ASSUME NEW w \in Runs, Callback(w) PROVE IInv'
  BY <1>1, <1>3, CallEndsQuiet, HoBatchQuiet, AcceptKeeps, StoreBatchKeeps DEF Callback
<1>4. CASE Poll \/ GitHub \/ Crash
  BY <1>1, <1>4, PollQuiet, GitHubQuiet, TimeQuiet
<1>5. CASE UNCHANGED vars
  <2>1. RowsFollow(promo')
    BY <1>5, SameFollow DEF vars
  <2>2. TypeOK' /\ CallsQuiet /\ RequestsQuiet
    BY <1>5 DEF vars, IInv, TypeOK, CallsQuiet, RequestsQuiet, Inserted
  <2> QED
    BY <1>1, <2>1, <2>2 DEF Quiet
<1> QED
  BY <1>2, <1>3, <1>4, <1>5, StartKeeps DEF Next

\* The inductive invariant holds whatever the operators, GitHub and restarts do.
THEOREM Invariance == Spec => []IInv
<1>1. Init => IInv
  BY InitIInv
<1>2. IInv /\ [Next]_vars => IInv'
  BY StepIInv
<1> QED
  BY <1>1, <1>2, PTL DEF Spec

\* A promotion's batches roll out the digests approved, and it is complete on both kinds only.
THEOREM BatchesAreApproved == Spec => []BatchesApproved
<1>1. IInv => BatchesApproved
  <2> SUFFICES ASSUME IInv PROVE ApprovedDigests
    BY DEF BatchesApproved, IInv
  <2> SUFFICES ASSUME NEW p \in Promotions, NEW k \in Kinds, promo[p].link[k] # None
               PROVE  /\ callback[promo[p].link[k]].digest = promo[p].digest
                      /\ run[promo[p].link[k]].tag = promo[p].tag
    BY DEF ApprovedDigests
  <2>1. promo[p].link[k] \in Runs /\ p # None
    BY Numbers DEF IInv, TypeOK
  <2>2. callback[promo[p].link[k]].bound = p
    BY DEF IInv, LinksBound
  <2> QED
    BY <2>1, <2>2 DEF IInv, CallsBound
<1> QED
  BY <1>1, Invariance, PTL

\* A callback begins its rollout only when every promotion in flight is of its own tag.
LEMMA AcceptMeetsOwnTag ==
  ASSUME IInv, NEW w \in Runs, NEW d \in Digests, AcceptCall(w, d), NEW p \in Active
  PROVE  promo[p].tag = run[w].tag
<1> USE DEF IInv
<1>1. Active \in SUBSET (1 .. MaxPromotions) /\ MaxPromotions \in Nat /\ Active # {}
  BY Numbers DEF Active, Promotions
<1>2. PICK m : m = Max(Active)
  OBVIOUS
<1>3. m \in Active /\ \A q \in Active : q <= m
  BY <1>1, <1>2, MaxMember
<1>4. promo[m].tag = run[w].tag
  BY <1>1, <1>2 DEF AcceptCall, Admits, OtherTagInFlight
<1>5. Bound(w) # None
  <2>1. {q \in Active : promo[q].tag = run[w].tag} \in SUBSET (1 .. MaxPromotions)
    BY <1>1
  <2>2. {q \in Active : promo[q].tag = run[w].tag} # {}
    BY <1>3, <1>4
  <2>3. Bound(w) \in {q \in Active : promo[q].tag = run[w].tag}
    BY <1>1, <2>1, <2>2, NewestMember DEF Bound
  <2> QED
    BY <2>3, Numbers DEF Active
<1>6. Bound(w) \in Active /\ m <= Bound(w)
  BY <1>3, <1>4, <1>5, BoundMember
<1>7. Bound(w) = m
  <2>1. \A q \in Active : q \in Nat
    BY <1>1
  <2> QED
    BY <1>3, <1>6, <2>1
<1>8. \A q \in Promotions \ {m} : promo[q].status # "running"
  BY <1>5, <1>7 DEF AcceptCall, Admits, UniqueRefuses
<1>9. CASE promo[p].status = "running"
  BY <1>4, <1>8, <1>9 DEF Active
<1>10. CASE promo[p].status = "dispatching"
  <2>1. m <= p
    BY <1>3, <1>10 DEF Indexed, Active, Made, InFlight
  <2>2. p <= m /\ p \in Nat /\ m \in Nat
    BY <1>1, <1>3
  <2> QED
    BY <1>4, <2>1, <2>2
<1> QED
  BY <1>9, <1>10 DEF Active, InFlight

\* No rollout begins beside a promotion of another release in flight.
THEOREM OneRelease == Spec => OneReleaseOnFleet
<1>1. IInv /\ [Next]_vars =>
        [\A w \in Runs : callback[w].pc = "ready" /\ callback'[w].pc = "store"
           => \A p \in Active : promo[p].tag = run[w].tag]_vars
  <2> SUFFICES ASSUME IInv, Next, NEW w \in Runs,
                      callback[w].pc = "ready", callback'[w].pc = "store", NEW p \in Active
               PROVE  promo[p].tag = run[w].tag
    BY DEF Active
  <2> USE DEF IInv
  <2>1. \E d \in Digests : AcceptCall(w, d)
    <3>1. CASE Crash
      BY <3>1 DEF Crash
    <3>2. CASE (\E tag \in Tags : StartPromotion(tag)) \/ (\E q \in Promotions : Request(q) \/ Ages(q))
               \/ Poll \/ GitHub
      BY <3>2 DEF StartPromotion, Request, PostAccepted, PostThrows, FindRun, Ages, Poll, PollBegins,
                  PollAnswered, PollUnanswered, GitHub, ManualRun, RunConcludes
    <3>3. ASSUME NEW x \in Runs, Callback(x)
          PROVE  \E d \in Digests : AcceptCall(w, d)
      <4>1. ASSUME NEW d \in Digests, RefuseCall(x, d) \/ CallThrows(x, d)
            PROVE  FALSE
        <5>1. callback' = [callback EXCEPT ![x].pc = "done"]
          BY <4>1 DEF RefuseCall, CallThrows, Ends
        <5>2. callback'[w].pc \in {callback[w].pc, "done"}
          BY <5>1 DEF TypeOK
        <5> QED
          BY <5>2
      <4>2. ASSUME NEW how \in BatchVerdicts, StoreBatchEnds(x, how) \/ HoBatchEnds(x, how)
            PROVE  FALSE
        BY <4>2 DEF StoreBatchEnds, HoBatchEnds, Ends, TypeOK
      <4>3. ASSUME NEW d \in Digests, AcceptCall(x, d), x # w
            PROVE  FALSE
        BY <4>3 DEF AcceptCall, TypeOK
      <4> QED
        BY <3>3, <4>1, <4>2, <4>3 DEF Callback
    <3> QED
      BY <3>1, <3>2, <3>3 DEF Next
  <2> QED
    BY <2>1, AcceptMeetsOwnTag
<1> QED
  BY <1>1, Invariance, PTL DEF Spec, OneReleaseOnFleet

\* What GitHub answers a poll never fails a promotion a rollout has reached meanwhile.
THEOREM VerdictSpares == Spec => VerdictSparesRollout
<1>1. IInv /\ [Next]_vars =>
        [\A p \in Active \ old : Linked(p) # {} /\ poll # None /\ poll' = None => InFlight(p)']_vars
  <2> SUFFICES ASSUME IInv, Next, NEW p \in Active \ old, Linked(p) # {}, poll # None, poll' = None
               PROVE  promo'[p].status = promo[p].status
    BY DEF Active, InFlight
  <2> USE DEF IInv
  <2>1. CASE PollAnswered
    <3>1. poll.promotion \in Promotions
      BY DEF TypeOK
    <3>2. promo' = promo \/ (p # poll.promotion /\ promo' = Mark(promo, poll.promotion, "failed"))
      BY <2>1 DEF PollAnswered, Unreached
    <3> QED
      BY <3>1, <3>2, RowTypes, MarkRow DEF Statuses, Active
  <2>2. CASE PollUnanswered
    <3>1. poll.promotion \in Promotions
      BY DEF TypeOK
    <3>2. promo' = promo \/ (p # poll.promotion /\ promo' = Mark(promo, poll.promotion, "failed"))
      BY <2>2 DEF PollUnanswered
    <3> QED
      BY <3>1, <3>2, RowTypes, MarkRow DEF Statuses, Active
  <2>3. CASE Crash
    BY <2>3 DEF Crash
  <2>4. PollAnswered \/ PollUnanswered \/ Crash
    BY DEF Next, StartPromotion, Request, PostAccepted, PostThrows, FindRun, Ages, Poll, PollBegins,
           GitHub, ManualRun, RunConcludes, Callback, RefuseCall, AcceptCall, CallThrows,
           StoreBatchEnds, HoBatchEnds
  <2> QED
    BY <2>1, <2>2, <2>3, <2>4
<1> QED
  BY <1>1, Invariance, PTL DEF Spec, VerdictSparesRollout
-----------------------------------------------------------------------------
(* How the release came to be approved.                                     *)

CatalogueRow == [kind : Kinds, tag : Tags, digest : Digests]

\* The table's unique constraints: a kind's rows differ in tag and in digest.
Unique(cat) ==
  \A i, j \in DOMAIN cat :
    /\ cat[i].kind = cat[j].kind
    /\ cat[i].tag = cat[j].tag \/ cat[i].digest = cat[j].digest
    => i = j

\* A row, once published, stays what it was and where it was.
Extended(cat, new) ==
  /\ DOMAIN cat \subseteq DOMAIN new
  /\ \A i \in DOMAIN cat : new[i] = cat[i]

\* A demo records a release of its own kind, and is healthy on one it was verified to run.
DemosVerified ==
  \A d \in Demos :
    /\ demo[d].release # None => catalogue[demo[d].release].kind = KindOf[d]
    /\ demo[d].healthy => /\ demo[d].release # None
                          /\ catalogue[demo[d].release].digest \in ran[d]

\* A request that waits for staging holds no answer yet.
NothingWhileAsked == \A q \in Requests : request[q].pc \in {"idle", "asked"} => request[q].got = {}

\* Whatever production holds is still in staging's catalogue, image by image.
InCatalogue(c) ==
  \A k \in Kinds : \E i \in Ids :
    catalogue[i] = [kind |-> k, tag |-> c.tag, digest |-> c.image[k]]

HeldInCatalogue == \A c \in Held : InCatalogue(c)

CandidateInv ==
  /\ CandidateTypeOK
  /\ Unique(catalogue)
  /\ DemosVerified
  /\ NothingWhileAsked
  /\ HeldInCatalogue
  /\ TestedOnEveryDemo

-----------------------------------------------------------------------------
(* The catalogue only grows *)

Published(new) == new \in Seq(CatalogueRow) /\ Unique(new)

\* A row that shares neither tag nor digest with its kind's rows keeps them unique.
LEMMA AppendPublishes ==
  ASSUME NEW cat, Published(cat), NEW row \in CatalogueRow,
         \A i \in RowsOf(cat, row.kind) : cat[i].tag # row.tag /\ cat[i].digest # row.digest
  PROVE  Published(Append(cat, row)) /\ Extended(cat, Append(cat, row))
<1> DEFINE new == Append(cat, row)
<1>1. /\ new \in Seq(CatalogueRow)
      /\ DOMAIN cat = 1 .. Len(cat) /\ DOMAIN new = 1 .. Len(cat) + 1
      /\ Len(cat) \in Nat
      /\ \A i \in DOMAIN cat : new[i] = cat[i]
      /\ new[Len(cat) + 1] = row
  BY DEF Published
<1>2. \A i \in DOMAIN new : i \in DOMAIN cat \/ (i = Len(cat) + 1 /\ new[i] = row)
  BY <1>1
<1>3. Unique(new)
  <2> SUFFICES ASSUME NEW i \in DOMAIN new, NEW j \in DOMAIN new,
                      new[i].kind = new[j].kind,
                      new[i].tag = new[j].tag \/ new[i].digest = new[j].digest
               PROVE  i = j
    BY DEF Unique
  <2> HIDE DEF new
  <2>1. CASE i \in DOMAIN cat /\ j \in DOMAIN cat
    BY <1>1, <2>1 DEF Published, Unique
  <2>2. CASE i \in DOMAIN cat /\ j = Len(cat) + 1 /\ new[j] = row
    BY <1>1, <2>2 DEF RowsOf
  <2>3. CASE j \in DOMAIN cat /\ i = Len(cat) + 1 /\ new[i] = row
    BY <1>1, <2>3 DEF RowsOf
  <2> QED
    BY <1>2, <2>1, <2>2, <2>3
<1> QED
  BY <1>1, <1>3 DEF Published, Extended

\* Registering a release finds its row, appends it, or refuses; it never rewrites one.
LEMMA EnsureExtends ==
  ASSUME NEW cat, Published(cat), NEW kind \in Kinds, NEW tag \in Tags, NEW digest \in Digests,
         NEW new, new = EnsureCiRelease(cat, kind, tag, digest)
  PROVE  new = None \/ (Published(new) /\ Extended(cat, new))
<1> DEFINE row  == [kind |-> kind, tag |-> tag, digest |-> digest]
           same == {i \in RowsOf(cat, kind) : cat[i].tag = tag \/ cat[i].digest = digest}
<1>1. CASE same = {}
  <2>1. row \in CatalogueRow /\ row.kind = kind /\ row.tag = tag /\ row.digest = digest
    BY DEF CatalogueRow
  <2>2. \A i \in RowsOf(cat, row.kind) : cat[i].tag # row.tag /\ cat[i].digest # row.digest
    BY <1>1, <2>1
  <2>3. new = Append(cat, row)
    BY <1>1 DEF EnsureCiRelease
  <2> QED
    BY <2>1, <2>2, <2>3, AppendPublishes
<1>2. CASE same # {}
  <2>1. new \in {cat, None}
    BY <1>2 DEF EnsureCiRelease
  <2> QED
    BY <2>1 DEF Extended
<1> QED
  BY <1>1, <1>2

\* The staging workflow publishes into the catalogue and touches nothing else of staging's
\* or production's.
LEMMA WorkflowFrame ==
  ASSUME CandidateTypeOK, Unique(catalogue), Workflow
  PROVE  /\ Published(catalogue') /\ Extended(catalogue, catalogue')
         /\ UNCHANGED <<demo, ran, production>>
         /\ manifest' \in [Tags -> Images \cup {None}]
         /\ repoints' \in 0 .. MaxRepoints
<1>0. Published(catalogue) /\ Extended(catalogue, catalogue)
  BY DEF Published, Extended, CandidateTypeOK, CatalogueRow
<1>1. ASSUME NEW t \in Tags, RegisterRelease(t)
      PROVE  /\ Published(catalogue') /\ Extended(catalogue, catalogue')
             /\ UNCHANGED <<demo, ran, production, github>>
  <2> DEFINE stored == EnsureCiRelease(catalogue, "store", t, manifest[t]["store"])
             both   == EnsureCiRelease(stored, "ho", t, manifest[t]["ho"])
  <2>1. "store" \in Kinds /\ "ho" \in Kinds
    BY DEF Kinds
  <2>2. manifest[t]["store"] \in Digests /\ manifest[t]["ho"] \in Digests
    BY <1>1, <2>1 DEF RegisterRelease, CandidateTypeOK, Images
  <2>3. stored = None \/ (Published(stored) /\ Extended(catalogue, stored))
    BY <1>0, <2>1, <2>2, EnsureExtends
  <2>4. stored = None \/ both = None \/ (Published(both) /\ Extended(stored, both))
    BY <2>1, <2>2, <2>3, EnsureExtends
  <2>5. /\ UNCHANGED <<demo, ran, production, github>>
        /\ \/ catalogue' = catalogue
           \/ catalogue' = stored /\ stored # None
           \/ catalogue' = both /\ both # None /\ stored # None
    BY <1>1 DEF RegisterRelease
  <2> HIDE DEF stored, both
  <2>6. CASE catalogue' = both /\ both # None /\ stored # None
    BY <2>3, <2>4, <2>6, <2>5 DEF Extended
  <2> QED
    BY <1>0, <2>3, <2>5, <2>6
<1>2. ASSUME NEW t \in Tags, NEW images \in Builds[t], PublishManifest(t, images)
      PROVE  /\ UNCHANGED <<staging, production>>
             /\ manifest' \in [Tags -> Images \cup {None}]
             /\ repoints' \in 0 .. MaxRepoints
  <2>1. images \in Images
    BY <1>2, CandidateAssumption
  <2> QED
    BY <1>2, <2>1, CandidateAssumption DEF PublishManifest, CandidateTypeOK
<1>3. ASSUME NEW row \in ByHand, PublishRelease(row)
      PROVE  /\ Published(catalogue') /\ Extended(catalogue, catalogue')
             /\ UNCHANGED <<demo, ran, production, github>>
  <2>1. row \in CatalogueRow
    BY <1>3, CandidateAssumption DEF CatalogueRow
  <2> QED
    BY <1>0, <1>3, <2>1, AppendPublishes DEF PublishRelease, CreateImageRelease
<1> QED
  BY <1>0, <1>1, <1>2, <1>3 DEF Workflow, staging, github, CandidateTypeOK

\* Growing the catalogue disturbs nothing that was read from it.
LEMMA WorkflowKeeps ==
  ASSUME CandidateInv, Workflow
  PROVE  CandidateInv'
<1> USE DEF CandidateInv
<1>1. /\ Published(catalogue') /\ Extended(catalogue, catalogue')
      /\ UNCHANGED <<demo, ran, cache, request, approved>>
      /\ manifest' \in [Tags -> Images \cup {None}]
      /\ repoints' \in 0 .. MaxRepoints
  BY WorkflowFrame DEF production
<1>2. Held' = Held
  BY <1>1 DEF Held
<1>3. CandidateTypeOK'
  BY <1>1 DEF CandidateTypeOK, Published, Extended, CatalogueRow, Ids
<1>4. Unique(catalogue)'
  BY <1>1 DEF Published, Unique
<1>5. DemosVerified'
  BY <1>1 DEF DemosVerified, Extended, CandidateTypeOK, Ids
<1>6. NothingWhileAsked'
  BY <1>1 DEF NothingWhileAsked
<1>7. HeldInCatalogue'
  <2> SUFFICES ASSUME NEW c \in Held, NEW k \in Kinds
               PROVE  \E i \in DOMAIN catalogue' :
                        catalogue'[i] = [kind |-> k, tag |-> c.tag, digest |-> c.image[k]]
    BY <1>2 DEF HeldInCatalogue, InCatalogue, Ids
  <2>1. PICK i \in Ids : catalogue[i] = [kind |-> k, tag |-> c.tag, digest |-> c.image[k]]
    BY DEF HeldInCatalogue, InCatalogue
  <2> QED
    BY <1>1, <2>1 DEF Extended, Ids
<1>8. TestedOnEveryDemo'
  BY <1>1, <1>2 DEF TestedOnEveryDemo
<1> QED
  BY <1>3, <1>4, <1>5, <1>6, <1>7, <1>8

-----------------------------------------------------------------------------
(* The demos *)

\* A row of the catalogue has its columns' types.
LEMMA RowTyped ==
  ASSUME CandidateTypeOK, NEW i \in Ids
  PROVE  i \in Nat /\ catalogue[i] \in CatalogueRow /\ catalogue[i].digest \in Digests
<1>1. catalogue \in Seq(CatalogueRow)
  BY DEF CandidateTypeOK, CatalogueRow
<1>2. i \in Nat /\ catalogue[i] \in CatalogueRow
  BY <1>1 DEF Ids
<1> QED
  BY <1>2 DEF CatalogueRow

\* A demo's attempt re-records it on a release of its kind, and remembers what it verified.
LEMMA DemoFrame ==
  ASSUME CandidateInv, NEW d \in Demos, Demo(d)
  PROVE  /\ UNCHANGED <<catalogue, github, production>>
         /\ \E i \in Ids, h \in BOOLEAN :
              /\ demo' = [demo EXCEPT ![d] = [release |-> i, healthy |-> h]]
              /\ catalogue[i].kind = KindOf[d]
              /\ h => catalogue[i].digest \in ran'[d]
         /\ \E s \in SUBSET Digests : ran' = [ran EXCEPT ![d] = s] /\ ran[d] \subseteq s
<1> USE DEF CandidateInv
<1>1. PICK i \in Ids : ApplyRelease(d, i) \/ ReleaseVerified(d, i)
  BY DEF Demo
<1>2. catalogue[i].digest \in Digests
  BY RowTyped
<1>3. CASE ApplyRelease(d, i)
  <2> DEFINE j == IF demo[d].release = None THEN i ELSE demo[d].release
  <2>1. j \in Ids /\ catalogue[j].kind = KindOf[d]
    BY <1>3 DEF ApplyRelease, DemosVerified, CandidateTypeOK
  <2>2. /\ demo' = [demo EXCEPT ![d] = [release |-> j, healthy |-> FALSE]]
        /\ UNCHANGED <<catalogue, ran, github, production>>
    BY <1>3 DEF ApplyRelease, CandidateTypeOK
  <2>3. ran' = [ran EXCEPT ![d] = ran[d]] /\ ran[d] \in SUBSET Digests
    BY <2>2 DEF CandidateTypeOK
  <2> HIDE DEF j
  <2> QED
    BY <2>1, <2>2, <2>3
<1>4. CASE ReleaseVerified(d, i)
  <2>1. PICK h \in BOOLEAN : demo' = [demo EXCEPT ![d] = [release |-> i, healthy |-> h]]
    BY <1>4 DEF ReleaseVerified
  <2>2. /\ ran' = [ran EXCEPT ![d] = ran[d] \cup {catalogue[i].digest}]
        /\ catalogue[i].kind = KindOf[d]
        /\ UNCHANGED <<catalogue, github, production>>
    BY <1>4 DEF ReleaseVerified
  <2>3. ran[d] \cup {catalogue[i].digest} \in SUBSET Digests
    BY <1>2 DEF CandidateTypeOK
  <2>4. catalogue[i].digest \in ran'[d]
    BY <2>2 DEF CandidateTypeOK
  <2> QED
    BY <2>1, <2>2, <2>3, <2>4
<1> QED
  BY <1>1, <1>3, <1>4

\* What a demo was once verified to run stays verified, so no answer held is untested by it.
LEMMA DemoKeeps ==
  ASSUME CandidateInv, NEW d \in Demos, Demo(d)
  PROVE  CandidateInv'
<1> USE DEF CandidateInv
<1>1. UNCHANGED <<catalogue, manifest, repoints, cache, request, approved>>
  BY DemoFrame DEF github, production
<1>2. PICK i \in Ids, h \in BOOLEAN :
        /\ demo' = [demo EXCEPT ![d] = [release |-> i, healthy |-> h]]
        /\ catalogue[i].kind = KindOf[d]
        /\ h => catalogue[i].digest \in ran'[d]
  BY DemoFrame
<1>3. PICK s \in SUBSET Digests : ran' = [ran EXCEPT ![d] = s] /\ ran[d] \subseteq s
  BY DemoFrame
<1>4. \A e \in Demos : ran[e] \subseteq ran'[e]
  BY <1>3 DEF CandidateTypeOK
<1>5. Held' = Held
  BY <1>1 DEF Held
<1>6. CandidateTypeOK'
  <2>1. [release |-> i, healthy |-> h] \in [release : Ids \cup {None}, healthy : BOOLEAN]
    OBVIOUS
  <2>2. demo' \in [Demos -> [release : Ids \cup {None}, healthy : BOOLEAN]]
    BY <1>2, <2>1 DEF CandidateTypeOK
  <2> QED
    BY <1>1, <1>3, <2>2 DEF CandidateTypeOK, Ids
<1>7. DemosVerified'
  <2> SUFFICES ASSUME NEW e \in Demos
               PROVE  /\ demo'[e].release # None => catalogue[demo'[e].release].kind = KindOf[e]
                      /\ demo'[e].healthy => /\ demo'[e].release # None
                                             /\ catalogue[demo'[e].release].digest \in ran'[e]
    BY <1>1 DEF DemosVerified
  <2>1. CASE e = d
    <3>1. demo'[e].release = i /\ demo'[e].healthy = h
      BY <1>2, <2>1 DEF CandidateTypeOK
    <3>2. i # None
      BY NameAssumption DEF Ids, CandidateTypeOK
    <3> QED
      BY <1>2, <2>1, <3>1, <3>2
  <2>2. CASE e # d
    <3>1. demo'[e] = demo[e]
      BY <1>2, <2>2 DEF CandidateTypeOK
    <3> QED
      BY <1>4, <3>1 DEF DemosVerified
  <2> QED
    BY <2>1, <2>2
<1>8. Unique(catalogue)' /\ NothingWhileAsked' /\ HeldInCatalogue'
  BY <1>1, <1>5 DEF Unique, NothingWhileAsked, HeldInCatalogue, InCatalogue, Ids
<1>9. TestedOnEveryDemo'
  <2> SUFFICES ASSUME NEW c \in Held, NEW e \in c.demos PROVE c.image[KindOf[e]] \in ran'[e]
    BY <1>5 DEF TestedOnEveryDemo
  <2>1. e \in Demos
    BY DEF Held, CandidateTypeOK, Candidates
  <2> QED
    BY <1>4, <2>1 DEF TestedOnEveryDemo
<1> QED
  BY <1>1, <1>6, <1>7, <1>8, <1>9

-----------------------------------------------------------------------------
(* Staging's answer *)

\* A complete tag has exactly one row of each kind, so its digest is that row's.
LEMMA OneRowOfTag ==
  ASSUME CandidateInv, NEW k \in Kinds, NEW t \in Tags, NEW i \in ReleaseOf(k, t)
  PROVE  /\ i \in Ids
         /\ catalogue[i] = [kind |-> k, tag |-> t, digest |-> DigestOf(k, t)]
<1> USE DEF CandidateInv
<1>1. /\ i \in Ids /\ i \in Nat
      /\ catalogue[i] \in CatalogueRow /\ catalogue[i].kind = k /\ catalogue[i].tag = t
  BY RowTyped DEF ReleaseOf, RowsOf, Ids
<1>2. ReleaseOf(k, t) = {i}
  BY <1>1 DEF ReleaseOf, RowsOf, Unique
<1>3. Max({i}) = i
  BY <1>1 DEF Max
<1> QED
  BY <1>1, <1>2, <1>3 DEF DigestOf, CatalogueRow

\* An answer is a candidate whose images are in the catalogue under its tag and were run by
\* every demo it names, and no complete tag is newer.
LEMMA AnswerSound ==
  ASSUME CandidateInv, NEW c \in TestedCandidate
  PROVE  /\ c \in Candidates
         /\ InCatalogue(c)
         /\ \A d \in c.demos : c.image[KindOf[d]] \in ran[d]
         /\ \A u \in CompleteTags : Rank(u) <= Rank(c.tag)
<1> USE DEF CandidateInv
<1>1. PICK t \in NewestTag :
        /\ \A d \in ImageDemos : RunsTag(d, t)
        /\ c = [tag |-> t, image |-> [k \in Kinds |-> DigestOf(k, t)], demos |-> ImageDemos]
  BY DEF TestedCandidate
<1>2. t \in Tags /\ t \in CompleteTags /\ \A u \in CompleteTags : Rank(u) <= Rank(t)
  BY DEF NewestTag, CompleteTags
<1>3. \A k \in Kinds : \E i \in Ids :
        /\ i \in ReleaseOf(k, t)
        /\ catalogue[i] = [kind |-> k, tag |-> t, digest |-> DigestOf(k, t)]
  BY <1>2, OneRowOfTag DEF CompleteTags
<1>4. \A k \in Kinds : DigestOf(k, t) \in Digests
  <2> TAKE k \in Kinds
  <2>1. PICK i \in Ids : catalogue[i] = [kind |-> k, tag |-> t, digest |-> DigestOf(k, t)]
    BY <1>3
  <2>2. catalogue[i].digest \in Digests
    BY RowTyped
  <2> QED
    BY <2>1, <2>2
<1>5. c \in Candidates
  BY <1>1, <1>2, <1>4 DEF Candidates, Images, ImageDemos
<1>6. InCatalogue(c)
  BY <1>1, <1>3 DEF InCatalogue
<1>7. ASSUME NEW d \in c.demos
      PROVE  c.image[KindOf[d]] \in ran[d]
  <2>1. d \in Demos /\ RunsTag(d, t) /\ KindOf[d] \in Kinds
    BY <1>1, CandidateAssumption DEF ImageDemos
  <2>2. demo[d].release \in ReleaseOf(KindOf[d], t) /\ catalogue[demo[d].release].digest \in ran[d]
    BY <2>1 DEF RunsTag, DemosVerified
  <2>3. catalogue[demo[d].release] = [kind |-> KindOf[d], tag |-> t, digest |-> DigestOf(KindOf[d], t)]
    BY <1>2, <2>1, <2>2, OneRowOfTag
  <2>4. c.image[KindOf[d]] = DigestOf(KindOf[d], t)
    BY <1>1, <2>1
  <2> QED
    BY <2>2, <2>3, <2>4
<1> QED
  BY <1>1, <1>2, <1>5, <1>6, <1>7

-----------------------------------------------------------------------------
(* Production: what it holds only grows by what staging answers *)

\* A request holds nothing more than it or the cache held, or it holds an answer just made.
Holds(q, got) ==
  \E p \in {"idle", "asked", "answered", "manifest"} :
    /\ request' = [request EXCEPT ![q] = [pc |-> p, got |-> got]]
    /\ p \in {"idle", "asked"} => got = {}

LEMMA ConsideredHolds ==
  ASSUME NEW q \in Requests, NEW got, NEW r \in Considered(q, got)
  PROVE  \E p \in {"idle", "manifest"}, g \in SUBSET got :
           r = [pc |-> p, got |-> g] /\ (p = "idle" => g = {})
  BY DEF Considered, Idle

LEMMA RequestFrame ==
  ASSUME CandidateInv, NEW q \in Requests, CandidateRequest(q)
  PROVE  /\ UNCHANGED <<staging, github>>
         /\ \E got \in SUBSET (Held \cup TestedCandidate) : Holds(q, got)
         /\ cache' \in {None, cache} \cup SUBSET Held
         /\ approved' \in SUBSET Held /\ approved \subseteq approved'
<1> USE DEF CandidateInv
<1>0. request[q] = [pc |-> request[q].pc, got |-> request[q].got] /\ request[q].got \subseteq Held
      /\ approved \subseteq Held /\ (cache # None => cache \subseteq Held)
  BY DEF CandidateTypeOK, Held
<1>1. CASE Ask(q) /\ cache # None
  <2>1. PICK r \in Considered(q, cache) : request' = [request EXCEPT ![q] = r]
    BY <1>1 DEF Ask
  <2>2. PICK p \in {"idle", "manifest"}, g \in SUBSET cache :
          r = [pc |-> p, got |-> g] /\ (p = "idle" => g = {})
    BY <2>1, ConsideredHolds
  <2>3. g \in SUBSET (Held \cup TestedCandidate)
    BY <1>0, <1>1
  <2>4. Holds(q, g)
    BY <2>1, <2>2 DEF Holds
  <2> QED
    BY <1>0, <1>1, <2>3, <2>4 DEF Ask
<1>2. CASE Ask(q) /\ cache = None
  <2>1. request' = [request EXCEPT ![q] = [pc |-> "asked", got |-> {}]]
    BY <1>2, <1>0 DEF Ask, NothingWhileAsked, CandidateTypeOK
  <2> QED
    BY <1>0, <1>2, <2>1 DEF Ask, Holds
<1>3. CASE Answer(q)
  BY <1>0, <1>3 DEF Answer, Holds
<1>4. CASE Receive(q)
  <2>1. PICK r \in Considered(q, request[q].got) : request' = [request EXCEPT ![q] = r]
    BY <1>4 DEF Receive
  <2>2. PICK p \in {"idle", "manifest"}, g \in SUBSET request[q].got :
          r = [pc |-> p, got |-> g] /\ (p = "idle" => g = {})
    BY <2>1, ConsideredHolds
  <2>3. g \in SUBSET (Held \cup TestedCandidate)
    BY <1>0, <1>4
  <2>4. Holds(q, g)
    BY <2>1, <2>2 DEF Holds
  <2> QED
    BY <1>0, <1>4, <2>3, <2>4 DEF Receive
<1>5. CASE Approve(q)
  BY <1>0, <1>5 DEF Approve, Holds, Idle
<1> QED
  BY <1>1, <1>2, <1>3, <1>4, <1>5 DEF CandidateRequest

\* The answers production holds are as good as when they were given, however many requests,
\* restarts and expiries there are between.
LEMMA RequestKeeps ==
  ASSUME CandidateInv, NEW q \in Requests, CandidateRequest(q)
  PROVE  CandidateInv'
<1> USE DEF CandidateInv
<1>1. /\ UNCHANGED <<catalogue, demo, ran, manifest, repoints>>
      /\ cache' \in {None, cache} \cup SUBSET Held
      /\ approved' \in SUBSET Held /\ approved \subseteq approved'
  BY RequestFrame DEF staging, github
<1>2. PICK got \in SUBSET (Held \cup TestedCandidate) : Holds(q, got)
  BY RequestFrame
<1>3. PICK p \in {"idle", "asked", "answered", "manifest"} :
        /\ request' = [request EXCEPT ![q] = [pc |-> p, got |-> got]]
        /\ p \in {"idle", "asked"} => got = {}
  BY <1>2 DEF Holds
<1>4. Held \subseteq Candidates
  BY DEF Held, CandidateTypeOK
<1>5. got \in SUBSET Candidates
  BY <1>4, AnswerSound
<1>6. \A w \in Requests : request'[w] = IF w = q THEN [pc |-> p, got |-> got] ELSE request[w]
  BY <1>3 DEF CandidateTypeOK
<1>7. Held' \subseteq Held \cup TestedCandidate
  BY <1>1, <1>6 DEF Held
<1>8. CandidateTypeOK'
  <2>1. [pc |-> p, got |-> got] \in [pc : {"idle", "asked", "answered", "manifest"},
                                     got : SUBSET Candidates]
    BY <1>5
  <2>2. request' \in [Requests -> [pc : {"idle", "asked", "answered", "manifest"},
                                   got : SUBSET Candidates]]
    BY <1>3, <2>1 DEF CandidateTypeOK
  <2>3. (cache # None => cache \subseteq Candidates)' /\ approved' \subseteq Candidates
    BY <1>1, <1>4 DEF CandidateTypeOK
  <2> QED
    BY <1>1, <2>2, <2>3 DEF CandidateTypeOK, Ids
<1>9. NothingWhileAsked'
  BY <1>3, <1>6 DEF NothingWhileAsked
<1>10. Unique(catalogue)' /\ DemosVerified'
  BY <1>1 DEF Unique, DemosVerified
<1>11. HeldInCatalogue'
  <2>1. \A c \in Held \cup TestedCandidate : InCatalogue(c)
    BY AnswerSound DEF HeldInCatalogue
  <2> QED
    BY <1>1, <1>7, <2>1 DEF HeldInCatalogue, InCatalogue, Ids
<1>12. TestedOnEveryDemo'
  <2>1. \A c \in Held \cup TestedCandidate : \A d \in c.demos : c.image[KindOf[d]] \in ran[d]
    BY AnswerSound DEF TestedOnEveryDemo
  <2> QED
    BY <1>1, <1>7, <2>1 DEF TestedOnEveryDemo
<1> QED
  BY <1>8, <1>9, <1>10, <1>11, <1>12

\* An expired cache and a restart only let go of answers.
LEMMA ForgettingKeeps ==
  ASSUME CandidateInv, CacheExpires \/ Restart
  PROVE  CandidateInv'
<1> USE DEF CandidateInv
<1>1. /\ UNCHANGED <<catalogue, demo, ran, manifest, repoints, approved>>
      /\ cache' = None
      /\ request' = request \/ request' = [q \in Requests |-> Idle]
  BY DEF CacheExpires, Restart, staging, github
<1>2. Idle \in [pc : {"idle", "asked", "answered", "manifest"}, got : SUBSET Candidates]
  BY DEF Idle
<1>3. Held' \subseteq Held
  BY <1>1 DEF Held, Idle
<1>4. CandidateTypeOK' /\ NothingWhileAsked'
  BY <1>1, <1>2 DEF CandidateTypeOK, NothingWhileAsked, Ids, Idle
<1>5. Unique(catalogue)' /\ DemosVerified'
  BY <1>1 DEF Unique, DemosVerified
<1>6. HeldInCatalogue' /\ TestedOnEveryDemo'
  BY <1>1, <1>3 DEF HeldInCatalogue, InCatalogue, Ids, TestedOnEveryDemo
<1> QED
  BY <1>4, <1>5, <1>6

-----------------------------------------------------------------------------
(* The theorems *)

LEMMA CandidateInitInv == CandidateInit => CandidateInv
<1> SUFFICES ASSUME CandidateInit PROVE CandidateInv
  OBVIOUS
<1>1. catalogue = <<>> /\ Ids = {} /\ Held = {}
  BY DEF CandidateInit, Ids, Held, Idle
<1>2. Idle \in [pc : {"idle", "asked", "answered", "manifest"}, got : SUBSET Candidates]
  BY DEF Idle
<1>3. CandidateTypeOK
  BY <1>1, <1>2, CandidateAssumption DEF CandidateInit, CandidateTypeOK
<1> QED
  BY <1>1, <1>3 DEF CandidateInit, CandidateInv, Unique, DemosVerified, NothingWhileAsked, HeldInCatalogue,
                    TestedOnEveryDemo, Idle, Ids

LEMMA NextIInv == CandidateInv /\ [CandidateNext]_candidateVars => CandidateInv'
<1> SUFFICES ASSUME CandidateInv, [CandidateNext]_candidateVars PROVE CandidateInv'
  OBVIOUS
<1>1. CASE UNCHANGED candidateVars
  <2>1. UNCHANGED <<catalogue, demo, ran, manifest, repoints, cache, request, approved>>
    BY <1>1 DEF candidateVars
  <2>2. Held' = Held
    BY <2>1 DEF Held
  <2>3. CandidateTypeOK'
    BY <2>1 DEF CandidateInv, CandidateTypeOK, Ids
  <2> QED
    BY <2>1, <2>2, <2>3 DEF CandidateInv, Ids, Unique, DemosVerified, NothingWhileAsked,
                            HeldInCatalogue, InCatalogue, TestedOnEveryDemo
<1> QED
  BY <1>1, WorkflowKeeps, DemoKeeps, RequestKeeps, ForgettingKeeps DEF CandidateNext

\* The inductive invariant holds in every reachable state.
THEOREM CandidateInvariance == CandidateSpec => []CandidateInv
<1> QED
  BY CandidateInitInv, NextIInv, PTL DEF CandidateSpec

\* However stale the answer a promotion was approved on, its images were run by every demo
\* of the answer, and its tag means that one pair of images for good.
THEOREM CandidatesAreSound == CandidateSpec => []CandidateSound
<1>1. CandidateInv => CandidateSound
  <2> SUFFICES ASSUME CandidateInv, NEW c \in Held, NEW e \in Held, c.tag = e.tag
               PROVE  c.image = e.image
    BY DEF CandidateInv, CandidateSound, OneReleasePerTag
  <2> USE DEF CandidateInv
  <2>1. c.image \in Images /\ e.image \in Images
    BY DEF Held, CandidateTypeOK, Candidates
  <2>2. ASSUME NEW k \in Kinds
        PROVE  c.image[k] = e.image[k]
    <3>1. PICK i \in Ids : catalogue[i] = [kind |-> k, tag |-> c.tag, digest |-> c.image[k]]
      BY DEF HeldInCatalogue, InCatalogue
    <3>2. PICK j \in Ids : catalogue[j] = [kind |-> k, tag |-> e.tag, digest |-> e.image[k]]
      BY DEF HeldInCatalogue, InCatalogue
    <3>3. i = j
      BY <3>1, <3>2 DEF Unique, Ids
    <3> QED
      BY <3>1, <3>2, <3>3
  <2> QED
    BY <2>1, <2>2 DEF Images
<1> QED
  BY <1>1, CandidateInvariance, PTL

\* Staging never answers with a release older than one production holds.
THEOREM StagingNeverOlder == CandidateSpec => NeverOlder
<1> DEFINE P == \A q \in Requests :
                  request[q].pc = "asked" /\ request'[q].pc = "answered"
                    => \A c \in request'[q].got, e \in Held : Rank(e.tag) <= Rank(c.tag)
<1>1. CandidateInv /\ [CandidateNext]_candidateVars => [P]_candidateVars
  <2> SUFFICES ASSUME CandidateInv, CandidateNext, NEW q \in Requests,
                      request[q].pc = "asked", request'[q].pc = "answered",
                      NEW c \in request'[q].got, NEW e \in Held
               PROVE  Rank(e.tag) <= Rank(c.tag)
    BY DEF candidateVars
  <2> USE DEF CandidateInv
  <2>1. e.tag \in CompleteTags
    <3>1. e.tag \in Tags
      BY DEF Held, CandidateTypeOK, Candidates
    <3>2. \A k \in Kinds : ReleaseOf(k, e.tag) # {}
      <4> TAKE k \in Kinds
      <4>1. PICK i \in Ids : catalogue[i] = [kind |-> k, tag |-> e.tag, digest |-> e.image[k]]
        BY DEF HeldInCatalogue, InCatalogue
      <4> QED
        BY <4>1 DEF ReleaseOf, RowsOf, Ids
    <3> QED
      BY <3>1, <3>2 DEF CompleteTags
  <2>2. request' # request
    OBVIOUS
  <2>3. ~Workflow /\ ~CacheExpires /\ \A d \in Demos : ~Demo(d)
    BY <2>2, WorkflowFrame, DemoFrame DEF production, CacheExpires
  <2>4. ~Restart
    BY DEF Restart, Idle
  <2>5. PICK w \in Requests : CandidateRequest(w)
    BY <2>3, <2>4 DEF CandidateNext
  <2>6. Answer(q)
    <3>1. w = q /\ ~Receive(w) /\ ~Approve(w)
      <4>1. PICK got : Holds(w, got)
        BY <2>5, RequestFrame
      <4>2. w = q
        BY <4>1 DEF Holds, CandidateTypeOK
      <4> QED
        BY <4>2 DEF Receive, Approve
    <3>2. ~Ask(w)
      BY <3>1 DEF Ask
    <3> QED
      BY <2>5, <3>1, <3>2 DEF CandidateRequest
  <2>7. c \in TestedCandidate
    BY <2>6 DEF Answer, CandidateTypeOK
  <2> QED
    BY <2>1, <2>7, AnswerSound
<1> QED
  BY <1>1, CandidateInvariance, PTL DEF CandidateSpec, NeverOlder
=============================================================================
