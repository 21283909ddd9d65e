------------------------ MODULE ReleaseBatchProofs ------------------------
(***************************************************************************)
(* Proofs about ReleaseBatch for any number of rollouts, tenants, releases  *)
(* and disturbances: what a finished rollout reports adds up to its items,  *)
(* a failed wave stops it, waves follow one another, and each tenant keeps  *)
(* TenantContract.                                                          *)
(***************************************************************************)
EXTENDS ReleaseBatch, FiniteSetTheorems, WellFoundedInduction, TLAPS

\* A batch not started has touched nothing, and an item exists for each selected tenant.
Planned ==
  \A b \in Batches :
    /\ waveNo[b] >= 1
    /\ pc[b] # "ready" => release[b] \in Releases
    /\ pc[b] = "ready" =>
         /\ status[b] = "planned"
         /\ waveNo[b] = 1 /\ ~waveFailed[b]
         /\ \A how \in Kinds : count[b][how] = 0
         /\ \A t \in Tenants : item[b][t] = "none"
    /\ pc[b] \in Working => status[b] = "running"
    /\ \A t \in Tenants : item[b][t] = "none" <=> wave[b][t] = 0

\* A tenant being worked on is locked by whoever works on it, and a batch works on the
\* one item it has marked running.
Locks ==
  /\ \A t \in Tenants : asked[t] # None => lock[t] # None
  /\ \A b \in Batches, t \in Tenants :
       /\ lock[t] = b /\ asked[t] # None => pc[b] = "applying" /\ item[b][t] = "running"
       /\ pc[b] = "applying" /\ item[b][t] = "running" =>
            lock[t] = b /\ asked[t] = release[b] /\ wave[b][t] = waveNo[b]
       /\ pc[b] = "working" => item[b][t] # "running"
  /\ \A b \in Batches : pc[b] = "applying" => \E t \in Tenants : item[b][t] = "running"
  /\ \A b \in Batches, t, u \in Tenants :
       item[b][t] = "running" /\ item[b][u] = "running" => t = u

\* Earlier waves are settled and later ones untouched; a stopped rollout skips the later ones.
Waves ==
  \A b \in Batches, t \in Tenants :
    /\ wave[b][t] # 0 /\ wave[b][t] < waveNo[b] => Settled(b, t)
    /\ wave[b][t] > waveNo[b] =>
         item[b][t] \in {"pending", "skipped"} /\ (item[b][t] = "skipped" => pc[b] = "done")
    /\ stopOnFailure[b] /\ wave[b][t] < waveNo[b] => item[b][t] # "failed"
    /\ wave[b][t] = waveNo[b] /\ item[b][t] = "failed" => waveFailed[b]
    /\ wave[b][t] > waveNo[b] /\ item[b][t] = "skipped" => \A u \in Targets(b) : Settled(b, u)

\* The counters count the items.
CountsItems ==
  \A b \in Batches, how \in Kinds : count[b][how] = Cardinality(ItemsOf(b, how))

\* A finished batch has written its counters, and has nothing left to settle.
TotalsWritten ==
  \A b \in Batches : Finished(b) =>
    /\ pc[b] = "done"
    /\ succeeded[b] = count[b].complete
    /\ failed[b] = count[b].failed
    /\ skipped[b] = count[b].skipped
    /\ \A t \in Targets(b) : Settled(b, t)

Counted == CountsItems /\ TotalsWritten

\* A tenant without an application has no recorded release.
Provisioned == \A t \in Tenants : ~app[t] => current[t] = None

\* The inductive invariant.
IInv == TypeOK /\ Planned /\ Locks /\ Waves /\ Counted /\ Provisioned

-----------------------------------------------------------------------------
(* Sets of tenants *)

\* A batch's tenants are finitely many, so their number is a natural.
LEMMA TenantsFinite ==
  ASSUME NEW S \in SUBSET Tenants
  PROVE  IsFiniteSet(S) /\ Cardinality(S) \in Nat
<1>1. NumTenants \in Int /\ 1 \in Int
  BY SizeAssumption
<1>2. IsFiniteSet(Tenants)
  BY <1>1, FS_Interval DEF Tenants
<1>3. IsFiniteSet(S)
  BY <1>2, FS_Subset
<1> QED
  BY <1>3, FS_CardinalityType

\* A set of naturals that is not empty has a least member.
LEMMA LeastMember ==
  ASSUME NEW S \in SUBSET Nat, S # {}
  PROVE  \E n \in S : \A m \in S : n <= m
<1>1. PICK n \in S : \A m \in S : <<m, n>> \notin OpToRel(<, Nat)
  BY NatLessThanWellFounded, WFMin, Zenon
<1>2. ASSUME NEW m \in S PROVE ~(m < n)
  BY <1>1, Zenon DEF OpToRel
<1>3. ASSUME NEW m \in S PROVE n <= m
  BY <1>2, <1>3
<1> QED
  BY <1>3

\* Tenants counted in two parts are counted once each.
LEMMA DisjointParts ==
  ASSUME NEW S \in SUBSET Tenants, NEW T \in SUBSET Tenants, S \cap T = {}
  PROVE  Cardinality(S \cup T) = Cardinality(S) + Cardinality(T)
<1>1. IsFiniteSet(S) /\ IsFiniteSet(T) /\ Cardinality(S) \in Nat /\ Cardinality(T) \in Nat
  BY TenantsFinite
<1>2. Cardinality(S \cup T) = Cardinality(S) + Cardinality(T) - Cardinality(S \cap T)
  BY <1>1, FS_Union
<1>3. Cardinality(S \cap T) = 0
  BY FS_EmptySet
<1> QED
  BY <1>1, <1>2, <1>3

\* The waves of a rollout are numbered from one, and there are no more than tenants.
LEMMA WaveNumbers ==
  ASSUME NEW S \in TargetSets, NEW size \in WaveSizes, NEW t \in S
  PROVE  WaveOf(S, size, t) \in 1 .. NumTenants
<1> DEFINE U == {u \in S : u < t}
<1>1. t \in 1 .. NumTenants /\ NumTenants \in Nat /\ S \subseteq 1 .. NumTenants /\ size \in 1 .. 50
  BY SizeAssumption DEF Tenants
<1>2. IsFiniteSet(1 .. (t - 1)) /\ Cardinality(1 .. (t - 1)) = t - 1
  <2>1. 1 \in Int /\ t - 1 \in Int
    BY <1>1
  <2>2. /\ IsFiniteSet(1 .. (t - 1))
        /\ Cardinality(1 .. (t - 1)) = IF 1 > t - 1 THEN 0 ELSE (t - 1) - 1 + 1
    BY <2>1, FS_Interval
  <2> QED
    BY <1>1, <2>2
<1>3. U \in SUBSET (1 .. (t - 1))
  <2>1. ASSUME NEW u \in U PROVE u \in 1 .. (t - 1)
    BY <1>1
  <2> QED
    BY <2>1
<1>4. Cardinality(U) \in Nat /\ Cardinality(U) <= t - 1
  BY <1>2, <1>3, FS_Subset, FS_CardinalityType
<1>5. ASSUME NEW n \in Nat, NEW k \in 1 .. 50
      PROVE  n \div k \in 0 .. n
  BY <1>5
<1>6. Cardinality(U) \div size \in 0 .. (t - 1)
  <2> HIDE DEF U
  <2> QED
    BY <1>1, <1>4, <1>5
<1> QED
  BY <1>1, <1>6 DEF WaveOf

\* While nothing of the wave is tried next, nothing of it is pending.
LEMMA NothingPending ==
  ASSUME NEW b \in Batches, NextItem(b) = {}
  PROVE  \A t \in InWave(b) : item[b][t] # "pending"
<1> DEFINE P == {t \in InWave(b) : item[b][t] = "pending"}
<1>1. P \in SUBSET Nat
  BY SizeAssumption DEF InWave, Tenants
<1>2. P = {}
  BY <1>1, LeastMember DEF NextItem
<1> QED
  BY <1>2

-----------------------------------------------------------------------------
(* Types *)

\* Settling an item and counting it keep the types of both.
LEMMA SettleTypes ==
  ASSUME TypeOK, NEW b \in Batches, NEW t \in Tenants, NEW how \in Kinds, Settle(b, t, how)
  PROVE  /\ item' \in [Batches -> [Tenants -> ItemStatuses]]
         /\ count' \in [Batches -> [Kinds -> Nat]]
<1>1. item' \in [Batches -> [Tenants -> ItemStatuses]]
  BY DEF TypeOK, Settle, ItemStatuses
<1>2. count[b] \in [Kinds -> Nat] /\ count[b][how] + 1 \in Nat
  BY DEF TypeOK
<1>3. [count[b] EXCEPT ![how] = @ + 1] \in [Kinds -> Nat]
  BY <1>2
<1>4. count' \in [Batches -> [Kinds -> Nat]]
  BY <1>3 DEF TypeOK, Settle
<1> QED
  BY <1>1, <1>4

\* The columns of a finished batch are numbers and statuses the schema allows.
LEMMA FinishTypes ==
  ASSUME TypeOK, NEW b \in Batches, Finish(b)
  PROVE  TypeOK'
<1>1. Later(b) \in SUBSET Tenants
  BY DEF Later, Targets
<1>2. Cardinality(Later(b)) \in Nat
  BY <1>1, TenantsFinite
<1>3. count[b] \in [Kinds -> Nat]
  BY DEF TypeOK
<1>4. SkipLater(b) \in [Kinds -> Nat]
  BY <1>2, <1>3 DEF SkipLater, Kinds
<1>5. count' \in [Batches -> [Kinds -> Nat]]
  BY <1>4 DEF TypeOK, Finish
<1>6. count'[b].complete \in Nat /\ count'[b].failed \in Nat /\ count'[b].skipped \in Nat
  BY <1>5 DEF Kinds
<1>7. Verdict(count'[b]) \in BatchStatuses
  BY DEF Verdict, BatchStatuses
<1>8. item' \in [Batches -> [Tenants -> ItemStatuses]]
  BY DEF TypeOK, Finish, ItemStatuses, Kinds
<1>9. /\ succeeded' \in [Batches -> Nat]
      /\ failed' \in [Batches -> Nat]
      /\ skipped' \in [Batches -> Nat]
      /\ status' \in [Batches -> BatchStatuses]
  BY <1>6, <1>7 DEF TypeOK, Finish
<1> QED
  BY <1>5, <1>8, <1>9 DEF TypeOK, Finish, tenants, plan

\* The rows of a new batch have the types of their columns.
LEMMA StartTypes ==
  ASSUME TypeOK, NEW b \in Batches, Start(b)
  PROVE  TypeOK'
<1> PICK r \in Releases, S \in TargetSets, size \in WaveSizes, stop \in BOOLEAN,
         dryRun \in BOOLEAN : StartBatch(b, r, S, size, stop, dryRun)
  BY DEF Start
<1>1. \A t \in S : WaveOf(S, size, t) \in 0 .. NumTenants
  BY WaveNumbers, SizeAssumption
<1>2. [t \in Tenants |-> IF t \in S THEN WaveOf(S, size, t) ELSE 0] \in [Tenants -> 0 .. NumTenants]
  BY <1>1, SizeAssumption
<1>3. wave' \in [Batches -> [Tenants -> 0 .. NumTenants]]
  BY <1>2 DEF TypeOK, StartBatch
<1>4. /\ item' \in [Batches -> [Tenants -> ItemStatuses]]
      /\ action' \in [Batches -> [Tenants -> {"upgrade", "provision"}]]
  BY DEF TypeOK, StartBatch, ItemStatuses
<1>5. /\ release' \in [Batches -> Releases \cup {None}]
      /\ stopOnFailure' \in [Batches -> BOOLEAN]
      /\ status' \in [Batches -> BatchStatuses]
      /\ pc' \in [Batches -> {"ready", "done", "thrown", "crashed"} \cup Working]
  BY DEF TypeOK, StartBatch, BatchStatuses, Working
<1>6. pausedThen' \in [Batches -> SUBSET Tenants]
  BY SizeAssumption DEF TypeOK, StartBatch
<1> QED
  BY <1>3, <1>4, <1>5, <1>6 DEF TypeOK, StartBatch, tenants, totals

\* The steps of a batch over one item.
LEMMA ItemTypes ==
  ASSUME TypeOK, NEW b \in Batches, NEW t \in Tenants,
         \/ SkipPaused(b, t) \/ Throws(b, t) \/ SkipItem(b, t) \/ RefuseSchema(b, t)
         \/ BeginItem(b, t) \/ CompleteItem(b, t) \/ FailItem(b, t)
  PROVE  TypeOK'
<1> USE SettleTypes DEF tenants, plan, totals
<1>1. CASE SkipPaused(b, t) \/ SkipItem(b, t)
  <2>1. Settle(b, t, "skipped") /\ UNCHANGED <<tenants, plan, totals, status, pc, waveNo,
                                               waveFailed, disturbances>>
    BY <1>1 DEF SkipPaused, SkipItem
  <2> QED
    BY <2>1 DEF TypeOK, Kinds
<1>2. CASE Throws(b, t)
  BY <1>2 DEF Throws, TypeOK, ItemStatuses
<1>3. CASE RefuseSchema(b, t)
  <2>1. Settle(b, t, "failed")
    BY <1>3 DEF RefuseSchema
  <2> QED
    BY <1>3, <2>1 DEF RefuseSchema, TypeOK, Kinds
<1>4. CASE BeginItem(b, t)
  BY <1>4 DEF BeginItem, TypeOK, ItemStatuses, Working
<1>5. CASE CompleteItem(b, t)
  <2>1. Settle(b, t, "complete")
    BY <1>5 DEF CompleteItem
  <2> QED
    BY <1>5, <2>1 DEF CompleteItem, Applied, Unlock, TypeOK, Kinds, Working
<1>6. CASE FailItem(b, t)
  <2>1. Settle(b, t, "failed")
    BY <1>6 DEF FailItem
  <2> QED
    BY <1>6, <2>1 DEF FailItem, ApplyFailed, Unlock, TypeOK, Kinds, Working
<1> QED
  BY <1>1, <1>2, <1>3, <1>4, <1>5, <1>6

\* What runs beside the batches keeps the types of the tenants' rows.
LEMMA EnvironmentTypes ==
  ASSUME TypeOK, Environment
  PROVE  TypeOK'
<1> USE SizeAssumption DEF batches, plan, totals, Disturbs
<1>1. CASE \E t \in Tenants, r \in Releases : OtherBegins(t, r)
  BY <1>1 DEF OtherBegins, TypeOK
<1>2. ASSUME NEW t \in Tenants, OtherEnds(t) PROVE TypeOK'
  <2>1. CASE Applied(t)
    BY <1>2, <2>1 DEF OtherEnds, Applied, Unlock, TypeOK
  <2>2. CASE ApplyFailed(t)
    BY <1>2, <2>2 DEF OtherEnds, ApplyFailed, Unlock, TypeOK
  <2> QED
    BY <1>2, <2>1, <2>2 DEF OtherEnds
<1>3. ASSUME NEW t \in Tenants, Created(t) \/ SetPaused(t) \/ LockExpires(t) PROVE TypeOK'
  <2>1. CASE Created(t)
    BY <2>1 DEF Created, TypeOK
  <2>2. CASE SetPaused(t)
    <3>1. paused' \in [Tenants -> BOOLEAN]
      BY <2>2 DEF SetPaused, TypeOK
    <3> QED
      BY <2>2, <3>1 DEF SetPaused, TypeOK
  <2>3. CASE LockExpires(t)
    BY <2>3 DEF LockExpires, TypeOK
  <2> QED
    BY <1>3, <2>1, <2>2, <2>3
<1>4. CASE Crash
  BY <1>4 DEF Crash, TypeOK
<1> QED
  BY <1>1, <1>2, <1>3, <1>4 DEF Environment

\* Every step keeps every type.
LEMMA TypesKept ==
  ASSUME TypeOK, [Next]_vars
  PROVE  TypeOK'
<1>1. CASE \E b \in Batches : Start(b)
  BY <1>1, StartTypes
<1>2. ASSUME NEW b \in Batches, Step(b) PROVE TypeOK'
  <2>1. CASE NextWave(b)
    BY <2>1 DEF NextWave, TypeOK, tenants, plan, totals
  <2> QED
    BY <1>2, <2>1, FinishTypes, ItemTypes DEF Step
<1>3. CASE Environment
  BY <1>3, EnvironmentTypes
<1>4. CASE UNCHANGED vars
  BY <1>4 DEF TypeOK, vars, tenants, plan, totals
<1> QED
  BY <1>1, <1>2, <1>3, <1>4 DEF Next

-----------------------------------------------------------------------------
(* Settling one item *)

\* The steps that settle an item of the wave, by whatever way it came to be settled.
Settles(b, t, how) ==
  /\ pc[b] \in Working
  /\ wave[b][t] = waveNo[b]
  /\ item[b][t] \in {"pending", "running"}
  /\ \A u \in Tenants : item[b][u] = "running" => u = t
  /\ Settle(b, t, how)
  /\ waveFailed' \in {waveFailed, [waveFailed EXCEPT ![b] = TRUE]}
  /\ how = "failed" => waveFailed'[b]
  /\ pc' = [pc EXCEPT ![b] = "working"]
  /\ UNCHANGED <<plan, totals, status, waveNo>>

\* An item is skipped, refused, completed or failed: whatever happens, it settles once.
LEMMA SettlesFrame ==
  ASSUME IInv, NEW b \in Batches, NEW t \in Tenants,
         \/ SkipPaused(b, t) \/ SkipItem(b, t) \/ RefuseSchema(b, t)
         \/ CompleteItem(b, t) \/ FailItem(b, t)
  PROVE  \E how \in Kinds : Settles(b, t, how)
<1> USE DEF IInv
<1>1. CASE SkipPaused(b, t) \/ SkipItem(b, t)
  <2>1. /\ pc[b] = "working" /\ t \in NextItem(b) /\ Settle(b, t, "skipped")
        /\ UNCHANGED <<plan, totals, status, pc, waveNo, waveFailed>>
    BY <1>1 DEF SkipPaused, SkipItem, Trying
  <2>2. pc' = [pc EXCEPT ![b] = "working"]
    BY <2>1 DEF TypeOK
  <2>3. t \in InWave(b) /\ item[b][t] = "pending" /\ \A u \in Tenants : item[b][u] # "running"
    BY <2>1 DEF NextItem, Locks
  <2>4. Settles(b, t, "skipped")
    BY <2>1, <2>2, <2>3 DEF Settles, InWave, Working
  <2> QED
    BY <2>4 DEF Kinds
<1>2. CASE RefuseSchema(b, t)
  <2>1. pc' = [pc EXCEPT ![b] = "working"] /\ waveFailed'[b]
    BY <1>2 DEF TypeOK, RefuseSchema, Trying
  <2>2. Settles(b, t, "failed")
    BY <1>2, <2>1 DEF RefuseSchema, Trying, Settles, NextItem, InWave, Working, Locks
  <2> QED
    BY <2>2 DEF Kinds
<1>3. CASE CompleteItem(b, t)
  <2>1. Settles(b, t, "complete")
    BY <1>3 DEF CompleteItem, Applying, Settles, Working, Locks
  <2> QED
    BY <2>1 DEF Kinds
<1>4. CASE FailItem(b, t)
  <2>1. waveFailed'[b]
    BY <1>4 DEF FailItem, TypeOK
  <2>2. Settles(b, t, "failed")
    BY <1>4, <2>1 DEF FailItem, Applying, Settles, Working, Locks
  <2> QED
    BY <2>2 DEF Kinds
<1> QED
  BY <1>1, <1>2, <1>3, <1>4

\* Settling an item adds one to the number of those settled that way and to no other.
LEMMA OneMoreItem ==
  ASSUME TypeOK, CountsItems, NEW b \in Batches, NEW t \in Targets(b), NEW how \in Kinds,
         ~Settled(b, t), Settle(b, t, how), wave' = wave
  PROVE  CountsItems'
<1>1. SUFFICES ASSUME NEW c \in Batches, NEW k \in Kinds
               PROVE  count'[c][k] = Cardinality(ItemsOf(c, k)')
  BY DEF CountsItems
<1>2. ItemsOf(c, k) \in SUBSET Tenants
  BY DEF ItemsOf, Targets
<1>3. IsFiniteSet(ItemsOf(c, k)) /\ Cardinality(ItemsOf(c, k)) \in Nat
  BY <1>2, TenantsFinite
<1>4. \A u \in Tenants : item'[c][u] = IF c = b /\ u = t THEN how ELSE item[c][u]
  BY DEF TypeOK, Targets, Settle
<1>5. /\ count'[c][k] = count[c][k] + (IF c = b /\ k = how THEN 1 ELSE 0)
      /\ count[c][k] = Cardinality(ItemsOf(c, k))
  BY DEF TypeOK, Settle, CountsItems
<1>6. CASE c = b /\ k = how
  <2>1. ItemsOf(c, k)' = ItemsOf(c, k) \cup {t}
    BY <1>4, <1>6 DEF ItemsOf, Targets
  <2>2. t \notin ItemsOf(c, k)
    BY <1>6 DEF ItemsOf, Settled
  <2>3. Cardinality(ItemsOf(c, k) \cup {t}) = Cardinality(ItemsOf(c, k)) + 1
    BY <1>3, <2>2, FS_AddElement
  <2> QED
    BY <1>5, <1>6, <2>1, <2>3
<1>7. CASE ~(c = b /\ k = how)
  <2>1. ItemsOf(c, k)' = ItemsOf(c, k)
    BY <1>4, <1>7 DEF ItemsOf, Targets, Settled
  <2> QED
    BY <1>3, <1>5, <1>7, <2>1
<1> QED
  BY <1>6, <1>7

\* Settling an item keeps the plan, the waves and the counts.
LEMMA SettlesKeeps ==
  ASSUME IInv, NEW b \in Batches, NEW t \in Tenants, NEW how \in Kinds, Settles(b, t, how)
  PROVE  Planned' /\ Waves' /\ Counted'
<1> USE DEF IInv
<1>1. /\ waveNo[b] >= 1 /\ t \in Targets(b) /\ ~Settled(b, t) /\ wave[b][t] # 0
      /\ pc[b] # "ready" /\ pc[b] # "done" /\ ~Finished(b)
  BY DEF Settles, Planned, Targets, Settled, Kinds, Working, Counted, TotalsWritten
<1>2. \A c \in Batches, u \in Tenants :
        item'[c][u] = IF c = b /\ u = t THEN how ELSE item[c][u]
  BY DEF Settles, Settle, TypeOK
<1>3. \A c \in Batches : c # b => count'[c] = count[c]
  BY DEF Settles, Settle, TypeOK
<1>4. /\ \A c \in Batches : pc'[c] = IF c = b THEN "working" ELSE pc[c]
      /\ \A c \in Batches : waveFailed'[c] = IF c = b THEN waveFailed'[b] ELSE waveFailed[c]
      /\ waveFailed[b] => waveFailed'[b]
      /\ how = "failed" => waveFailed'[b]
  BY DEF Settles, TypeOK
<1>5. UNCHANGED <<release, stopOnFailure, wave, succeeded, failed, skipped, status, waveNo>>
  BY DEF Settles, plan, totals
<1>6. Planned'
  BY <1>1, <1>2, <1>3, <1>4, <1>5 DEF Planned, Working, Kinds, Settles
<1>7. Waves'
  BY <1>1, <1>2, <1>4, <1>5 DEF Waves, Settled, Kinds, Settles, Targets
<1>8. Counted'
  <2>1. CountsItems'
    <3>1. CountsItems /\ TypeOK /\ t \in Targets(b) /\ ~Settled(b, t) /\ Settle(b, t, how) /\ wave' = wave
      BY <1>1, <1>5 DEF Counted, Settles
    <3> QED
      BY <3>1, OneMoreItem, Zenon
  <2>2. \A c \in Batches : Finished(c)' => c # b /\ Finished(c)
    BY <1>1, <1>5 DEF Finished
  <2>3. \A c \in Batches : Targets(c)' = Targets(c)
    BY <1>5 DEF Targets
  <2>4. \A c \in Batches : c # b => count'[c] = count[c]
    BY DEF Settles, Settle, TypeOK
  <2>5. \A c \in Batches : Finished(c)' =>
          /\ pc'[c] = "done"
          /\ succeeded'[c] = count'[c].complete
          /\ failed'[c] = count'[c].failed
          /\ skipped'[c] = count'[c].skipped
          /\ \A u \in Targets(c)' : Settled(c, u)'
    BY <1>2, <1>4, <1>5, <2>2, <2>3, <2>4 DEF Counted, TotalsWritten, Settled, Targets
  <2> QED
    BY <2>1, <2>5 DEF Counted, TotalsWritten
<1> QED
  BY <1>6, <1>7, <1>8

-----------------------------------------------------------------------------
(* The other steps of a batch *)

\* Steps that leave the same items settled in the same ways leave the counts alone.
LEMMA SameItems ==
  ASSUME CountsItems, wave' = wave, count' = count,
         \A b \in Batches, t \in Tenants, k \in Kinds : item'[b][t] = k <=> item[b][t] = k
  PROVE  CountsItems'
<1>1. SUFFICES ASSUME NEW b \in Batches, NEW k \in Kinds
               PROVE  count'[b][k] = Cardinality(ItemsOf(b, k)')
  BY DEF CountsItems
<1>2. ItemsOf(b, k)' = ItemsOf(b, k)
  BY DEF ItemsOf, Targets
<1> QED
  BY <1>2 DEF CountsItems

\* Starting on an item, or being refused it, settles nothing.
LEMMA MarksKeeps ==
  ASSUME IInv, NEW b \in Batches, NEW t \in Tenants, Throws(b, t) \/ BeginItem(b, t)
  PROVE  Planned' /\ Waves' /\ Counted'
<1> USE DEF IInv
<1>1. /\ pc[b] = "working" /\ wave[b][t] = waveNo[b] /\ item[b][t] = "pending"
      /\ item' = [item EXCEPT ![b][t] = "running"]
      /\ \E l \in {"thrown", "applying"} : pc' = [pc EXCEPT ![b] = l]
      /\ UNCHANGED <<release, stopOnFailure, wave, succeeded, failed, skipped, status,
                     waveNo, waveFailed, count>>
  BY DEF Throws, BeginItem, Trying, NextItem, InWave, plan, totals
<1>2. \A c \in Batches, u \in Tenants :
        item'[c][u] = IF c = b /\ u = t THEN "running" ELSE item[c][u]
  BY <1>1 DEF TypeOK
<1>3. \A c \in Batches : pc'[c] = pc[c] \/ (c = b /\ pc'[c] \in {"thrown", "applying"})
  <2> PICK l \in {"thrown", "applying"} : pc' = [pc EXCEPT ![b] = l]
    BY <1>1
  <2>1. \A c \in Batches : pc'[c] = IF c = b THEN l ELSE pc[c]
    BY DEF TypeOK
  <2> QED
    BY <2>1
<1>4. waveNo[b] >= 1 /\ status[b] = "running"
  BY <1>1 DEF Planned, Working
<1>5. Planned'
  BY <1>1, <1>2, <1>3, <1>4 DEF Planned, Working
<1>6. Waves'
  BY <1>1, <1>2, <1>3, <1>4 DEF Waves, Settled, Kinds, Targets
<1>7. Counted'
  <2>1. \A c \in Batches, u \in Tenants, k \in Kinds : item'[c][u] = k <=> item[c][u] = k
    BY <1>1, <1>2 DEF Kinds
  <2>3. CountsItems'
    <3>1. CountsItems /\ wave' = wave /\ count' = count
      BY <1>1 DEF Counted
    <3> QED
      BY <2>1, <3>1, SameItems, Zenon
  <2>4. \A c \in Batches : Finished(c)' => Finished(c) /\ c # b
    BY <1>1, <1>4 DEF Finished
  <2>5. \A c \in Batches : Finished(c)' =>
          /\ pc'[c] = "done"
          /\ succeeded'[c] = count'[c].complete
          /\ failed'[c] = count'[c].failed
          /\ skipped'[c] = count'[c].skipped
          /\ \A u \in Targets(c)' : Settled(c, u)'
    BY <1>1, <1>2, <1>3, <2>4 DEF Counted, TotalsWritten, Settled, Targets
  <2> QED
    BY <2>3, <2>5 DEF Counted, TotalsWritten
<1> QED
  BY <1>5, <1>6, <1>7

\* A wave is begun only when the one before it is settled, and not after a failure that stops.
LEMMA NextWaveKeeps ==
  ASSUME IInv, NEW b \in Batches, NextWave(b)
  PROVE  Planned' /\ Waves' /\ Counted'
<1> USE DEF IInv
<1>1. /\ pc[b] = "working" /\ ~Stops(b) /\ NextItem(b) = {}
      /\ waveNo' = [waveNo EXCEPT ![b] = @ + 1]
      /\ waveFailed' = [waveFailed EXCEPT ![b] = FALSE]
      /\ UNCHANGED <<release, stopOnFailure, wave, succeeded, failed, skipped, status, item,
                     pc, count>>
  BY DEF NextWave, WaveOver, plan, totals
<1>2. \A c \in Batches : waveNo[c] \in Nat /\ waveNo'[c] = IF c = b THEN waveNo[b] + 1 ELSE waveNo[c]
  BY <1>1 DEF TypeOK
<1>3. \A c \in Batches : waveFailed'[c] = IF c = b THEN FALSE ELSE waveFailed[c]
  BY <1>1 DEF TypeOK
<1>4. \A t \in Tenants : wave[b][t] = waveNo[b] => Settled(b, t)
  <2>1. \A t \in Tenants : wave[b][t] = waveNo[b] => item[b][t] # "pending"
    BY <1>1, NothingPending DEF InWave
  <2>2. \A t \in Tenants : item[b][t] \in ItemStatuses /\ item[b][t] # "running"
    BY <1>1 DEF TypeOK, Locks
  <2>3. \A t \in Tenants : item[b][t] = "none" => wave[b][t] # waveNo[b]
    BY DEF Planned
  <2> QED
    BY <2>1, <2>2, <2>3 DEF Settled, ItemStatuses
<1>5. \A c \in Batches, t \in Tenants : wave[c][t] \in Nat
  BY SizeAssumption DEF TypeOK
<1>6. Planned'
  BY <1>1, <1>2, <1>3 DEF Planned
<1>7. Waves'
  <2>1. \A c \in Batches, t \in Tenants :
          wave[c][t] # 0 /\ wave[c][t] < waveNo'[c] => Settled(c, t)
    BY <1>2, <1>4, <1>5 DEF Waves
  <2>2. \A c \in Batches, t \in Tenants :
          stopOnFailure[c] /\ wave[c][t] < waveNo'[c] => item[c][t] # "failed"
    BY <1>1, <1>2, <1>5 DEF Waves, Stops
  <2>3. \A c \in Batches, t \in Tenants :
          wave[c][t] = waveNo'[c] /\ item[c][t] = "failed" => waveFailed'[c]
    BY <1>1, <1>2, <1>3, <1>5 DEF Waves
  <2>4. \A c \in Batches, t \in Tenants : wave[c][t] > waveNo'[c] => wave[c][t] > waveNo[c]
    BY <1>2, <1>5
  <2> QED
    BY <1>1, <2>1, <2>2, <2>3, <2>4 DEF Waves, Settled, Targets
<1>8. Counted'
  BY <1>1 DEF Counted, CountsItems, TotalsWritten, Finished, Settled, Targets, ItemsOf
<1> QED
  BY <1>6, <1>7, <1>8

\* A batch ends when its last wave is settled or the failed wave stops it: then everything
\* is settled, and what was never tried is counted with what was skipped.
LEMMA FinishKeeps ==
  ASSUME IInv, NEW b \in Batches, Finish(b)
  PROVE  Planned' /\ Waves' /\ Counted'
<1> USE DEF IInv
<1>1. /\ pc[b] = "working" /\ NextItem(b) = {} /\ (Stops(b) \/ Later(b) = {})
      /\ pc' = [pc EXCEPT ![b] = "done"]
      /\ UNCHANGED <<release, stopOnFailure, wave, waveNo, waveFailed>>
  BY DEF Finish, WaveOver, plan
<1>2. \A c \in Batches, t \in Tenants :
        item'[c][t] = IF c = b /\ t \in Later(b) THEN "skipped" ELSE item[c][t]
  BY DEF Finish, TypeOK
<1>3. \A c \in Batches : pc'[c] = IF c = b THEN "done" ELSE pc[c]
  BY <1>1 DEF TypeOK
<1>4. waveNo[b] \in Nat /\ waveNo[b] >= 1 /\ \A c \in Batches, t \in Tenants : wave[c][t] \in Nat
  BY SizeAssumption DEF TypeOK, Planned
<1>5. \A t \in Tenants : wave[b][t] = waveNo[b] => Settled(b, t)
  <2>1. \A t \in Tenants : wave[b][t] = waveNo[b] => item[b][t] # "pending"
    BY <1>1, NothingPending DEF InWave
  <2>2. \A t \in Tenants : item[b][t] \in ItemStatuses /\ item[b][t] # "running"
    BY <1>1 DEF TypeOK, Locks
  <2>3. \A t \in Tenants : item[b][t] = "none" => wave[b][t] # waveNo[b]
    BY <1>4 DEF Planned
  <2> QED
    BY <2>1, <2>2, <2>3 DEF Settled, ItemStatuses
<1>6. \A t \in Tenants : t \in Later(b) <=> wave[b][t] > waveNo[b]
  BY <1>4 DEF Later, Targets
<1>7. \A t \in Later(b) : item[b][t] = "pending"
  BY <1>1, <1>6 DEF Waves, Later, Targets
<1>8. \A t \in Targets(b) : Settled(b, t)'
  BY <1>2, <1>4, <1>5, <1>6 DEF Waves, Settled, Targets, Kinds
<1>9. Planned'
  <2>1. \A c \in Batches : c # b => status'[c] = status[c] /\ count'[c] = count[c]
    BY DEF Finish, TypeOK
  <2>2. pc[b] # "ready"
    BY <1>1
  <2>3. \A t \in Tenants : item'[b][t] = "none" <=> wave[b][t] = 0
    BY <1>2, <1>4, <1>6 DEF Planned
  <2> QED
    BY <1>1, <1>2, <1>3, <2>1, <2>2, <2>3 DEF Planned, Working
<1>10. Waves'
  <2>1. \A c \in Batches, t \in Tenants :
          item'[c][t] = item[c][t] \/ (c = b /\ wave[b][t] > waveNo[b] /\ item'[c][t] = "skipped")
    BY <1>2, <1>6
  <2>2. \A t \in Tenants : wave[b][t] > waveNo[b] => item'[b][t] = "skipped" /\ pc'[b] = "done"
    BY <1>2, <1>3, <1>6
  <2>3. \A t \in Tenants : wave[b][t] > waveNo[b] => ~(wave[b][t] < waveNo[b]) /\ wave[b][t] # waveNo[b]
    BY <1>4
  <2>4. ASSUME NEW c \in Batches, NEW t \in Tenants, c # b
        PROVE  pc'[c] = pc[c] /\ item'[c] = item[c]
    BY <1>3, <2>4 DEF Finish, TypeOK
  <2> QED
    BY <1>1, <1>8, <2>1, <2>2, <2>3, <2>4 DEF Waves, Settled, Targets, Kinds
<1>11. Counted'
  <2>1. /\ Later(b) \in SUBSET Tenants /\ ItemsOf(b, "skipped") \in SUBSET Tenants
        /\ IsFiniteSet(Later(b)) /\ IsFiniteSet(ItemsOf(b, "skipped"))
        /\ Cardinality(Later(b)) \in Nat /\ Cardinality(ItemsOf(b, "skipped")) \in Nat
    BY TenantsFinite DEF Later, Targets, ItemsOf
  <2>2. /\ ItemsOf(b, "complete")' = ItemsOf(b, "complete")
        /\ ItemsOf(b, "failed")' = ItemsOf(b, "failed")
        /\ ItemsOf(b, "skipped")' = ItemsOf(b, "skipped") \cup Later(b)
    BY <1>1, <1>2, <1>7 DEF ItemsOf, Targets, Later
  <2>3. Cardinality(ItemsOf(b, "skipped") \cup Later(b)) =
          Cardinality(ItemsOf(b, "skipped")) + Cardinality(Later(b))
    <3>1. ItemsOf(b, "skipped") \cap Later(b) = {}
      BY <1>7 DEF ItemsOf
    <3> QED
      BY <2>1, <3>1, DisjointParts
  <2>4. Stops(b) \/ Cardinality(Later(b)) = 0
    BY <1>1, FS_EmptySet
  <2>5. /\ count'[b].complete = count[b].complete
        /\ count'[b].failed = count[b].failed
        /\ count'[b].skipped = count[b].skipped + Cardinality(Later(b))
    <3>1. count'[b] = SkipLater(b) /\ count[b] \in [Kinds -> Nat]
      BY DEF Finish, TypeOK
    <3> QED
      BY <2>1, <2>4, <3>1 DEF SkipLater, Kinds
  <2>6. /\ count'[b].complete = Cardinality(ItemsOf(b, "complete")')
        /\ count'[b].failed = Cardinality(ItemsOf(b, "failed")')
        /\ count'[b].skipped = Cardinality(ItemsOf(b, "skipped")')
    BY <2>2, <2>3, <2>5 DEF Counted, CountsItems, TotalsWritten, Kinds
  <2>7. ASSUME NEW c \in Batches, c # b
        PROVE  /\ UNCHANGED <<count[c], item[c], succeeded[c], failed[c], skipped[c], status[c], pc[c]>>
    BY <2>7 DEF Finish, TypeOK
  <2>8. /\ pc'[b] = "done" /\ succeeded'[b] = count'[b].complete
        /\ failed'[b] = count'[b].failed /\ skipped'[b] = count'[b].skipped
    BY DEF Finish, TypeOK
  <2>9. ASSUME NEW c \in Batches, NEW k \in Kinds
        PROVE  count'[c][k] = Cardinality(ItemsOf(c, k)')
    <3>1. CASE c = b
      BY <2>6, <3>1 DEF Kinds
    <3>2. CASE c # b
      <4>1. ItemsOf(c, k)' = ItemsOf(c, k)
        BY <1>1, <2>7, <3>2 DEF ItemsOf, Targets
      <4> QED
        BY <2>7, <3>2, <4>1 DEF Counted, CountsItems, TotalsWritten
    <3> QED
      BY <3>1, <3>2
  <2>10. ASSUME NEW c \in Batches, Finished(c)'
         PROVE  /\ pc'[c] = "done"
                /\ succeeded'[c] = count'[c].complete
                /\ failed'[c] = count'[c].failed
                /\ skipped'[c] = count'[c].skipped
                /\ \A t \in Targets(c)' : Settled(c, t)'
    <3>1. CASE c = b
      BY <1>1, <1>8, <2>8, <3>1 DEF Targets
    <3>2. CASE c # b
      BY <1>1, <2>7, <2>10, <3>2 DEF Counted, CountsItems, TotalsWritten, Finished, Targets, Settled
    <3> QED
      BY <3>1, <3>2
  <2> QED
    BY <2>9, <2>10 DEF Counted, CountsItems, TotalsWritten
<1> QED
  BY <1>9, <1>10, <1>11

\* A new batch has settled nothing, and its waves are numbered from one.
LEMMA StartKeeps ==
  ASSUME IInv, NEW b \in Batches, Start(b)
  PROVE  Planned' /\ Waves' /\ Counted'
<1> USE DEF IInv
<1> PICK r \in Releases, S \in TargetSets, size \in WaveSizes, stop \in BOOLEAN,
         dryRun \in BOOLEAN : StartBatch(b, r, S, size, stop, dryRun)
  BY DEF Start
<1>1. /\ pc[b] = "ready" /\ waveNo[b] = 1 /\ ~waveFailed[b]
      /\ \A k \in Kinds : count[b][k] = 0
      /\ UNCHANGED <<succeeded, failed, skipped, waveNo, waveFailed, count>>
  BY DEF StartBatch, Planned, totals
<1>2. \A t \in Tenants : wave'[b][t] = IF t \in S THEN WaveOf(S, size, t) ELSE 0
  BY DEF StartBatch, TypeOK
<1>3. \A t \in S : WaveOf(S, size, t) \in 1 .. NumTenants
  BY WaveNumbers
<1>4. \A t \in Tenants : wave'[b][t] \in Nat /\ (wave'[b][t] = 0 <=> t \notin S)
  <2> HIDE DEF WaveOf
  <2> QED
    BY <1>2, <1>3, SizeAssumption
<1>5. \A t \in Tenants : item'[b][t] = IF t \in S THEN "pending" ELSE "none"
  BY DEF StartBatch, TypeOK
<1>6. /\ release'[b] = r
      /\ status'[b] \in {"dry_run", "running"}
      /\ pc'[b] = IF status'[b] = "running" THEN "working" ELSE "done"
  BY DEF StartBatch, TypeOK
<1>7. \A c \in Batches : c # b =>
        UNCHANGED <<release[c], stopOnFailure[c], wave[c], item[c], status[c], pc[c]>>
  BY DEF StartBatch, TypeOK
<1>8. Planned'
  <2>1. ASSUME NEW c \in Batches, c = b
        PROVE  /\ waveNo'[c] >= 1
               /\ pc'[c] # "ready" /\ release'[c] \in Releases
               /\ pc'[c] \in Working => status'[c] = "running"
               /\ \A t \in Tenants : item'[c][t] = "none" <=> wave'[c][t] = 0
    BY <1>1, <1>4, <1>5, <1>6, <2>1 DEF Working
  <2> QED
    BY <1>1, <1>7, <2>1 DEF Planned
<1>9. Waves'
  <2>1. ASSUME NEW t \in Tenants
        PROVE  /\ ~(wave'[b][t] # 0 /\ wave'[b][t] < waveNo'[b])
               /\ wave'[b][t] > waveNo'[b] => item'[b][t] = "pending"
               /\ item'[b][t] \in {"pending", "none"}
    BY <1>1, <1>4, <1>5
  <2> QED
    BY <1>1, <1>7, <2>1 DEF Waves, Settled, Targets
<1>10. Counted'
  <2>1. ASSUME NEW c \in Batches, NEW k \in Kinds
        PROVE  count'[c][k] = Cardinality(ItemsOf(c, k)')
    <3>1. CASE c = b
      <4>1. ItemsOf(b, k)' = {}
        BY <1>5 DEF ItemsOf, Targets, Kinds
      <4> QED
        BY <1>1, <3>1, <4>1, FS_EmptySet
    <3>2. CASE c # b
      <4>1. ItemsOf(c, k)' = ItemsOf(c, k)
        BY <1>7, <3>2 DEF ItemsOf, Targets
      <4> QED
        BY <1>1, <3>2, <4>1 DEF Counted, CountsItems, TotalsWritten
    <3> QED
      BY <3>1, <3>2
  <2>2. \A c \in Batches : Finished(c)' => Finished(c) /\ c # b
    BY <1>6, <1>7 DEF Finished
  <2>3. ASSUME NEW c \in Batches, Finished(c)'
        PROVE  /\ pc'[c] = "done"
               /\ succeeded'[c] = count'[c].complete
               /\ failed'[c] = count'[c].failed
               /\ skipped'[c] = count'[c].skipped
               /\ \A t \in Targets(c)' : Settled(c, t)'
    BY <1>1, <1>7, <2>2, <2>3 DEF Counted, CountsItems, TotalsWritten, Targets, Settled
  <2> QED
    BY <2>1, <2>3 DEF Counted, CountsItems, TotalsWritten
<1> QED
  BY <1>8, <1>9, <1>10

\* What runs beside the batches touches none of their rows; a restart only ends requests.
LEMMA EnvironmentKeeps ==
  ASSUME IInv, Environment
  PROVE  Planned' /\ Waves' /\ Counted'
<1> USE DEF IInv
<1>1. UNCHANGED <<plan, totals, status, item, waveNo, waveFailed, count>>
  BY DEF Environment, OtherBegins, OtherEnds, Created, SetPaused, LockExpires, Crash, batches
<1>2. \A b \in Batches : pc'[b] = pc[b] \/ (pc[b] \in Working /\ pc'[b] = "crashed")
  BY DEF Environment, OtherBegins, OtherEnds, Created, SetPaused, LockExpires, Crash, batches
<1>3. Planned'
  BY <1>1, <1>2 DEF Planned, plan, totals, Working
<1>4. Waves'
  BY <1>1, <1>2 DEF Waves, plan, Settled, Targets, Working
<1>5. Counted'
  BY <1>1, <1>2 DEF Counted, CountsItems, TotalsWritten, plan, totals, Finished, ItemsOf, Settled, Targets, Working
<1> QED
  BY <1>3, <1>4, <1>5

-----------------------------------------------------------------------------
(* Locks *)

\* Skipping or refusing an item takes no lock and gives none back.
LEMMA RefusalLocks ==
  ASSUME IInv, NEW b \in Batches, NEW t \in Tenants,
         SkipPaused(b, t) \/ SkipItem(b, t) \/ RefuseSchema(b, t) \/ Throws(b, t)
  PROVE  Locks'
<1> USE DEF IInv
<1>1. /\ pc[b] = "working" /\ item[b][t] = "pending"
      /\ UNCHANGED <<lock, asked, release, wave, waveNo>>
      /\ \E how \in ItemStatuses, l \in {"working", "thrown"} :
           /\ how = "running" => l = "thrown"
           /\ item' = [item EXCEPT ![b][t] = how]
           /\ pc' = [pc EXCEPT ![b] = l]
  <2>1. CASE Throws(b, t)
    BY <2>1 DEF Throws, Trying, NextItem, tenants, plan, ItemStatuses
  <2>2. CASE SkipPaused(b, t) \/ SkipItem(b, t) \/ RefuseSchema(b, t)
    <3>1. pc[b] = "working" /\ t \in NextItem(b) /\ pc' = pc
          /\ UNCHANGED <<lock, asked, release, wave, waveNo>>
          /\ \E how \in Kinds : item' = [item EXCEPT ![b][t] = how]
      BY <2>2 DEF SkipPaused, SkipItem, RefuseSchema, Trying, Settle, tenants, plan, Kinds
    <3>2. pc' = [pc EXCEPT ![b] = "working"]
      BY <3>1 DEF TypeOK
    <3> QED
      BY <3>1, <3>2 DEF NextItem, ItemStatuses, Kinds
  <2> QED
    BY <2>1, <2>2
<1> PICK how \in ItemStatuses, l \in {"working", "thrown"} :
           /\ how = "running" => l = "thrown"
           /\ item' = [item EXCEPT ![b][t] = how]
           /\ pc' = [pc EXCEPT ![b] = l]
  BY <1>1
<1>2. \A c \in Batches, u \in Tenants :
        item'[c][u] = IF c = b /\ u = t THEN how ELSE item[c][u]
  BY DEF TypeOK
<1>3. \A c \in Batches : pc'[c] = IF c = b THEN l ELSE pc[c]
  BY DEF TypeOK
<1> QED
  BY <1>1, <1>2, <1>3 DEF Locks

\* An application that is begun locks its tenant, which nobody held.
LEMMA BeginLocks ==
  ASSUME IInv, NEW b \in Batches, NEW t \in Tenants, BeginItem(b, t)
  PROVE  Locks'
<1> USE DEF IInv
<1>1. /\ pc[b] = "working" /\ item[b][t] = "pending" /\ lock[t] = None
      /\ wave[b][t] = waveNo[b] /\ release[b] \in Releases
      /\ UNCHANGED <<release, wave, waveNo>>
  BY DEF BeginItem, Trying, NextItem, InWave, Skips, plan, Planned
<1>2. asked[t] = None
  BY <1>1 DEF Locks
<1>3. \A c \in Batches, u \in Tenants :
        item'[c][u] = IF c = b /\ u = t THEN "running" ELSE item[c][u]
  BY DEF BeginItem, TypeOK
<1>4. \A c \in Batches : pc'[c] = IF c = b THEN "applying" ELSE pc[c]
  BY DEF BeginItem, TypeOK
<1>5. \A u \in Tenants : /\ lock'[u] = IF u = t THEN b ELSE lock[u]
                         /\ asked'[u] = IF u = t THEN release[b] ELSE asked[u]
  BY DEF BeginItem, TypeOK
<1>6. \A c \in Batches : pc[c] = "applying" => item[c][t] # "running"
  BY <1>1, NameAssumption DEF Locks
<1>7. b # None
  BY NameAssumption
<1>8. ASSUME NEW c \in Batches, NEW u \in Tenants
      PROVE  /\ lock'[u] = c /\ asked'[u] # None => pc'[c] = "applying" /\ item'[c][u] = "running"
             /\ pc'[c] = "applying" /\ item'[c][u] = "running" =>
                  lock'[u] = c /\ asked'[u] = release[c] /\ wave[c][u] = waveNo[c]
             /\ pc'[c] = "working" => item'[c][u] # "running"
  <2>1. CASE c = b
    BY <1>1, <1>2, <1>3, <1>4, <1>5, <2>1 DEF Locks
  <2>2. CASE c # b
    BY <1>3, <1>4, <1>5, <1>6, <2>2 DEF Locks
  <2> QED
    BY <2>1, <2>2
<1>9. \A u \in Tenants : asked'[u] # None => lock'[u] # None
  BY <1>5, <1>7 DEF Locks
<1>10. \A c \in Batches : pc'[c] = "applying" => \E u \in Tenants : item'[c][u] = "running"
  BY <1>3, <1>4 DEF Locks
<1>11. \A c \in Batches, u, v \in Tenants :
         item'[c][u] = "running" /\ item'[c][v] = "running" => u = v
  BY <1>1, <1>3 DEF Locks
<1> QED
  BY <1>1, <1>8, <1>9, <1>10, <1>11 DEF Locks

\* An application that ends gives its tenant back, and the batch works on nothing.
LEMMA EndLocks ==
  ASSUME IInv, NEW b \in Batches, NEW t \in Tenants, CompleteItem(b, t) \/ FailItem(b, t)
  PROVE  Locks'
<1> USE DEF IInv
<1>1. /\ pc[b] = "applying" /\ lock[t] = b /\ item[b][t] = "running"
      /\ UNCHANGED <<release, wave, waveNo>>
      /\ pc' = [pc EXCEPT ![b] = "working"]
      /\ Unlock(t)
      /\ \E how \in Kinds : item' = [item EXCEPT ![b][t] = how]
  BY DEF CompleteItem, FailItem, Applying, Settle, Kinds, plan
<1> PICK how \in Kinds : item' = [item EXCEPT ![b][t] = how]
  BY <1>1
<1>2. \A c \in Batches, u \in Tenants :
        item'[c][u] = IF c = b /\ u = t THEN how ELSE item[c][u]
  BY DEF TypeOK
<1>3. \A c \in Batches : pc'[c] = IF c = b THEN "working" ELSE pc[c]
  BY <1>1 DEF TypeOK
<1>4. \A u \in Tenants : /\ lock'[u] = IF u = t THEN None ELSE lock[u]
                         /\ asked'[u] = IF u = t THEN None ELSE asked[u]
  BY <1>1 DEF Unlock, TypeOK
<1>5. how # "running" /\ \A c \in Batches : c # None
  BY NameAssumption DEF Kinds
<1>6. \A c \in Batches : c # b /\ pc[c] = "applying" => item[c][t] # "running"
  BY <1>1 DEF Locks
<1>7. \A u \in Tenants : item'[b][u] # "running" /\ (lock'[u] = b => asked'[u] = None)
  BY <1>1, <1>2, <1>4, <1>5 DEF Locks
<1>8. ASSUME NEW c \in Batches, NEW u \in Tenants, c # b
      PROVE  /\ lock'[u] = c /\ asked'[u] # None => pc'[c] = "applying" /\ item'[c][u] = "running"
             /\ pc'[c] = "applying" /\ item'[c][u] = "running" =>
                  lock'[u] = c /\ asked'[u] = release[c] /\ wave[c][u] = waveNo[c]
             /\ pc'[c] = "working" => item'[c][u] # "running"
  BY <1>2, <1>3, <1>4, <1>5, <1>6, <1>8 DEF Locks
<1>9. \A u \in Tenants : asked'[u] # None => lock'[u] # None
  BY <1>4 DEF Locks
<1>10. /\ \A c \in Batches : pc'[c] = "applying" => \E u \in Tenants : item'[c][u] = "running"
       /\ \A c \in Batches, u, v \in Tenants :
            item'[c][u] = "running" /\ item'[c][v] = "running" => u = v
  BY <1>2, <1>3, <1>5 DEF Locks
<1> QED
  BY <1>1, <1>3, <1>7, <1>8, <1>9, <1>10 DEF Locks

\* Beginning a wave, ending a batch and starting one concern no lock.
LEMMA BatchLocks ==
  ASSUME IInv, NEW b \in Batches, NextWave(b) \/ Finish(b) \/ Start(b)
  PROVE  Locks'
<1> USE DEF IInv
<1>1. CASE NextWave(b)
  <2>1. pc[b] = "working" /\ UNCHANGED <<lock, asked, pc, item, release, wave>>
    BY <1>1 DEF NextWave, WaveOver, tenants, plan
  <2>2. \A c \in Batches : c # b => waveNo'[c] = waveNo[c]
    BY <1>1 DEF NextWave, TypeOK
  <2> QED
    BY <2>1, <2>2 DEF Locks
<1>2. CASE Finish(b)
  <2>1. pc[b] = "working" /\ UNCHANGED <<lock, asked, release, wave, waveNo>>
    BY <1>2 DEF Finish, WaveOver, tenants, plan
  <2>2. \A c \in Batches : pc'[c] = IF c = b THEN "done" ELSE pc[c]
    BY <1>2 DEF Finish, TypeOK
  <2>3. \A c \in Batches, u \in Tenants :
          item'[c][u] = item[c][u] \/ (c = b /\ item'[c][u] = "skipped")
    BY <1>2 DEF Finish, TypeOK
  <2> QED
    BY <2>1, <2>2, <2>3 DEF Locks
<1>3. CASE Start(b)
  <2>1. pc[b] = "ready" /\ UNCHANGED <<lock, asked, waveNo>>
    BY <1>3 DEF Start, StartBatch, tenants
  <2>2. \A u \in Tenants : item[b][u] = "none" /\ item'[b][u] \in {"pending", "none"}
    BY <1>3, <2>1 DEF Start, StartBatch, TypeOK, Planned
  <2>3. pc'[b] \in {"done", "working"}
    BY <1>3 DEF Start, StartBatch, TypeOK
  <2>4. \A c \in Batches : c # b => UNCHANGED <<pc[c], item[c], release[c], wave[c]>>
    BY <1>3 DEF Start, StartBatch, TypeOK
  <2> QED
    BY <2>1, <2>2, <2>3, <2>4 DEF Locks
<1> QED
  BY <1>1, <1>2, <1>3

\* Single applications take free tenants only, and only a lock nobody works under expires.
LEMMA EnvironmentLocks ==
  ASSUME IInv, Environment
  PROVE  Locks'
<1> USE DEF IInv
<1>1. ASSUME NEW t \in Tenants, NEW r \in Releases, OtherBegins(t, r) PROVE Locks'
  <2>1. lock[t] = None /\ asked[t] = None
    BY <1>1 DEF OtherBegins, Locks
  <2>2. \A u \in Tenants : /\ lock'[u] = IF u = t THEN Other ELSE lock[u]
                           /\ asked'[u] = IF u = t THEN r ELSE asked[u]
    BY <1>1 DEF OtherBegins, TypeOK
  <2>3. UNCHANGED <<pc, item, release, wave, waveNo>>
    BY <1>1 DEF OtherBegins, batches, plan
  <2> QED
    BY <2>1, <2>2, <2>3, NameAssumption DEF Locks
<1>2. ASSUME NEW t \in Tenants, OtherEnds(t) PROVE Locks'
  <2>1. lock[t] = Other /\ UNCHANGED <<pc, item, release, wave, waveNo>>
    BY <1>2 DEF OtherEnds, batches, plan
  <2>2. \A u \in Tenants : /\ lock'[u] = IF u = t THEN None ELSE lock[u]
                           /\ asked'[u] = IF u = t THEN None ELSE asked[u]
    BY <1>2 DEF OtherEnds, Unlock, TypeOK
  <2> QED
    BY <2>1, <2>2, NameAssumption DEF Locks
<1>3. ASSUME NEW t \in Tenants, Created(t) \/ SetPaused(t) PROVE Locks'
  <2>1. UNCHANGED <<lock, asked, pc, item, release, wave, waveNo>>
    BY <1>3 DEF Created, SetPaused, batches, plan
  <2> QED
    BY <2>1 DEF Locks
<1>4. ASSUME NEW t \in Tenants, LockExpires(t) PROVE Locks'
  <2>1. asked[t] = None /\ UNCHANGED <<asked, pc, item, release, wave, waveNo>>
    BY <1>4 DEF LockExpires, batches, plan
  <2>2. \A u \in Tenants : lock'[u] = IF u = t THEN None ELSE lock[u]
    BY <1>4 DEF LockExpires, TypeOK
  <2>3. \A c \in Batches : pc[c] = "applying" => item[c][t] # "running"
    BY <2>1, NameAssumption DEF Locks, Planned
  <2> QED
    BY <2>1, <2>2, <2>3, NameAssumption DEF Locks
<1>5. CASE Crash
  <2>1. \A c \in Batches : pc'[c] \notin Working
    BY <1>5 DEF Crash, Working
  <2>2. (\A u \in Tenants : asked'[u] = None) /\ UNCHANGED item
    BY <1>5 DEF Crash
  <2> QED
    BY <2>1, <2>2 DEF Locks, Working
<1> QED
  BY <1>1, <1>2, <1>3, <1>4, <1>5 DEF Environment

-----------------------------------------------------------------------------
(* The theorems *)

\* A release is recorded only of a tenant that has, or is then given, its application.
LEMMA ProvisionedKept ==
  ASSUME IInv, [Next]_vars
  PROVE  Provisioned'
<1> USE DEF IInv
<1>1. \A t \in Tenants : \/ app'[t] = app[t] /\ current'[t] = current[t]
                         \/ app'[t]
  <2>1. ASSUME NEW t \in Tenants, Applied(t)
        PROVE  \A u \in Tenants : (app'[u] = app[u] /\ current'[u] = current[u]) \/ app'[u]
    BY <2>1 DEF Applied, TypeOK
  <2>2. CASE \E b \in Batches : Start(b) \/ Step(b)
    <3>1. UNCHANGED <<app, current>> \/ \E t \in Tenants : Applied(t)
      BY <2>2 DEF Start, StartBatch, Step, SkipPaused, Throws, SkipItem, RefuseSchema, BeginItem,
                  CompleteItem, FailItem, ApplyFailed, NextWave, Finish, tenants
    <3> QED
      BY <2>1, <3>1
  <2>3. CASE Environment
    <3>1. \/ UNCHANGED <<app, current>>
          \/ \E t \in Tenants : Applied(t) \/ Created(t)
      BY <2>3 DEF Environment, OtherBegins, OtherEnds, ApplyFailed, SetPaused, LockExpires, Crash
    <3>2. ASSUME NEW t \in Tenants, Created(t)
          PROVE  \A u \in Tenants : (app'[u] = app[u] /\ current'[u] = current[u]) \/ app'[u]
      BY <3>2 DEF Created, TypeOK
    <3> QED
      BY <2>1, <3>1, <3>2
  <2>4. CASE UNCHANGED vars
    BY <2>4 DEF vars, tenants
  <2> QED
    BY <2>2, <2>3, <2>4 DEF Next
<1> QED
  BY <1>1 DEF Provisioned

\* The rows and locks before any rollout.
LEMMA InitIInv ==
  ASSUME Init
  PROVE  IInv
<1>1. TypeOK
  <2>1. current \in [Tenants -> Current \cup {None}]
    BY SizeAssumption DEF Init
  <2>2. [complete |-> 0, failed |-> 0, skipped |-> 0] \in [Kinds -> Nat]
    BY DEF Kinds
  <2>3. mode \in [Tenants -> {"image", "dockerfile", "unprovisioned"}]
    BY SizeAssumption DEF Init
  <2>4. /\ item \in [Batches -> [Tenants -> ItemStatuses]]
        /\ wave \in [Batches -> [Tenants -> 0 .. NumTenants]]
        /\ action \in [Batches -> [Tenants -> {"upgrade", "provision"}]]
        /\ status \in [Batches -> BatchStatuses]
    BY SizeAssumption DEF Init, ItemStatuses, BatchStatuses
  <2>5. count \in [Batches -> [Kinds -> Nat]]
    BY <2>2 DEF Init
  <2> QED
    BY <2>1, <2>3, <2>4, <2>5, SizeAssumption DEF Init, TypeOK
<1>2. Planned /\ Locks /\ Waves /\ Provisioned
  <2>1. Planned
    BY DEF Init, Planned, Kinds, Working
  <2>2. Locks
    BY DEF Init, Locks
  <2>3. Waves
    BY DEF Init, Waves
  <2>4. Provisioned
    BY DEF Init, Provisioned
  <2> QED
    BY <2>1, <2>2, <2>3, <2>4
<1>3. Counted
  <2>1. \A b \in Batches, k \in Kinds : ItemsOf(b, k) = {}
    BY DEF Init, ItemsOf, Targets
  <2>2. \A b \in Batches, k \in Kinds : count[b][k] = 0
    BY DEF Init, Kinds
  <2>3. \A b \in Batches : ~Finished(b)
    BY DEF Init, Finished
  <2> QED
    BY <2>1, <2>2, <2>3, FS_EmptySet DEF Counted, CountsItems, TotalsWritten
<1> QED
  BY <1>1, <1>2, <1>3 DEF IInv

\* Every step of a batch, of an operator or of a restart keeps the inductive invariant.
LEMMA StepIInv ==
  ASSUME IInv, [Next]_vars
  PROVE  IInv'
<1>1. TypeOK'
  BY TypesKept DEF IInv
<1>2. Provisioned'
  BY ProvisionedKept
<1>3. Planned' /\ Waves' /\ Counted' /\ Locks'
  <2>1. ASSUME NEW b \in Batches, NEW t \in Tenants,
               SkipPaused(b, t) \/ SkipItem(b, t) \/ RefuseSchema(b, t)
        PROVE  Planned' /\ Waves' /\ Counted' /\ Locks'
    BY <2>1, SettlesFrame, SettlesKeeps, RefusalLocks
  <2>2. ASSUME NEW b \in Batches, NEW t \in Tenants, Throws(b, t) \/ BeginItem(b, t)
        PROVE  Planned' /\ Waves' /\ Counted' /\ Locks'
    BY <2>2, MarksKeeps, RefusalLocks, BeginLocks
  <2>3. ASSUME NEW b \in Batches, NEW t \in Tenants, CompleteItem(b, t) \/ FailItem(b, t)
        PROVE  Planned' /\ Waves' /\ Counted' /\ Locks'
    BY <2>3, SettlesFrame, SettlesKeeps, EndLocks
  <2>4. ASSUME NEW b \in Batches, NextWave(b) \/ Finish(b) \/ Start(b)
        PROVE  Planned' /\ Waves' /\ Counted' /\ Locks'
    BY <2>4, NextWaveKeeps, FinishKeeps, StartKeeps, BatchLocks
  <2>5. CASE Environment
    BY <2>5, EnvironmentKeeps, EnvironmentLocks
  <2>6. CASE UNCHANGED vars
    <3> USE <2>6 DEF IInv, vars, plan, totals, tenants
    <3>1. Planned' /\ Waves' /\ Locks'
      BY DEF Planned, Waves, Locks, Settled, Targets
    <3>2. Counted'
      BY DEF Counted, CountsItems, TotalsWritten, ItemsOf, Finished, Settled, Targets
    <3> QED
      BY <3>1, <3>2
  <2> QED
    BY <2>1, <2>2, <2>3, <2>4, <2>5, <2>6 DEF Next, Step
<1> QED
  BY <1>1, <1>2, <1>3 DEF IInv

\* The inductive invariant holds of every rollout at every moment.
THEOREM Invariance == Spec => []IInv
<1>1. Init => IInv
  BY InitIInv
<1>2. IInv /\ [Next]_vars => IInv'
  BY StepIInv
<1> QED
  BY <1>1, <1>2, PTL DEF Spec

\* What a finished rollout reports: the items settled each way, each tenant counted once.
THEOREM ReportAddsUp == Spec => []BatchesAddUp
<1>1. IInv => BatchesAddUp
  <2> SUFFICES ASSUME IInv, NEW b \in Batches, Finished(b)
               PROVE  /\ succeeded[b] = Cardinality(ItemsOf(b, "complete"))
                      /\ failed[b] = Cardinality(ItemsOf(b, "failed"))
                      /\ skipped[b] = Cardinality(ItemsOf(b, "skipped"))
                      /\ succeeded[b] + failed[b] + skipped[b] = Cardinality(Targets(b))
    BY DEF BatchesAddUp, TotalsAgree, IInv
  <2>1. /\ succeeded[b] = Cardinality(ItemsOf(b, "complete"))
        /\ failed[b] = Cardinality(ItemsOf(b, "failed"))
        /\ skipped[b] = Cardinality(ItemsOf(b, "skipped"))
    BY DEF IInv, Counted, CountsItems, TotalsWritten, Kinds
  <2> DEFINE C == ItemsOf(b, "complete")
             F == ItemsOf(b, "failed")
             K == ItemsOf(b, "skipped")
  <2>2. Targets(b) = (C \cup F) \cup K
    <3>1. \A t \in Targets(b) : item[b][t] \in {"complete", "failed", "skipped"}
      BY DEF IInv, Counted, TotalsWritten, Settled, Kinds
    <3> QED
      BY <3>1 DEF ItemsOf
  <2>3. C \cap F = {} /\ (C \cup F) \cap K = {}
    BY DEF ItemsOf
  <2>4. C \in SUBSET Tenants /\ F \in SUBSET Tenants /\ K \in SUBSET Tenants
    BY DEF ItemsOf, Targets
  <2> HIDE DEF C, F, K
  <2>6. Cardinality(C \cup F) = Cardinality(C) + Cardinality(F)
    BY <2>3, <2>4, DisjointParts
  <2>7. Cardinality((C \cup F) \cup K) = Cardinality(C \cup F) + Cardinality(K)
    <3>1. C \cup F \in SUBSET Tenants
      BY <2>4
    <3> QED
      BY <2>3, <2>4, <3>1, DisjointParts
  <2> QED
    BY <2>1, <2>2, <2>6, <2>7 DEF C, F, K
<1> QED
  BY <1>1, Invariance, PTL

\* With stop-on-failure no tenant of a later wave is touched once one of an earlier failed.
THEOREM FailureStops == Spec => []FailedWaveStops
<1>1. IInv => FailedWaveStops
  <2> SUFFICES ASSUME IInv, NEW b \in Batches, NEW t \in Tenants, NEW u \in Tenants,
                      stopOnFailure[b], wave[b][t] # 0, wave[b][t] < wave[b][u],
                      item[b][t] = "failed"
               PROVE  item[b][u] \in {"pending", "skipped"}
    BY DEF FailedWaveStops
  <2>1. waveNo[b] \in Nat /\ wave[b][t] \in Nat /\ wave[b][u] \in Nat
    BY SizeAssumption DEF IInv, TypeOK
  <2>2. ~(wave[b][t] < waveNo[b])
    BY DEF IInv, Waves
  <2>3. wave[b][u] > waveNo[b]
    BY <2>1, <2>2
  <2> QED
    BY <2>3 DEF IInv, Waves
<1> QED
  BY <1>1, Invariance, PTL

\* A wave is touched only when every tenant of the waves before it is settled.
THEOREM WavesFollow == Spec => []WavesInOrder
<1>1. IInv => WavesInOrder
  <2> SUFFICES ASSUME IInv, NEW b \in Batches, NEW t \in Tenants, NEW u \in Tenants,
                      wave[b][t] # 0, wave[b][t] < wave[b][u], item[b][u] # "pending"
               PROVE  Settled(b, t)
    BY DEF WavesInOrder
  <2>1. waveNo[b] \in Nat /\ wave[b][t] \in Nat /\ wave[b][u] \in Nat
    BY SizeAssumption DEF IInv, TypeOK
  <2>2. CASE wave[b][t] < waveNo[b]
    BY <2>2 DEF IInv, Waves
  <2>3. CASE wave[b][u] > waveNo[b]
    BY <2>3 DEF IInv, Waves, Targets
  <2> QED
    BY <2>1, <2>2, <2>3
<1> QED
  BY <1>1, Invariance, PTL

-----------------------------------------------------------------------------
(* Every tenant keeps the contract of applying a release *)

\* An application is taken up by whoever asked, on a tenant nobody works on.
LEMMA Begun ==
  ASSUME IInv, NEW t \in Tenants, NEW h \in Batches \cup {Other}, NEW r \in Releases,
         lock[t] = None, lock'[t] = h, asked'[t] = r, current'[t] = current[t]
  PROVE  Contract(t)!Next
<1>1. asked[t] = None /\ r # None
  BY NameAssumption DEF IInv, Locks
<1> QED
  BY <1>1 DEF Contract!Next, Contract!Begin, Worker

\* An application ends by leaving the tenant on what it ran or on what was asked.
LEMMA Ended ==
  ASSUME IInv, NEW t \in Tenants, asked[t] # None, asked'[t] = None,
         current'[t] \in {current[t], asked[t]}
  PROVE  Contract(t)!Next
<1>1. lock[t] # None
  BY DEF IInv, Locks
<1> QED
  BY <1>1 DEF Contract!Next, Contract!End, Worker

\* A tenant nobody began, ended or provisioned is as it was.
LEMMA Untouched ==
  ASSUME NEW t \in Tenants, UNCHANGED <<asked[t], current[t]>>, asked[t] # None => lock'[t] = lock[t]
  PROVE  UNCHANGED Contract(t)!state
  BY DEF Contract!state, Worker

\* Each step of any rollout or operator is, for each tenant, a step of TenantContract or none.
LEMMA StepKeepsContract ==
  ASSUME IInv, [Next]_vars, NEW t \in Tenants
  PROVE  Contract(t)!Next \/ UNCHANGED Contract(t)!state
<1> USE DEF IInv
<1>1. CASE UNCHANGED <<lock, asked, current>>
  BY <1>1, Untouched
<1>2. ASSUME NEW b \in Batches, NEW u \in Tenants, BeginItem(b, u)
      PROVE  Contract(t)!Next \/ UNCHANGED Contract(t)!state
  <2>1. lock[u] = None /\ release[b] \in Releases /\ current' = current
    BY <1>2 DEF BeginItem, Trying, Skips, Planned
  <2>2. \A v \in Tenants : /\ lock'[v] = IF v = u THEN b ELSE lock[v]
                           /\ asked'[v] = IF v = u THEN release[b] ELSE asked[v]
    BY <1>2 DEF BeginItem, TypeOK
  <2>3. CASE t = u
    BY <2>1, <2>2, <2>3, Begun
  <2>4. CASE t # u
    BY <2>1, <2>2, <2>4, Untouched
  <2> QED
    BY <2>3, <2>4
<1>3. ASSUME NEW u \in Tenants, Applied(u) \/ ApplyFailed(u), Unlock(u), asked[u] # None
      PROVE  Contract(t)!Next \/ UNCHANGED Contract(t)!state
  <2>1. \A v \in Tenants : /\ lock'[v] = IF v = u THEN None ELSE lock[v]
                           /\ asked'[v] = IF v = u THEN None ELSE asked[v]
    BY <1>3 DEF Unlock, TypeOK
  <2>2. \A v \in Tenants : current'[v] = current[v] \/ (v = u /\ current'[v] = asked[v])
    BY <1>3 DEF Applied, ApplyFailed, TypeOK
  <2>3. CASE t = u
    BY <1>3, <2>1, <2>2, <2>3, Ended
  <2>4. CASE t # u
    BY <2>1, <2>2, <2>4, Untouched
  <2> QED
    BY <2>3, <2>4
<1>4. ASSUME NEW u \in Tenants, NEW r \in Releases, OtherBegins(u, r)
      PROVE  Contract(t)!Next \/ UNCHANGED Contract(t)!state
  <2>1. lock[u] = None /\ current' = current
    BY <1>4 DEF OtherBegins
  <2>2. \A v \in Tenants : /\ lock'[v] = IF v = u THEN Other ELSE lock[v]
                           /\ asked'[v] = IF v = u THEN r ELSE asked[v]
    BY <1>4 DEF OtherBegins, TypeOK
  <2>3. CASE t = u
    BY <2>1, <2>2, <2>3, Begun
  <2>4. CASE t # u
    BY <2>1, <2>2, <2>4, Untouched
  <2> QED
    BY <2>3, <2>4
<1>5. ASSUME NEW u \in Tenants, Created(u)
      PROVE  Contract(t)!Next \/ UNCHANGED Contract(t)!state
  <2>1. /\ asked[u] # None /\ lock[u] # None /\ current[u] = None
        /\ UNCHANGED <<lock, asked>>
    BY <1>5 DEF Created, Provisioned, Locks
  <2>2. \A v \in Tenants : current'[v] = IF v = u THEN asked[u] ELSE current[v]
    BY <1>5 DEF Created, TypeOK
  <2>3. CASE t = u
    BY <2>1, <2>2, <2>3 DEF Contract!Next, Contract!Provision, Worker
  <2>4. CASE t # u
    BY <2>1, <2>2, <2>4, Untouched
  <2> QED
    BY <2>3, <2>4
<1>6. ASSUME NEW u \in Tenants, LockExpires(u)
      PROVE  Contract(t)!Next \/ UNCHANGED Contract(t)!state
  <2>1. asked[u] = None /\ UNCHANGED <<asked, current>>
    BY <1>6 DEF LockExpires
  <2>2. \A v \in Tenants : lock'[v] = IF v = u THEN None ELSE lock[v]
    BY <1>6 DEF LockExpires, TypeOK
  <2> QED
    BY <2>1, <2>2, Untouched
<1>7. ASSUME Crash
      PROVE  Contract(t)!Next \/ UNCHANGED Contract(t)!state
  <2>1. asked'[t] = None /\ UNCHANGED <<lock, current>>
    BY <1>7 DEF Crash
  <2> QED
    BY <2>1, Ended, Untouched
<1>8. ASSUME NEW b \in Batches, Start(b) \/ Step(b)
      PROVE  Contract(t)!Next \/ UNCHANGED Contract(t)!state
  <2>1. ASSUME NEW u \in Tenants, CompleteItem(b, u) \/ FailItem(b, u)
        PROVE  asked[u] # None /\ Unlock(u) /\ (Applied(u) \/ ApplyFailed(u))
    BY <2>1, NameAssumption DEF CompleteItem, FailItem, Applying, Locks, Planned
  <2>2. \/ UNCHANGED <<lock, asked, current>>
        \/ \E u \in Tenants : BeginItem(b, u) \/ CompleteItem(b, u) \/ FailItem(b, u)
    BY <1>8 DEF Start, StartBatch, Step, SkipPaused, Throws, SkipItem, RefuseSchema, NextWave,
                Finish, tenants
  <2> QED
    BY <1>1, <1>2, <1>3, <2>1, <2>2
<1>9. CASE Environment
  <2>1. ASSUME NEW u \in Tenants, OtherEnds(u)
        PROVE  asked[u] # None /\ Unlock(u) /\ (Applied(u) \/ ApplyFailed(u))
    BY <2>1 DEF OtherEnds
  <2>2. ASSUME NEW u \in Tenants, SetPaused(u)
        PROVE  UNCHANGED <<lock, asked, current>>
    BY <2>2 DEF SetPaused
  <2> QED
    BY <1>1, <1>3, <1>4, <1>5, <1>6, <1>7, <1>9, <2>1, <2>2 DEF Environment
<1>10. CASE UNCHANGED vars
  BY <1>1, <1>10 DEF vars, tenants
<1> QED
  BY <1>8, <1>9, <1>10 DEF Next

\* Whatever rollouts, operators and restarts do together, each tenant sees applications that
\* take turns and a recorded release that only the application at work changes.
THEOREM KeepsContract == Spec => TenantsKeepContract
<1>1. Init => \A t \in Tenants : Contract(t)!Init
  <2> SUFFICES ASSUME Init, NEW t \in Tenants PROVE Contract(t)!Init
    OBVIOUS
  <2>1. current[t] \in Releases \cup Current \cup {None} /\ asked[t] = None
    BY SizeAssumption DEF Init
  <2> QED
    BY <2>1 DEF Contract!Init, Worker
<1>2. IInv /\ [Next]_vars => [\A t \in Tenants : Contract(t)!Next \/ UNCHANGED Contract(t)!state]_vars
  BY StepKeepsContract
<1> QED
  BY <1>1, <1>2, Invariance, PTL DEF Spec, TenantsKeepContract
=============================================================================
