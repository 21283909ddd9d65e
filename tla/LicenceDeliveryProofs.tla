------------------------ MODULE LicenceDeliveryProofs ------------------------
(***************************************************************************)
(* Proofs about LicenceDelivery: its types, and that a deployment's         *)
(* entitlements only ever give way to newer ones, for any number of stores, *)
(* head offices and requests and any number of faults and restarts.         *)
(***************************************************************************)
EXTENDS LicenceDelivery, FiniteSetTheorems, TLAPS

(***************************************************************************)
(* The inductive invariant.  What a deployment accepts is decided by the    *)
(* sequence and what it must not lose is the agreement, so the invariant    *)
(* ties the two: among the licences under way to a deployment, and against  *)
(* the one it holds, a higher sequence never carries older entitlements.    *)
(***************************************************************************)

\* A job holds a licence exactly while its POST is under way.
Sound(j) ==
  /\ j.at = "none" <=> j.rest = <<>>
  /\ j.at = "sent" <=> j.lic # None

JobInv == \A w \in Workers : Sound(job[w])

\* The licences that may still reach the deployment h.
UnderWay(h) ==
  late[h] \cup {job[w].lic : w \in {v \in Workers : At(v, "sent") /\ Here(v) = h}}

\* Licences a deployment would take carry newer entitlements with a higher sequence.
Ordered(h) ==
  \A l, m \in UnderWay(h) : 0 <= l.lead /\ l.lead <= m.lead => l.ver <= m.ver

\* The registry's counter is at or past every licence under way, and what the
\* deployment holds is no newer than any licence it would take.
Above(h) ==
  /\ held[h].ver <= account.ver
  /\ \A l \in UnderWay(h) :
       /\ l.lead <= row[h].lead /\ l.ver <= account.ver
       /\ 0 <= l.lead => held[h].ver <= l.ver

OrderInv == \A h \in Holders : Ordered(h) /\ Above(h)

\* A delivery that heard the deployment's sequence signs past it; once signed, only
\* a licence at least as new makes the deployment refuse it.
Informed(w) ==
  job[w].told # None =>
    /\ job[w].at = "sign" => job[w].told >= 0 \/ row[Here(w)].lead >= 0
    /\ job[w].at = "sent" => job[w].lic.lead >= 0 \/ held[Here(w)].ver >= job[w].lic.ver

ToldInv == \A w \in Workers : Informed(w)

\* A licence that is late is one its deployment would take.
LateInv == \A h \in Holders : \A l \in late[h] : Accepts(l)

IInv == TypeOK /\ JobInv /\ LateInv /\ OrderInv /\ ToldInv /\ account.ver = used.changes

-----------------------------------------------------------------------------
(* Jobs *)

\* A job at the beginning of a holder, or that has ended.
Fresh(j) ==
  /\ j \in Jobs /\ Sound(j)
  /\ j.at \in {"none", "probe", "ping"} /\ j.lic = None /\ j.told = None

\* NewJob gives a job of the type Jobs that holds no licence and has heard nothing.
LEMMA NewJobIsFresh ==
  ASSUME NEW kind \in {"none", "sweep", "company", "one", "initial", "provision"},
         NEW rest \in Seq(Holders), NEW due \in SUBSET Holders
  PROVE  Fresh(NewJob(kind, rest, due))
<1>1. CASE rest = <<>>
  BY <1>1, NoneAssumption DEF NewJob, Idle, Fresh, Sound, Jobs
<1>2. CASE rest # <<>>
  BY <1>2, NoneAssumption DEF NewJob, First, Fresh, Sound, Jobs
<1> QED
  BY <1>1, <1>2

\* The visiting orders of a sweep are sequences of holders.
LEMMA InOrderIsSeq ==
  ASSUME NEW S \in SUBSET Holders, NEW q \in InOrder(S)
  PROVE  q \in Seq(Holders)
<1>1. Cardinality(S) \in Nat
  BY FleetAssumption, FS_Subset, FS_CardinalityType
<1>2. q \in [1 .. Cardinality(S) -> Holders]
  BY DEF InOrder
<1> QED
  BY <1>1, <1>2

\* A sweep begins a fresh job.
LEMMA SweepIsFresh ==
  ASSUME NEW j \in SweepJobs
  PROVE  Fresh(j)
<1> DEFINE active == {h \in Holders : row[h].status = "active"}
           due    == {h \in Holders : NeedsDelivery(h)}
<1>1. PICK visits \in InOrder(active) : j = NewJob("sweep", visits, due)
  BY DEF SweepJobs
<1>2. visits \in Seq(Holders)
  BY InOrderIsSeq
<1> QED
  BY <1>1, <1>2, NewJobIsFresh

\* So do a re-push of the whole company,
LEMMA CompanyJobIsFresh == Fresh(CompanyJob)
BY NewJobIsFresh, FleetAssumption DEF CompanyJob

\* and a worker's turn to its next holder.
LEMMA NextIsFresh ==
  ASSUME TypeOK, NEW w \in Workers, job[w].rest # <<>>, job' = Next1(w)
  PROVE  /\ Fresh(job'[w])
         /\ \A v \in Workers : v # w => job'[v] = job[v]
<1>1. job[w] \in Jobs
  BY DEF TypeOK
<1>2. job[w].kind \in {"none", "sweep", "company", "one", "initial", "provision"}
      /\ job[w].rest \in Seq(Holders) /\ job[w].due \in SUBSET Holders
  BY <1>1 DEF Jobs
<1>3. Tail(job[w].rest) \in Seq(Holders)
  BY <1>2
<1>4. Fresh(NewJob(job[w].kind, Tail(job[w].rest), job[w].due))
  BY <1>2, <1>3, NewJobIsFresh
<1> QED
  BY <1>4 DEF Next1, TypeOK

\* A job under way is at one of its holders.
LEMMA HereIsHolder ==
  ASSUME TypeOK, NEW w \in Workers, job[w].rest # <<>>
  PROVE  Here(w) \in Holders
BY DEF TypeOK, Jobs, Here

\* Licences under way are licences.
LEMMA UnderWayIsClaims ==
  ASSUME TypeOK, JobInv, NEW h \in Holders
  PROVE  UnderWay(h) \subseteq LicenceClaims
<1> SUFFICES ASSUME NEW l \in UnderWay(h) PROVE l \in LicenceClaims
  OBVIOUS
<1>1. CASE l \in late[h]
  BY <1>1 DEF TypeOK
<1>2. ASSUME NEW w \in Workers, At(w, "sent"), l = job[w].lic PROVE l \in LicenceClaims
  BY <1>2 DEF At, TypeOK, JobInv, Sound, Jobs
<1> QED
  BY <1>1, <1>2 DEF UnderWay

-----------------------------------------------------------------------------
(* Most actions sign nothing and give nothing to a deployment: jobs move on,  *)
(* the company changes, licences under way stay or are lost.                  *)

\* Job w, in such a step, keeps what it holds or begins anew.
JobMoves(w) ==
  /\ job'[w] \in Jobs /\ Sound(job'[w])
  /\ job'[w].lic # None => job'[w] = job[w]
  /\ job'[w].at = "sign" => job'[w] = job[w] \/ job'[w].told = None \/ job'[w].told >= 0

\* Holder h, in such a step, keeps its counter and what its deployment holds;
\* of the POSTs under way some may become late ones.
HolderStays(h) ==
  /\ row'[h].lead = row[h].lead /\ held'[h].ver = held[h].ver
  /\ \A l \in late'[h] : l \in UnderWay(h) /\ Accepts(l)

Calm ==
  /\ TypeOK' /\ account'.ver >= account.ver /\ account'.ver = used'.changes
  /\ \A w \in Workers : JobMoves(w)
  /\ \A h \in Holders : HolderStays(h)

LEMMA CalmKeeps ==
  ASSUME IInv, Calm
  PROVE  IInv'
<1> USE DEF IInv, Calm
<1>0. LateInv'
  BY DEF LateInv, HolderStays, Accepts
<1>1. JobInv'
  BY DEF JobInv, JobMoves
<1>2. ASSUME NEW h \in Holders PROVE UnderWay(h)' \subseteq UnderWay(h)
  <2> SUFFICES ASSUME NEW l \in UnderWay(h)' PROVE l \in UnderWay(h)
    OBVIOUS
  <2>1. CASE l \in late'[h]
    BY <2>1, <1>2 DEF HolderStays
  <2>2. ASSUME NEW w \in Workers, At(w, "sent")', Here(w)' = h, l = job'[w].lic
        PROVE  l \in UnderWay(h)
    <3>1. job'[w] = job[w]
      BY <2>2 DEF JobMoves, Sound, At
    <3>2. At(w, "sent") /\ Here(w) = h /\ l = job[w].lic
      BY <2>2, <3>1 DEF At, Here
    <3> QED
      BY <3>2 DEF UnderWay
  <2> QED
    BY <2>1, <2>2 DEF UnderWay
<1>3. OrderInv'
  <2> SUFFICES ASSUME NEW h \in Holders PROVE Ordered(h)' /\ Above(h)'
    BY DEF OrderInv
  <2>1. Ordered(h) /\ Above(h) /\ HolderStays(h) /\ UnderWay(h)' \subseteq UnderWay(h)
    BY <1>2 DEF OrderInv
  <2>2. Ordered(h)'
    BY <2>1 DEF Ordered
  <2>3. account.ver \in Int /\ account'.ver \in Int /\ held[h].ver \in Int
    BY SizeAssumption DEF TypeOK, CompanyRecord, LicenceClaims
  <2>4. \A l \in UnderWay(h) : l.ver \in Int
    BY UnderWayIsClaims, SizeAssumption DEF LicenceClaims
  <2>5. Above(h)'
    BY <2>1, <2>3, <2>4 DEF Above, HolderStays
  <2> QED
    BY <2>2, <2>5
<1>4. ToldInv'
  <2> SUFFICES ASSUME NEW w \in Workers, job'[w].told # None,
                      job'[w].at \in {"sign", "sent"}
               PROVE  Informed(w)'
    BY DEF ToldInv, Informed
  <2>1. JobMoves(w)
    OBVIOUS
  <2>2. CASE job'[w] = job[w]
    <3>1. job[w].rest # <<>>
      BY <2>2 DEF JobInv, Sound
    <3>2. Here(w) \in Holders /\ Here(w)' = Here(w)
      BY <2>2, <3>1, HereIsHolder DEF Here
    <3>3. HolderStays(Here(w)) /\ Informed(w)
      BY <3>2 DEF ToldInv
    <3> QED
      BY <2>2, <3>2, <3>3 DEF Informed, HolderStays
  <2>3. CASE job'[w] # job[w]
    BY <2>1, <2>3 DEF Informed, JobMoves, Sound
  <2> QED
    BY <2>2, <2>3
<1> QED
  BY <1>0, <1>1, <1>3, <1>4

\* A job may always stay as it is,
LEMMA JobMayStay ==
  ASSUME IInv, NEW w \in Workers, job'[w] = job[w]
  PROVE  job'[w] \in Jobs /\ JobMoves(w)
BY DEF IInv, TypeOK, JobInv, JobMoves

\* and one worker's job may begin anew.
LEMMA OneBegins ==
  ASSUME IInv, NEW w \in Workers, NEW j, Fresh(j), job' = [job EXCEPT ![w] = j]
  PROVE  /\ job' \in [Workers -> Jobs]
         /\ \A v \in Workers : JobMoves(v)
<1>1. job \in [Workers -> Jobs] /\ j \in Jobs
  BY DEF IInv, TypeOK, Fresh
<1>2. job' \in [Workers -> Jobs] /\ job'[w] = j /\ \A v \in Workers \ {w} : job'[v] = job[v]
  BY <1>1
<1>3. JobMoves(w)
  BY <1>2 DEF JobMoves, Fresh
<1> QED
  BY <1>2, <1>3, JobMayStay

\* What does not touch a holder's row, deployment and late licences leaves it as it is.
LEMMA HoldersStay ==
  ASSUME IInv, UNCHANGED <<row, held, late>>
  PROVE  \A h \in Holders : HolderStays(h)
BY DEF HolderStays, UnderWay, IInv, LateInv

LEMMA TimerTickKeeps ==
  ASSUME IInv, TimerTick
  PROVE  IInv'
<1>1. PICK sweep \in SweepJobs : job' = [job EXCEPT ![Timer] = sweep]
  BY DEF TimerTick
<1>2. job' \in [Workers -> Jobs] /\ \A v \in Workers : JobMoves(v)
  BY <1>1, SweepIsFresh, OneBegins DEF Workers
<1>3. UNCHANGED <<account, row, held, late, used>>
  BY DEF TimerTick
<1>4. TypeOK' /\ account'.ver >= account.ver /\ account'.ver = used'.changes
  BY <1>2, <1>3, SizeAssumption DEF IInv, TypeOK, CompanyRecord
<1> QED
  BY <1>2, <1>3, <1>4, HoldersStay, CalmKeeps DEF Calm

LEMMA RequestKeeps ==
  ASSUME IInv, NEW w \in Requests, Request(w)
  PROVE  IInv'
<1>0. w \in Workers
  BY DEF Workers
<1>1. PICK j : Fresh(j) /\ job' = [job EXCEPT ![w] = j]
  <2>1. CASE \E sweep \in SweepJobs : job' = [job EXCEPT ![w] = sweep]
    BY <2>1, SweepIsFresh
  <2>2. CASE job' = [job EXCEPT ![w] = NewJob("initial", Fleet, {})]
    BY <2>2, NewJobIsFresh, FleetAssumption
  <2>3. ASSUME NEW h \in Holders, NEW kind \in {"one", "provision"}
        PROVE  Fresh(NewJob(kind, <<h>>, {}))
    <3>1. <<h>> \in Seq(Holders) /\ {} \in SUBSET Holders
      OBVIOUS
    <3> QED
      BY <3>1, NewJobIsFresh
  <2> QED
    BY <2>1, <2>2, <2>3 DEF Request, Holders
<1>2. job' \in [Workers -> Jobs] /\ \A v \in Workers : JobMoves(v)
  BY <1>0, <1>1, OneBegins
<1>3. UNCHANGED <<account, row, held, late>> /\ used' = [used EXCEPT !.requests = @ + 1]
      /\ used.requests < MaxRequests
  BY DEF Request
<1>4. TypeOK' /\ account'.ver >= account.ver /\ account'.ver = used'.changes
  BY <1>2, <1>3, SizeAssumption DEF IInv, TypeOK, CompanyRecord
<1> QED
  BY <1>2, <1>3, <1>4, HoldersStay, CalmKeeps DEF Calm

\* The answers to a probe and to a ping, and their absence.
LEMMA ProbeAnsweredKeeps ==
  ASSUME IInv, NEW w \in Workers, ProbeAnswered(w)
  PROVE  IInv'
<1>1. job' \in [Workers -> Jobs] /\ \A v \in Workers : JobMoves(v)
  <2>1. CASE job' = [job EXCEPT ![w].at = "ping"]
    <3>1. job[w] \in Jobs /\ Sound(job[w]) /\ job[w].at = "probe"
      BY DEF IInv, TypeOK, JobInv, ProbeAnswered, At
    <3>2. [job[w] EXCEPT !.at = "ping"] \in Jobs
          /\ Sound([job[w] EXCEPT !.at = "ping"]) /\ job[w].lic = None
      BY <3>1 DEF Jobs, Sound
    <3>3. job' \in [Workers -> Jobs] /\ job'[w] = [job[w] EXCEPT !.at = "ping"]
          /\ \A v \in Workers \ {w} : job'[v] = job[v]
      BY <2>1, <3>2 DEF IInv, TypeOK
    <3>4. job'[w].lic = None /\ job'[w].at = "ping"
      BY <3>1, <3>2, <3>3 DEF Jobs
    <3> QED
      BY <3>2, <3>3, <3>4, JobMayStay DEF JobMoves
  <2>2. CASE job' = Next1(w)
    <3>1. Fresh(job'[w]) /\ job' = [job EXCEPT ![w] = job'[w]]
      BY <2>2, NextIsFresh DEF Next1, IInv, TypeOK, ProbeAnswered, At
    <3> QED
      BY <3>1, OneBegins
  <2> QED
    BY <2>1, <2>2 DEF ProbeAnswered
<1>2. UNCHANGED <<account, row, held, late, used>>
  BY DEF ProbeAnswered
<1>3. TypeOK' /\ account'.ver >= account.ver /\ account'.ver = used'.changes
  BY <1>1, <1>2, SizeAssumption DEF IInv, TypeOK, CompanyRecord
<1> QED
  BY <1>1, <1>2, <1>3, HoldersStay, CalmKeeps DEF Calm

LEMMA ProbeFailsKeeps ==
  ASSUME IInv, NEW w \in Workers, ProbeFails(w)
  PROVE  IInv'
<1>1. Fresh(job'[w]) /\ job' = [job EXCEPT ![w] = job'[w]]
  BY NextIsFresh DEF Next1, IInv, TypeOK, ProbeFails, At
<1>2. job' \in [Workers -> Jobs] /\ \A v \in Workers : JobMoves(v)
  BY <1>1, OneBegins
<1>3. UNCHANGED <<account, row, held, late>> /\ Fault
  BY DEF ProbeFails
<1>4. TypeOK' /\ account'.ver >= account.ver /\ account'.ver = used'.changes
  BY <1>2, <1>3, SizeAssumption DEF IInv, TypeOK, CompanyRecord, Fault
<1> QED
  BY <1>2, <1>3, <1>4, HoldersStay, CalmKeeps DEF Calm

LEMMA PingAnsweredKeeps ==
  ASSUME IInv, NEW w \in Workers, PingAnswered(w)
  PROVE  IInv'
<1>1. job[w] \in Jobs /\ Sound(job[w]) /\ job[w].at = "ping"
  BY DEF IInv, TypeOK, JobInv, PingAnswered, At
<1>2. 0 \in Leads
  BY SizeAssumption DEF Leads
<1> DEFINE new == [job[w] EXCEPT !.at = "sign", !.told = 0]
<1>3. new \in Jobs /\ Sound(new) /\ new.lic = None /\ new.told = 0 /\ new.at = "sign"
  BY <1>1, <1>2 DEF Jobs, Sound
<1>4. job' \in [Workers -> Jobs] /\ job'[w] = new /\ \A v \in Workers \ {w} : job'[v] = job[v]
  BY <1>3 DEF PingAnswered, IInv, TypeOK
<1> HIDE DEF new
<1>5. \A v \in Workers : JobMoves(v)
  <2>1. JobMoves(w)
    BY <1>3, <1>4 DEF JobMoves
  <2> QED
    BY <1>4, <2>1, JobMayStay
<1>6. UNCHANGED <<account, row, held, late, used>>
  BY DEF PingAnswered
<1>7. TypeOK' /\ account'.ver >= account.ver /\ account'.ver = used'.changes
  BY <1>4, <1>6, SizeAssumption DEF IInv, TypeOK, CompanyRecord
<1> QED
  BY <1>5, <1>6, <1>7, HoldersStay, CalmKeeps DEF Calm

LEMMA PingFailsKeeps ==
  ASSUME IInv, NEW w \in Workers, PingFails(w)
  PROVE  IInv'
<1>1. job[w] \in Jobs /\ Sound(job[w]) /\ job[w].at = "ping"
  BY DEF IInv, TypeOK, JobInv, PingFails, At
<1> DEFINE new == [job[w] EXCEPT !.at = "sign", !.told = None]
<1>2. new \in Jobs /\ Sound(new) /\ new.lic = None /\ new.told = None /\ new.at = "sign"
  BY <1>1 DEF Jobs, Sound
<1>3. job' \in [Workers -> Jobs] /\ job'[w] = new /\ \A v \in Workers \ {w} : job'[v] = job[v]
  BY <1>2 DEF PingFails, IInv, TypeOK
<1>4. \A v \in Workers : JobMoves(v)
  BY <1>2, <1>3, JobMayStay DEF JobMoves
<1>5. UNCHANGED <<account, row, held, late>> /\ Fault
  BY DEF PingFails
<1>6. TypeOK' /\ account'.ver >= account.ver /\ account'.ver = used'.changes
  BY <1>3, <1>5, SizeAssumption DEF IInv, TypeOK, CompanyRecord, Fault
<1> QED
  BY <1>4, <1>5, <1>6, HoldersStay, CalmKeeps DEF Calm

\* A POST that the deployment refuses, and one that is lost: it may be late.
LEMMA PostRefusedKeeps ==
  ASSUME IInv, NEW w \in Workers, PostRefused(w)
  PROVE  IInv'
<1>1. job[w] \in Jobs /\ Sound(job[w]) /\ job[w].rest # <<>>
  BY DEF IInv, TypeOK, JobInv, PostRefused, At
<1> DEFINE new == [job[w] EXCEPT !.at = "refused", !.lic = None, !.told = None]
<1>2. new \in Jobs /\ Sound(new) /\ new.lic = None /\ new.at = "refused"
  BY <1>1 DEF Jobs, Sound
<1>3. job' \in [Workers -> Jobs] /\ job'[w] = new /\ \A v \in Workers \ {w} : job'[v] = job[v]
  BY <1>2 DEF PostRefused, IInv, TypeOK
<1> HIDE DEF new
<1>4. \A v \in Workers : JobMoves(v)
  BY <1>2, <1>3, JobMayStay DEF JobMoves
<1>5. UNCHANGED <<account, row, held, late, used>>
  BY DEF PostRefused
<1>6. TypeOK' /\ account'.ver >= account.ver /\ account'.ver = used'.changes
  BY <1>3, <1>5, SizeAssumption DEF IInv, TypeOK, CompanyRecord
<1> QED
  BY <1>4, <1>5, <1>6, HoldersStay, CalmKeeps DEF Calm

LEMMA PostLostKeeps ==
  ASSUME IInv, NEW w \in Workers, PostLost(w)
  PROVE  IInv'
<1>1. job[w] \in Jobs /\ Sound(job[w]) /\ job[w].rest # <<>> /\ job[w].lic \in LicenceClaims
      /\ Here(w) \in Holders
  BY HereIsHolder DEF IInv, TypeOK, JobInv, PostLost, At, Jobs, Sound
<1> DEFINE new == [job[w] EXCEPT !.at = "failed", !.lic = None, !.told = None]
<1>2. new \in Jobs /\ Sound(new) /\ new.lic = None /\ new.at = "failed"
  BY <1>1 DEF Jobs, Sound
<1>3. job' \in [Workers -> Jobs] /\ job'[w] = new /\ \A v \in Workers \ {w} : job'[v] = job[v]
  BY <1>2 DEF PostLost, IInv, TypeOK
<1> HIDE DEF new
<1>4. \A v \in Workers : JobMoves(v)
  BY <1>2, <1>3, JobMayStay DEF JobMoves
<1>5. UNCHANGED <<account, row, held>> /\ Fault
  BY DEF PostLost
<1>6. late' \in [Holders -> SUBSET LicenceClaims]
      /\ \A h \in Holders : \A l \in late'[h] :
           l \in late[h] \/ (h = Here(w) /\ l = job[w].lic /\ Accepts(l))
  BY <1>1 DEF PostLost, IInv, TypeOK
<1>7. \A h \in Holders : HolderStays(h)
  <2> SUFFICES ASSUME NEW h \in Holders, NEW l \in late'[h] PROVE l \in UnderWay(h) /\ Accepts(l)
    BY <1>5 DEF HolderStays
  <2>1. late[h] \subseteq UnderWay(h) /\ \A m \in late[h] : Accepts(m)
    BY DEF UnderWay, IInv, LateInv
  <2>2. h = Here(w) => job[w].lic \in UnderWay(h)
    BY DEF UnderWay, PostLost
  <2> QED
    BY <1>6, <2>1, <2>2
<1>8. TypeOK' /\ account'.ver >= account.ver /\ account'.ver = used'.changes
  BY <1>3, <1>5, <1>6, SizeAssumption DEF IInv, TypeOK, CompanyRecord, Fault
<1> QED
  BY <1>4, <1>7, <1>8, CalmKeeps DEF Calm

\* The outcome of a delivery is recorded, and the worker goes on.
LEMMA AnsweredKeeps ==
  ASSUME IInv, NEW w \in Workers, Answered(w)
  PROVE  IInv'
<1>1. job[w].rest # <<>> /\ Here(w) \in Holders
  BY HereIsHolder DEF IInv, JobInv, Sound, Answered
<1>2. Fresh(job'[w]) /\ job' = [job EXCEPT ![w] = job'[w]]
  BY <1>1, NextIsFresh DEF Next1, IInv, TypeOK, Answered
<1>3. job' \in [Workers -> Jobs] /\ \A v \in Workers : JobMoves(v)
  BY <1>2, OneBegins
<1>4. UNCHANGED <<account, held, late, used>>
  BY DEF Answered
<1>5. row' \in [Holders -> StoreRecord] /\ \A h \in Holders : row'[h].lead = row[h].lead
  <2>1. row \in [Holders -> StoreRecord]
    BY DEF IInv, TypeOK
  <2>2. row' = row \/ \E p \in {"ok", "failed"} : row' = [row EXCEPT ![Here(w)].push = p]
    BY DEF Answered, Recorded
  <2>3. ASSUME NEW p \in {"ok", "failed"}, row' = [row EXCEPT ![Here(w)].push = p]
        PROVE  row' \in [Holders -> StoreRecord] /\ \A h \in Holders : row'[h].lead = row[h].lead
    <3> DEFINE new == [row[Here(w)] EXCEPT !.push = p]
    <3>1. new \in StoreRecord /\ new.lead = row[Here(w)].lead
      BY <1>1, <2>1 DEF StoreRecord
    <3>2. row' = [row EXCEPT ![Here(w)] = new]
      BY <2>3
    <3> HIDE DEF new
    <3> QED
      BY <1>1, <2>1, <3>1, <3>2
  <2> QED
    BY <2>1, <2>2, <2>3
<1>6. \A h \in Holders : HolderStays(h)
  BY <1>4, <1>5 DEF HolderStays, UnderWay, IInv, LateInv
<1>7. TypeOK' /\ account'.ver >= account.ver /\ account'.ver = used'.changes
  BY <1>3, <1>4, <1>5, SizeAssumption DEF IInv, TypeOK, CompanyRecord
<1> QED
  BY <1>3, <1>6, <1>7, CalmKeeps DEF Calm

\* The company changes: its account moves on, and one job may begin.
LEMMA CompanyChangeKeeps ==
  ASSUME IInv, NEW w \in Workers,
         used.changes < MaxChanges, used' = [used EXCEPT !.changes = @ + 1],
         account' \in CompanyRecord, account'.ver = account.ver + 1,
         job' = job \/ job' = [job EXCEPT ![w] = CompanyJob],
         UNCHANGED <<row, held, late>>
  PROVE  IInv'
<1>1. job' \in [Workers -> Jobs] /\ \A v \in Workers : JobMoves(v)
  BY OneBegins, CompanyJobIsFresh, JobMayStay DEF IInv, TypeOK
<1>2. TypeOK' /\ account'.ver >= account.ver /\ account'.ver = used'.changes
  BY <1>1, SizeAssumption DEF IInv, TypeOK, CompanyRecord
<1> QED
  BY <1>1, <1>2, HoldersStay, CalmKeeps DEF Calm

\* The next version number of the account is one, when the bound allows a change.
LEMMA NextVersion ==
  ASSUME IInv, used.changes < MaxChanges
  PROVE  account \in CompanyRecord /\ account.ver + 1 \in 0 .. MaxChanges
BY SizeAssumption DEF IInv, TypeOK, CompanyRecord

LEMMA PaysKeeps ==
  ASSUME IInv, NEW w \in Requests, Pays(w)
  PROVE  IInv'
<1> DEFINE paid == IF account.paid # None /\ account.paid >= 0
                   THEN AtMost(account.paid + Period, Forever) ELSE Period
<1>1. account \in CompanyRecord /\ account.ver + 1 \in 0 .. MaxChanges
  BY NextVersion DEF Pays, Changes
<1>2. paid \in Days
  BY <1>1, SizeAssumption, NoneAssumption DEF CompanyRecord, Days, AtMost, Forever
<1>3. account' = [account EXCEPT !.paid = paid, !.status = "active", !.ver = account.ver + 1]
  BY <1>1 DEF Pays, CompanyRecord
<1> HIDE DEF paid
<1>4. account' \in CompanyRecord /\ account'.ver = account.ver + 1
  BY <1>1, <1>2, <1>3 DEF CompanyRecord
<1> QED
  BY <1>4, CompanyChangeKeeps DEF Pays, Changes, Workers

\* An edit of the status, of the features bought or of the trial.
LEMMA AccountEdited ==
  ASSUME IInv, used.changes < MaxChanges,
         \/ \E s \in {"active", "suspended"} : account' = [account EXCEPT !.status = s, !.ver = @ + 1]
         \/ \E f \in SUBSET Features : account' = [account EXCEPT !.addons = f, !.ver = @ + 1]
         \/ account' = [account EXCEPT !.trial = 0, !.ver = @ + 1]
  PROVE  account' \in CompanyRecord /\ account'.ver = account.ver + 1
<1>1. account \in CompanyRecord /\ account.ver + 1 \in 0 .. MaxChanges
  BY NextVersion
<1>2. ASSUME NEW s \in {"active", "suspended"}, account' = [account EXCEPT !.status = s, !.ver = @ + 1]
      PROVE  account' \in CompanyRecord /\ account'.ver = account.ver + 1
  BY <1>1, <1>2 DEF CompanyRecord
<1>3. ASSUME NEW f \in SUBSET Features, account' = [account EXCEPT !.addons = f, !.ver = @ + 1]
      PROVE  account' \in CompanyRecord /\ account'.ver = account.ver + 1
  BY <1>1, <1>3 DEF CompanyRecord
<1>4. ASSUME account' = [account EXCEPT !.trial = 0, !.ver = @ + 1]
      PROVE  account' \in CompanyRecord /\ account'.ver = account.ver + 1
  BY <1>1, <1>4 DEF CompanyRecord
<1> QED
  BY <1>2, <1>3, <1>4

LEMMA EditsCompanyKeeps ==
  ASSUME IInv, NEW w \in Requests, EditsCompany(w)
  PROVE  IInv'
BY AccountEdited, CompanyChangeKeeps DEF EditsCompany, Changes, Workers

LEMMA EditsPlanKeeps ==
  ASSUME IInv, NEW w \in Requests, EditsPlan(w)
  PROVE  IInv'
BY AccountEdited, CompanyChangeKeeps DEF EditsPlan, Changes, Workers

LEMMA SetStatusKeeps ==
  ASSUME IInv, NEW h \in Holders, SetStatus(h)
  PROVE  IInv'
<1> DEFINE status == IF row[h].status = "active" THEN "paused" ELSE "active"
           new    == [row[h] EXCEPT !.status = status]
<1>1. row \in [Holders -> StoreRecord]
  BY DEF IInv, TypeOK
<1>2. new \in StoreRecord /\ new.lead = row[h].lead
  BY <1>1 DEF StoreRecord
<1>3. row' = [row EXCEPT ![h] = new]
  BY <1>1 DEF SetStatus, StoreRecord
<1> HIDE DEF new
<1>4. row' \in [Holders -> StoreRecord] /\ \A g \in Holders : row'[g].lead = row[g].lead
  BY <1>1, <1>2, <1>3
<1>5. UNCHANGED <<account, held, job, late>> /\ used.requests < MaxRequests
      /\ used' = [used EXCEPT !.requests = @ + 1]
  BY DEF SetStatus
<1>6. \A g \in Holders : HolderStays(g)
  BY <1>4, <1>5 DEF HolderStays, UnderWay, IInv, LateInv
<1>7. \A w \in Workers : JobMoves(w)
  BY <1>5, JobMayStay
<1>8. TypeOK' /\ account'.ver >= account.ver /\ account'.ver = used'.changes
  BY <1>4, <1>5, SizeAssumption DEF IInv, TypeOK, CompanyRecord
<1> QED
  BY <1>6, <1>7, <1>8, CalmKeeps DEF Calm
LEMMA NewDayKeeps ==
  ASSUME IInv, NewDay
  PROVE  IInv'
<1>1. account \in CompanyRecord /\ row \in [Holders -> StoreRecord] /\ held \in [Holders -> LicenceClaims]
  BY DEF IInv, TypeOK
<1>2. account' \in CompanyRecord /\ account'.ver = account.ver
  <2> DEFINE paid == IF account.paid \in {None, Forever} THEN account.paid
                     ELSE AtLeast(account.paid - 1, -(GraceDays + 1))
             trial == IF account.trial = None THEN None ELSE AtLeast(account.trial - 1, -1)
  <2>1. paid \in Days \cup {None}
    BY <1>1, SizeAssumption, NoneAssumption DEF CompanyRecord, Days, AtLeast, Forever
  <2>2. trial \in {-1, 0, None}
    BY <1>1, NoneAssumption DEF CompanyRecord, AtLeast
  <2>3. account' = [account EXCEPT !.paid = paid, !.trial = trial]
    BY <1>1 DEF NewDay, CompanyRecord
  <2> HIDE DEF paid, trial
  <2> QED
    BY <1>1, <2>1, <2>2, <2>3 DEF CompanyRecord
<1>3. row' \in [Holders -> StoreRecord] /\ \A h \in Holders : row'[h].lead = row[h].lead
  <2>1. row' = [h \in Holders |-> [row[h] EXCEPT !.age = AtMost(@ + 1, OfflineDays)]]
    BY DEF NewDay
  <2>2. ASSUME NEW h \in Holders
        PROVE  [row[h] EXCEPT !.age = AtMost(@ + 1, OfflineDays)] \in StoreRecord
               /\ [row[h] EXCEPT !.age = AtMost(@ + 1, OfflineDays)].lead = row[h].lead
    BY <1>1, SizeAssumption DEF StoreRecord, AtMost
  <2> QED
    BY <2>1, <2>2
<1>4. held' \in [Holders -> LicenceClaims] /\ \A h \in Holders : held'[h].ver = held[h].ver
  <2>1. held' = [h \in Holders |-> [held[h] EXCEPT !.offline = AtLeast(@ - 1, -1)]]
    BY DEF NewDay
  <2>2. ASSUME NEW h \in Holders
        PROVE  [held[h] EXCEPT !.offline = AtLeast(@ - 1, -1)] \in LicenceClaims
               /\ [held[h] EXCEPT !.offline = AtLeast(@ - 1, -1)].ver = held[h].ver
    BY <1>1, SizeAssumption DEF LicenceClaims, AtLeast
  <2> QED
    BY <2>1, <2>2
<1>5. UNCHANGED <<job, used>> /\ late' = [h \in Holders |-> {}]
  BY DEF NewDay
<1>6. \A h \in Holders : HolderStays(h)
  BY <1>3, <1>4, <1>5 DEF HolderStays
<1>7. \A w \in Workers : JobMoves(w)
  BY <1>5, JobMayStay
<1>8. TypeOK' /\ account'.ver >= account.ver /\ account'.ver = used'.changes
  BY <1>2, <1>3, <1>4, <1>5, SizeAssumption DEF IInv, TypeOK, CompanyRecord
<1> QED
  BY <1>6, <1>7, <1>8, CalmKeeps DEF Calm

-----------------------------------------------------------------------------
(* Restarts *)

\* A restart ends every job; the licences whose POST was under way may be late.
LEMMA EndsFrame ==
  ASSUME IInv, Ends
  PROVE  /\ job' \in [Workers -> Jobs] /\ \A w \in Workers : JobMoves(w) /\ job'[w] = Idle
         /\ late' \in [Holders -> SUBSET LicenceClaims]
         /\ \A h \in Holders : \A l \in late'[h] : l \in UnderWay(h) /\ Accepts(l)
<1>1. Fresh(Idle)
  BY NoneAssumption DEF Fresh, Idle, Sound, Jobs
<1>2. \A h \in Holders : UnderWay(h) \subseteq LicenceClaims
  BY UnderWayIsClaims DEF IInv
<1>3. \A h \in Holders : \A l \in late[h] \cup Posted(h) : l \in UnderWay(h) /\ Accepts(l)
  BY DEF Posted, UnderWay, IInv, LateInv
<1>4. job' = [w \in Workers |-> Idle] /\ late' = [h \in Holders |-> late[h] \cup Posted(h)]
  BY DEF Ends
<1>5. \A w \in Workers : JobMoves(w)
  BY <1>1, <1>4 DEF Fresh, JobMoves
<1> QED
  BY <1>1, <1>2, <1>3, <1>4, <1>5 DEF Fresh

LEMMA RestartKeeps ==
  ASSUME IInv, Restart
  PROVE  IInv'
<1>1. Ends /\ UNCHANGED <<account, row, held>>
      /\ used.crashes < MaxCrashes /\ used' = [used EXCEPT !.crashes = @ + 1]
  BY DEF Restart, Crash, Ends
<1>2. \A h \in Holders : HolderStays(h)
  BY <1>1, EndsFrame DEF HolderStays
<1>3. TypeOK' /\ account'.ver >= account.ver /\ account'.ver = used'.changes
  BY <1>1, EndsFrame, SizeAssumption DEF IInv, TypeOK, CompanyRecord
<1> QED
  BY <1>1, <1>2, <1>3, EndsFrame, CalmKeeps DEF Calm

\* An upgrade changes the account too, and may mark every licence for redelivery.
LEMMA UpgradeKeeps ==
  ASSUME IInv, Upgrade
  PROVE  IInv'
<1>1. Ends /\ UNCHANGED held
      /\ used.crashes < MaxCrashes /\ used.changes < MaxChanges
      /\ used' = [used EXCEPT !.crashes = @ + 1, !.changes = @ + 1]
      /\ row' \in {Redeliver, row}
  BY DEF Upgrade, Ends
<1>2. account' \in CompanyRecord /\ account'.ver = account.ver + 1
  BY AccountEdited DEF Upgrade
<1>3. row' \in [Holders -> StoreRecord] /\ \A h \in Holders : row'[h].lead = row[h].lead
  <2>1. row \in [Holders -> StoreRecord]
    BY DEF IInv, TypeOK
  <2>2. ASSUME NEW h \in Holders
        PROVE  [row[h] EXCEPT !.push = "pending"] \in StoreRecord
               /\ [row[h] EXCEPT !.push = "pending"].lead = row[h].lead
    BY <2>1 DEF StoreRecord
  <2> QED
    BY <1>1, <2>1, <2>2 DEF Redeliver
<1>4. \A h \in Holders : HolderStays(h)
  BY <1>1, <1>3, EndsFrame DEF HolderStays
<1>5. TypeOK' /\ account'.ver >= account.ver /\ account'.ver = used'.changes
  <2>1. used' \in [changes: 0 .. MaxChanges, requests: 0 .. MaxRequests,
                   faults: 0 .. MaxFaults, crashes: 0 .. MaxCrashes]
        /\ used'.changes = used.changes + 1
    <3>1. used.crashes + 1 \in 0 .. MaxCrashes /\ used.changes + 1 \in 0 .. MaxChanges
      BY <1>1, SizeAssumption DEF IInv, TypeOK
    <3>2. used' = [used EXCEPT !.crashes = used.crashes + 1, !.changes = used.changes + 1]
      BY <1>1 DEF IInv, TypeOK
    <3> QED
      BY <3>1, <3>2 DEF IInv, TypeOK
  <2>2. TypeOK'
    BY <1>1, <1>2, <1>3, <2>1, EndsFrame DEF IInv, TypeOK
  <2> QED
    BY <1>2, <2>1, <2>2, SizeAssumption DEF IInv, TypeOK, CompanyRecord
<1> QED
  BY <1>1, <1>4, <1>5, EndsFrame, CalmKeeps DEF Calm

\* A registry restored from an older copy: its counters may be lower, and no
\* licence is under way that they would be too low for.
LEMMA RestoreOlderKeeps ==
  ASSUME IInv, RestoreOlder
  PROVE  IInv'
<1>1. Ends /\ UNCHANGED <<account, held>>
      /\ used.crashes < MaxCrashes /\ used' = [used EXCEPT !.crashes = @ + 1]
      /\ \A h \in Holders : late[h] \cup Posted(h) = {}
  BY DEF RestoreOlder, Crash, Ends
<1>2. row' \in [Holders -> StoreRecord]
  <2>1. row \in [Holders -> StoreRecord]
    BY DEF IInv, TypeOK
  <2>2. PICK lag \in [Holders -> -MaxLag .. 0] :
          row' = [h \in Holders |-> [row[h] EXCEPT !.lead = IF lag[h] < @ THEN lag[h] ELSE @]]
    BY DEF RestoreOlder
  <2>3. ASSUME NEW h \in Holders
        PROVE  [row[h] EXCEPT !.lead = IF lag[h] < @ THEN lag[h] ELSE @] \in StoreRecord
    BY <2>1, SizeAssumption DEF StoreRecord, Leads
  <2> QED
    BY <2>2, <2>3
<1>3. \A h \in Holders : UnderWay(h)' = {}
  <2> SUFFICES ASSUME NEW h \in Holders PROVE UnderWay(h)' = {}
    OBVIOUS
  <2>1. late'[h] = {}
    BY <1>1 DEF Ends
  <2>2. \A w \in Workers : ~At(w, "sent")'
    BY EndsFrame, <1>1 DEF At, Idle
  <2> QED
    BY <2>1, <2>2 DEF UnderWay
<1>4. TypeOK' /\ account'.ver = used'.changes
  BY <1>1, <1>2, EndsFrame, SizeAssumption DEF IInv, TypeOK, CompanyRecord
<1>5. JobInv' /\ LateInv'
  BY <1>1, EndsFrame DEF JobInv, JobMoves, LateInv, Ends
<1>6. OrderInv'
  BY <1>1, <1>3 DEF OrderInv, Ordered, Above, IInv
<1>7. ToldInv'
  BY <1>1, EndsFrame DEF ToldInv, Informed, Idle
<1> QED
  BY <1>4, <1>5, <1>6, <1>7 DEF IInv

-----------------------------------------------------------------------------
(* Signing *)

\* The sequence a delivery takes is past the counter and past what it heard.
LEMMA SequencePasses ==
  ASSUME NEW lead \in Leads, NEW told \in Leads \cup {None}
  PROVE  LET seq == NextSequence(Raised(lead, told))
         IN  /\ seq \in Leads /\ seq > lead
             /\ told # None => seq > told
BY SizeAssumption, NoneAssumption DEF NextSequence, Raised, Leads

\* What is signed is a licence of the account as it is.
LEMMA IssueSigns ==
  ASSUME TypeOK, NEW h \in Holders, NEW seq \in Leads
  PROVE  /\ Issue(h, seq) \in LicenceClaims
         /\ Issue(h, seq).lead = seq /\ Issue(h, seq).ver = account.ver
<1>1. account \in CompanyRecord
  BY DEF TypeOK
<1>2. MaxOffline \in -1 .. OfflineDays
  BY <1>1, SizeAssumption DEF MaxOffline, AtLeast, AtMost, CompanyRecord, Days, Forever
<1>3. LicenceFeatures(Entitlements, h) \in SUBSET Features
  BY <1>1 DEF LicenceFeatures, Entitlements, CompanyRecord
<1> QED
  BY <1>1, <1>2, <1>3 DEF Issue, Entitlements, LicenceClaims, CompanyRecord

LEMMA SignKeeps ==
  ASSUME IInv, NEW w \in Workers, Sign(w)
  PROVE  IInv'
<1> USE DEF IInv
<1>1. PICK h : h = Here(w)
  OBVIOUS
<1>2. PICK seq : seq = NextSequence(Raised(row[h].lead, job[w].told))
  OBVIOUS
<1>3. PICK lic : lic = Issue(h, seq)
  OBVIOUS
<1>4. job[w] \in Jobs /\ Sound(job[w]) /\ job[w].rest # <<>> /\ job[w].at = "sign"
      /\ h \in Holders /\ row \in [Holders -> StoreRecord] /\ held \in [Holders -> LicenceClaims]
      /\ account \in CompanyRecord
  BY <1>1, HereIsHolder DEF TypeOK, JobInv, Sign, At
<1>5. row[h].lead \in Leads /\ job[w].told \in Leads \cup {None}
  BY <1>4 DEF StoreRecord, Jobs
<1>6. seq \in Leads /\ seq > row[h].lead /\ (job[w].told # None => seq > job[w].told)
  BY <1>2, <1>5, SequencePasses
<1>7. lic \in LicenceClaims /\ lic.lead = seq /\ lic.ver = account.ver
  BY <1>3, <1>4, <1>6, IssueSigns
<1> DEFINE new  == [row[h] EXCEPT !.lead = seq, !.age = 0]
           sent == [job[w] EXCEPT !.at = "sent", !.lic = lic]
<1>8. new \in StoreRecord /\ new.lead = seq
  <2>1. 0 \in 0 .. OfflineDays /\ row[h] \in StoreRecord
    BY <1>4, SizeAssumption
  <2> QED
    BY <2>1, <1>6 DEF StoreRecord
<1>9. sent \in Jobs /\ Sound(sent) /\ sent.rest = job[w].rest /\ sent.told = job[w].told
      /\ sent.at = "sent" /\ sent.lic = lic
  BY <1>4, <1>7, NoneAssumption DEF Jobs, Sound
<1>10. /\ row' = [row EXCEPT ![h] = new]
       /\ job' = [job EXCEPT ![w] = sent]
       /\ UNCHANGED <<account, held, late, used>>
  BY <1>1, <1>2, <1>3, <1>4 DEF Sign, TypeOK
<1> HIDE DEF new, sent
<1>11. /\ row' \in [Holders -> StoreRecord] /\ row'[h].lead = seq
       /\ \A g \in Holders \ {h} : row'[g] = row[g]
  BY <1>4, <1>8, <1>10
<1>12. /\ job' \in [Workers -> Jobs] /\ job'[w] = sent
       /\ \A v \in Workers \ {w} : job'[v] = job[v]
  BY <1>9, <1>10 DEF TypeOK
<1>13. TypeOK' /\ account'.ver = used'.changes
  BY <1>10, <1>11, <1>12 DEF TypeOK
<1>14. JobInv' /\ LateInv'
  BY <1>9, <1>10, <1>12 DEF JobInv, LateInv, Accepts
<1>15. \A g \in Holders : UnderWay(g)' \subseteq UnderWay(g) \cup (IF g = h THEN {lic} ELSE {})
  <2> SUFFICES ASSUME NEW g \in Holders, NEW l \in UnderWay(g)'
               PROVE  l \in UnderWay(g) \/ (g = h /\ l = lic)
    OBVIOUS
  <2>1. CASE l \in late'[g]
    BY <2>1, <1>10 DEF UnderWay
  <2>2. ASSUME NEW v \in Workers, At(v, "sent")', Here(v)' = g, l = job'[v].lic
        PROVE  l \in UnderWay(g) \/ (g = h /\ l = lic)
    <3>1. CASE v = w
      BY <3>1, <2>2, <1>1, <1>9, <1>12 DEF Here
    <3>2. CASE v # w
      BY <3>2, <2>2, <1>12 DEF UnderWay, At, Here
    <3> QED
      BY <3>1, <3>2
  <2> QED
    BY <2>1, <2>2 DEF UnderWay
<1>16. OrderInv'
  <2> SUFFICES ASSUME NEW g \in Holders PROVE Ordered(g)' /\ Above(g)'
    BY DEF OrderInv
  <2>1. Ordered(g) /\ Above(g)
    BY DEF OrderInv
  <2>2. CASE g # h
    BY <2>1, <2>2, <1>10, <1>11, <1>15 DEF Ordered, Above
  <2>3. CASE g = h
    <3>1. \A l \in UnderWay(h) : l.lead \in Int /\ l.ver \in Int
      BY <1>4, UnderWayIsClaims, SizeAssumption DEF LicenceClaims, Leads
    <3>2. account.ver \in Int /\ row[h].lead \in Int /\ seq \in Int
      BY <1>4, <1>5, <1>6, SizeAssumption DEF CompanyRecord, Leads
    <3>3. \A l \in UnderWay(h) : l.lead < seq /\ l.ver <= lic.ver
      BY <2>1, <2>3, <3>1, <3>2, <1>6, <1>7 DEF Above
    <3>4. Ordered(h)'
      <4> SUFFICES ASSUME NEW l \in UnderWay(h)', NEW m \in UnderWay(h)',
                          0 <= l.lead, l.lead <= m.lead
                   PROVE  l.ver <= m.ver
        BY DEF Ordered
      <4>1. (l \in UnderWay(h) \/ l = lic) /\ (m \in UnderWay(h) \/ m = lic)
        BY <1>4, <1>15
      <4>2. CASE l \in UnderWay(h) /\ m \in UnderWay(h)
        BY <4>2, <2>1, <2>3 DEF Ordered
      <4>3. CASE m = lic
        BY <4>1, <4>3, <3>2, <3>3, <1>7
      <4>4. CASE l = lic /\ m \in UnderWay(h)
        BY <4>4, <3>1, <3>2, <3>3, <1>7
      <4> QED
        BY <4>1, <4>2, <4>3, <4>4
    <3>5. Above(h)'
      BY <2>1, <2>3, <3>1, <3>2, <3>3, <1>7, <1>10, <1>11, <1>15 DEF Above
    <3> QED
      BY <2>3, <3>4, <3>5
  <2> QED
    BY <2>2, <2>3
<1>17. ToldInv'
  <2> SUFFICES ASSUME NEW v \in Workers, job'[v].told # None PROVE Informed(v)'
    BY DEF ToldInv, Informed
  <2>1. CASE v = w
    <3>1. job[w].told # None /\ job[w].told \in Int /\ row[h].lead \in Int /\ seq \in Int
      BY <2>1, <1>5, <1>6, <1>9, <1>12 DEF Leads
    <3>2. job[w].told >= 0 \/ row[h].lead >= 0
      BY <3>1, <1>1, <1>4 DEF ToldInv, Informed
    <3>3. seq >= 0
      BY <3>1, <3>2, <1>6
    <3> QED
      BY <2>1, <3>3, <1>7, <1>9, <1>12 DEF Informed
  <2>2. CASE v # w
    <3>1. job'[v] = job[v] /\ Here(v)' = Here(v) /\ Informed(v)
      BY <2>2, <1>12 DEF ToldInv, Here
    <3>2. CASE job[v].at \in {"sign", "sent"}
      <4>1. Here(v) \in Holders
        BY <3>2, HereIsHolder DEF JobInv, Sound
      <4>2. row[Here(v)].lead >= 0 => row'[Here(v)].lead >= 0
        BY <4>1, <1>5, <1>6, <1>11 DEF Leads
      <4> QED
        BY <3>1, <4>1, <4>2, <1>10 DEF Informed
    <3>3. CASE job[v].at \notin {"sign", "sent"}
      BY <3>1, <3>3 DEF Informed
    <3> QED
      BY <3>2, <3>3
  <2> QED
    BY <2>1, <2>2
<1> QED
  BY <1>13, <1>14, <1>16, <1>17

-----------------------------------------------------------------------------
(* A deployment takes a licence, and its sequences are counted from there. *)

LEMMA ShiftCounts ==
  ASSUME NEW n \in Leads, NEW by \in Nat
  PROVE  /\ Shift(n, by) \in Leads
         /\ Shift(n, by) >= 0 => Shift(n, by) = n - by
         /\ n >= by => Shift(n, by) = n - by
         /\ \A k \in Leads : n <= k => Shift(n, by) <= Shift(k, by)
BY SizeAssumption DEF Shift, AtLeast, Leads

\* Job v when the deployment h takes lic: its delivery has ended, or what it holds
\* for h is counted anew.
JobRecounts(v, h, lic) ==
  \/ job'[v] \in Jobs /\ Sound(job'[v]) /\ job'[v].lic = None /\ job'[v].told = None
  \/ (job[v].rest = <<>> \/ Here(v) # h) /\ job'[v] = job[v]
  \/ /\ job[v].rest # <<>> /\ Here(v) = h
     /\ job'[v] = Counted(job[v], lic.lead)

\* A counted licence: the same but for its sequence.
LEMMA Recount ==
  ASSUME NEW m \in LicenceClaims, NEW by \in Nat
  PROVE  /\ [m EXCEPT !.lead = Shift(@, by)] \in LicenceClaims
         /\ [m EXCEPT !.lead = Shift(@, by)].ver = m.ver
         /\ [m EXCEPT !.lead = Shift(@, by)].lead = Shift(m.lead, by)
BY ShiftCounts DEF LicenceClaims

\* A job counted anew keeps its place; so does the licence it holds, and what it heard.
LEMMA CountedJob ==
  ASSUME NEW j \in Jobs, Sound(j), NEW by \in Nat
  PROVE  /\ Counted(j, by) \in Jobs /\ Sound(Counted(j, by))
         /\ Counted(j, by).rest = j.rest /\ Counted(j, by).at = j.at
         /\ j.at = "sent" =>
              /\ j.lic \in LicenceClaims /\ Counted(j, by).lic \in LicenceClaims
              /\ Counted(j, by).lic.ver = j.lic.ver
              /\ Counted(j, by).lic.lead = Shift(j.lic.lead, by)
         /\ Counted(j, by).told # None =>
              /\ j.told # None /\ j.told \in Leads
              /\ Counted(j, by).told = Shift(j.told, by)
<1> DEFINE told == IF j.told = None THEN None ELSE Shift(j.told, by)
           lic  == IF j.lic = None THEN None ELSE [j.lic EXCEPT !.lead = Shift(@, by)]
<1>1. told \in Leads \cup {None} /\ (told # None => j.told # None /\ j.told \in Leads
                                                   /\ told = Shift(j.told, by))
  BY ShiftCounts DEF Jobs
<1>2. /\ lic \in LicenceClaims \cup {None} /\ (lic = None <=> j.lic = None)
      /\ j.lic # None =>
           /\ j.lic \in LicenceClaims /\ lic \in LicenceClaims
           /\ lic.ver = j.lic.ver /\ lic.lead = Shift(j.lic.lead, by)
  <2>1. CASE j.lic = None
    BY <2>1
  <2>2. CASE j.lic # None
    <3>1. j.lic \in LicenceClaims
      BY <2>2 DEF Jobs
    <3> QED
      BY <2>2, <3>1, Recount, NoneAssumption
  <2> QED
    BY <2>1, <2>2
<1>3. Counted(j, by) = [j EXCEPT !.told = told, !.lic = lic]
  BY DEF Counted
<1> HIDE DEF told, lic
<1>4. /\ Counted(j, by) \in Jobs /\ Counted(j, by).told = told /\ Counted(j, by).lic = lic
      /\ Counted(j, by).rest = j.rest /\ Counted(j, by).at = j.at
  BY <1>1, <1>2, <1>3 DEF Jobs
<1>5. Sound(Counted(j, by))
  BY <1>2, <1>4 DEF Sound
<1> QED
  BY <1>1, <1>2, <1>4, <1>5 DEF Sound

LEMMA TakeKeeps ==
  ASSUME IInv, NEW h \in Holders, NEW lic \in UnderWay(h), Accepts(lic), Take(h, lic),
         UNCHANGED <<account, used>>,
         job' = [v \in Workers |-> job'[v]],
         \A v \in Workers : JobRecounts(v, h, lic)
  PROVE  IInv'
<1> USE DEF IInv
<1>1. /\ UnderWay(h) \subseteq LicenceClaims /\ lic \in LicenceClaims /\ lic.lead \in Nat
      /\ row \in [Holders -> StoreRecord] /\ held \in [Holders -> LicenceClaims]
      /\ late \in [Holders -> SUBSET LicenceClaims] /\ account \in CompanyRecord
  BY UnderWayIsClaims DEF TypeOK, Accepts, LicenceClaims, Leads
<1>2. PICK by : by = lic.lead
  OBVIOUS
<1>3. /\ held' \in [Holders -> LicenceClaims] /\ held'[h].ver = lic.ver
      /\ \A g \in Holders \ {h} : held'[g] = held[g]
  <2> DEFINE new == [lic EXCEPT !.lead = 0]
  <2>1. new \in LicenceClaims /\ new.ver = lic.ver
    BY <1>1, SizeAssumption DEF LicenceClaims, Leads
  <2>2. held' = [held EXCEPT ![h] = new]
    BY DEF Take
  <2> HIDE DEF new
  <2> QED
    BY <1>1, <2>1, <2>2
<1>4. /\ row' \in [Holders -> StoreRecord] /\ row'[h].lead = Shift(row[h].lead, by)
      /\ \A g \in Holders \ {h} : row'[g] = row[g]
  <2> DEFINE new == [row[h] EXCEPT !.lead = Shift(@, by)]
  <2>1. row[h].lead \in Leads
    BY <1>1 DEF StoreRecord
  <2>2. new \in StoreRecord /\ new.lead = Shift(row[h].lead, by)
    BY <1>1, <1>2, <2>1, ShiftCounts DEF StoreRecord
  <2>3. row' = [row EXCEPT ![h] = new]
    BY <1>1, <1>2 DEF Take, StoreRecord
  <2> HIDE DEF new
  <2> QED
    BY <1>1, <2>2, <2>3
<1>5. /\ late' \in [Holders -> SUBSET LicenceClaims]
      /\ \A g \in Holders \ {h} : late'[g] = late[g]
      /\ \A l \in late'[h] :
           Accepts(l) /\ \E m \in late[h] : l.ver = m.ver /\ l.lead = Shift(m.lead, by)
  <2> DEFINE left == {l \in {[m EXCEPT !.lead = Shift(@, by)] : m \in late[h] \ {lic}} : Accepts(l)}
  <2>1. late' = [late EXCEPT ![h] = left]
    BY <1>2 DEF Take
  <2>2. ASSUME NEW l \in left
        PROVE  l \in LicenceClaims /\ Accepts(l) /\ \E m \in late[h] : l.ver = m.ver /\ l.lead = Shift(m.lead, by)
    <3>1. PICK m \in late[h] : l = [m EXCEPT !.lead = Shift(@, by)]
      OBVIOUS
    <3> QED
      BY <1>1, <1>2, <3>1, Recount
  <2> HIDE DEF left
  <2> QED
    BY <1>1, <2>1, <2>2
<1>6. ASSUME NEW v \in Workers PROVE job'[v] \in Jobs /\ Sound(job'[v])
  <2>1. job[v] \in Jobs /\ Sound(job[v]) /\ JobRecounts(v, h, lic)
    BY DEF TypeOK, JobInv
  <2>2. Counted(job[v], lic.lead) \in Jobs /\ Sound(Counted(job[v], lic.lead))
    BY <1>1, <2>1, CountedJob
  <2> QED
    BY <2>1, <2>2 DEF JobRecounts
<1>7. TypeOK' /\ account'.ver = used'.changes
  BY <1>3, <1>4, <1>5, <1>6 DEF TypeOK
<1>8. JobInv' /\ LateInv'
  BY <1>5, <1>6 DEF JobInv, LateInv, Accepts
<1>9. ASSUME NEW g \in Holders \ {h} PROVE UnderWay(g)' \subseteq UnderWay(g)
  <2> SUFFICES ASSUME NEW l \in UnderWay(g)' PROVE l \in UnderWay(g)
    OBVIOUS
  <2>1. CASE l \in late'[g]
    BY <2>1, <1>5 DEF UnderWay
  <2>2. ASSUME NEW v \in Workers, At(v, "sent")', Here(v)' = g, l = job'[v].lic
        PROVE  l \in UnderWay(g)
    <3>1. job'[v].lic # None
      BY <2>2, <1>6 DEF Sound, At
    <3>2. CASE job[v].rest # <<>> /\ Here(v) = h
      <4>1. job'[v] = Counted(job[v], by) /\ job[v] \in Jobs /\ Sound(job[v])
        BY <3>1, <3>2, <1>2 DEF JobRecounts, TypeOK, JobInv
      <4> QED
        BY <2>2, <3>2, <4>1, <1>1, <1>2, CountedJob DEF Here
    <3>3. CASE ~(job[v].rest # <<>> /\ Here(v) = h)
      BY <2>2, <3>1, <3>3 DEF JobRecounts, UnderWay, At, Here
    <3> QED
      BY <3>2, <3>3
  <2> QED
    BY <2>1, <2>2 DEF UnderWay
<1>10. \A l \in UnderWay(h)' : \E m \in UnderWay(h) : l.ver = m.ver /\ l.lead = Shift(m.lead, by)
  <2> SUFFICES ASSUME NEW l \in UnderWay(h)'
               PROVE  \E m \in UnderWay(h) : l.ver = m.ver /\ l.lead = Shift(m.lead, by)
    OBVIOUS
  <2>1. CASE l \in late'[h]
    BY <2>1, <1>5 DEF UnderWay
  <2>2. ASSUME NEW v \in Workers, At(v, "sent")', Here(v)' = h, l = job'[v].lic
        PROVE  \E m \in UnderWay(h) : l.ver = m.ver /\ l.lead = Shift(m.lead, by)
    <3>1. job'[v].lic # None
      BY <2>2, <1>6 DEF Sound, At
    <3>2. job[v].rest # <<>> /\ Here(v) = h
      BY <2>2, <3>1 DEF JobRecounts, At, Here
    <3>3. /\ job[v].at = "sent" /\ l.ver = job[v].lic.ver
          /\ l.lead = Shift(job[v].lic.lead, by)
      <4>1. job'[v] = Counted(job[v], by) /\ job[v] \in Jobs /\ Sound(job[v])
        BY <3>1, <3>2, <1>2 DEF JobRecounts, TypeOK, JobInv
      <4> QED
        BY <2>2, <4>1, <1>1, <1>2, CountedJob DEF At
    <3> QED
      BY <3>2, <3>3 DEF UnderWay, At
  <2> QED
    BY <2>1, <2>2 DEF UnderWay
<1>11. /\ by \in Nat /\ account.ver \in Int /\ held[h].ver \in Int /\ row[h].lead \in Leads
       /\ Leads \subseteq Int
       /\ \A l \in UnderWay(h) : l.lead \in Leads /\ l.ver \in Int
  BY <1>1, <1>2, SizeAssumption DEF StoreRecord, LicenceClaims, CompanyRecord, Leads
<1>12. Ordered(h) /\ Above(h)
  BY DEF OrderInv
<1>13. row[h].lead >= by /\ row'[h].lead = row[h].lead - by /\ held[h].ver <= lic.ver
  BY <1>2, <1>4, <1>11, <1>12, ShiftCounts DEF Above
<1>14. OrderInv'
  <2>1. ASSUME NEW g \in Holders \ {h} PROVE Ordered(g)' /\ Above(g)'
    <3>1. Ordered(g) /\ Above(g)
      BY DEF OrderInv
    <3> QED
      BY <3>1, <1>3, <1>4, <1>9 DEF Ordered, Above
  <2>2. Ordered(h)'
    <3> SUFFICES ASSUME NEW l \in UnderWay(h)', NEW m \in UnderWay(h)',
                        0 <= l.lead, l.lead <= m.lead
                 PROVE  l.ver <= m.ver
      BY DEF Ordered
    <3>1. PICK l0 \in UnderWay(h) : l.ver = l0.ver /\ l.lead = Shift(l0.lead, by)
      BY <1>10
    <3>2. PICK m0 \in UnderWay(h) : m.ver = m0.ver /\ m.lead = Shift(m0.lead, by)
      BY <1>10
    <3>3. l.lead \in Int /\ m.lead \in Int /\ l0.lead \in Int /\ m0.lead \in Int
      BY <3>1, <3>2, <1>11, ShiftCounts
    <3>4. l.lead = l0.lead - by /\ m.lead = m0.lead - by
      BY <3>1, <3>2, <3>3, <1>11, ShiftCounts
    <3>5. 0 <= l0.lead /\ l0.lead <= m0.lead
      BY <3>3, <3>4, <1>11
    <3> QED
      BY <3>1, <3>2, <3>5, <1>12 DEF Ordered
  <2>3. Above(h)'
    <3>1. held'[h].ver <= account'.ver
      BY <1>3, <1>12 DEF Above
    <3>2. ASSUME NEW l \in UnderWay(h)'
          PROVE  /\ l.lead <= row'[h].lead /\ l.ver <= account'.ver
                 /\ 0 <= l.lead => held'[h].ver <= l.ver
      <4>1. PICK l0 \in UnderWay(h) : l.ver = l0.ver /\ l.lead = Shift(l0.lead, by)
        BY <1>10
      <4>2. l.lead <= row'[h].lead /\ l.ver <= account'.ver
        BY <4>1, <1>4, <1>11, <1>12, ShiftCounts DEF Above
      <4>3. ASSUME 0 <= l.lead PROVE held'[h].ver <= l.ver
        <5>1. by <= l0.lead
          BY <4>1, <4>3, <1>11, ShiftCounts
        <5> QED
          BY <4>1, <5>1, <1>2, <1>3, <1>11, <1>12 DEF Ordered
      <4> QED
        BY <4>2, <4>3
    <3> QED
      BY <3>1, <3>2 DEF Above
  <2> QED
    BY <2>1, <2>2, <2>3 DEF OrderInv
<1>15. ToldInv'
  <2> SUFFICES ASSUME NEW v \in Workers, job'[v].told # None PROVE Informed(v)'
    BY DEF ToldInv, Informed
  <2>1. JobRecounts(v, h, lic) /\ job[v] \in Jobs /\ Sound(job[v]) /\ Informed(v)
    BY DEF TypeOK, JobInv, ToldInv
  <2>2. CASE job'[v] = job[v] /\ job[v].rest = <<>>
    BY <2>1, <2>2 DEF Informed, Sound
  <2>3. CASE job'[v] = job[v] /\ job[v].rest # <<>> /\ Here(v) # h
    <3>1. Here(v) \in Holders \ {h} /\ Here(v)' = Here(v)
      BY <2>3, HereIsHolder DEF Here
    <3> QED
      BY <2>1, <2>3, <3>1, <1>3, <1>4 DEF Informed
  <2>4. CASE job[v].rest # <<>> /\ Here(v) = h /\ job'[v] = Counted(job[v], by)
    <3>1. /\ job'[v].rest = job[v].rest /\ job'[v].at = job[v].at /\ job[v].told # None
          /\ job[v].at = "sent" =>
               /\ job'[v].lic.ver = job[v].lic.ver
               /\ job'[v].lic.lead = Shift(job[v].lic.lead, by)
      BY <2>1, <2>4, <1>11, CountedJob
    <3>2. Here(v)' = h
      BY <2>4, <3>1 DEF Here
    <3>3. row'[h].lead >= 0
      BY <1>11, <1>13
    <3>4. ASSUME job[v].at = "sent"
          PROVE  job'[v].lic.lead >= 0 \/ held'[h].ver >= job'[v].lic.ver
      <4>1. PICK l0 \in UnderWay(h) : l0 = job[v].lic
        BY <2>4, <3>4 DEF UnderWay, At
      <4>2. l0.lead \in Int /\ l0.ver \in Int /\ lic.ver \in Int
        BY <1>11
      <4>3. CASE l0.lead >= by
        BY <3>1, <3>4, <4>1, <4>2, <4>3, <1>11, ShiftCounts
      <4>4. CASE 0 <= l0.lead /\ l0.lead <= by
        BY <3>1, <3>4, <4>1, <4>2, <4>4, <1>2, <1>3, <1>12 DEF Ordered
      <4>5. CASE l0.lead < 0
        BY <2>1, <2>4, <3>1, <3>4, <4>1, <4>2, <4>5, <1>3, <1>11, <1>13 DEF Informed
      <4> QED
        BY <4>2, <4>3, <4>4, <4>5, <1>11
    <3> QED
      BY <3>1, <3>2, <3>3, <3>4 DEF Informed
  <2> QED
    BY <2>1, <2>2, <2>3, <2>4, <1>2 DEF JobRecounts
<1> QED
  BY <1>7, <1>8, <1>14, <1>15
LEMMA PostAcceptedKeeps ==
  ASSUME IInv, NEW w \in Workers, PostAccepted(w)
  PROVE  IInv'
<1>1. PICK h : h = Here(w)
  OBVIOUS
<1>2. PICK lic : lic = job[w].lic
  OBVIOUS
<1>3. /\ h \in Holders /\ lic \in UnderWay(h) /\ Accepts(lic)
      /\ Take(h, lic) /\ UNCHANGED <<account, used>>
      /\ job[w] \in Jobs /\ Sound(job[w]) /\ job[w].rest # <<>>
  BY <1>1, <1>2, HereIsHolder DEF PostAccepted, At, UnderWay, IInv, TypeOK, JobInv
<1> DEFINE done == [job[w] EXCEPT !.at = "ok", !.lic = None, !.told = None]
<1>4. done \in Jobs /\ Sound(done) /\ done.lic = None /\ done.told = None
  BY <1>3 DEF Jobs, Sound
<1>5. Recounted(w, h, lic)[w] = job[w]
  BY DEF Recounted
<1>6. job' = [Recounted(w, h, lic) EXCEPT ![w] = done]
  BY <1>1, <1>2, <1>3, <1>5 DEF PostAccepted, Recounted, Jobs
<1> HIDE DEF done
<1>7. /\ job' = [v \in Workers |-> job'[v]] /\ job'[w] = done
      /\ \A v \in Workers \ {w} : job'[v] = IF job[v].rest = <<>> \/ Here(v) # h THEN job[v]
                                            ELSE Counted(job[v], lic.lead)
  BY <1>6 DEF Recounted
<1>8. \A v \in Workers : JobRecounts(v, h, lic)
  BY <1>4, <1>7 DEF JobRecounts
<1> QED
  BY <1>3, <1>7, <1>8, TakeKeeps

\* A POST given up arrives after all.
LEMMA LandsKeeps ==
  ASSUME IInv, NEW h \in Holders, Lands(h)
  PROVE  IInv'
<1>1. PICK lic \in late[h] : Take(h, lic) /\ job' = Recounted(None, h, lic)
  BY DEF Lands
<1>2. lic \in UnderWay(h) /\ UNCHANGED <<account, used>>
  BY DEF Lands, UnderWay
<1>3. Accepts(lic)
  BY DEF IInv, LateInv
<1>4. /\ job' = [v \in Workers |-> job'[v]]
      /\ \A v \in Workers : job'[v] = IF job[v].rest = <<>> \/ Here(v) # h THEN job[v]
                                      ELSE Counted(job[v], lic.lead)
  BY <1>1, NoneAssumption DEF Recounted
<1>5. \A v \in Workers : JobRecounts(v, h, lic)
  BY <1>4 DEF JobRecounts
<1> QED
  BY <1>1, <1>2, <1>3, <1>4, <1>5, TakeKeeps

-----------------------------------------------------------------------------
(* Theorems *)

LEMMA InitIInv == Init => IInv
<1> SUFFICES ASSUME Init PROVE IInv
  OBVIOUS
<1> USE DEF Init
<1>1. 0 \in Leads /\ 0 \in 0 .. MaxChanges /\ 0 \in 0 .. MaxRequests /\ 0 \in 0 .. MaxFaults
      /\ 0 \in 0 .. MaxCrashes /\ 0 \in 0 .. OfflineDays /\ -1 \in -1 .. OfflineDays
  BY SizeAssumption DEF Leads
<1>2. Idle \in Jobs /\ Sound(Idle) /\ Idle.told = None /\ Idle.rest = <<>>
  BY NoneAssumption DEF Jobs, Sound, Idle
<1>3. account \in CompanyRecord /\ account.ver = 0
  BY <1>1, SizeAssumption DEF CompanyRecord, Days, Forever
<1>4. TypeOK
  BY <1>1, <1>2, <1>3 DEF TypeOK, StoreRecord, LicenceClaims
<1>5. \A h \in Holders : UnderWay(h) = {}
  BY <1>2 DEF UnderWay, At
<1>6. JobInv /\ LateInv /\ ToldInv
  BY <1>2 DEF JobInv, LateInv, ToldInv, Informed
<1>7. OrderInv
  BY <1>3, <1>5 DEF OrderInv, Ordered, Above
<1> QED
  BY <1>3, <1>4, <1>6, <1>7 DEF IInv

LEMMA NextIInv == IInv /\ [Next]_vars => IInv'
<1> SUFFICES ASSUME IInv, [Next]_vars PROVE IInv'
  OBVIOUS
<1>1. ASSUME NEW w \in Workers, Step(w) PROVE IInv'
  BY <1>1, ProbeAnsweredKeeps, ProbeFailsKeeps, PingAnsweredKeeps, PingFailsKeeps, SignKeeps,
     PostAcceptedKeeps, PostRefusedKeeps, PostLostKeeps, AnsweredKeeps DEF Step
<1>2. ASSUME NEW w \in Requests, Request(w) \/ Pays(w) \/ EditsCompany(w) \/ EditsPlan(w) PROVE IInv'
  BY <1>2, RequestKeeps, PaysKeeps, EditsCompanyKeeps, EditsPlanKeeps
<1>3. ASSUME NEW h \in Holders, SetStatus(h) \/ Lands(h) PROVE IInv'
  BY <1>3, SetStatusKeeps, LandsKeeps
<1>4. CASE UNCHANGED vars
  <2>1. \A w \in Workers : JobMoves(w)
    BY <1>4, JobMayStay DEF vars
  <2>2. TypeOK' /\ account'.ver >= account.ver /\ account'.ver = used'.changes
    BY <1>4, SizeAssumption DEF vars, IInv, TypeOK, CompanyRecord
  <2> QED
    BY <1>4, <2>1, <2>2, HoldersStay, CalmKeeps DEF Calm, vars
<1> QED
  BY <1>1, <1>2, <1>3, <1>4, TimerTickKeeps, NewDayKeeps, RestartKeeps, RestoreOlderKeeps,
     UpgradeKeeps DEF Next

\* Types and the order of licences hold in every reachable state.
THEOREM Invariance == Spec => []IInv
BY InitIInv, NextIInv, PTL DEF Spec

\* Rows, licences, jobs and accounts have their types, whatever was lost or restored.
THEOREM TypesHold == Spec => []TypeOK
<1>1. IInv => TypeOK
  BY DEF IInv
<1> QED
  BY <1>1, Invariance, PTL

-----------------------------------------------------------------------------
(* What a deployment holds gives way to newer entitlements only. *)

\* A licence a deployment takes is as new as the one it holds.
LEMMA TakesNewer ==
  ASSUME IInv, NEW h \in Holders, NEW lic \in UnderWay(h), Accepts(lic), Take(h, lic)
  PROVE  \A g \in Holders : held'[g].ver >= held[g].ver
<1>1. held \in [Holders -> LicenceClaims] /\ lic \in LicenceClaims
  BY UnderWayIsClaims DEF IInv, TypeOK
<1>2. held[h].ver <= lic.ver
  BY DEF IInv, OrderInv, Above, Accepts
<1> DEFINE new == [lic EXCEPT !.lead = 0]
<1>3. new.ver = lic.ver /\ held' = [held EXCEPT ![h] = new]
  BY <1>1 DEF Take, LicenceClaims
<1> HIDE DEF new
<1>4. \A g \in Holders : held[g].ver \in Int /\ lic.ver \in Int
  BY <1>1, SizeAssumption DEF LicenceClaims
<1> QED
  BY <1>1, <1>2, <1>3, <1>4

LEMMA TermsStay ==
  ASSUME IInv, [Next]_vars
  PROVE  \A h \in Holders : held'[h].ver >= held[h].ver
<1>1. held \in [Holders -> LicenceClaims] /\ \A h \in Holders : held[h].ver \in Int
  BY SizeAssumption DEF IInv, TypeOK, LicenceClaims
<1>2. ASSUME NEW w \in Workers, PostAccepted(w) PROVE \A h \in Holders : held'[h].ver >= held[h].ver
  <2>1. Here(w) \in Holders /\ job[w].lic \in UnderWay(Here(w))
    BY <1>2, HereIsHolder DEF PostAccepted, At, UnderWay, IInv
  <2> QED
    BY <1>2, <2>1, TakesNewer DEF PostAccepted
<1>3. ASSUME NEW h \in Holders, Lands(h) PROVE \A g \in Holders : held'[g].ver >= held[g].ver
  BY <1>3, TakesNewer DEF Lands, UnderWay, IInv, LateInv
<1>4. ASSUME NewDay PROVE \A h \in Holders : held'[h].ver >= held[h].ver
  <2>1. \A h \in Holders : held'[h] = [held[h] EXCEPT !.offline = AtLeast(@ - 1, -1)]
    BY <1>4 DEF NewDay
  <2>2. \A h \in Holders : held'[h].ver = held[h].ver
    BY <1>1, <2>1 DEF LicenceClaims
  <2> QED
    BY <1>1, <2>2
<1>5. CASE UNCHANGED held
  BY <1>1, <1>5
<1> QED
  BY <1>2, <1>3, <1>4, <1>5
  DEF Next, vars, Step, TimerTick, ProbeAnswered, ProbeFails, PingAnswered, PingFails, Sign, PostRefused,
      PostLost, Answered, Request, Pays, EditsCompany, EditsPlan, SetStatus, Restart, RestoreOlder,
      Upgrade, Crash, Ends

\* A job at its POST is only refused by the deployment's refusal.
LEMMA RefusedByDeployment ==
  ASSUME IInv, [Next]_vars, NEW w \in Workers, At(w, "sent"), job'[w].at = "refused"
  PROVE  PostRefused(w)
<1>1. job \in [Workers -> Jobs] /\ job[w] \in Jobs /\ job[w].at = "sent" /\ job[w].rest # <<>>
  BY DEF IInv, TypeOK, At
<1> DEFINE Same == job'[w].at = job[w].at
<1>2. ASSUME NEW v \in Workers, v # w, Step(v) PROVE Same
  <2>1. CASE PostAccepted(v)
    <3>1. PICK h : h = Here(v)
      OBVIOUS
    <3>2. job'[w] = job[w] \/ job'[w] = Counted(job[w], job[v].lic.lead)
      BY <1>2, <2>1 DEF PostAccepted, Recounted
    <3> QED
      BY <1>1, <3>2 DEF Counted, Jobs
  <2>2. CASE Answered(v)
    BY <1>1, <1>2, <2>2 DEF Answered, Next1
  <2>3. CASE ProbeAnswered(v) \/ ProbeFails(v)
    BY <1>1, <1>2, <2>3 DEF ProbeAnswered, ProbeFails, Next1
  <2>4. CASE PingAnswered(v) \/ PingFails(v) \/ Sign(v) \/ PostRefused(v) \/ PostLost(v)
    BY <1>1, <1>2, <2>4 DEF PingAnswered, PingFails, Sign, PostRefused, PostLost
  <2> QED
    BY <1>2, <2>1, <2>2, <2>3, <2>4 DEF Step
<1>3. ASSUME Step(w), ~PostRefused(w) PROVE job'[w].at \in {"ok", "failed"}
  <2>1. PostAccepted(w) \/ PostLost(w)
    BY <1>1, <1>3 DEF Step, ProbeAnswered, ProbeFails, PingAnswered, PingFails, Sign, Answered, At
  <2>2. CASE PostAccepted(w)
    BY <1>1, <2>2 DEF PostAccepted, Recounted, Jobs
  <2>3. CASE PostLost(w)
    BY <1>1, <2>3 DEF PostLost, Jobs
  <2> QED
    BY <2>1, <2>2, <2>3
<1>4. ASSUME NEW h \in Holders, SetStatus(h) \/ Lands(h) PROVE Same
  <2>1. CASE SetStatus(h)
    BY <2>1 DEF SetStatus
  <2>2. CASE Lands(h)
    <3>1. PICK lic \in late[h] : job' = Recounted(None, h, lic)
      BY <2>2 DEF Lands
    <3>2. job'[w] = job[w] \/ job'[w] = Counted(job[w], lic.lead)
      BY <3>1 DEF Recounted
    <3> QED
      BY <1>1, <3>2 DEF Counted, Jobs
  <2> QED
    BY <1>4, <2>1, <2>2
<1>5. ASSUME NEW v \in Requests, Request(v) \/ Pays(v) \/ EditsCompany(v) \/ EditsPlan(v) PROVE Same
  <2>1. v # w
    <3>1. job[v] = Idle /\ Idle.at = "none"
      BY <1>5 DEF Request, Pays, EditsCompany, EditsPlan, Changes, Idle
    <3> QED
      BY <1>1, <3>1
  <2>2. job' = job \/ \E j : job' = [job EXCEPT ![v] = j]
    BY <1>5 DEF Request, Pays, EditsCompany, EditsPlan
  <2> QED
    BY <1>1, <2>1, <2>2
<1>6. ASSUME TimerTick PROVE Same
  <2>1. w # Timer /\ \E j : job' = [job EXCEPT ![Timer] = j]
    BY <1>1, <1>6 DEF TimerTick, Idle
  <2> QED
    BY <1>1, <2>1
<1>7. ASSUME Restart \/ RestoreOlder \/ Upgrade PROVE job'[w].at = "none"
  <2>1. job' = [v \in Workers |-> Idle]
    BY <1>7 DEF Restart, RestoreOlder, Upgrade, Crash, Ends
  <2> QED
    BY <2>1 DEF Idle
<1>8. ASSUME NewDay \/ UNCHANGED vars PROVE Same
  BY <1>8 DEF NewDay, vars
<1> HIDE DEF Same
<1>9. Same => job'[w].at # "refused"
  BY <1>1 DEF Same
<1> QED
  BY <1>2, <1>3, <1>4, <1>5, <1>6, <1>7, <1>8, <1>9 DEF Next

\* Whatever the order in which deliveries, late POSTs, restarts and restored registries
\* reach a deployment, it never goes back to older entitlements, and a delivery that
\* heard its sequence is refused only for entitlements as new.
THEOREM KeepsTerms == Spec => NeverBack
<1>1. IInv /\ [Next]_vars => [\A h \in Holders : held'[h].ver >= held[h].ver]_vars
  BY TermsStay
<1>2. ASSUME IInv, [Next]_vars, NEW w \in Workers,
             At(w, "sent") /\ job'[w].at = "refused" /\ job[w].told # None
      PROVE  held[Here(w)].ver >= job[w].lic.ver
  <2>1. PostRefused(w)
    BY <1>2, RefusedByDeployment
  <2>2. job[w].lic \in LicenceClaims /\ Informed(w)
    BY <1>2 DEF IInv, TypeOK, JobInv, Sound, ToldInv, At, Jobs
  <2>3. ~(job[w].lic.lead >= 0)
    BY <2>1 DEF PostRefused, Accepts
  <2> QED
    BY <1>2, <2>2, <2>3 DEF Informed, At
<1>3. IInv /\ [Next]_vars =>
        [\A w \in Workers :
           At(w, "sent") /\ job'[w].at = "refused" /\ job[w].told # None
             => held[Here(w)].ver >= job[w].lic.ver]_vars
  BY <1>2
<1> QED
  BY <1>1, <1>3, Invariance, PTL DEF Spec, NeverBack, NewerTermsStay, RefusedByNewer

=============================================================================
