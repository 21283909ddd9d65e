-------------------------- MODULE ReleaseCandidate --------------------------
(***************************************************************************)
(* How a release comes to be approved for production: the staging control   *)
(* plane's catalogue (services/releaseCatalog.ts) and its demo tenants, the *)
(* tested candidate it answers with, and what the production control plane  *)
(* does with the answer up to the promotion's row (services/promotion.ts,   *)
(* routes/releases.ts).  What becomes of the row is in Promotion.           *)
(*                                                                         *)
(* Three machines that share nothing: staging, production and GitHub.  An   *)
(* answer is computed when staging is asked and used when it arrives, or    *)
(* from a cache, while staging goes on and a tag's manifest is replaced.    *)
(***************************************************************************)
EXTENDS Releases, Sequences

CONSTANTS
  Demos,        \* staging's demo-* tenants
  KindOf,       \* demo |-> the kind of its image
  Previews,     \* polls of the office page
  Approvals,    \* operators' requests to promote
  Builds,       \* tag |-> the pairs of images it may be built as
  ByHand,       \* the releases that may also be published by hand
  MaxRepoints   \* bound on replaced manifests

Requests == Previews \cup Approvals
Images   == [Kinds -> Digests]   \* the two digests a manifest names

ASSUME RequestAssumption == Previews \cap Approvals = {}

ASSUME CandidateAssumption ==
  /\ KindOf \in [Demos -> Kinds]
  /\ Builds \in [Tags -> SUBSET Images]
  /\ ByHand \subseteq [kind : Kinds, tag : Tags, digest : Digests]
  /\ MaxRepoints \in Nat

VARIABLES
  catalogue,   \* staging: image_releases in order of publication; an id is a position
  demo,        \* staging: each demo's recorded release and whether it is "healthy" on it
  ran,         \* staging's past: the digests each demo was verified to run
  manifest,    \* GitHub: the images release-manifest.json names under each tag
  repoints,    \* bookkeeping of the bound
  cache,       \* production, in memory: candidateCache
  request,     \* production, in memory: where each request is and what it holds
  approved     \* production: the release_promotions rows

candidateVars == <<catalogue, demo, ran, manifest, repoints, cache, request, approved>>

staging    == <<catalogue, demo, ran>>
github     == <<manifest, repoints>>
production == <<cache, request, approved>>

-----------------------------------------------------------------------------
(* The catalogue *)

Ids == DOMAIN catalogue
RowsOf(cat, kind) == {i \in DOMAIN cat : cat[i].kind = kind}

\* ensureCiRelease: the newest row of the tag or of the digest is taken if it has the
\* digest, or else refused (None); with no such row there is a new one.
EnsureCiRelease(cat, kind, tag, digest) ==
  LET same == {i \in RowsOf(cat, kind) : cat[i].tag = tag \/ cat[i].digest = digest}
  IN  IF same = {} THEN Append(cat, [kind |-> kind, tag |-> tag, digest |-> digest])
      ELSE IF cat[Max(same)].digest = digest THEN cat ELSE None

\* createImageRelease: the table's two unique constraints
CreateImageRelease(row) ==
  /\ \A i \in RowsOf(catalogue, row.kind) :
       catalogue[i].tag # row.tag /\ catalogue[i].digest # row.digest
  /\ catalogue' = Append(catalogue, row)

-----------------------------------------------------------------------------
(* The tested candidate *)

ImageDemos == {d \in Demos : demo[d].release # None}

\* releaseOf: the row of the tag, one of each kind at most
ReleaseOf(kind, tag) == {i \in RowsOf(catalogue, kind) : catalogue[i].tag = tag}

CompleteTags == {t \in Tags : \A k \in Kinds : ReleaseOf(k, t) # {}}

\* A tag's place among the tags: its newest row's.
Rank(t) == Max({i \in Ids : catalogue[i].tag = t})

\* Weakened: a demo counts for the release recorded for it, verified or not.
RecordedOn(d, t) == demo[d].release \in ReleaseOf(KindOf[d], t)

\* Not mismatched.  (The health check may also have the demo down: see Answers.)
RunsTag(d, t) == demo[d].release \in ReleaseOf(KindOf[d], t) /\ demo[d].healthy

\* Weakened: a tag that has not reached every demo gives way to the one before it.
ReachedTag ==
  LET reached == {t \in CompleteTags : \A d \in ImageDemos : RunsTag(d, t)}
  IN  {t \in reached : \A u \in reached : Rank(u) <= Rank(t)}

NewestTag == {t \in CompleteTags : \A u \in CompleteTags : Rank(u) <= Rank(t)}

DigestOf(kind, tag) == catalogue[Max(ReleaseOf(kind, tag))].digest

\* testedCandidateForStaging: {} for its three errors
TestedCandidate ==
  {[tag |-> t, image |-> [k \in Kinds |-> DigestOf(k, t)], demos |-> ImageDemos] :
     t \in {t \in NewestTag : ImageDemos # {} /\ \A d \in ImageDemos : RunsTag(d, t)}}

-----------------------------------------------------------------------------
(* GitHub and the staging release workflow *)

\* A build publishes its manifest; the same tag may be built and published again.
PublishManifest(t, images) ==
  /\ manifest[t] # images
  /\ manifest[t] # None => repoints < MaxRepoints
  /\ manifest' = [manifest EXCEPT ![t] = images]
  /\ repoints' = repoints + (IF manifest[t] = None THEN 0 ELSE 1)
  /\ UNCHANGED <<staging, production>>

\* POST /ci for the demos: the store's row stays when the head office's is refused.
RegisterRelease(t) ==
  /\ manifest[t] # None
  /\ LET stored == EnsureCiRelease(catalogue, "store", t, manifest[t]["store"])
         both   == IF stored = None THEN None
                   ELSE EnsureCiRelease(stored, "ho", t, manifest[t]["ho"])
     IN  catalogue' = IF both # None THEN both ELSE IF stored # None THEN stored ELSE catalogue
  /\ catalogue' # catalogue
  /\ UNCHANGED <<demo, ran, github, production>>

\* POST /: one image, by hand
PublishRelease(row) ==
  /\ CreateImageRelease(row)
  /\ UNCHANGED <<demo, ran, github, production>>

-----------------------------------------------------------------------------
(* The demo tenants.  An attempt is its first mark and its verdict: one that   *)
(* fails or is cut off leaves the row as the mark did, and is not remembered. *)

\* A first deployment records its release as soon as the application exists.
ApplyRelease(d, i) ==
  /\ catalogue[i].kind = KindOf[d]
  /\ demo' = [demo EXCEPT ![d] = [release |-> IF @.release = None THEN i ELSE @.release,
                                 healthy |-> FALSE]]
  /\ demo' # demo
  /\ UNCHANGED <<catalogue, ran, github, production>>

\* Verified: healthy, or rolled_back when what was applied was a rollback
ReleaseVerified(d, i) ==
  /\ catalogue[i].kind = KindOf[d]
  /\ demo[d].release # None /\ ~demo[d].healthy
  /\ \E healthy \in BOOLEAN : demo' = [demo EXCEPT ![d] = [release |-> i, healthy |-> healthy]]
  /\ ran' = [ran EXCEPT ![d] = @ \cup {catalogue[i].digest}]
  /\ UNCHANGED <<catalogue, github, production>>

-----------------------------------------------------------------------------
(* The production control plane *)

Idle == [pc |-> "idle", got |-> {}]

\* startPromotion's checks of the candidate.  The tag the operator confirmed is the
\* candidate's or another, and its targets, in TenantRuntime, may refuse too.
Considered(q, got) ==
  {Idle} \cup {[pc |-> "manifest", got |-> {c}] : c \in {c \in got : q \in Approvals}}

\* fetchStagingCandidate from the cache, or up to its await
Ask(q) ==
  /\ request[q].pc = "idle"
  /\ IF cache # None
     THEN \E r \in Considered(q, cache) \ {Idle} : request' = [request EXCEPT ![q] = r]
     ELSE request' = [request EXCEPT ![q].pc = "asked"]
  /\ UNCHANGED <<staging, github, cache, approved>>

\* GET /tested-candidate, answered by staging as it now is; a demo may be down, or
\* staging not reached.
Answer(q) ==
  /\ request[q].pc = "asked"
  /\ \E got \in {TestedCandidate, {}} :
       request' = [request EXCEPT ![q] = [pc |-> "answered", got |-> got]]
  /\ UNCHANGED <<staging, github, cache, approved>>

\* The answer arrives, in whatever order answers do.
Receive(q) ==
  /\ request[q].pc = "answered"
  /\ cache' = request[q].got
  /\ \E r \in Considered(q, request[q].got) : request' = [request EXCEPT ![q] = r]
  /\ UNCHANGED <<staging, github, approved>>

\* The cache is CANDIDATE_CACHE_MS old.
CacheExpires ==
  /\ cache # None
  /\ cache' = None
  /\ UNCHANGED <<staging, github, request, approved>>

ManifestMatches(q) == \A c \in request[q].got : manifest[c.tag] = c.image

\* fetchReleaseManifest, then createReleasePromotion; the manifest may not be read and
\* another promotion may be in flight.
Approve(q) ==
  /\ request[q].pc = "manifest"
  /\ \/ ManifestMatches(q) /\ approved' = approved \cup request[q].got
     \/ UNCHANGED approved
  /\ request' = [request EXCEPT ![q] = Idle]
  /\ UNCHANGED <<staging, github, cache>>

\* A restart of the production control plane
Restart ==
  /\ cache' = None
  /\ request' = [q \in Requests |-> Idle]
  /\ <<cache', request'>> # <<cache, request>>
  /\ UNCHANGED <<staging, github, approved>>

-----------------------------------------------------------------------------
\* A demo that was deployed before the first release of the model is unprovisioned.
CandidateInit ==
  /\ catalogue = <<>>
  /\ demo = [d \in Demos |-> [release |-> None, healthy |-> FALSE]]
  /\ ran = [d \in Demos |-> {}]
  /\ manifest = [t \in Tags |-> None]
  /\ repoints = 0
  /\ cache = None
  /\ request = [q \in Requests |-> Idle]
  /\ approved = {}

Workflow ==
  \/ \E t \in Tags : RegisterRelease(t) \/ \E images \in Builds[t] : PublishManifest(t, images)
  \/ \E row \in ByHand : PublishRelease(row)

Demo(d) == \E i \in Ids : ApplyRelease(d, i) \/ ReleaseVerified(d, i)

CandidateRequest(q) ==
  \/ Ask(q) \/ Answer(q) \/ Receive(q) \/ Approve(q)

CandidateNext ==
  \/ Workflow
  \/ \E d \in Demos : Demo(d)
  \/ \E q \in Requests : CandidateRequest(q)
  \/ CacheExpires \/ Restart

CandidateSpec == CandidateInit /\ [][CandidateNext]_candidateVars

-----------------------------------------------------------------------------
(* Properties *)

Candidates == [tag : Tags, image : Images, demos : SUBSET Demos]

\* Every variable keeps to the values its column, its reply or its step can have.
CandidateTypeOK ==
  /\ catalogue \in Seq([kind : Kinds, tag : Tags, digest : Digests])
  /\ demo \in [Demos -> [release : Ids \cup {None}, healthy : BOOLEAN]]
  /\ ran \in [Demos -> SUBSET Digests]
  /\ manifest \in [Tags -> Images \cup {None}]
  /\ repoints \in 0 .. MaxRepoints
  /\ cache # None => cache \subseteq Candidates
  /\ request \in [Requests -> [pc : {"idle", "asked", "answered", "manifest"},
                              got : SUBSET Candidates]]
  /\ approved \subseteq Candidates

\* What production holds: answers on their way, the cache and the approved rows
Held ==
  approved \cup (IF cache = None THEN {} ELSE cache)
           \cup UNION {request[q].got : q \in Requests}

\* However stale the answer it was approved on, a release names images that every demo
\* of the answer was verified to run.
TestedOnEveryDemo == \A c \in Held : \A d \in c.demos : c.image[KindOf[d]] \in ran[d]

\* An approved tag means one pair of images for good, whatever its manifest is
\* replaced with and whoever publishes it again.
OneReleasePerTag == \A c, e \in Held : c.tag = e.tag => c.image = e.image

\* The safety of what production is asked to approve.
CandidateSound == CandidateTypeOK /\ TestedOnEveryDemo /\ OneReleasePerTag

\* Staging never answers with a release older than one it has answered with: a newer one
\* that has not reached every demo, or has left one, is never skipped for it.
NeverOlder ==
  [][\A q \in Requests :
       request[q].pc = "asked" /\ request'[q].pc = "answered"
         => \A c \in request'[q].got, e \in Held : Rank(e.tag) <= Rank(c.tag)]_candidateVars
=============================================================================
