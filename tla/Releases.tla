------------------------------ MODULE Releases ------------------------------
(* What a release is called between staging, GitHub and production: its tag  *)
(* and the digest of the image of each kind.                                 *)
EXTENDS Integers, FiniteSets, FiniteSetsExt

CONSTANTS
  None,       \* SQL NULL, no manifest, no answer held
  Tags,       \* release tags
  Digests     \* image digests, of either kind

Kinds == {"store", "ho"}   \* image_releases.kind: a workflow run makes one batch of each

ASSUME NameAssumption == None \notin Tags \cup Digests \cup Nat
=============================================================================
