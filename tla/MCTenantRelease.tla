-------------------------- MODULE MCTenantRelease --------------------------
(* Small instances of TenantRelease, with the page's view of it, for TLC. *)
EXTENDS TenantTarget, TLC

CONSTANTS r1, r2

\* r1 opens schema 1; r2 migrates to schema 2 and still opens 1.
MCSchemaVersion == r1 :> 1 @@ r2 :> 2
MCSchemaMin     == r1 :> 1 @@ r2 :> 1
MCSchemaMax     == r1 :> 1 @@ r2 :> 2

Symmetry == Permutations(Attempts)
=============================================================================
