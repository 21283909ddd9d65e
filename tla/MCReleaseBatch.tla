--------------------------- MODULE MCReleaseBatch ---------------------------
(* Small instances of ReleaseBatch for TLC. *)
EXTENDS ReleaseBatch, TLC

\* Every rollout selects the whole fleet.
MCTargetSets == {1 .. NumTenants}

\* A tenant not yet provisioned first, or last.
MCFleets ==
  LET r1 == CHOOSE r \in Current : TRUE
  IN  {<<None, r1, r1>>, <<r1, r1, None>>}

\* Which of two rollouts of one release is which changes nothing.
MCSymmetry == Permutations(Batches)
=============================================================================
