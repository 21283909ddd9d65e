---------------------------- MODULE MCPromotion ----------------------------
(* Small instances of Promotion for TLC. *)
EXTENDS Promotion, TLC

\* Staging tested one digest under every tag; a repointed tag carries another.
MCStaged == [t \in Tags |-> CHOOSE d \in Digests : TRUE]

\* Which of two tags is which changes nothing.
MCSymmetry == Permutations(Tags)
=============================================================================
