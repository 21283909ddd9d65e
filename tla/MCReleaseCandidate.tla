------------------------- MODULE MCReleaseCandidate -------------------------
(* A small instance of ReleaseCandidate for TLC. *)
EXTENDS ReleaseCandidate, TLC

CONSTANTS demoStore, demoHo, t1, t2, x1, x2

MCKindOf == demoStore :> "store" @@ demoHo :> "ho"

Pair(s, h) == "store" :> s @@ "ho" :> h

\* The second tag is built twice, once around the first tag's store image.
MCBuilds == t1 :> {Pair(x1, x1)} @@ t2 :> {Pair(x2, x2), Pair(x1, x2)}

\* By hand, the second tag's store image may come alone.
MCByHand == {[kind |-> "store", tag |-> t2, digest |-> x2]}
=============================================================================
