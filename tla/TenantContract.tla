--------------------------- MODULE TenantContract ---------------------------
(***************************************************************************)
(* What applying releases promises for one tenant: attempts take turns, and *)
(* the tenant's current release changes only to what the attempt at work    *)
(* asked for, when that attempt succeeds or first provisions the tenant.    *)
(***************************************************************************)
CONSTANTS Attempts, Releases, None

VARIABLES
  worker,   \* the attempt at work, or None
  asked,    \* the release it was asked to apply, or None
  current   \* the tenant's recorded release, or None before it is provisioned

state == <<worker, asked, current>>

Init ==
  /\ worker = None
  /\ asked = None
  /\ current \in Releases \cup {None}

Begin(a, r) ==
  /\ worker = None
  /\ worker' = a
  /\ asked' = r
  /\ current' = current

Provision ==
  /\ worker # None
  /\ current = None
  /\ current' = asked
  /\ UNCHANGED <<worker, asked>>

\* The attempt succeeds, fails, or is cut off by a restart.
End ==
  /\ worker # None
  /\ worker' = None
  /\ asked' = None
  /\ current' \in {current, asked}

Next ==
  \/ \E a \in Attempts, r \in Releases : Begin(a, r)
  \/ Provision
  \/ End

Spec == Init /\ [][Next]_state
=============================================================================
