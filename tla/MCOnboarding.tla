---------------------------- MODULE MCOnboarding ----------------------------
EXTENDS Onboarding
CONSTANTS c1, c2, s1, s2, small, large
MCCeiling == (small :> 1) @@ (large :> 2)
MCCap == (small :> 1) @@ (large :> 2)
Body(kind, tills, owner, count, moved) ==
  [kind |-> kind, tills |-> tills, owner |-> owner, count |-> count, moved |-> moved]
MCEdits ==
  {Body("warehouse", None, Kept, None, FALSE), Body("store", 1, Kept, None, FALSE), Body(None, 2, Kept, None, TRUE)}
  \cup {Body(None, None, o, n, m) : o \in {c1, c2, None}, n \in {None, 1}, m \in BOOLEAN}
E(s, kind, tills, licensed) == [s |-> s, kind |-> kind, tills |-> tills, licensed |-> licensed]
MCWizards ==
  {[multi |-> FALSE, auto |-> a, stores |-> <<E(s1, "store", 1, 1)>>] : a \in BOOLEAN}
  \cup {[multi |-> FALSE, auto |-> FALSE, stores |-> <<E(s1, "warehouse", 0, 0), E(s2, "store", 1, 1)>>]}
  \cup {[multi |-> TRUE, auto |-> TRUE, stores |-> <<E(s1, "store", 2, 2), E(s2, "warehouse", 0, 0)>>]}
MCBranches == {None, E(s2, "store", 1, 1), E(s2, "warehouse", 0, 0)}
MCBudgets == {[office |-> 3, clients |-> 0, boot |-> 1], [office |-> 1, clients |-> 1, boot |-> 1],
              [office |-> 2, clients |-> 1, boot |-> 0], [office |-> 0, clients |-> 2, boot |-> 1]}
Alike == Permutations(Companies) \cup Permutations(Jobs) \cup Permutations(Workers)
=============================================================================
