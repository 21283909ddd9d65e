------------------------------ MODULE MCStores ------------------------------
(***************************************************************************)
(* Small instances of ManagedStores for TLC.  A budget bounds what happens  *)
(* in a behaviour; each of the initial budgets lets some of it meet.        *)
(* Seconds pass where failures are recorded.                                *)
(***************************************************************************)
EXTENDS ManagedStores, TLC

CONSTANTS s1, s2, p1, c1, u1, u2, u3

\* u1 and u2 answer as stores or not at all; u3 is a Head Office.
MCServes == u1 :> "down" @@ u2 :> "store" @@ u3 :> "head-office"

NoBudget == [create |-> 0, onboard |-> 0, repoint |-> 0, edit |-> 0, status |-> 0, provision |-> 0, poll |-> 0,
             reset |-> 0, crash |-> 0, wire |-> 0, wireAll |-> 0, list |-> 0, push |-> 0,
             merchant |-> 0, sweep |-> 0, check |-> 0, report |-> 0, second |-> 0]

Budgets ==
  {[NoBudget EXCEPT !.create = 3, !.repoint = 1, !.edit = 1, !.status = 2],
   [NoBudget EXCEPT !.create = 2, !.onboard = 1, !.status = 1],
   [NoBudget EXCEPT !.provision = 2, !.status = 1, !.crash = 1],
   [NoBudget EXCEPT !.provision = 3],
   [NoBudget EXCEPT !.provision = 1, !.poll = 1, !.reset = 1, !.crash = 1],
   [NoBudget EXCEPT !.poll = 2, !.reset = 2],
   [NoBudget EXCEPT !.wireAll = 2, !.crash = 1],
   [NoBudget EXCEPT !.wireAll = 1, !.list = 2, !.crash = 1],
   [NoBudget EXCEPT !.wire = 1, !.wireAll = 1, !.list = 1, !.merchant = 1],
   [NoBudget EXCEPT !.wire = 1, !.push = 2, !.edit = 1],
   [NoBudget EXCEPT !.sweep = 1, !.check = 1, !.second = 1],
   [NoBudget EXCEPT !.sweep = 1, !.status = 1, !.second = 1],
   [NoBudget EXCEPT !.check = 1, !.report = 2, !.second = 1]}

Registered(r, u) == [NoRow EXCEPT !.there = TRUE, !.url = u, !.company = c1,
                                  !.tills = IF r \in Stores THEN 1 ELSE 0]

MCId == s1 :> 1 @@ s2 :> 2 @@ p1 :> 1

MCRows(budget) ==
  IF budget.create > 0 THEN [r \in Rows |-> NoRow]
  ELSE IF budget.provision + budget.reset + budget.sweep + budget.check > 0
  THEN s1 :> Registered(s1, u1) @@ s2 :> NoRow @@ p1 :> Registered(p1, u3)
  ELSE s1 :> Registered(s1, u1) @@ s2 :> Registered(s2, u2) @@ p1 :> Registered(p1, u3)

MCStarts == {[rows |-> MCRows(budget), budget |-> budget] : budget \in Budgets}

\* Executions, callers and faults are alike.
Alike == Permutations(Jobs) \cup Permutations(Callers) \cup Permutations(Checks)
           \cup Permutations(Faults)
=============================================================================
