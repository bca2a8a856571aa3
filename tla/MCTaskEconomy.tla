--------------------------- MODULE MCTaskEconomy ---------------------------
(* Small companies for the task engine.  A reward of 9 quarter coins makes *)
(* the rounding matter: 60% of it is 6 quarters (5.4 rounded up to a half  *)
(* coin), a further 40% would be 4, and only 3 are left.                    *)
EXTENDS TaskEconomy, TLC

CONSTANTS adm, mgr, emp, eve

\* One of each role; an admin and an employee; an admin and two employees.
Company == {adm, mgr, emp}
Pair == {adm, emp}
TwoWorkers == {adm, emp, eve}

Roles == [u \in User |-> IF u = adm THEN "ADMIN" ELSE IF u = mgr THEN "MANAGER" ELSE "EMPLOYEE"]
Seats == [u \in User |-> IF u = mgr THEN "MANAGER" ELSE IF u \in {emp, eve} THEN "MEMBER" ELSE "NONE"]

\* Access an admin grants: none; the manager may review; or the employee may
\* view and review once promoted to manager.
NoGrants == {<<{}, {}>>}
Reviewer == {<<{}, {mgr}>>}
Promoted == {<<{emp}, {emp}>>}

\* Two employees of one unit are interchangeable.
Colleagues == Permutations({emp, eve})
=============================================================================
