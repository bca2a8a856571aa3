---------------------------- MODULE CyclePayroll ----------------------------
(* What the task engine promises of the money, for whoever only looks at     *)
(* the accounts: coins go to the holder of the work and only within the      *)
(* promise, a promise is made anew only while nobody works or when work is    *)
(* taken off somebody, finished work has been paid in full, and what a       *)
(* closed cycle brought stays with those who earned it.                     *)
EXTENDS Integers

CONSTANTS Task, User, Nobody, Cycle

VARIABLES books,   \* per task: phase, cycle, promise, paid in this cycle, holder
          earned   \* coins by task, cycle and person

vars == <<books, earned>>

Init ==
    /\ \A t \in Task :
          /\ books[t].phase = "NONE" /\ books[t].cycle = 1
          /\ books[t].paid = 0 /\ books[t].holder = Nobody
    /\ earned = [t \in Task |-> [c \in Cycle |-> [u \in User |-> 0]]]

Running(t) == books[t].phase = "OPEN"
Held(t) == Running(t) /\ books[t].holder # Nobody
Free(t) == Running(t) /\ books[t].holder = Nobody

Amount(t) == books'[t].paid - books[t].paid

\* The holder earns what the task pays, and the promise covers it.
Pays(t) ==
    /\ Amount(t) >= 0 /\ books'[t].paid <= books[t].promise
    /\ earned' = [earned EXCEPT ![t][books[t].cycle][books[t].holder] = @ + Amount(t)]

PaysNobody == UNCHANGED earned

Open(t) ==
    /\ books[t].phase = "NONE"
    /\ books'[t].promise >= 0
    /\ books'[t] = [books[t] EXCEPT !.phase = "OPEN", !.promise = books'[t].promise]
    /\ PaysNobody

\* Nobody works for the old promise and nothing was paid from it.
Reprice(t) ==
    /\ Free(t) /\ books[t].paid = 0
    /\ books'[t].promise >= 0
    /\ books'[t] = [books[t] EXCEPT !.promise = books'[t].promise]
    /\ PaysNobody

Take(t) ==
    /\ Free(t)
    /\ \E u \in User : books'[t] = [books[t] EXCEPT !.holder = u]
    /\ PaysNobody

GiveBack(t) ==
    /\ Held(t)
    /\ books'[t] = [books[t] EXCEPT !.holder = Nobody]
    /\ PaysNobody

\* Part of the work is accepted and the rest taken off the holder, for what is
\* left of the promise or for a new one.
HandOn(t) ==
    /\ Held(t) /\ Pays(t)
    /\ books'[t].promise >= books'[t].paid
    /\ books'[t] = [books[t] EXCEPT !.paid = books'[t].paid, !.promise = books'[t].promise,
                                    !.holder = Nobody]

Finish(t) ==
    /\ Held(t) /\ Pays(t)
    /\ books'[t] = [books[t] EXCEPT !.phase = "DONE", !.paid = books[t].promise]

Stop(t) ==
    /\ \/ Held(t) /\ Pays(t)
       \/ Free(t) /\ Amount(t) = 0 /\ PaysNobody
    /\ books'[t] = [books[t] EXCEPT !.phase = "STOPPED", !.paid = books'[t].paid]

\* The next cycle starts from the promise as it stands.
Renew(t) ==
    /\ books[t].phase \in {"DONE", "STOPPED"}
    /\ books'[t] = [books[t] EXCEPT !.phase = "OPEN", !.cycle = @ + 1, !.paid = 0,
                                    !.holder = Nobody]
    /\ PaysNobody

Move(t) ==
    \/ Open(t) \/ Reprice(t) \/ Take(t) \/ GiveBack(t)
    \/ HandOn(t) \/ Finish(t) \/ Stop(t) \/ Renew(t)

Next == \E t \in Task : Move(t) /\ \A o \in Task \ {t} : books'[o] = books[o]

Spec == Init /\ [][Next]_vars
=============================================================================
