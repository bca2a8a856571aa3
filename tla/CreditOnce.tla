----------------------------- MODULE CreditOnce -----------------------------
(* What incentive governance promises of the money: a candidate is paid at  *)
(* most once, only while it is cleared, and a reversal takes back exactly   *)
(* what was paid; a reversed candidate is never paid again.                 *)
EXTENDS Integers

CONSTANT Candidate

VARIABLES net,      \* coins a candidate has brought, corrections included
          used,     \* candidates that were ever paid
          cleared   \* candidates governance authorizes at the moment

vars == <<net, used, cleared>>

Init ==
    /\ net = [c \in Candidate |-> 0]
    /\ used = {}
    /\ cleared \in SUBSET Candidate

Credit(c) ==
    /\ c \notin used
    /\ c \in cleared
    /\ used' = used \cup {c}
    /\ net'[c] > 0
    /\ net' = [net EXCEPT ![c] = net'[c]]

Reverse(c) ==
    /\ c \in used
    /\ net[c] # 0
    /\ net' = [net EXCEPT ![c] = 0]
    /\ UNCHANGED used

\* Governance changes its mind: rules, policies, approvals and safety move.
Govern == UNCHANGED <<net, used>>

Next == \/ \E c \in Candidate : Credit(c) \/ Reverse(c)
        \/ Govern

Spec == Init /\ [][Next]_vars
=============================================================================
