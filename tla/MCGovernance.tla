---------------------------- MODULE MCGovernance ----------------------------
(* A manager praises an employee; one rule, edited once; one policy; the      *)
(* safety settings change once, to a review or to a suppression.              *)
EXTENDS Provenance, TLC

CONSTANTS adm, mgr, emp, praise, rule, policy, w1, w2

People == {adm, mgr, emp}
Events == {praise}
RuleNames == {rule}
PolicyNames == {policy}
Server == {w1, w2}
AnyRequest == Permutations(Server)
Promoted == {emp}
Issuers == {adm}
Promotions == {"ADMIN", "EMPLOYEE"}
ScopeLeads == {mgr}
Roles0 == [u \in User |-> IF u = adm THEN "ADMIN" ELSE IF u = mgr THEN "MANAGER" ELSE "EMPLOYEE"]

Recorded0 == [e \in Event |-> [type |-> "customer.praise", actor |-> mgr, subject |-> emp, at |-> 5,
                               payload |-> [stars |-> Num(4)], trusted |-> TRUE]]

\* Three half coins or two coins for praise of at least three stars.
Stars == {[field |-> <<"payload", "stars">>, op |-> "GTE", value |-> Num(3)]}
Thanks(amount, hint) == [active |-> TRUE, type |-> "customer.praise", conditions |-> Stars,
                         data |-> [amount |-> amount, hint |-> hint]]
RewardsOffered == {Thanks(3, "MANAGER"), Thanks(4, "MANAGER")}

\* Small amounts are allowed; or everything is only observed.
Small == {[field |-> <<"candidate", "data", "proposedReward">>, op |-> "LTE", value |-> Num(3)]}
PoliciesOffered == {[active |-> TRUE, type |-> "*", conditions |-> Small, decision |-> "ALLOW"],
                    [active |-> TRUE, type |-> "*", conditions |-> {}, decision |-> "SHADOW_ONLY"]}

Quiet == [n \in Detectors |->
    [window |-> IF n = "SELF_BENEFIT" THEN 1 ELSE 3, threshold |-> IF n = "SELF_BENEFIT" THEN 1 ELSE 9,
     outcome |-> "OBSERVE", prohibited |-> FALSE]]
Watch(outcome) == [Quiet EXCEPT !["RECIPIENT_VELOCITY"] = [@ EXCEPT !.threshold = 1, !.outcome = outcome]]
SafetyOffered == {Watch("REQUIRE_REVIEW"), Watch("SUPPRESS_INCENTIVE")}
Bounds == [rule |-> 2, policy |-> 1, settings |-> 1, candidates |-> 1, decisions |-> 2, requests |-> 1, assessments |-> 2]
=============================================================================
