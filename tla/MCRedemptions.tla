--------------------------- MODULE MCRedemptions ---------------------------
(* Small companies for the catalog.                                        *)
EXTENDS Redemptions, TLC

CONSTANTS adm, mgr, emp, rwd, w1, w2

Company == {adm, mgr, emp}
Pair == {adm, emp}
Catalog == {rwd}
Server == {w1, w2}
AnyRequest == Permutations(Server)

Roles == [u \in User |-> IF u = adm THEN "ADMIN" ELSE IF u = mgr THEN "MANAGER" ELSE "EMPLOYEE"]

\* Two pieces at two coins, one for each person.
Mug == [stock |-> 2, limit |-> 1, cost |-> 2, for |-> "BOTH", open |-> TRUE]
Shop == [r \in Reward |-> Mug]

\* One free piece, for employees or for all; the catalog is empty at first.
Gift == [stock |-> 1, limit |-> Unlimited, cost |-> 0, for |-> "EMPLOYEES", open |-> TRUE]
EmptyShop == [r \in Reward |-> NoRow]
GiftForms == {Gift}

\* A form that changes the price and the stock.
Restocked == {[Mug EXCEPT !.cost = 1, !.stock = 1]}

Money == {"REDEEM", "APPROVE", "FULFILL", "CANCEL", "ADJUST"}
MoneyAndForms == Money \cup {"SAVE"}
Staff == {"SAVE", "TOGGLE", "UPDATE", "REDEEM", "APPROVE", "FULFILL", "CANCEL"}
Grants == {-2, 2}
=============================================================================
