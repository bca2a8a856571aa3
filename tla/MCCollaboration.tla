-------------------------- MODULE MCCollaboration --------------------------
(* An admin, the manager of a team and a member of it who asks for help.    *)
EXTENDS Attention

CONSTANTS adm, lead, emp, team, other

People == {adm, lead, emp}
Teams == {team, other}
AllTeams == [s \in Unit |-> "TEAM"]
Roles == [u \in User |-> IF u = adm THEN "ADMIN" ELSE IF u = lead THEN "MANAGER" ELSE "EMPLOYEE"]
Seats == [s \in Unit |-> [u \in User |->
    IF s # team \/ u = adm THEN "NONE" ELSE IF u = lead THEN "MANAGER" ELSE "MEMBER"]]
Leader == {lead}
Asking == {emp}
=============================================================================
