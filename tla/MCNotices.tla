----------------------------- MODULE MCNotices ------------------------------
(* Help is escalated to two people, and told again; another request is      *)
(* escalated to one of them, who then has two notices of one class when the  *)
(* other is not there to take a row.  A task only one of them may see is     *)
(* assigned, and a batch names a record there is not.  One account is still  *)
(* to be activated, the other comes and goes.                                *)
EXTENDS Notices

CONSTANTS mate, boss, h1, h2, t1

People == {mate, boss}
OnRecord == {mate, boss, t1}
Said == [escalated |-> [event |-> "HELP_ESCALATED", to |-> People, viewers |-> People, about |-> {}, ref |-> h1],
         another   |-> [event |-> "HELP_ESCALATED", to |-> {boss}, viewers |-> People, about |-> {}, ref |-> h2],
         assigned  |-> [event |-> "TASK_ASSIGNED", to |-> People, viewers |-> {boss}, about |-> {t1}, ref |-> t1],
         broken    |-> [event |-> "HELP_ROUTED", to |-> {boss}, viewers |-> People, about |-> {h1}, ref |-> h2]]
Newcomers == {boss}
Leaving == {mate}
Reading == {mate}
=============================================================================
