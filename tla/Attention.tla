----------------------------- MODULE Attention ------------------------------
(* What asks for a person's attention: the help half of attention/service.py *)
(* (the incentive half is in Provenance).  The lists are read from the state *)
(* of Collaboration and change nothing.                                      *)
EXTENDS Collaboration

Item(h, category, next) == [help |-> h, category |-> category, next |-> next]

\* Requests whose routing ever named u; a snapshot is never taken back.
RoutedTo(u) == {h \in DOMAIN help : \E r \in help[h].routings : u \in r.to}

\* What each request asks of u: its requester confirms, its helper finishes,
\* those it was routed to may accept.
HelpPersonal(u) ==
    LET Is(h, status) == help[h].status = status
        mine == {h \in DOMAIN help : help[h].requester = u}
        helping == {h \in DOMAIN help : help[h].helper = u}
    IN  {Item(h, "ACTION_REQUIRED", "confirm") : h \in {x \in mine : Is(x, "FINISHED")}}
        \cup {Item(h, "WAITING", "none") : h \in {x \in mine : Is(x, "OPEN") \/ Is(x, "ACCEPTED")}}
        \cup {Item(h, "ACTION_REQUIRED", "finish") : h \in {x \in helping : Is(x, "ACCEPTED")}}
        \cup {Item(h, "WAITING", "none") : h \in {x \in helping : Is(x, "FINISHED")}}
        \cup {Item(h, "RESOLVED_RECENTLY", "none") : h \in {x \in mine \cup helping : Is(x, "CONFIRMED")}}
        \cup {Item(h, "ACTION_REQUIRED", "accept") : h \in {x \in RoutedTo(u) \ mine : Is(x, "OPEN")}}

\* What a manager of the scope sees of the team's help: a request nobody was
\* found for, or whose window expired, needs them.
FlowHelp(u) ==
    LET scoped == {h \in DOMAIN help : Role(u) # "EMPLOYEE" /\ Allowed(u, help[h].scope, TRUE)}
        Needs(h) == help[h].routing \in {"UNRESOLVED", "ESCALATED"}
    IN  IF "HELP" \notin enabled THEN {}
        ELSE {Item(h, IF help[h].status = "OPEN" /\ Needs(h) THEN "ACTION_REQUIRED" ELSE "WAITING",
                   IF help[h].status = "OPEN" /\ Needs(h) THEN "review" ELSE "none") :
                 h \in {x \in scoped : help[x].status \in {"OPEN", "ACCEPTED"}}}
             \cup {Item(h, "RESOLVED_RECENTLY", "none") : h \in {x \in scoped : help[x].status = "CONFIRMED"}}

-----------------------------------------------------------------------------
(* Properties *)

\* Whoever a routing names finds the request on their list, belongs to its
\* scope at that very moment or is an admin, and is not the one who asks: the
\* routing pass and moves between units do not interleave.
AskedBelong ==
    [][\A h \in DOMAIN help' : LET row == help'[h] IN
          \A r \in row.routings \ (IF h \in DOMAIN help THEN help[h].routings ELSE {}) : \A u \in r.to :
              /\ Item(h, "ACTION_REQUIRED", "accept") \in HelpPersonal(u)'
              /\ Role(u) = "ADMIN" \/ (row.scope # Company /\ seat'[row.scope][u] # "NONE")]_vars

\* A unit's request whose window expired reaches the flow of somebody who may
\* intervene, or is picked up, as long as the help capability is on.
Waiting(h) ==
    /\ h \in DOMAIN help
    /\ help[h].scope # Company
    /\ help[h].status = "OPEN" /\ help[h].routing = "ROUTED" /\ help[h].stale
Reached(h) ==
    h \in DOMAIN help =>
        \/ help[h].status # "OPEN"
        \/ \E v \in active : Item(h, "ACTION_REQUIRED", "review") \in FlowHelp(v)
StaleHelpEscalates ==
    \A h \in 1..MaxRecords : Waiting(h) ~> (Reached(h) \/ "HELP" \notin enabled)
=============================================================================
