--------------------------- MODULE Collaboration ---------------------------
(* Help between colleagues, its routing, and appreciation, inside teams and *)
(* projects that an admin forms and closes.                                 *)
(*                                                                          *)
(* A command of a person is one transaction whose row lock makes it one     *)
(* step.  The scheduled routing pass is not: it lists the requests that are *)
(* due, then locks them one by one and commits them together (`pass`), so   *)
(* that people, and other passes, act between its reading and its writing.  *)
EXTENDS Integers, Sequences, FiniteSets

CONSTANTS User, Unit, Pass,
          KindOf,        \* "TEAM" or "PROJECT", by unit
          InitRole, InitSeat,
          Movable,       \* people an admin moves between units or deactivates
          Switched,      \* capabilities an admin turns off and on
          Requesters,    \* people who ask for help
          Thankers,      \* people who thank or recognise
          Batch,         \* requests of one class a pass takes
          MaxRecords,    \* bound: requests, thanks and recognitions together
          MaxMoves       \* bound: commands of the admin and passes that die

Company == "company"
Nobody == "nobody"

ASSUME LimitsAssumption ==
    /\ Batch \in Nat \ {0} /\ MaxRecords \in Nat /\ MaxMoves \in Nat
    /\ Company \notin Unit /\ Nobody \notin User
    /\ Movable \cup Requesters \cup Thankers \subseteq User

VARIABLES active,    \* accounts in use
          seat,      \* seat[unit][user]: "NONE", "MEMBER" or "MANAGER"
          closed,    \* units closed for good
          enabled,   \* the optional capabilities switched on
          help,      \* requests in order of creation
          thanks,    \* thanks and recognitions
          events,    \* canonical events the two have emitted
          pass, moves

vars == <<active, seat, closed, enabled, help, thanks, events, pass, moves>>
company == <<active, seat, closed, enabled, moves>>

Capability == {"HELP", "THANKS", "RECOGNITION"}
Scope == Unit \cup {Company}
Role(u) == InitRole[u]
Admins == {u \in active : Role(u) = "ADMIN"}

-----------------------------------------------------------------------------
(* Organization *)

IsMember(s, u) == s # Company => seat[s][u] # "NONE"
Leads(s, u) == seat[s][u] = "MANAGER"

Open(s) == s \notin closed

\* A person acts in a scope they belong to, for managing ones as its manager.
Allowed(u, s, managing) ==
    s # Company =>
       /\ u \in active
       /\ Role(u) # "ADMIN" =>
             IF managing THEN Role(u) = "MANAGER" /\ Leads(s, u) ELSE IsMember(s, u)

Admit(u, s, managing, others) ==
    /\ Open(s)
    /\ Allowed(u, s, managing)
    /\ \A x \in others : x \in active /\ IsMember(s, x)

\* Mutant: the pass takes the lock only to look the company up.
NoPassHeld == \A p \in Pass : pass[p].pc # "none"

\* The shared locks a running pass holds keep admins off units and switches.
NoPass == \A p \in Pass : pass[p].pc = "idle"

Administer == Admins # {} /\ moves < MaxMoves /\ moves' = moves + 1

Close(s) ==
    /\ Administer /\ NoPass
    /\ s \notin closed
    /\ closed' = closed \cup {s}
    /\ UNCHANGED <<active, seat, enabled, help, thanks, events, pass>>

\* Whoever joins a team leaves the team they were in; projects may be many.
Seated(u, s, new) ==
    [x \in Unit |-> [seat[x] EXCEPT ![u] =
        IF x = s THEN new
        ELSE IF new # "NONE" /\ KindOf[s] = "TEAM" /\ KindOf[x] = "TEAM" THEN "NONE" ELSE @]]

Membership(u, s, new) ==
    /\ Administer /\ NoPass
    /\ s \notin closed
    /\ u \in active
    /\ new = "MANAGER" => Role(u) \in {"ADMIN", "MANAGER"}
    /\ seat[s][u] # new
    /\ seat' = Seated(u, s, new)
    /\ UNCHANGED <<active, closed, enabled, help, thanks, events, pass>>

\* Deactivating asks for no open tasks, seats or redemptions; help is not asked
\* for.  The last admin stays.
SetActive(u) ==
    /\ Administer
    /\ active' = IF u \in active THEN active \ {u} ELSE active \cup {u}
    /\ \E a \in active' : Role(a) = "ADMIN"
    /\ UNCHANGED <<seat, closed, enabled, help, thanks, events, pass>>

Switch(c) ==
    /\ Administer
    /\ c = "HELP" => NoPass
    /\ enabled' = IF c \in enabled THEN enabled \ {c} ELSE enabled \cup {c}
    /\ UNCHANGED <<active, seat, closed, help, thanks, events, pass>>

-----------------------------------------------------------------------------
(* Routing *)

\* The first hop of a unit is its members, of the company its admins; a
\* manager's seat is the second hop.  The requester is never told.
Audience(s, u, managing) ==
    (IF s = Company THEN Admins
     ELSE {x \in active : IF managing THEN Leads(s, x) ELSE IsMember(s, x)}) \ {u}

Snapshot(kind, to) == [kind |-> kind, to |-> to]

\* Initial routing, at creation and again for a request nobody was found for.
Routed(row) ==
    LET to == Audience(row.scope, row.requester, FALSE) IN
    [row EXCEPT !.routing = IF to # {} THEN "ROUTED" ELSE "UNRESOLVED",
                !.stale = FALSE,
                !.routings = @ \cup {Snapshot("INITIAL", to)}]

Escalated(row) ==
    LET managers == Audience(row.scope, row.requester, TRUE)
        to == IF managers # {} THEN managers ELSE Admins \ {row.requester}
    IN  [row EXCEPT !.routing = "ESCALATED",
                    !.escalations = @ + 1,
                    !.routings = @ \cup {Snapshot("ESCALATION", to)}]

-----------------------------------------------------------------------------
(* Help *)

Free(h) == \A p \in Pass : h \notin pass[p].held

NewRequest(u, s) ==
    [requester |-> u, scope |-> s, status |-> "OPEN", helper |-> Nobody, routing |-> "ROUTED",
     stale |-> FALSE, escalations |-> 0, routings |-> {}]

Room == Len(help) + Cardinality(thanks) < MaxRecords

\* Repeating a submission returns the request it made: nothing changes.
Create(u, s) ==
    /\ "HELP" \in enabled
    /\ u \in active
    /\ Room
    /\ Admit(u, s, FALSE, {})
    /\ help' = Append(help, Routed(NewRequest(u, s)))
    /\ UNCHANGED <<company, thanks, events, pass>>

\* Everybody a request names must be an active account before anything happens
\* to it, the helper who was deactivated meanwhile included.
Present(h, u) == {u, help[h].requester, help[h].helper} \ {Nobody} \subseteq active

Transition(h, u) == "HELP" \in enabled /\ Free(h) /\ Present(h, u)

Accept(h, u) ==
    /\ Transition(h, u)
    /\ u # help[h].requester
    /\ help[h].status = "OPEN"
    /\ Admit(u, help[h].scope, FALSE, {})
    /\ help' = [help EXCEPT ![h].status = "ACCEPTED", ![h].helper = u]
    /\ UNCHANGED <<company, thanks, events, pass>>

Finish(h, u) ==
    /\ Transition(h, u)
    /\ u = help[h].helper
    /\ help[h].status = "ACCEPTED"
    /\ Admit(u, help[h].scope, FALSE, {})
    /\ help' = [help EXCEPT ![h].status = "FINISHED"]
    /\ UNCHANGED <<company, thanks, events, pass>>

\* An event is recorded once for what it is about, with the people it names.
Emitted(kind, about, actor, subject) ==
    events \cup {[kind |-> kind, about |-> about, actor |-> actor, subject |-> subject]}

\* Mutant: the helper's place in the scope is not asked for again.
ConfirmUnscoped(h, u) ==
    /\ Transition(h, u)
    /\ u = help[h].requester
    /\ help[h].status = "FINISHED"
    /\ help' = [help EXCEPT ![h].status = "CONFIRMED"]
    /\ events' = Emitted("internal.help.completed", h, u, help[h].helper)
    /\ UNCHANGED <<company, thanks, pass>>

Confirm(h, u) ==
    /\ Transition(h, u)
    /\ u = help[h].requester
    /\ help[h].status = "FINISHED"
    /\ Admit(u, help[h].scope, FALSE, {help[h].helper})
    /\ help' = [help EXCEPT ![h].status = "CONFIRMED"]
    /\ events' = Emitted("internal.help.completed", h, u, help[h].helper)
    /\ UNCHANGED <<company, thanks, pass>>

\* The escalation window of a routed request expires.
Expire(h) ==
    /\ help[h].routing = "ROUTED" /\ ~help[h].stale
    /\ help' = [help EXCEPT ![h].stale = TRUE]
    /\ UNCHANGED <<company, thanks, events, pass>>

-----------------------------------------------------------------------------
(* The routing pass *)

Rest == [pc |-> "idle", list |-> {}, held |-> {}, new |-> {}]

\* Mutant: the window is compared the wrong way round.
DueEarly(class) ==
    {h \in DOMAIN help : /\ help[h].status = "OPEN"
                         /\ help[h].routing = class
                         /\ class = "ROUTED" => ~help[h].stale}

Due(class) ==
    {h \in DOMAIN help : /\ help[h].status = "OPEN"
                         /\ help[h].routing = class
                         /\ class = "ROUTED" => help[h].stale}

\* The oldest due requests, at most Batch of them.
Listed(class) == {h \in Due(class) : Cardinality({g \in Due(class) : g < h}) < Batch}

\* A pass that finds nothing changes nothing and is left out.
StartPass(p) ==
    /\ pass[p] = Rest
    /\ \E class \in {"ROUTED", "UNRESOLVED"} : Due(class) # {}
    /\ "HELP" \in enabled
    /\ pass' = [pass EXCEPT ![p] = [@ EXCEPT !.pc = "ROUTED", !.list = Listed("ROUTED")]]
    /\ UNCHANGED <<company, help, thanks, events>>

\* Mutant: what the list said is not looked at again under the lock.
StillListed(h, class) == help[h].status # "CONFIRMED"

\* The row under its lock: accepted or routed meanwhile, it is passed over.
StillOpen(h, class) == help[h].status = "OPEN" /\ help[h].routing = class

\* Company requests have no manager to escalate to and are passed over.
Handled(h, class) ==
    IF ~StillOpen(h, class) \/ (class = "ROUTED" /\ help[h].scope = Company) THEN {}
    ELSE {[id |-> h, row |-> IF class = "ROUTED" THEN Escalated(help[h]) ELSE Routed(help[h])]}

\* The next of the list, the oldest first.
PassRow(p) ==
    LET t == pass[p] IN
    \E h \in t.list :
        /\ \A g \in t.list : h <= g
        /\ \A q \in Pass \ {p} : h \notin pass[q].held
        /\ pass' = [pass EXCEPT ![p] = [pc |-> t.pc, list |-> t.list \ {h}, held |-> t.held \cup {h},
                                        new |-> t.new \cup Handled(h, t.pc)]]
        /\ UNCHANGED <<company, help, thanks, events>>

NextClass(p) ==
    /\ pass[p].pc = "ROUTED" /\ pass[p].list = {}
    /\ pass' = [pass EXCEPT ![p] = [@ EXCEPT !.pc = "UNRESOLVED", !.list = Listed("UNRESOLVED")]]
    /\ UNCHANGED <<company, help, thanks, events>>

\* A request as a pass leaves it.
Written(h, new) ==
    LET mine == {x \in new : x.id = h} IN IF mine = {} THEN help[h] ELSE (CHOOSE x \in mine : TRUE).row

CommitPass(p) ==
    /\ pass[p].pc = "UNRESOLVED" /\ pass[p].list = {}
    /\ help' = [h \in DOMAIN help |-> Written(h, pass[p].new)]
    /\ pass' = [pass EXCEPT ![p] = Rest]
    /\ UNCHANGED <<company, thanks, events>>

\* The pass fails or dies: its transaction is rolled back.
CrashPass(p) ==
    /\ pass[p] # Rest
    /\ moves < MaxMoves /\ moves' = moves + 1
    /\ pass' = [pass EXCEPT ![p] = Rest]
    /\ UNCHANGED <<active, seat, closed, enabled, help, thanks, events>>

PassStep(p) == StartPass(p) \/ PassRow(p) \/ NextClass(p) \/ CommitPass(p)

-----------------------------------------------------------------------------
(* Appreciation *)

EventOf == [thanks |-> "internal.peer.thanks", recognition |-> "internal.manager.recognition"]
CapabilityOf == [thanks |-> "THANKS", recognition |-> "RECOGNITION"]

\* Thanks to anybody, recognition by a manager of a participant; both within
\* the scope.  Repeating a submission returns the record it made.
Appreciate(kind, u, to, s) ==
    /\ CapabilityOf[kind] \in enabled
    /\ {u, to} \subseteq active
    /\ u # to
    /\ kind = "recognition" => Role(u) \in {"ADMIN", "MANAGER"} /\ Role(to) \in {"EMPLOYEE", "MANAGER"}
    /\ Admit(u, s, kind = "recognition", {to})
    /\ Room
    /\ LET row == [kind |-> kind, from |-> u, to |-> to, scope |-> s] IN
        /\ thanks' = thanks \cup {row}
        /\ events' = Emitted(EventOf[kind], row, u, to)
    /\ UNCHANGED <<company, help, pass>>

-----------------------------------------------------------------------------
Init ==
    /\ active = User
    /\ seat = InitSeat
    /\ closed = {}
    /\ enabled = Capability
    /\ help = <<>> /\ thanks = {} /\ events = {}
    /\ pass = [p \in Pass |-> Rest]
    /\ moves = 0

Organize ==
    \/ \E s \in Unit : Close(s)
    \/ \E u \in Movable, s \in Unit, new \in {"NONE", "MEMBER", "MANAGER"} : Membership(u, s, new)
    \/ \E u \in Movable : SetActive(u)
    \/ \E c \in Switched : Switch(c)

Helping ==
    \/ \E u \in Requesters, s \in Scope : Create(u, s)
    \/ \E h \in DOMAIN help :
          \/ \E u \in User : Accept(h, u) \/ Finish(h, u) \/ Confirm(h, u)
          \/ Expire(h)

Next ==
    \/ Organize
    \/ Helping
    \/ \E kind \in DOMAIN EventOf, u \in Thankers, to \in User, s \in Scope : Appreciate(kind, u, to, s)
    \/ \E p \in Pass : PassStep(p) \/ CrashPass(p)

Spec == Init /\ [][Next]_vars

\* The pass is run by a scheduler; people may stop.
FairSpec == Spec /\ \A p \in Pass : WF_vars(PassStep(p))

-----------------------------------------------------------------------------
(* Properties *)

\* An accepted request is never routed again and no request is escalated
\* twice, however passes, people and crashes interleave.
RoutingEndsOnce ==
    [][\A h \in DOMAIN help :
          /\ help'[h].routings # help[h].routings => help[h].status = "OPEN" /\ help'[h].status = "OPEN"
          /\ help'[h].escalations # 0 => help'[h].escalations = 1]_vars

\* Whoever an event credits shared the scope of the work with the person who
\* vouched for it, at the moment the event was recorded.
CreditsWithinScope ==
    [][\A e \in events' \ events :
          LET s == IF e.kind = "internal.help.completed" THEN help[e.about].scope ELSE e.about.scope IN
          /\ IsMember(s, e.subject) /\ Open(s)
          /\ {e.actor, e.subject} \subseteq active
          /\ e.actor # e.subject]_vars
=============================================================================
