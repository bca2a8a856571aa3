------------------------------ MODULE Inbound ------------------------------
(* What enters from outside: posts to a generic webhook, news of a GitHub   *)
(* repository and commands from a Slack workspace.  A provider signs a      *)
(* message, sends it, and sends it again when it does not hear back;        *)
(* deliveries overlap each other and the admin who rotates a secret,        *)
(* disables a source, maps an identity or moves people and work.            *)
(*                                                                          *)
(* A delivery is one transaction, shown lock by lock: it reads its source   *)
(* under a shared row lock, waits for what identifies the delivery, acts,   *)
(* and commits.  Commands of the admin wait for the locks and are one step. *)
EXTENDS Integers, SequencesExt, FiniteSets

CONSTANTS Request,               \* deliveries at work at a time
          Source, User, Admins, External, Identity, Body, Team, Project,
          Named,                 \* the name of a unit, as words
          KindOf,                \* "WEBHOOK", "GITHUB" or "SLACK", by source
          About,                 \* what a body says, by body
          Places,                \* bound: seats that are taken and left
          MaxSources,            \* bound: sources created
          MaxSends,              \* bound: messages sent and sent again
          MaxMoves,              \* bound: commands of the admin
          MaxTime,               \* bound: the clock
          Skew                   \* how far ahead of ours a provider's clock may be

Nobody == "nobody"
Company == "company"

Unit == Team \cup Project
Absent == -1

Post == [for : {"WEBHOOK"}, parsed : BOOLEAN, canonical : BOOLEAN, at : Nat]
News == [for : {"GITHUB"}, sender : External, author : External \cup {Nobody},
         event : {"pull_request", "issues", "push"}, action : {"opened", "closed", "labeled"},
         state : {"open", "closed"}, merged : BOOLEAN,
         times : [{"opened", "closed", "merged"} -> Nat \cup {Absent}],
         bound : BOOLEAN,       \* of the repository of its source
         agrees : BOOLEAN]      \* header, action and resource fit
Asked == [for : {"SLACK"}, sender : External, author : External \cup {Nobody},
          command : {"HELP", "THANKS"},
          formed : BOOLEAN,     \* a form of this workspace
          keyword : {"team", "project", "general", "none"}, words : Seq(STRING)]

ASSUME LimitsAssumption ==
    /\ {MaxSources, MaxSends, MaxMoves, MaxTime, Skew} \subseteq Nat
    /\ Nobody \notin User \cup External /\ Company \notin Unit /\ Team \cap Project = {}
    /\ IsFiniteSet(Unit)
    /\ Admins \subseteq User /\ Places \subseteq User \X Unit /\ Named \in [Unit -> Seq(STRING)]
    /\ \A b \in Body : About[b] \in Post \cup News \cup Asked

VARIABLES source,      \* created sources: active, and the version of their secret
          mapped,      \* <<source, external identity>> to a user
          active,      \* accounts in use
          enabled,     \* capabilities switched on
          attribution, \* intervals in which a source's work belongs to a project
          closedAt,    \* when a unit closed
          seats,       \* who is a member of which unit
          deliveries,  \* what connectors keep of the messages they took
          events,      \* canonical events, each with its receipt
          request, sends, moves, clock

vars == <<source, mapped, active, enabled, attribution, closedAt, seats, deliveries, events,
          request, sends, moves, clock>>
settings == <<source, mapped, active, enabled, attribution, closedAt, seats, moves>>
stored == <<deliveries, events>>

Created == DOMAIN source
Never == MaxTime + Skew + 1

-----------------------------------------------------------------------------
(* Locks *)

Rest == [pc |-> "idle"]
InFlight == {r \in Request : request[r].pc \in {"waiting", "staged"}}

\* Mutant: a delivery keeps no lock on its source.
HoldsNothing(r, s) == FALSE

\* The shared lock on the row of its source, from verification on.
HoldsSource(r, s) == r \in InFlight /\ request[r].source = s

HoldsUser(r, u) == request[r].pc = "staged" /\ u \in request[r].users

\* Connectors take the company's shared lock, the generic webhook none.
HoldsCompany(r) == r \in InFlight /\ KindOf[request[r].source] # "WEBHOOK"
HoldsCapability(r, c) ==
    r \in InFlight /\ KindOf[request[r].source] = c /\ (c = "SLACK" => request[r].pc = "staged")

-----------------------------------------------------------------------------
(* Administration *)

Command == moves < MaxMoves /\ moves' = moves + 1

CreateSource(s) ==
    /\ s \notin Created /\ Cardinality(Created) < MaxSources
    /\ source' = [x \in Created \cup {s} |-> IF x = s THEN [active |-> TRUE, secret |-> 0] ELSE source[x]]
    /\ UNCHANGED <<mapped, active, enabled, attribution, closedAt, seats, stored, request, sends, moves, clock>>

\* A connector is managed while its capability is on; the row is locked.
Owned(s) ==
    /\ s \in Created
    /\ \A r \in Request : ~HoldsSource(r, s)
    /\ KindOf[s] # "WEBHOOK" => KindOf[s] \in enabled

ChangeSource(s, rotate) ==
    /\ Command /\ Owned(s)
    /\ source' = [source EXCEPT ![s] = IF rotate THEN [@ EXCEPT !.secret = @ + 1]
                                                  ELSE [@ EXCEPT !.active = ~@]]
    /\ UNCHANGED <<mapped, active, enabled, attribution, closedAt, seats, stored, request, sends, clock>>

Mapping(s, x, u) ==
    /\ Command /\ Owned(s) /\ KindOf[s] # "WEBHOOK"
    /\ u \in active \cup {Nobody}
    /\ mapped[<<s, x>>] # u
    /\ mapped' = [mapped EXCEPT ![<<s, x>>] = u]
    /\ UNCHANGED <<source, active, enabled, attribution, closedAt, seats, stored, request, sends, clock>>

SetActive(u) ==
    /\ Command
    /\ \A r \in Request : ~HoldsUser(r, u)
    /\ active' = IF u \in active THEN active \ {u} ELSE active \cup {u}
    /\ UNCHANGED <<source, mapped, enabled, attribution, closedAt, seats, stored, request, sends, clock>>

Switch(c) ==
    /\ Command
    /\ \A r \in Request : ~HoldsCapability(r, c)
    /\ enabled' = IF c \in enabled THEN enabled \ {c} ELSE enabled \cup {c}
    /\ UNCHANGED <<source, mapped, active, attribution, closedAt, seats, stored, request, sends, clock>>

Current(s) == {a \in attribution : a.source = s /\ a.until = Never}

\* The open interval ends and, for a project, a new one begins.
Reassigned(s, p) ==
    (attribution \ Current(s)) \cup {[a EXCEPT !.until = clock] : a \in Current(s)}
        \cup (IF p = Company THEN {} ELSE {[source |-> s, project |-> p, from |-> clock, until |-> Never]})

\* `assign`, under the company's exclusive lock.
Assign(s, p) ==
    /\ Command /\ Owned(s) /\ KindOf[s] = "GITHUB"
    /\ \A r \in Request : ~HoldsCompany(r)
    /\ p # Company => closedAt[p] = Never
    /\ p \notin {a.project : a \in Current(s)} /\ (p = Company => Current(s) # {})
    /\ attribution' = Reassigned(s, p)
    /\ UNCHANGED <<source, mapped, active, enabled, closedAt, seats, stored, request, sends, clock>>

CloseUnit(n) ==
    /\ Command
    /\ \A r \in Request : ~HoldsCompany(r)
    /\ closedAt[n] = Never
    /\ closedAt' = [closedAt EXCEPT ![n] = clock]
    /\ UNCHANGED <<source, mapped, active, enabled, attribution, seats, stored, request, sends, clock>>

\* A new seat in a team ends the one in another.
Membership(u, n) ==
    /\ Command
    /\ \A r \in Request : ~HoldsCompany(r)
    /\ closedAt[n] = Never /\ u \in active
    /\ seats' = IF <<u, n>> \in seats THEN seats \ {<<u, n>>}
                ELSE {p \in seats : ~(p[1] = u /\ {p[2], n} \subseteq Team)} \cup {<<u, n>>}
    /\ UNCHANGED <<source, mapped, active, enabled, attribution, closedAt, stored, request, sends, clock>>

Tick ==
    /\ clock < MaxTime
    /\ clock' = clock + 1
    /\ UNCHANGED <<settings, stored, request, sends>>

-----------------------------------------------------------------------------
(* A delivery *)

\* A message under an identity the provider gave it, signed with a secret that
\* was handed out; nothing keeps it from coming twice, late or out of order.
Send(r, s, id, b, k) ==
    /\ request[r] = Rest
    /\ sends < MaxSends
    /\ s \in Created /\ k \in 0..source[s].secret /\ KindOf[s] = About[b].for
    /\ request' = [request EXCEPT ![r] = [pc |-> "arrived", source |-> s, id |-> id, body |-> b, key |-> k]]
    /\ sends' = sends + 1
    /\ UNCHANGED <<settings, stored, clock>>

\* What a delivery of this kind waits for, in the order it does.
Keys(kind, t) ==
    IF kind = "GITHUB" THEN <<<<"body", t.body>>, <<"id", t.id>>>> ELSE <<<<"id", t.id>>>>

Refuse(r) == request' = [request EXCEPT ![r] = Rest] /\ UNCHANGED <<settings, stored, sends, clock>>

\* The signature is checked against the locked row; GitHub's capability too.
Verified(t) ==
    /\ source[t.source].active
    /\ t.key = source[t.source].secret
    /\ KindOf[t.source] = "GITHUB" => "GITHUB" \in enabled

Verify(r) ==
    /\ request[r].pc = "arrived"
    /\ IF Verified(request[r])
       THEN /\ request' = [request EXCEPT ![r] =
                 [pc |-> "waiting", source |-> @.source, id |-> @.id, body |-> @.body, key |-> @.key,
                  wait |-> Keys(KindOf[@.source], @), held |-> {}]]
            /\ UNCHANGED <<settings, stored, sends, clock>>
       ELSE Refuse(r)

Held(s) == UNION {request[r].held : r \in {q \in InFlight : request[q].source = s}}

\* An advisory lock, or for the webhook the unique index an insert waits on.
Wait(r) ==
    LET t == request[r] IN
    /\ t.pc = "waiting" /\ t.wait # <<>>
    /\ Head(t.wait) \notin Held(t.source)
    /\ request' = [request EXCEPT ![r].wait = Tail(@), ![r].held = @ \cup {Head(t.wait)}]
    /\ UNCHANGED <<settings, stored, sends, clock>>

\* Mutant: the signed body is forgotten.
SameIdentity(d, t) == d.id = t.id

\* What was already taken: by its identity, for GitHub by its signed body too,
\* as the query and the unique indexes under it have it.
Same(d, t) == d.id = t.id \/ (KindOf[t.source] = "GITHUB" /\ d.body = t.body)

Previous(t) == {d \in deliveries : d.source = t.source /\ Same(d, t)}

\* Mutant: whoever is mapped is named.
MappedUser(s, x) == IF x = Nobody THEN Nobody ELSE mapped[<<s, x>>]

\* The account an external identity stands for, if it is in use.
Resolved(s, x) == IF x = Nobody THEN Nobody ELSE IF mapped[<<s, x>>] \in active THEN mapped[<<s, x>>] ELSE Nobody

Event(t, actor, subject, scope) ==
    [source |-> t.source, id |-> t.id, body |-> t.body, actor |-> actor, subject |-> subject,
     scope |-> scope, received |-> clock]

Delivery(t, result) == [source |-> t.source, id |-> t.id, body |-> t.body, key |-> t.key, result |-> result]

\* Acting reads what has committed; what it writes shows when it commits.
Stage(r, users, delivery, new) ==
    /\ request' = [request EXCEPT ![r] =
          [pc |-> "staged", source |-> @.source, id |-> @.id, body |-> @.body, key |-> @.key, held |-> @.held,
           users |-> users \ {Nobody}, delivery |-> delivery, events |-> new]]
    /\ UNCHANGED <<settings, stored, sends, clock>>

Ready(r, kind) == LET t == request[r] IN t.pc = "waiting" /\ t.wait = <<>> /\ KindOf[t.source] = kind

Repeated(r) == \E d \in Previous(request[r]) : Stage(r, {}, d, {})

\* Not from further ahead than clocks may differ, and not without a time.
Timely(at) == Absent < at /\ at <= clock + Skew

\* What any event must be, whoever reports it.
Canonical(b) == b.canonical

Checked(b) == Canonical(b) /\ Timely(b.at)

\* Generic webhook: whatever is under this identity already stands; nobody is
\* named.  The event is all there is.
ActWebhook(r) ==
    LET t == request[r] IN
    /\ Ready(r, "WEBHOOK")
    /\ IF ~About[t.body].parsed \/ ~Checked(About[t.body]) THEN Refuse(r)
       ELSE IF Previous(t) # {} THEN Repeated(r)
       ELSE Stage(r, {}, Delivery(t, "ACCEPTED"), {Event(t, Nobody, Nobody, Company)})

-----------------------------------------------------------------------------
(* GitHub *)

Minimized(b) == b.bound /\ (b.action \in {"opened", "closed"} => b.agrees)

Supported(b) == b.event \in {"pull_request", "issues"} /\ b.action \in {"opened", "closed"}

Merged(b) == b.event = "pull_request" /\ b.merged

Consistent(b) == (b.action = "opened") = (b.state = "open") /\ (Merged(b) => b.action = "closed")

\* A pull request that is merged is reported closed.
Semantic(b) == IF Merged(b) THEN "merged" ELSE b.action

OccurredAt(b) == b.times[Semantic(b)]

\* Mutant: the project the work belongs to when the news comes in.
AttributedNow(s, at) == Current(s)

\* The project the work belonged to when it happened.
Attributed(s, at) == {a \in attribution : a.source = s /\ a.from <= at /\ at < a.until}

Scopes(s, at) == IF Attributed(s, at) = {} THEN {Company} ELSE {a.project : a \in Attributed(s, at)}

\* A conflicting identity or body, news that contradicts itself or comes from
\* the future, or from after its project closed, is refused; news of another
\* kind is kept and makes no event.
ActGithub(r) ==
    LET t == request[r]
        b == About[t.body]
        at == OccurredAt(b)
        actor == Resolved(t.source, b.sender)
        subject == Resolved(t.source, b.author)
    IN  /\ Ready(r, "GITHUB")
        /\ IF Previous(t) # {}
           THEN IF \A d \in Previous(t) : d.body = t.body THEN Repeated(r) ELSE Refuse(r)
           ELSE IF ~Minimized(b) THEN Refuse(r)
           ELSE IF ~Supported(b) THEN Stage(r, {}, Delivery(t, "UNSUPPORTED"), {})
           ELSE IF ~Consistent(b) \/ ~Timely(at) THEN Refuse(r)
           ELSE \E p \in Scopes(t.source, at) :
                  IF p # Company /\ closedAt[p] <= at THEN Refuse(r)
                  ELSE Stage(r, {actor, subject}, Delivery(t, "ACCEPTED"), {Event(t, actor, subject, p)})

-----------------------------------------------------------------------------
(* Slack *)

\* The open teams and projects a person may ask in.
Eligible(u, kind) == {n \in kind : closedAt[n] = Never /\ (u \in Admins \/ <<u, n>> \in seats)}

\* The units whose name the words begin with, and of them the longest.
Matching(units, words) == {n \in units : IsPrefix(Named[n], words)}
Longest(units) == {n \in units : \A m \in units : Len(Named[m]) <= Len(Named[n])}

\* Mutant: of several that match, any will do.
MatchAny(units, words) == Longest(Matching(units, words))

\* "Refuse, never arbitrarily pick one": nothing, when two share a name.
MatchUnit(units, words) ==
    LET best == Longest(Matching(units, words)) IN IF Cardinality(best) = 1 THEN best ELSE {}

Described(n, words) == Len(words) > Len(Named[n])

\* Where help is asked for: at most one scope.  The only team of a person need
\* not be named; a unit that is named leaves the rest as the description.
HelpScope(u, b) ==
    LET teams == Eligible(u, Team)
        projects == Eligible(u, Project)
        Chosen(units) == {n \in MatchUnit(units, b.words) : Described(n, b.words)}
    IN  CASE b.keyword = "general" -> IF b.words # <<>> THEN {Company} ELSE {}
          [] b.keyword = "project" -> Chosen(projects)
          [] b.keyword = "team" ->
               IF Cardinality(teams) = 1 /\ MatchUnit(teams, b.words) = {}
               THEN IF b.words # <<>> THEN teams ELSE {}
               ELSE Chosen(teams)
          [] OTHER -> {}

\* Whatever is refused is answered and kept too: a sender or addressee that is
\* not linked, a capability that is off, a command nobody can place and what
\* the collaboration service refuses; an accepted command leaves its event.
SlackResult(t, willing) ==
    LET b == About[t.body]
        u == Resolved(t.source, b.sender)
    IN  IF u = Nobody THEN "REFUSED_UNMAPPED_ACTOR"
        ELSE IF "SLACK" \notin enabled THEN "REFUSED_DOMAIN"
        ELSE IF b.command = "HELP"
        THEN IF HelpScope(u, b) # {} /\ willing THEN "ACCEPTED" ELSE "REFUSED_DOMAIN"
        ELSE IF b.author = Nobody \/ b.words = <<>> THEN "REFUSED_DOMAIN"
        ELSE IF Resolved(t.source, b.author) = Nobody THEN "REFUSED_UNMAPPED_TARGET"
        ELSE IF willing THEN "ACCEPTED" ELSE "REFUSED_DOMAIN"

\* An accepted command leaves one record of who did what to whom and where: for
\* thanks and recognition the canonical event, for HELP the row of the request.
ActSlack(r, willing) ==
    LET t == request[r]
        b == About[t.body]
        actor == Resolved(t.source, b.sender)
        subject == IF b.command = "HELP" THEN Nobody ELSE Resolved(t.source, b.author)
        scopes == IF b.command = "HELP" THEN HelpScope(actor, b) ELSE {Company}
        result == SlackResult(t, willing)
    IN  /\ Ready(r, "SLACK")
        /\ IF ~b.formed THEN Refuse(r)
           ELSE IF Previous(t) # {} THEN Repeated(r)
           ELSE IF result # "ACCEPTED" THEN Stage(r, {actor, subject}, Delivery(t, result), {})
           ELSE \E n \in scopes : Stage(r, {actor, subject}, Delivery(t, result), {Event(t, actor, subject, n)})

\* The transaction commits and the provider hears, or does not, and sends again.
Commit(r) ==
    LET t == request[r] IN
    /\ t.pc = "staged"
    /\ deliveries' = deliveries \cup {t.delivery}
    /\ events' = events \cup t.events
    /\ request' = [request EXCEPT ![r] = Rest]
    /\ UNCHANGED <<settings, sends, clock>>

\* The process dies first: everything is rolled back.
Crash(r) == request[r] # Rest /\ Refuse(r)

-----------------------------------------------------------------------------
Init ==
    /\ source = <<>>
    /\ mapped = [e \in Source \X External |-> Nobody]
    /\ active = User
    /\ enabled = {"GITHUB", "SLACK"}
    /\ attribution = {}
    /\ closedAt = [n \in Unit |-> Never]
    /\ seats = {}
    /\ deliveries = {} /\ events = {}
    /\ request = [r \in Request |-> Rest]
    /\ sends = 0 /\ moves = 0 /\ clock = 0

Administration ==
    \/ \E s \in Source : CreateSource(s)
    \/ \E s \in Source, rotate \in BOOLEAN : ChangeSource(s, rotate)
    \/ \E s \in Source, x \in External, u \in User \cup {Nobody} : Mapping(s, x, u)
    \/ \E u \in User : SetActive(u)
    \/ \E c \in {"GITHUB", "SLACK"} : Switch(c)
    \/ \E s \in Source, p \in Project \cup {Company} : Assign(s, p)
    \/ \E n \in Unit : CloseUnit(n)
    \/ \E p \in Places : Membership(p[1], p[2])

Receive(r) ==
    \/ \E s \in Source, id \in Identity, b \in Body, k \in 0..MaxMoves : Send(r, s, id, b, k)
    \/ Verify(r) \/ Wait(r)
    \/ ActWebhook(r) \/ ActGithub(r) \/ (\E willing \in BOOLEAN : ActSlack(r, willing))
    \/ Commit(r) \/ Crash(r)

Next == Administration \/ Tick \/ (\E r \in Request : Receive(r))

Spec == Init /\ [][Next]_vars

-----------------------------------------------------------------------------
(* Properties *)

\* A signed message is acted on once: neither an identity nor, for GitHub, a
\* body sent again under another identity makes a second delivery or event,
\* and only an accepted delivery has an event.
ActedOnce ==
    /\ \A d, e \in deliveries :
          d.source = e.source /\ (d.id = e.id \/ (KindOf[d.source] = "GITHUB" /\ d.body = e.body)) => d = e
    /\ \A e \in events : \E d \in deliveries :
          d.source = e.source /\ d.id = e.id /\ d.body = e.body /\ d.result = "ACCEPTED"

\* "No old-secret write commits after" a rotation or a deactivation.
NoStaleSecret ==
    [][\A d \in deliveries' \ deliveries : source[d.source].active /\ d.key = source[d.source].secret]_vars

\* The people an event names are in use when it is committed, not only when
\* they were looked up, and each is who the admin has the identity mapped to by
\* then: the sender to who did it, the author to who is credited.
NamesActivePeople ==
    [][\A e \in events' \ events :
          /\ {e.actor, e.subject} \ {Nobody} \subseteq active
          /\ e.actor # Nobody => mapped[<<e.source, About[e.body].sender>>] = e.actor
          /\ e.subject # Nobody => mapped[<<e.source, About[e.body].author>>] = e.subject]_vars

\* "The event occurrence time selects the applicable interval": what happened
\* before it was heard of stays with the project the history has for that time,
\* however late it was delivered and wherever the work went afterwards.
ScopeAsOfOccurrence ==
    \A e \in events :
      KindOf[e.source] = "GITHUB" =>
        LET at == OccurredAt(About[e.body])
            owners == {a.project : a \in {i \in attribution : i.source = e.source /\ i.from <= at /\ at < i.until}}
        IN  at < e.received => owners = {e.scope} \ {Company}

\* Help is asked for in a unit that is open and that the person may ask in, and
\* whoever could have asked in several has named it and no other as well.
AskedWhereNamed ==
    [][\A e \in events' \ events :
         LET b == About[e.body]
             rivals == IF e.scope \in Team THEN Eligible(e.actor, Team) ELSE Eligible(e.actor, Project)
         IN  KindOf[e.source] = "SLACK" /\ e.scope # Company =>
               /\ e.scope \in rivals
               /\ rivals = {e.scope} \/ (\A n \in rivals : n \in Matching(rivals, b.words) =>
                                            n = e.scope \/ Len(Named[n]) < Len(Named[e.scope]))
               /\ rivals # {e.scope} => e.scope \in Matching(rivals, b.words)]_vars
=============================================================================
