---------------------------- MODULE InboundProofs ----------------------------
(* What is proved of messages from outside, for any sources, people, units  *)
(* and bodies, and any number of deliveries at work.                        *)
EXTENDS Inbound, FiniteSetTheorems, TLAPS

-----------------------------------------------------------------------------
(* The inductive invariant *)

\* Nothing happened in the future, and at any time the work of a source
\* belongs to at most one project.
IntervalsFit ==
    /\ clock \in 0..MaxTime
    /\ \A a \in attribution :
          /\ DOMAIN a = {"source", "project", "from", "until"}
          /\ a.project \in Project
          /\ a.from \in 0..clock
          /\ a.until \in (0..clock) \cup {Never}
    /\ \A a, b \in attribution, at \in 0..Never :
          /\ a.source = b.source
          /\ a.from <= at /\ at < a.until
          /\ b.from <= at /\ at < b.until
          => a = b

\* What happened before it was heard of is where it belongs.
Owners(s, at) == {a.project : a \in Attributed(s, at)}

Timed(e) ==
    KindOf[e.source] = "GITHUB" =>
      LET at == OccurredAt(About[e.body])
      IN  /\ e.received \in 0..clock
          /\ at \in Nat
          /\ at < e.received => Owners(e.source, at) = {e.scope} \ {Company}

\* The unit help is asked in.
Placed(e) ==
    LET b == About[e.body]
        rivals == IF e.scope \in Team THEN Eligible(e.actor, Team) ELSE Eligible(e.actor, Project)
    IN  KindOf[e.source] = "SLACK" /\ e.scope # Company =>
          /\ e.scope \in rivals
          /\ rivals = {e.scope} \/ (\A n \in rivals : n \in Matching(rivals, b.words) =>
                                       n = e.scope \/ Len(Named[n]) < Len(Named[e.scope]))
          /\ rivals # {e.scope} => e.scope \in Matching(rivals, b.words)

NamesFit(e, users) ==
    /\ {e.actor, e.subject} \ {Nobody} \subseteq users
    /\ e.actor # Nobody => mapped[<<e.source, About[e.body].sender>>] = e.actor
    /\ e.subject # Nobody => mapped[<<e.source, About[e.body].author>>] = e.subject

\* What a delivery waits for, as a set.
KeySet(t) ==
    {<<"id", t.id>>} \cup (IF KindOf[t.source] = "GITHUB" THEN {<<"body", t.body>>} ELSE {})

Arrived(t) ==
    /\ t.source \in Created
    /\ t.body \in Body /\ KindOf[t.source] = About[t.body].for

\* From verification on, under the lock of the source.
Trusted(t) ==
    /\ Arrived(t)
    /\ source[t.source].active /\ t.key = source[t.source].secret

Waiting(t) ==
    /\ DOMAIN t = {"pc", "source", "id", "body", "key", "wait", "held"}
    /\ Trusted(t)
    /\ \/ t.held = {} /\ t.wait = (IF KindOf[t.source] = "GITHUB" THEN <<<<"body", t.body>>, <<"id", t.id>>>>
                                   ELSE <<<<"id", t.id>>>>)
       \/ t.held = {<<"body", t.body>>} /\ t.wait = <<<<"id", t.id>>>> /\ KindOf[t.source] = "GITHUB"
       \/ t.held = KeySet(t) /\ t.wait = <<>>

\* A delivery of its own that is not there yet, and its events.
Fresh(t) ==
    /\ t.delivery.source = t.source /\ t.delivery.id = t.id
    /\ t.delivery.body = t.body /\ t.delivery.key = t.key
    /\ \A d \in deliveries : d.source = t.source => ~Same(d, t)
    /\ \A e \in t.events :
          /\ e.source = t.source /\ e.id = t.id /\ e.body = t.body
          /\ t.delivery.result = "ACCEPTED"
          /\ NamesFit(e, t.users) /\ Timed(e) /\ Placed(e)

Staged(t) ==
    /\ Trusted(t)
    /\ t.held = KeySet(t)
    /\ t.users \subseteq active
    /\ (t.delivery \in deliveries /\ t.events = {}) \/ Fresh(t)

Fits(t) ==
    \/ t.pc = "idle"
    \/ t.pc = "arrived" /\ Arrived(t)
    \/ t.pc = "waiting" /\ Waiting(t)
    \/ t.pc = "staged" /\ Staged(t)

Flying(t) == t.pc \in {"waiting", "staged"}

\* Two deliveries of a source never hold one key.
Apart(t, q) == Flying(t) /\ Flying(q) /\ t.source = q.source => t.held \cap q.held = {}

RequestsFit ==
    /\ DOMAIN request = Request
    /\ \A r \in Request : Fits(request[r])
    /\ \A r, q \in Request : r # q => Apart(request[r], request[q])

EventsFit == \A e \in events : Timed(e)

Inv == IntervalsFit /\ RequestsFit /\ ActedOnce /\ EventsFit

-----------------------------------------------------------------------------
LEMMA InitInv == ASSUME LimitsAssumption, Init PROVE Inv
<1>1. IntervalsFit
  BY DEF Init, IntervalsFit, LimitsAssumption
<1>2. RequestsFit
  BY DEF Init, RequestsFit, Fits, Apart, Flying, Rest
<1>3. ActedOnce /\ EventsFit
  BY DEF Init, ActedOnce, EventsFit
<1> QED
  BY <1>1, <1>2, <1>3 DEF Inv

\* A delivery at work keeps what it relies on while others change what it
\* does not: the source, the mapping and the capability it has locked, the
\* accounts it names, and, but for the webhook, units, seats and intervals.
Steady(t) ==
    /\ t.pc # "idle" => t.source \in DOMAIN source'
    /\ Flying(t) =>
          /\ source'[t.source] = source[t.source]
          /\ \A x : mapped'[<<t.source, x>>] = mapped[<<t.source, x>>]
          /\ KindOf[t.source] # "WEBHOOK" => UNCHANGED <<attribution, closedAt, seats>>
    /\ t.pc = "staged" => t.users \subseteq active'

LEMMA SteadyFits ==
  ASSUME LimitsAssumption, NEW t, Fits(t), Steady(t), deliveries \subseteq deliveries',
         t.pc = "staged" => \A d \in deliveries' \ deliveries : d.source = t.source => ~Same(d, t),
         clock' >= clock, IntervalsFit, IntervalsFit'
  PROVE  Fits(t)'
<1>1. CASE t.pc = "idle"
  BY <1>1 DEF Fits
<1>2. CASE t.pc = "arrived"
  BY <1>2 DEF Fits, Arrived, Steady, Created
<1>3. ASSUME Flying(t), Trusted(t) PROVE Trusted(t)'
  BY <1>3 DEF Flying, Trusted, Arrived, Steady, Created
<1>4. CASE t.pc = "waiting"
  <2>1. Trusted(t)'
    BY <1>3, <1>4 DEF Fits, Waiting, Flying
  <2>2. Waiting(t)'
    BY <1>4, <2>1 DEF Fits, Waiting, KeySet
  <2> QED
    BY <1>4, <2>2 DEF Fits
<1>5. CASE t.pc = "staged"
  <2>1. Trusted(t)'
    BY <1>3, <1>5 DEF Fits, Staged, Flying
  <2>2. ASSUME NEW e, Fresh(t), e \in t.events
        PROVE  (NamesFit(e, t.users) /\ Timed(e) /\ Placed(e))'
    <3>1. e.source = t.source /\ NamesFit(e, t.users) /\ Timed(e) /\ Placed(e)
      BY <2>2 DEF Fresh
    <3>2. NamesFit(e, t.users)'
      BY <1>5, <3>1 DEF NamesFit, Steady, Flying
    <3>3. CASE KindOf[t.source] = "WEBHOOK"
      BY <3>1, <3>2, <3>3 DEF Timed, Placed
    <3>4. CASE KindOf[t.source] # "WEBHOOK"
      <4>1. UNCHANGED <<attribution, closedAt, seats>>
        BY <1>5, <3>4 DEF Steady, Flying
      <4>2. Placed(e)'
        BY <3>1, <4>1 DEF Placed, Eligible, Matching
      <4>3. clock \in Int /\ clock' \in Int
        BY DEF IntervalsFit
      <4>4. \A s, at : Owners(s, at)' = Owners(s, at)
        BY <4>1 DEF Owners, Attributed
      <4>5. Timed(e)'
        BY <3>1, <4>3, <4>4 DEF Timed
      <4> QED
        BY <3>2, <4>2, <4>5
    <3> QED
      BY <3>3, <3>4
  <2>3. Fresh(t) => Fresh(t)'
    BY <1>5, <2>2 DEF Fresh, Same
  <2>4. Staged(t)'
    BY <1>5, <2>1, <2>3 DEF Fits, Staged, Steady, KeySet
  <2> QED
    BY <1>5, <2>4 DEF Fits
<1> QED
  BY <1>1, <1>2, <1>4, <1>5 DEF Fits

\* What happened before an event was heard of stays where it was as time goes
\* on, unless the history of the past changes.
LEMMA TimedStays ==
  ASSUME IntervalsFit, IntervalsFit', clock' >= clock, NEW e, Timed(e),
         \A at \in Nat : at < clock => Owners(e.source, at)' = Owners(e.source, at)
  PROVE  Timed(e)'
<1>1. clock \in Int /\ clock' \in Int
  BY DEF IntervalsFit
<1> DEFINE at == OccurredAt(About[e.body])
<1>2. CASE KindOf[e.source] # "GITHUB"
  BY <1>2 DEF Timed
<1>3. CASE KindOf[e.source] = "GITHUB"
  <2>1. /\ e.received \in 0..clock /\ at \in Nat
        /\ at < e.received => Owners(e.source, at) = {e.scope} \ {Company}
    BY <1>3 DEF Timed
  <2> HIDE DEF at
  <2>2. e.received \in 0..clock'
    BY <1>1, <2>1
  <2>3. at < e.received => Owners(e.source, at)' = {e.scope} \ {Company}
    BY <1>1, <2>1
  <2> QED
    BY <2>1, <2>2, <2>3 DEF Timed, at
<1> QED
  BY <1>2, <1>3

\* Commands and the clock touch no delivery, and nothing a delivery at work
\* relies on.
LEMMA OutsideSound ==
  ASSUME LimitsAssumption, Inv, UNCHANGED <<request, deliveries, events>>,
         clock' >= clock, IntervalsFit',
         \A r \in Request : Steady(request[r]),
         \A s : \A at \in Nat : at < clock => Owners(s, at)' = Owners(s, at)
  PROVE  Inv'
<1>1. ASSUME NEW r \in Request PROVE Fits(request[r])'
  BY SteadyFits DEF Inv, RequestsFit
<1>2. RequestsFit'
  BY <1>1 DEF Inv, RequestsFit, Apart, Flying
<1>3. ActedOnce'
  BY DEF Inv, ActedOnce
<1>4. EventsFit'
  BY TimedStays DEF Inv, EventsFit
<1> QED
  BY <1>2, <1>3, <1>4 DEF Inv

\* A delivery at work has its source.
LEMMA AtWork ==
  ASSUME RequestsFit, NEW r \in Request
  PROVE  /\ request[r].pc # "idle" => request[r].source \in Created
         /\ request[r].pc = "staged" => request[r].users \subseteq active
         /\ Flying(request[r]) <=> r \in InFlight
<1>1. Fits(request[r])
  BY DEF RequestsFit
<1>2. request[r].pc # "idle" => request[r].source \in Created
  BY <1>1 DEF Fits, Waiting, Staged, Trusted, Arrived
<1>3. request[r].pc = "staged" => request[r].users \subseteq active
  BY <1>1 DEF Fits, Staged
<1> QED
  BY <1>2, <1>3 DEF Flying, InFlight

\* The intervals of one source, cut at the clock.
LEMMA AssignFits ==
  ASSUME LimitsAssumption, IntervalsFit, NEW s, NEW p \in Project \cup {Company}, Assign(s, p)
  PROVE  /\ IntervalsFit'
         /\ \A q : \A at \in Nat : at < clock => Owners(q, at)' = Owners(q, at)
<1> DEFINE closed == {[a EXCEPT !.until = clock] : a \in Current(s)}
           opened == IF p = Company THEN {}
                     ELSE {[source |-> s, project |-> p, from |-> clock, until |-> Never]}
           kept == attribution \ Current(s)
<1>1. attribution' = kept \cup closed \cup opened /\ clock' = clock
  BY DEF Assign, Reassigned
<1>2. clock \in 0..MaxTime /\ MaxTime \in Nat /\ Skew \in Nat /\ Never \in Nat /\ Never > clock
  BY DEF IntervalsFit, LimitsAssumption, Never
<1>3. ASSUME NEW c \in closed
      PROVE  \E a \in Current(s) :
               /\ DOMAIN c = {"source", "project", "from", "until"}
               /\ c.source = s /\ c.project = a.project /\ c.from = a.from /\ c.until = clock
               /\ c = [a EXCEPT !.until = clock]
  <2>1. PICK a \in Current(s) : c = [a EXCEPT !.until = clock]
    OBVIOUS
  <2>2. a.source = s /\ DOMAIN a = {"source", "project", "from", "until"}
    BY DEF Current, IntervalsFit
  <2> QED
    BY <2>1, <2>2
<1>4. ASSUME NEW o \in opened
      PROVE  /\ DOMAIN o = {"source", "project", "from", "until"}
             /\ o.source = s /\ o.project \in Project /\ o.from = clock /\ o.until = Never
             /\ o = [source |-> s, project |-> p, from |-> clock, until |-> Never]
  BY <1>4
<1>5. ASSUME NEW a \in kept
      PROVE  a \in attribution /\ (a.source = s => a.until \in 0..clock)
  BY DEF Current, IntervalsFit
<1>6. ASSUME NEW a \in Current(s) PROVE a \in attribution /\ a.source = s /\ a.until = Never
  BY DEF Current
<1> HIDE DEF closed, opened, kept
<1>7. \A a \in attribution' :
        /\ DOMAIN a = {"source", "project", "from", "until"}
        /\ a.project \in Project
        /\ a.from \in 0..clock'
        /\ a.until \in (0..clock') \cup {Never}
  <2>1. \A a \in kept :
          /\ DOMAIN a = {"source", "project", "from", "until"}
          /\ a.project \in Project
          /\ a.from \in 0..clock
          /\ a.until \in (0..clock) \cup {Never}
    BY <1>5 DEF IntervalsFit
  <2>2. \A a \in closed :
          /\ DOMAIN a = {"source", "project", "from", "until"}
          /\ a.project \in Project
          /\ a.from \in 0..clock
          /\ a.until \in (0..clock) \cup {Never}
    BY <1>2, <1>3, <1>6 DEF IntervalsFit
  <2>3. \A a \in opened :
          /\ DOMAIN a = {"source", "project", "from", "until"}
          /\ a.project \in Project
          /\ a.from \in 0..clock
          /\ a.until \in (0..clock) \cup {Never}
    BY <1>2, <1>4
  <2> QED
    BY <1>1, <2>1, <2>2, <2>3
<1>8. ASSUME NEW a \in kept \cup closed, NEW at \in 0..Never, a.from <= at, at < a.until
      PROVE  \E o \in attribution :
               /\ o.source = a.source /\ o.project = a.project /\ o.from <= at /\ at < o.until
               /\ \/ a \in kept /\ o = a
                  \/ a \in closed /\ o \in Current(s) /\ a = [o EXCEPT !.until = clock]
  <2>1. CASE a \in kept
    BY <1>5, <1>8, <2>1
  <2>2. CASE a \in closed
    <3>1. PICK o \in Current(s) :
            /\ a.source = s /\ a.project = o.project /\ a.from = o.from /\ a.until = clock
            /\ a = [o EXCEPT !.until = clock]
      BY <1>3, <2>2
    <3>2. o \in attribution /\ o.source = s /\ o.until = Never
      BY <1>6
    <3>3. o.from <= at /\ at < o.until
      BY <1>2, <1>8, <3>1, <3>2
    <3> QED
      BY <2>2, <3>1, <3>2, <3>3
  <2> QED
    BY <1>8, <2>1, <2>2
<1>9. ASSUME NEW o \in opened, NEW a \in attribution', a.source = o.source,
             NEW at \in 0..Never, o.from <= at, a.from <= at, at < a.until
      PROVE  a \in opened
  <2>1. o.source = s /\ o.from = clock
    BY <1>4
  <2>2. ASSUME a \in kept \cup closed PROVE a.until \in 0..clock
    BY <1>2, <1>3, <1>5, <1>9, <2>1, <2>2
  <2> QED
    BY <1>1, <1>2, <1>9, <2>1, <2>2
<1>10. ASSUME NEW a \in attribution', NEW b \in attribution', NEW at \in 0..Never, a.source = b.source,
              a.from <= at, at < a.until, b.from <= at, at < b.until
       PROVE  a = b
  <2>1. CASE a \in opened \/ b \in opened
    <3>1. a \in opened /\ b \in opened
      BY <1>9, <1>10, <2>1
    <3> QED
      BY <1>4, <3>1
  <2>2. CASE a \in kept \cup closed /\ b \in kept \cup closed
    <3>1. PICK o \in attribution :
            /\ o.source = a.source /\ o.from <= at /\ at < o.until
            /\ \/ a \in kept /\ o = a
               \/ a \in closed /\ o \in Current(s) /\ a = [o EXCEPT !.until = clock]
      BY <1>8, <1>10, <2>2
    <3>2. PICK n \in attribution :
            /\ n.source = b.source /\ n.from <= at /\ at < n.until
            /\ \/ b \in kept /\ n = b
               \/ b \in closed /\ n \in Current(s) /\ b = [n EXCEPT !.until = clock]
      BY <1>8, <1>10, <2>2
    <3>3. o = n
      BY <1>10, <3>1, <3>2 DEF IntervalsFit
    <3> QED
      BY <3>1, <3>2, <3>3 DEF kept
  <2> QED
    BY <1>1, <2>1, <2>2
<1>11. IntervalsFit'
  <2>1. clock' \in 0..MaxTime
    BY <1>1, <1>2
  <2>2. \A a, b \in attribution', at \in 0..Never :
          /\ a.source = b.source
          /\ a.from <= at /\ at < a.until
          /\ b.from <= at /\ at < b.until
          => a = b
    BY <1>10
  <2> QED
    BY <1>7, <2>1, <2>2 DEF IntervalsFit
<1>12. ASSUME NEW q, NEW at \in Nat, at < clock PROVE Owners(q, at)' = Owners(q, at)
  <2>1. at \in 0..Never
    BY <1>2, <1>12
  <2>2. ASSUME NEW a \in attribution', a.source = q, a.from <= at, at < a.until
        PROVE  \E o \in attribution : o.source = q /\ o.project = a.project /\ o.from <= at /\ at < o.until
    <3>1. a \notin opened
      BY <1>2, <1>4, <1>12, <2>2
    <3> QED
      BY <1>1, <1>8, <2>1, <2>2, <3>1
  <2>3. ASSUME NEW o \in attribution, o.source = q, o.from <= at, at < o.until
        PROVE  \E a \in attribution' : a.source = q /\ a.project = o.project /\ a.from <= at /\ at < a.until
    <3>1. CASE o \in kept
      BY <1>1, <2>3, <3>1
    <3>2. CASE o \in Current(s)
      <4> DEFINE c == [o EXCEPT !.until = clock]
      <4>1. c \in closed
        BY <3>2 DEF closed
      <4>2. DOMAIN o = {"source", "project", "from", "until"}
        BY DEF IntervalsFit
      <4>3. c.source = o.source /\ c.project = o.project /\ c.from = o.from /\ c.until = clock
        BY <4>2
      <4> HIDE DEF c
      <4> QED
        BY <1>1, <1>12, <2>3, <4>1, <4>3
    <3> QED
      BY <3>1, <3>2 DEF kept
  <2>4. \A x : x \in Owners(q, at)' <=> x \in Owners(q, at)
    BY <2>2, <2>3 DEF Owners, Attributed
  <2> QED
    BY <2>4 DEF Owners
<1> QED
  BY <1>11, <1>12

\* Everything but the intervals and the clock stands still.
LEMMA CalmSound ==
  ASSUME LimitsAssumption, Inv, UNCHANGED <<request, deliveries, events, attribution, clock>>,
         \A r \in Request : Steady(request[r])
  PROVE  Inv'
<1>1. clock' >= clock
  BY DEF Inv, IntervalsFit
<1>2. IntervalsFit'
  BY DEF Inv, IntervalsFit
<1>3. \A s, at : Owners(s, at)' = Owners(s, at)
  BY DEF Owners, Attributed
<1> QED
  BY <1>1, <1>2, <1>3, OutsideSound

LEMMA AdministrationSound ==
  ASSUME LimitsAssumption, Inv, Administration
  PROVE  Inv'
<1> USE DEF settings, stored
<1>1. RequestsFit
  BY DEF Inv
<1>2. ASSUME NEW s \in Source, CreateSource(s) PROVE Inv'
  <2>1. ASSUME NEW r \in Request PROVE Steady(request[r])
    <3>1. DOMAIN source' = Created \cup {s} /\ \A x \in Created : source'[x] = source[x]
      BY <1>2 DEF CreateSource
    <3>2. UNCHANGED <<mapped, attribution, closedAt, seats, active>>
      BY <1>2 DEF CreateSource
    <3> QED
      BY <1>1, <3>1, <3>2, AtWork DEF Steady, Flying
  <2> QED
    BY <1>2, <2>1, CalmSound DEF CreateSource
<1>3. ASSUME NEW s \in Source, NEW rotate \in BOOLEAN, ChangeSource(s, rotate) PROVE Inv'
  <2>1. DOMAIN source' = Created /\ \A x \in Created \ {s} : source'[x] = source[x]
    BY <1>3 DEF ChangeSource, Created
  <2>2. UNCHANGED <<mapped, attribution, closedAt, seats, active, request, deliveries, events, clock>>
    BY <1>3 DEF ChangeSource
  <2>3. ASSUME NEW r \in Request PROVE Steady(request[r])
    <3>1. Flying(request[r]) => request[r].source # s
      BY <1>1, <1>3, AtWork DEF ChangeSource, Owned, HoldsSource
    <3> QED
      BY <1>1, <2>1, <2>2, <3>1, AtWork DEF Steady, Flying
  <2> QED
    BY <2>2, <2>3, CalmSound
<1>4. ASSUME NEW s \in Source, NEW x \in External, NEW u \in User \cup {Nobody}, Mapping(s, x, u) PROVE Inv'
  <2>1. UNCHANGED <<source, attribution, closedAt, seats, active, request, deliveries, events, clock>>
    BY <1>4 DEF Mapping
  <2>2. \A q : q # s => \A y : mapped'[<<q, y>>] = mapped[<<q, y>>]
    BY <1>4 DEF Mapping
  <2>3. ASSUME NEW r \in Request PROVE Steady(request[r])
    <3>1. Flying(request[r]) => request[r].source # s
      BY <1>1, <1>4, AtWork DEF Mapping, Owned, HoldsSource
    <3> QED
      BY <1>1, <2>1, <2>2, <3>1, AtWork DEF Steady, Flying, Created
  <2> QED
    BY <2>1, <2>3, CalmSound
<1>5. ASSUME NEW u \in User, SetActive(u) PROVE Inv'
  <2>1. UNCHANGED <<source, mapped, attribution, closedAt, seats, request, deliveries, events, clock>>
    BY <1>5 DEF SetActive
  <2>2. ASSUME NEW r \in Request PROVE Steady(request[r])
    <3>1. request[r].pc = "staged" => u \notin request[r].users
      BY <1>5 DEF SetActive, HoldsUser
    <3>2. active \ {u} \subseteq active'
      BY <1>5 DEF SetActive
    <3> QED
      BY <1>1, <2>1, <3>1, <3>2, AtWork DEF Steady, Created
  <2> QED
    BY <2>1, <2>2, CalmSound
<1>6. ASSUME NEW c, Switch(c) PROVE Inv'
  <2>1. UNCHANGED <<source, mapped, active, attribution, closedAt, seats, request, deliveries, events, clock>>
    BY <1>6 DEF Switch
  <2>2. ASSUME NEW r \in Request PROVE Steady(request[r])
    BY <1>1, <2>1, AtWork DEF Steady, Created
  <2> QED
    BY <2>1, <2>2, CalmSound
<1>7. ASSUME NEW s \in Source, NEW p \in Project \cup {Company}, Assign(s, p) PROVE Inv'
  <2>1. UNCHANGED <<source, mapped, active, closedAt, seats, request, deliveries, events, clock>>
    BY <1>7 DEF Assign
  <2>2. ASSUME NEW r \in Request PROVE Steady(request[r])
    <3>1. Flying(request[r]) => KindOf[request[r].source] = "WEBHOOK"
      BY <1>1, <1>7, AtWork DEF Assign, HoldsCompany
    <3> QED
      BY <1>1, <2>1, <3>1, AtWork DEF Steady, Created
  <2>3. /\ IntervalsFit'
        /\ \A q : \A at \in Nat : at < clock => Owners(q, at)' = Owners(q, at)
    BY <1>7, AssignFits DEF Inv
  <2>4. clock' >= clock
    BY <2>1 DEF Inv, IntervalsFit
  <2> QED
    BY <2>1, <2>2, <2>3, <2>4, OutsideSound
<1>8. ASSUME NEW n \in Unit, CloseUnit(n) PROVE Inv'
  <2>1. UNCHANGED <<source, mapped, active, attribution, seats, request, deliveries, events, clock>>
    BY <1>8 DEF CloseUnit
  <2>2. ASSUME NEW r \in Request PROVE Steady(request[r])
    <3>1. Flying(request[r]) => KindOf[request[r].source] = "WEBHOOK"
      BY <1>1, <1>8, AtWork DEF CloseUnit, HoldsCompany
    <3> QED
      BY <1>1, <2>1, <3>1, AtWork DEF Steady, Created
  <2> QED
    BY <2>1, <2>2, CalmSound
<1>9. ASSUME NEW u, NEW n, Membership(u, n) PROVE Inv'
  <2>1. UNCHANGED <<source, mapped, active, attribution, closedAt, request, deliveries, events, clock>>
    BY <1>9 DEF Membership
  <2>2. ASSUME NEW r \in Request PROVE Steady(request[r])
    <3>1. Flying(request[r]) => KindOf[request[r].source] = "WEBHOOK"
      BY <1>1, <1>9, AtWork DEF Membership, HoldsCompany
    <3> QED
      BY <1>1, <2>1, <3>1, AtWork DEF Steady, Created
  <2> QED
    BY <2>1, <2>2, CalmSound
<1> QED
  BY <1>2, <1>3, <1>4, <1>5, <1>6, <1>7, <1>8, <1>9 DEF Administration

\* Time goes on; the bound keeps it before Never.
LEMMA TickSound == ASSUME LimitsAssumption, Inv, Tick PROVE Inv'
<1>1. clock' = clock + 1 /\ UNCHANGED <<settings, deliveries, events, request>>
  BY DEF Tick, stored
<1>2. clock \in 0..MaxTime /\ clock < MaxTime /\ MaxTime \in Nat
  BY DEF Tick, Inv, IntervalsFit, LimitsAssumption
<1>3. clock' >= clock /\ clock' \in 0..MaxTime
  BY <1>1, <1>2
<1>4. IntervalsFit'
  BY <1>1, <1>2, <1>3 DEF Inv, IntervalsFit, settings
<1>5. \A s, at : Owners(s, at)' = Owners(s, at)
  BY <1>1 DEF settings, Owners, Attributed
<1>6. ASSUME NEW r \in Request PROVE Steady(request[r])
  BY <1>1, AtWork DEF Steady, settings, Created, Inv
<1> QED
  BY <1>1, <1>3, <1>4, <1>5, <1>6, OutsideSound

-----------------------------------------------------------------------------
(* The steps of deliveries *)

\* One delivery goes on, with keys that no other holds.
LEMMA RequestMoves ==
  ASSUME LimitsAssumption, Inv, NEW r \in Request, NEW t, request' = [request EXCEPT ![r] = t],
         UNCHANGED <<settings, stored, clock>>, Fits(t),
         \A q \in Request \ {r} : Apart(t, request[q])
  PROVE  Inv'
<1>1. UNCHANGED <<source, mapped, active, attribution, closedAt, seats, deliveries, events, clock>>
  BY DEF settings, stored
<1>2. IntervalsFit' /\ ActedOnce' /\ EventsFit' /\ clock' >= clock
  <2>1. IntervalsFit' /\ clock' >= clock
    BY <1>1 DEF Inv, IntervalsFit
  <2>2. ActedOnce'
    BY <1>1 DEF Inv, ActedOnce
  <2>3. \A s, at : Owners(s, at)' = Owners(s, at)
    BY <1>1 DEF Owners, Attributed
  <2>4. EventsFit'
    BY <1>1, <2>1, <2>3, TimedStays DEF Inv, EventsFit
  <2> QED
    BY <2>1, <2>2, <2>4
<1>3. DOMAIN request' = Request /\ request'[r] = t /\ \A q \in Request \ {r} : request'[q] = request[q]
  BY DEF Inv, RequestsFit
<1>4. ASSUME NEW x, Fits(x) PROVE Fits(x)'
  <2>1. Steady(x)
    <3>1. x.pc # "idle" => x.source \in Created
      BY <1>4 DEF Fits, Waiting, Staged, Trusted, Arrived
    <3>2. x.pc = "staged" => x.users \subseteq active
      BY <1>4 DEF Fits, Staged
    <3> QED
      BY <1>1, <3>1, <3>2 DEF Steady, Created
  <2> QED
    BY <1>1, <1>2, <1>4, <2>1, SteadyFits DEF Inv
<1>5. \A q \in Request : Fits(request'[q])
  BY <1>3 DEF Inv, RequestsFit
<1>6. \A p, q \in Request : p # q => Apart(request'[p], request'[q])
  <2>1. \A q \in Request \ {r} : Apart(request[q], t)
    BY DEF Apart
  <2> QED
    BY <1>3, <2>1 DEF Inv, RequestsFit
<1>7. RequestsFit'
  <2>1. ASSUME NEW q \in Request PROVE Fits(request[q])'
    BY <1>4, <1>5
  <2>2. ASSUME NEW p \in Request, NEW q \in Request, p # q PROVE Apart(request[p], request[q])'
    BY <1>6, <2>2 DEF Apart, Flying
  <2> QED
    BY <1>3, <2>1, <2>2 DEF RequestsFit
<1> QED
  BY <1>2, <1>7 DEF Inv

LEMMA RefuseSound == ASSUME LimitsAssumption, Inv, NEW r \in Request, Refuse(r) PROVE Inv'
<1>1. Fits(Rest)
  BY DEF Fits, Rest
<1>2. \A q : Apart(Rest, q)
  BY DEF Apart, Flying, Rest
<1>3. request' = [request EXCEPT ![r] = Rest] /\ UNCHANGED <<settings, stored, clock>>
  BY DEF Refuse
<1> QED
  BY <1>1, <1>2, <1>3, RequestMoves

LEMMA SendSound ==
  ASSUME LimitsAssumption, Inv, NEW r \in Request, NEW s \in Source, NEW id, NEW b \in Body, NEW k, Send(r, s, id, b, k)
  PROVE  Inv'
<1> DEFINE t == [pc |-> "arrived", source |-> s, id |-> id, body |-> b, key |-> k]
<1>1. Fits(t)
  BY DEF Fits, Arrived, Send
<1>2. \A q : Apart(t, q)
  BY DEF Apart, Flying
<1>3. request' = [request EXCEPT ![r] = t] /\ UNCHANGED <<settings, stored, clock>>
  BY DEF Send
<1> HIDE DEF t
<1> QED
  BY <1>1, <1>2, <1>3, RequestMoves

LEMMA VerifySound == ASSUME LimitsAssumption, Inv, NEW r \in Request, Verify(r) PROVE Inv'
<1>1. CASE ~Verified(request[r])
  BY <1>1, RefuseSound DEF Verify
<1>2. CASE Verified(request[r])
  <2> DEFINE o == request[r]
             t == [pc |-> "waiting", source |-> o.source, id |-> o.id, body |-> o.body, key |-> o.key,
                   wait |-> Keys(KindOf[o.source], o), held |-> {}]
  <2>1. Arrived(o)
    BY DEF Verify, Inv, RequestsFit, Fits
  <2>2. source[o.source].active /\ o.key = source[o.source].secret
    BY <1>2 DEF Verified
  <2>3. Waiting(t)
    BY <2>1, <2>2 DEF Waiting, Trusted, Arrived, Keys
  <2>4. request' = [request EXCEPT ![r] = t] /\ UNCHANGED <<settings, stored, clock>>
    BY <1>2 DEF Verify
  <2>5. Fits(t) /\ \A q : Apart(t, q)
    BY <2>3 DEF Fits, Apart
  <2> HIDE DEF t
  <2> QED
    BY <2>4, <2>5, RequestMoves
<1> QED
  BY <1>1, <1>2

\* A delivery takes the next key when no other of its source has it.
LEMMA WaitSound == ASSUME LimitsAssumption, Inv, NEW r \in Request, Wait(r) PROVE Inv'
<1> DEFINE o == request[r]
           k == Head(o.wait)
           t == [o EXCEPT !.wait = Tail(o.wait), !.held = o.held \cup {k}]
<1>1. o.pc = "waiting" /\ o.wait # <<>> /\ Waiting(o)
  BY DEF Wait, Inv, RequestsFit, Fits
<1>2. /\ DOMAIN t = DOMAIN o /\ t.pc = "waiting" /\ t.source = o.source /\ t.id = o.id /\ t.body = o.body
      /\ t.key = o.key /\ t.wait = Tail(o.wait) /\ t.held = o.held \cup {k}
  BY <1>1 DEF Waiting
<1>3. Trusted(o)
  BY <1>1 DEF Waiting
<1>4. \/ o.held = {} /\ o.wait = <<<<"body", o.body>>, <<"id", o.id>>>> /\ KindOf[o.source] = "GITHUB"
      \/ o.held = {} /\ o.wait = <<<<"id", o.id>>>> /\ KindOf[o.source] # "GITHUB"
      \/ o.held = {<<"body", o.body>>} /\ o.wait = <<<<"id", o.id>>>> /\ KindOf[o.source] = "GITHUB"
  BY <1>1 DEF Waiting
<1>5. \/ t.held = {<<"body", o.body>>} /\ t.wait = <<<<"id", o.id>>>> /\ KindOf[o.source] = "GITHUB"
      \/ t.held = KeySet(o) /\ t.wait = <<>>
  <2> DEFINE x == <<"body", o.body>>
             y == <<"id", o.id>>
  <2>1. Head(<<x, y>>) = x /\ Tail(<<x, y>>) = <<y>> /\ Head(<<y>>) = y /\ Tail(<<y>>) = <<>>
    OBVIOUS
  <2>2. \/ o.held = {} /\ o.wait = <<x, y>> /\ KindOf[o.source] = "GITHUB"
        \/ o.held = {} /\ o.wait = <<y>> /\ KindOf[o.source] # "GITHUB"
        \/ o.held = {x} /\ o.wait = <<y>> /\ KindOf[o.source] = "GITHUB"
    BY <1>4
  <2>3. KeySet(o) = {y} \cup (IF KindOf[o.source] = "GITHUB" THEN {x} ELSE {})
    BY DEF KeySet
  <2>4. t.wait = Tail(o.wait) /\ t.held = o.held \cup {Head(o.wait)}
    BY <1>2
  <2> HIDE DEF t, x, y
  <2>5. \/ t.held = {x} /\ t.wait = <<y>> /\ KindOf[o.source] = "GITHUB"
        \/ t.held = KeySet(o) /\ t.wait = <<>>
    BY <2>1, <2>2, <2>3, <2>4
  <2> QED
    BY <2>5 DEF x, y
<1>6. \A q \in Request \ {r} : Apart(t, request[q])
  <2>1. ASSUME NEW q \in Request, Flying(request[q]), request[q].source = o.source
        PROVE  k \notin request[q].held
    <3>1. q \in InFlight
      BY <2>1 DEF Flying, InFlight
    <3> QED
      BY <2>1, <3>1 DEF Wait, Held
  <2>2. \A q \in Request \ {r} : Apart(o, request[q])
    BY DEF Inv, RequestsFit
  <2> HIDE DEF t, k
  <2> QED
    BY <1>1, <1>2, <2>1, <2>2 DEF Apart, Flying
<1>7. request' = [request EXCEPT ![r] = t] /\ UNCHANGED <<settings, stored, clock>>
  BY DEF Wait
<1> HIDE DEF t
<1>8. Trusted(t) /\ KeySet(t) = KeySet(o)
  BY <1>2, <1>3 DEF Trusted, Arrived, KeySet
<1>9. Fits(t)
  BY <1>1, <1>2, <1>5, <1>8 DEF Fits, Waiting
<1> QED
  BY <1>6, <1>7, <1>9, RequestMoves

\* Acting: the delivery is one there was, with nothing to add, or a new one
\* under keys that nobody else has.
LEMMA StageSound ==
  ASSUME LimitsAssumption, Inv, NEW r \in Request, NEW users, NEW delivery, NEW new,
         Stage(r, users, delivery, new),
         request[r].pc = "waiting", request[r].wait = <<>>,
         users \ {Nobody} \subseteq active,
         \/ delivery \in deliveries /\ new = {}
         \/ /\ Previous(request[r]) = {}
            /\ \E result :
                  /\ delivery = Delivery(request[r], result)
                  /\ new # {} => result = "ACCEPTED"
            /\ \A e \in new :
                  /\ \E a, b, c : e = Event(request[r], a, b, c)
                  /\ NamesFit(e, users \ {Nobody}) /\ Timed(e) /\ Placed(e)
  PROVE  Inv'
<1> DEFINE o == request[r]
           t == [pc |-> "staged", source |-> o.source, id |-> o.id, body |-> o.body, key |-> o.key,
                 held |-> o.held, users |-> users \ {Nobody}, delivery |-> delivery, events |-> new]
<1>1. Waiting(o)
  BY DEF Inv, RequestsFit, Fits
<1>2. o.held = KeySet(o) /\ Trusted(o)
  BY <1>1 DEF Waiting
<1>3. Trusted(t) /\ t.held = KeySet(t) /\ t.users \subseteq active
  BY <1>2 DEF Trusted, Arrived, KeySet
<1>4. (delivery \in deliveries /\ new = {}) \/ Fresh(t)
  <2>1. CASE delivery \in deliveries /\ new = {}
    BY <2>1
  <2>2. CASE ~(delivery \in deliveries /\ new = {})
    <3>1. \A d \in deliveries : d.source = t.source => ~Same(d, t)
      BY <2>2 DEF Previous, Same
    <3>2. /\ delivery.source = t.source /\ delivery.id = t.id /\ delivery.body = t.body /\ delivery.key = t.key
          /\ new # {} => delivery.result = "ACCEPTED"
      BY <2>2 DEF Delivery
    <3>3. ASSUME NEW e \in new
          PROVE  /\ e.source = t.source /\ e.id = t.id /\ e.body = t.body
                 /\ NamesFit(e, users \ {Nobody}) /\ Timed(e) /\ Placed(e)
      <4>1. PICK a, b, c : e = Event(o, a, b, c)
        BY <2>2, <3>3
      <4>2. e.source = o.source /\ e.id = o.id /\ e.body = o.body
        BY <4>1 DEF Event
      <4>3. NamesFit(e, users \ {Nobody}) /\ Timed(e) /\ Placed(e)
        BY <2>2, <3>3
      <4> QED
        BY <4>2, <4>3
    <3>4. t.delivery = delivery /\ t.events = new /\ t.users = users \ {Nobody}
      OBVIOUS
    <3> HIDE DEF t
    <3> QED
      BY <3>1, <3>2, <3>3, <3>4 DEF Fresh
  <2> QED
    BY <2>1, <2>2
<1>5. Fits(t)
  BY <1>3, <1>4 DEF Fits, Staged
<1>6. \A q \in Request \ {r} : Apart(t, request[q])
  BY DEF Inv, RequestsFit, Apart, Flying
<1>7. request' = [request EXCEPT ![r] = t] /\ UNCHANGED <<settings, stored, clock>>
  BY DEF Stage
<1> HIDE DEF t
<1> QED
  BY <1>5, <1>6, <1>7, RequestMoves

LEMMA RepeatedSound ==
  ASSUME LimitsAssumption, Inv, NEW r \in Request, Repeated(r),
         request[r].pc = "waiting", request[r].wait = <<>>
  PROVE  Inv'
<1>1. PICK d \in Previous(request[r]) : Stage(r, {}, d, {})
  BY DEF Repeated
<1>2. d \in deliveries
  BY DEF Previous
<1> QED
  BY <1>1, <1>2, StageSound

\* Whom an identity stands for is mapped and in use.
LEMMA ResolvedFits ==
  ASSUME NEW s, NEW x
  PROVE  Resolved(s, x) # Nobody => Resolved(s, x) \in active /\ mapped[<<s, x>>] = Resolved(s, x)
BY DEF Resolved

LEMMA WebhookSound == ASSUME LimitsAssumption, Inv, NEW r \in Request, ActWebhook(r) PROVE Inv'
<1> DEFINE o == request[r]
<1>1. o.pc = "waiting" /\ o.wait = <<>> /\ KindOf[o.source] = "WEBHOOK"
  BY DEF ActWebhook, Ready
<1>2. CASE Refuse(r)
  BY <1>2, RefuseSound
<1>3. CASE Repeated(r)
  BY <1>1, <1>3, RepeatedSound
<1>4. CASE Previous(o) = {} /\ Stage(r, {}, Delivery(o, "ACCEPTED"), {Event(o, Nobody, Nobody, Company)})
  <2> DEFINE e == Event(o, Nobody, Nobody, Company)
  <2>1. NamesFit(e, {} \ {Nobody}) /\ Timed(e) /\ Placed(e)
    BY <1>1 DEF Event, NamesFit, Timed, Placed
  <2> QED
    BY <1>1, <1>4, <2>1, StageSound
<1> QED
  BY <1>2, <1>3, <1>4 DEF ActWebhook

\* What a GitHub body says of its time, once it is timely.
LEMMA GithubTime ==
  ASSUME LimitsAssumption, NEW b \in News, Supported(b), Timely(OccurredAt(b))
  PROVE  OccurredAt(b) \in Nat
<1>1. Semantic(b) \in {"opened", "closed", "merged"}
  BY DEF Semantic, Supported
<1>2. b.times[Semantic(b)] \in Nat \cup {Absent}
  BY <1>1 DEF News
<1>3. OccurredAt(b) # Absent
  BY DEF Timely, Absent
<1> QED
  BY <1>2, <1>3 DEF OccurredAt

\* Intervals of a source do not overlap, so there is one scope to choose.
LEMMA OneOwner ==
  ASSUME LimitsAssumption, IntervalsFit, NEW s, NEW at \in Nat, at < clock, NEW p \in Scopes(s, at)
  PROVE  Owners(s, at) = {p} \ {Company}
<1>1. at \in 0..Never
  BY DEF IntervalsFit, LimitsAssumption, Never
<1>2. CASE Attributed(s, at) = {}
  BY <1>2 DEF Scopes, Owners
<1>3. CASE Attributed(s, at) # {}
  <2>1. PICK a \in Attributed(s, at) : p = a.project
    BY <1>3 DEF Scopes
  <2>2. \A b \in Attributed(s, at) : b = a
    BY <1>1 DEF Attributed, IntervalsFit
  <2>3. p \in Project /\ p # Company
    BY <2>1 DEF Attributed, IntervalsFit, LimitsAssumption, Unit
  <2>4. Owners(s, at) = {p}
    BY <2>1, <2>2 DEF Owners
  <2> QED
    BY <2>3, <2>4
<1> QED
  BY <1>2, <1>3

LEMMA GithubSound == ASSUME LimitsAssumption, Inv, NEW r \in Request, ActGithub(r) PROVE Inv'
<1> DEFINE o == request[r]
           b == About[o.body]
           at == OccurredAt(b)
           actor == Resolved(o.source, b.sender)
           subject == Resolved(o.source, b.author)
<1>1. o.pc = "waiting" /\ o.wait = <<>> /\ KindOf[o.source] = "GITHUB"
  BY DEF ActGithub, Ready
<1>2. CASE Refuse(r)
  BY <1>2, RefuseSound
<1>3. CASE Repeated(r)
  BY <1>1, <1>3, RepeatedSound
<1>4. CASE Previous(o) = {} /\ Stage(r, {}, Delivery(o, "UNSUPPORTED"), {})
  BY <1>1, <1>4, StageSound
<1>5. ASSUME Previous(o) = {}, Supported(b), Timely(at), NEW p \in Scopes(o.source, at),
             Stage(r, {actor, subject}, Delivery(o, "ACCEPTED"), {Event(o, actor, subject, p)})
      PROVE  Inv'
  <2> DEFINE e == Event(o, actor, subject, p)
             users == {actor, subject}
  <2>1. Arrived(o)
    BY <1>1 DEF Inv, RequestsFit, Fits, Waiting, Trusted
  <2>2. b \in News
    BY <1>1, <2>1 DEF Arrived, LimitsAssumption, Post, Asked
  <2>3. at \in Nat
    BY <1>5, <2>2, GithubTime
  <2>4. users \ {Nobody} \subseteq active
    BY ResolvedFits
  <2>5. /\ e.source = o.source /\ e.id = o.id /\ e.body = o.body /\ e.actor = actor
        /\ e.subject = subject /\ e.scope = p /\ e.received = clock
    BY DEF Event
  <2>6. NamesFit(e, users \ {Nobody})
    <3>1. /\ actor # Nobody => mapped[<<o.source, b.sender>>] = actor
          /\ subject # Nobody => mapped[<<o.source, b.author>>] = subject
      BY ResolvedFits
    <3> QED
      BY <2>5, <3>1 DEF NamesFit
  <2>7. Timed(e)
    <3>1. clock \in 0..clock
      BY DEF Inv, IntervalsFit
    <3>2. at < clock => Owners(o.source, at) = {p} \ {Company}
      BY <1>5, <2>3, OneOwner DEF Inv
    <3> HIDE DEF e, at
    <3> QED
      BY <2>3, <2>5, <3>1, <3>2 DEF Timed, at
  <2>8. Placed(e)
    BY <1>1, <2>5 DEF Placed
  <2>9. Stage(r, users, Delivery(o, "ACCEPTED"), {e})
    BY <1>5
  <2>10. e = Event(o, actor, subject, p)
    OBVIOUS
  <2> HIDE DEF e, users, actor, subject, at, b
  <2> QED
    BY <1>1, <1>5, <2>4, <2>6, <2>7, <2>8, <2>9, <2>10, StageSound
<1> QED
  BY <1>2, <1>3, <1>4, <1>5 DEF ActGithub

LEMMA OnlyOne == ASSUME NEW S, IsFiniteSet(S), Cardinality(S) = 1, NEW x \in S PROVE S = {x}
BY FS_Singleton

\* The unit that words name is the longest of those they begin with.
LEMMA MatchOnly ==
  ASSUME LimitsAssumption, NEW units \in SUBSET Unit, NEW words, NEW n \in MatchUnit(units, words)
  PROVE  /\ n \in Matching(units, words)
         /\ \A m \in units : m \in Matching(units, words) => m = n \/ Len(Named[m]) < Len(Named[n])
<1> DEFINE all == Matching(units, words)
           best == Longest(all)
<1>1. all \subseteq units /\ best \subseteq all
  BY DEF Matching, Longest
<1>2. best = {n}
  <2>1. IsFiniteSet(best)
    BY <1>1, FS_Subset DEF LimitsAssumption
  <2>2. Cardinality(best) = 1 /\ n \in best
    BY DEF MatchUnit
  <2> HIDE DEF best
  <2> QED
    BY <2>1, <2>2, OnlyOne
<1>3. \A m \in units : Len(Named[m]) \in Nat
  BY DEF LimitsAssumption
<1>4. ASSUME NEW m \in all, m # n PROVE Len(Named[m]) < Len(Named[n])
  <2>1. m \notin best
    BY <1>2, <1>4
  <2>2. PICK k \in all : ~(Len(Named[k]) <= Len(Named[m]))
    BY <2>1 DEF Longest
  <2>3. Len(Named[k]) <= Len(Named[n])
    BY <1>2 DEF Longest
  <2> HIDE DEF all
  <2> QED
    BY <1>1, <1>2, <1>3, <2>2, <2>3
<1> QED
  BY <1>1, <1>2, <1>4

\* Help goes to a unit the person may ask in and meant.
LEMMA HelpPlaced ==
  ASSUME LimitsAssumption, NEW u, NEW b, NEW n \in HelpScope(u, b), n # Company,
         NEW rivals, rivals = (IF n \in Team THEN Eligible(u, Team) ELSE Eligible(u, Project))
  PROVE  /\ n \in rivals
         /\ rivals = {n} \/ (\A m \in rivals : m \in Matching(rivals, b.words) =>
                                m = n \/ Len(Named[m]) < Len(Named[n]))
         /\ rivals # {n} => n \in Matching(rivals, b.words)
<1>1. /\ Eligible(u, Team) \subseteq Team /\ Eligible(u, Project) \subseteq Project
      /\ Team \subseteq Unit /\ Project \subseteq Unit /\ Team \cap Project = {}
  BY DEF Eligible, Unit, LimitsAssumption
<1>2. ASSUME NEW units \in {Eligible(u, Team), Eligible(u, Project)}, n \in MatchUnit(units, b.words)
      PROVE  /\ units = rivals /\ n \in Matching(units, b.words)
             /\ \A m \in units : m \in Matching(units, b.words) => m = n \/ Len(Named[m]) < Len(Named[n])
  <2>1. units \subseteq Unit
    BY <1>1
  <2>2. /\ n \in Matching(units, b.words)
        /\ \A m \in units : m \in Matching(units, b.words) => m = n \/ Len(Named[m]) < Len(Named[n])
    BY <1>2, <2>1, MatchOnly
  <2>3. n \in units
    BY <2>2 DEF Matching
  <2>4. units = rivals
    BY <1>1, <2>3
  <2> QED
    BY <2>2, <2>4
<1>3. CASE \E units \in {Eligible(u, Team), Eligible(u, Project)} : n \in MatchUnit(units, b.words)
  <2>1. n \in rivals
    BY <1>2, <1>3 DEF Matching
  <2> QED
    BY <1>2, <1>3, <2>1
<1>4. CASE Cardinality(Eligible(u, Team)) = 1 /\ n \in Eligible(u, Team)
  <2>1. Eligible(u, Team) = {n}
    BY <1>1, <1>4, FS_Subset, OnlyOne DEF LimitsAssumption
  <2> QED
    BY <1>1, <1>4, <2>1
<1> QED
  BY <1>3, <1>4 DEF HelpScope

LEMMA SlackSound ==
  ASSUME LimitsAssumption, Inv, NEW r \in Request, NEW willing \in BOOLEAN, ActSlack(r, willing)
  PROVE  Inv'
<1> DEFINE o == request[r]
           b == About[o.body]
           actor == Resolved(o.source, b.sender)
           subject == IF b.command = "HELP" THEN Nobody ELSE Resolved(o.source, b.author)
           scopes == IF b.command = "HELP" THEN HelpScope(actor, b) ELSE {Company}
           result == SlackResult(o, willing)
           users == {actor, subject}
<1>1. o.pc = "waiting" /\ o.wait = <<>> /\ KindOf[o.source] = "SLACK"
  BY DEF ActSlack, Ready
<1>2. users \ {Nobody} \subseteq active
  BY ResolvedFits
<1>3. CASE Refuse(r)
  BY <1>3, RefuseSound
<1>4. CASE Repeated(r)
  BY <1>1, <1>4, RepeatedSound
<1>5. CASE Previous(o) = {} /\ Stage(r, users, Delivery(o, result), {})
  <2> HIDE DEF users, result
  <2> QED
    BY <1>1, <1>2, <1>5, StageSound
<1>6. ASSUME Previous(o) = {}, result = "ACCEPTED", NEW n \in scopes,
             Stage(r, users, Delivery(o, result), {Event(o, actor, subject, n)})
      PROVE  Inv'
  <2> DEFINE e == Event(o, actor, subject, n)
  <2>1. /\ e.source = o.source /\ e.id = o.id /\ e.body = o.body /\ e.actor = actor
        /\ e.subject = subject /\ e.scope = n
    BY DEF Event
  <2>2. NamesFit(e, users \ {Nobody})
    <3>1. /\ actor # Nobody => mapped[<<o.source, b.sender>>] = actor
          /\ subject # Nobody => mapped[<<o.source, b.author>>] = subject
      BY ResolvedFits
    <3>2. {actor, subject} \subseteq users
      OBVIOUS
    <3> HIDE DEF e, actor, subject, users
    <3> QED
      BY <2>1, <3>1, <3>2 DEF NamesFit
  <2>3. Timed(e)
    BY <1>1, <2>1 DEF Timed
  <2>4. Placed(e)
    <3>1. CASE n = Company
      BY <2>1, <3>1 DEF Placed
    <3>2. CASE n # Company
      <4> DEFINE rivals == IF n \in Team THEN Eligible(actor, Team) ELSE Eligible(actor, Project)
      <4>1. n \in HelpScope(actor, b) /\ rivals = (IF n \in Team THEN Eligible(actor, Team) ELSE Eligible(actor, Project))
        BY <1>6, <3>2
      <4> HIDE DEF rivals, actor, b
      <4>2. /\ n \in rivals
            /\ rivals = {n} \/ (\A m \in rivals : m \in Matching(rivals, b.words) =>
                                   m = n \/ Len(Named[m]) < Len(Named[n]))
            /\ rivals # {n} => n \in Matching(rivals, b.words)
        BY <3>2, <4>1, HelpPlaced
      <4> HIDE DEF e, subject
      <4> QED
        BY <2>1, <4>1, <4>2 DEF Placed, b
    <3> QED
      BY <3>1, <3>2
  <2>5. Stage(r, users, Delivery(o, result), {e}) /\ e = Event(o, actor, subject, n)
    BY <1>6
  <2> HIDE DEF e, users, actor, subject, result, b
  <2> QED
    BY <1>1, <1>2, <1>6, <2>2, <2>3, <2>4, <2>5, StageSound
<1> QED
  BY <1>3, <1>4, <1>5, <1>6 DEF ActSlack

\* What commits is there already or is new, and whoever else is about to commit
\* for the source holds other keys.
LEMMA CommitSound == ASSUME LimitsAssumption, Inv, NEW r \in Request, Commit(r) PROVE Inv'
<1> DEFINE t == request[r]
           d == t.delivery
<1>1. /\ t.pc = "staged" /\ deliveries' = deliveries \cup {d} /\ events' = events \cup t.events
      /\ request' = [request EXCEPT ![r] = Rest]
      /\ UNCHANGED <<source, mapped, active, enabled, attribution, closedAt, seats, moves, sends, clock>>
  BY DEF Commit, settings
<1>2. Staged(t) /\ RequestsFit /\ IntervalsFit /\ ActedOnce /\ EventsFit
  BY <1>1 DEF Inv, RequestsFit, Fits
<1>3. CASE d \in deliveries /\ t.events = {}
  <2>1. Refuse(r)
    BY <1>1, <1>3 DEF Refuse, settings, stored
  <2> QED
    BY <2>1, RefuseSound
<1>4. CASE Fresh(t)
  <2>1. IntervalsFit' /\ clock' >= clock
    BY <1>1, <1>2 DEF IntervalsFit
  <2>2. /\ d.source = t.source /\ d.id = t.id /\ d.body = t.body
        /\ \A e \in deliveries : e.source = t.source => ~Same(e, t)
        /\ \A e \in t.events :
              e.source = t.source /\ e.id = t.id /\ e.body = t.body /\ d.result = "ACCEPTED" /\ Timed(e)
    BY <1>4 DEF Fresh
  <2>3. ActedOnce'
    <3>1. ASSUME NEW x \in deliveries, x.source = d.source,
                 x.id = d.id \/ (KindOf[x.source] = "GITHUB" /\ x.body = d.body)
          PROVE  FALSE
      BY <2>2, <3>1 DEF Same
    <3>2. ASSUME NEW x \in deliveries', NEW y \in deliveries', x.source = y.source,
                 x.id = y.id \/ (KindOf[x.source] = "GITHUB" /\ x.body = y.body)
          PROVE  x = y
      <4>1. CASE x \in deliveries /\ y \in deliveries
        BY <1>2, <3>2, <4>1 DEF ActedOnce
      <4>2. CASE x = d \/ y = d
        BY <1>1, <3>1, <3>2, <4>2
      <4> QED
        BY <1>1, <4>1, <4>2
    <3>3. ASSUME NEW e \in events'
          PROVE  \E x \in deliveries' :
                   x.source = e.source /\ x.id = e.id /\ x.body = e.body /\ x.result = "ACCEPTED"
      <4>1. CASE e \in events
        BY <1>1, <1>2, <4>1 DEF ActedOnce
      <4>2. CASE e \in t.events
        BY <1>1, <2>2, <4>2
      <4> QED
        BY <1>1, <4>1, <4>2
    <3> QED
      BY <3>2, <3>3 DEF ActedOnce
  <2>4. EventsFit'
    <3>1. \A s, at : Owners(s, at)' = Owners(s, at)
      BY <1>1 DEF Owners, Attributed
    <3>2. \A e \in events' : Timed(e)
      BY <1>1, <1>2, <2>2 DEF EventsFit
    <3>3. \A e : Timed(e) => Timed(e)'
      BY <1>2, <2>1, <3>1, TimedStays
    <3> QED
      BY <3>2, <3>3 DEF EventsFit
  <2>5. ASSUME NEW q \in Request \ {r} PROVE Fits(request[q])'
    <3>0. PICK o : o = request[q]
      OBVIOUS
    <3>1. Fits(o) /\ Apart(t, o)
      BY <1>2, <3>0 DEF RequestsFit
    <3>2. Steady(o)
      BY <1>1, <1>2, <3>0, AtWork DEF Steady, Created
    <3>3. ASSUME o.pc = "staged", d.source = o.source PROVE ~Same(d, o)
      <4>1. o.held = KeySet(o) /\ t.held = KeySet(t) /\ Flying(o) /\ Flying(t)
        BY <1>1, <1>2, <3>1, <3>3 DEF Fits, Staged, Flying
      <4>2. KeySet(t) \cap KeySet(o) = {}
        BY <2>2, <3>1, <3>3, <4>1 DEF Apart
      <4> QED
        BY <2>2, <3>3, <4>2 DEF KeySet, Same
    <3>4. deliveries \subseteq deliveries' /\ deliveries' \ deliveries \subseteq {d}
      BY <1>1
    <3>5. Fits(o)'
      <4> HIDE DEF d
      <4>1. o.pc = "staged" => \A x \in deliveries' \ deliveries : x.source = o.source => ~Same(x, o)
        BY <3>3, <3>4
      <4> QED
        BY <1>2, <2>1, <3>1, <3>2, <3>4, <4>1, SteadyFits
    <3> QED
      BY <1>1, <1>2, <3>0, <3>5 DEF RequestsFit
  <2>6. request'[r] = Rest /\ DOMAIN request' = Request /\ \A q \in Request \ {r} : request'[q] = request[q]
    BY <1>1, <1>2 DEF RequestsFit
  <2>7. \A p, q \in Request : p # q => Apart(request'[p], request'[q])
    BY <1>2, <2>6 DEF RequestsFit, Apart, Flying, Rest
  <2>8. RequestsFit'
    <3>1. Fits(request[r])'
      BY <2>6 DEF Fits, Rest
    <3>2. \A p, q \in Request : p # q => Apart(request[p], request[q])'
      BY <2>7 DEF Apart, Flying
    <3> QED
      BY <2>5, <2>6, <3>1, <3>2 DEF RequestsFit
  <2> QED
    BY <2>1, <2>3, <2>4, <2>8 DEF Inv
<1> QED
  BY <1>2, <1>3, <1>4 DEF Staged

-----------------------------------------------------------------------------
(* Every step *)

LEMMA ReceiveSound == ASSUME LimitsAssumption, Inv, NEW r \in Request, Receive(r) PROVE Inv'
<1>1. CASE \E s \in Source, id \in Identity, b \in Body, k \in 0..MaxMoves : Send(r, s, id, b, k)
  BY <1>1, SendSound
<1>2. CASE \E willing \in BOOLEAN : ActSlack(r, willing)
  BY <1>2, SlackSound
<1>3. CASE Crash(r)
  BY <1>3, RefuseSound DEF Crash
<1> QED
  BY <1>1, <1>2, <1>3, VerifySound, WaitSound, WebhookSound, GithubSound, CommitSound DEF Receive

LEMMA NextInv == ASSUME LimitsAssumption, Inv, [Next]_vars PROVE Inv'
<1>1. CASE Administration
  BY <1>1, AdministrationSound
<1>2. CASE Tick
  BY <1>2, TickSound
<1>3. CASE \E r \in Request : Receive(r)
  BY <1>3, ReceiveSound
<1>4. CASE UNCHANGED vars
  <2>1. UNCHANGED <<source, mapped, active, attribution, closedAt, seats, request, deliveries, events, clock>>
    BY <1>4 DEF vars, stored
  <2>2. ASSUME NEW r \in Request PROVE Steady(request[r])
    BY <2>1, AtWork DEF Steady, Created, Inv
  <2> QED
    BY <2>1, <2>2, CalmSound
<1> QED
  BY <1>1, <1>2, <1>3, <1>4 DEF Next

\* The invariant the rest follows from.
THEOREM AlwaysInv == Spec => []Inv
<1>1. Init => Inv
  BY LimitsAssumption, InitInv
<1>2. Inv /\ [Next]_vars => Inv'
  BY LimitsAssumption, NextInv
<1> QED
  BY <1>1, <1>2, PTL DEF Spec

-----------------------------------------------------------------------------
(* What follows *)

\* Only a commit stores anything.
LEMMA OnlyCommits == ASSUME [Next]_vars PROVE UNCHANGED stored \/ (\E r \in Request : Commit(r))
<1>1. CASE UNCHANGED vars
  BY <1>1 DEF vars, stored
<1>2. CASE Administration
  BY <1>2 DEF Administration, CreateSource, ChangeSource, Mapping, SetActive, Switch, Assign, CloseUnit, Membership, stored
<1>3. CASE Tick
  BY <1>3 DEF Tick
<1>4. CASE \E r \in Request : Receive(r)
  <2>1. PICK r \in Request : Receive(r)
    BY <1>4
  <2>2. Verify(r) => UNCHANGED stored
    BY DEF Verify, Refuse
  <2>3. ActWebhook(r) => UNCHANGED stored
    BY DEF ActWebhook, Refuse, Repeated, Stage
  <2>4. ActGithub(r) => UNCHANGED stored
    BY DEF ActGithub, Refuse, Repeated, Stage
  <2>5. \A willing \in BOOLEAN : ActSlack(r, willing) => UNCHANGED stored
    BY DEF ActSlack, Refuse, Repeated, Stage
  <2>6. Crash(r) => UNCHANGED stored
    BY DEF Crash, Refuse
  <2>7. Wait(r) => UNCHANGED stored
    BY DEF Wait
  <2>8. (\E s \in Source, id \in Identity, b \in Body, k \in 0..MaxMoves : Send(r, s, id, b, k)) => UNCHANGED stored
    BY DEF Send
  <2> QED
    BY <2>1, <2>2, <2>3, <2>4, <2>5, <2>6, <2>7, <2>8 DEF Receive
<1> QED
  BY <1>1, <1>2, <1>3, <1>4 DEF Next

\* What is new when something commits.
LEMMA CommitAdds ==
  ASSUME Inv, NEW r \in Request, Commit(r)
  PROVE  /\ \A d \in deliveries' \ deliveries : Trusted(request[r]) /\ d.source = request[r].source /\ d.key = request[r].key
         /\ \A e \in events' \ events :
               /\ request[r].users \subseteq active
               /\ NamesFit(e, request[r].users) /\ Placed(e)
<1>1. Staged(request[r])
  BY DEF Commit, Inv, RequestsFit, Fits
<1>2. deliveries' \ deliveries \subseteq {request[r].delivery} /\ events' \ events \subseteq request[r].events
  BY DEF Commit
<1>3. CASE request[r].delivery \in deliveries /\ request[r].events = {}
  BY <1>2, <1>3
<1>4. CASE Fresh(request[r])
  BY <1>1, <1>2, <1>4 DEF Staged, Fresh
<1> QED
  BY <1>1, <1>3, <1>4 DEF Staged

\* However often, however late and at whatever the same time a message comes,
\* by its identity or as the same body it is acted on once.
THEOREM AlwaysActedOnce == Spec => []ActedOnce
<1>1. Inv => ActedOnce
  BY DEF Inv
<1> QED
  BY <1>1, AlwaysInv, PTL

\* News belongs to the project its source belonged to when it happened, by the
\* history as it stands however much later.
THEOREM AlwaysScopeAsOfOccurrence == Spec => []ScopeAsOfOccurrence
<1>1. Inv => ScopeAsOfOccurrence
  <2> SUFFICES ASSUME EventsFit, NEW e \in events, KindOf[e.source] = "GITHUB",
                      OccurredAt(About[e.body]) < e.received
               PROVE  Owners(e.source, OccurredAt(About[e.body])) = {e.scope} \ {Company}
    BY DEF Inv, ScopeAsOfOccurrence, Owners, Attributed
  <2> QED
    BY DEF EventsFit, Timed
<1> QED
  BY <1>1, AlwaysInv, PTL

\* The lock of the source holds from verification to the commit: nothing signed
\* with a secret that was rotated away, or for a source that was disabled,
\* commits afterwards.
THEOREM AlwaysNoStaleSecret == Spec => NoStaleSecret
<1>1. Inv /\ [Next]_vars =>
        [\A d \in deliveries' \ deliveries : source[d.source].active /\ d.key = source[d.source].secret]_vars
  <2> SUFFICES ASSUME Inv, [Next]_vars, NEW d \in deliveries' \ deliveries
               PROVE  source[d.source].active /\ d.key = source[d.source].secret
    OBVIOUS
  <2>1. PICK r \in Request : Commit(r)
    BY OnlyCommits DEF stored
  <2> QED
    BY <2>1, CommitAdds DEF Trusted
<1> QED
  BY <1>1, AlwaysInv, PTL DEF Spec, NoStaleSecret

\* The people an event names were locked when they were looked up and the
\* mapping with the source: they are still who is meant when it commits.
THEOREM AlwaysNamesActivePeople == Spec => NamesActivePeople
<1>1. Inv /\ [Next]_vars =>
        [\A e \in events' \ events :
            /\ {e.actor, e.subject} \ {Nobody} \subseteq active
            /\ e.actor # Nobody => mapped[<<e.source, About[e.body].sender>>] = e.actor
            /\ e.subject # Nobody => mapped[<<e.source, About[e.body].author>>] = e.subject]_vars
  <2> SUFFICES ASSUME Inv, [Next]_vars, NEW e \in events' \ events
               PROVE  /\ {e.actor, e.subject} \ {Nobody} \subseteq active
                      /\ e.actor # Nobody => mapped[<<e.source, About[e.body].sender>>] = e.actor
                      /\ e.subject # Nobody => mapped[<<e.source, About[e.body].author>>] = e.subject
    OBVIOUS
  <2>1. PICK r \in Request : Commit(r)
    BY OnlyCommits DEF stored
  <2> QED
    BY <2>1, CommitAdds DEF NamesFit
<1> QED
  BY <1>1, AlwaysInv, PTL DEF Spec, NamesActivePeople

\* Names, seats and open units are under the company's lock from the command to
\* the commit: help is asked where the person may ask and meant to.
THEOREM AlwaysAskedWhereNamed == Spec => AskedWhereNamed
<1>1. Inv /\ [Next]_vars =>
        [\A e \in events' \ events :
           LET b == About[e.body]
               rivals == IF e.scope \in Team THEN Eligible(e.actor, Team) ELSE Eligible(e.actor, Project)
           IN  KindOf[e.source] = "SLACK" /\ e.scope # Company =>
                 /\ e.scope \in rivals
                 /\ rivals = {e.scope} \/ (\A n \in rivals : n \in Matching(rivals, b.words) =>
                                              n = e.scope \/ Len(Named[n]) < Len(Named[e.scope]))
                 /\ rivals # {e.scope} => e.scope \in Matching(rivals, b.words)]_vars
  <2> SUFFICES ASSUME Inv, [Next]_vars, NEW e \in events' \ events PROVE Placed(e)
    BY DEF Placed
  <2>1. PICK r \in Request : Commit(r)
    BY OnlyCommits DEF stored
  <2> QED
    BY <2>1, CommitAdds
<1> QED
  BY <1>1, AlwaysInv, PTL DEF Spec, AskedWhereNamed
=============================================================================
