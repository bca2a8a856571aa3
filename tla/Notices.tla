------------------------------ MODULE Notices -------------------------------
(* What people are told.  A business transaction hands what it observed to   *)
(* the NotificationRouter, which puts a notice into the inbox of every       *)
(* recipient and, for three classes of events, a row into the outbox, all in *)
(* that transaction.  Delivery drains the outbox; people read and archive.   *)
EXTENDS Delivery, SequencesExt

CONSTANTS Person, Observation,
          Says,       \* by observation: event, to, viewers, about, ref
          Recorded,   \* tasks, rewards, redemptions and people on record
          Joining,    \* people who have not activated their account yet
          Movable,    \* people who are deactivated and reactivated
          Readers,    \* people who read their inbox
          MaxTold     \* bound: observations handed over

ASSUME CompanyAssumption == IsFiniteSet(Person)

VARIABLES active,     \* accounts in use
          activated,  \* accounts whose owner has chosen a password
          inbox,      \* notices
          pushed,     \* dedupe keys of the outbox, by row
          told        \* observations handed over so far

own == <<active, activated, inbox, pushed, told>>
all == <<vars, own>>

\* The approved classes; every other event stays in the inbox.
PushClass == [MANAGER_RECOGNITION |-> "RECOGNITION_RECEIVED",
              APPROVAL_REQUESTED  |-> "INCENTIVE_APPROVAL_ACTION_REQUIRED",
              HELP_ROUTED         |-> "HELP_REQUEST_ACTION_REQUIRED",
              HELP_ESCALATED      |-> "HELP_REQUEST_ACTION_REQUIRED"]

\* What the mail of a row is about: escalated help is told apart from help.
Template(event) == <<PushClass[event], event = "HELP_ESCALATED">>

CanBeReached(u) == u \in active \cap activated

-----------------------------------------------------------------------------
(* Telling *)

\* A batch that names a person or a record the company does not have refuses
\* the whole command.
Sound(o) == Says[o].to \subseteq Person /\ Says[o].about \subseteq Recorded

\* A task is told of to those who may see it.
Recipients(o) == Says[o].to \cap Says[o].viewers

\* Whoever awaits activation is told; whoever was deactivated is not.
Eligible(o) == Recipients(o) \cap active

Notice(o, u) == [no |-> told + 1, to |-> u, event |-> Says[o].event, ref |-> Says[o].ref,
                 read |-> FALSE, archived |-> FALSE]

DedupeKey(o, u) == [event |-> Says[o].event, to |-> u, ref |-> Says[o].ref]

\* Mutant: the key says nothing of what the event is about, so that a person
\* is pushed the first of several things only.
PushesOfEvents(o) ==
    IF Says[o].event \in DOMAIN PushClass
    THEN {DedupeKey(o, u) : u \in {v \in Eligible(o) :
            \A p \in Range(pushed) : ~(p.event = Says[o].event /\ p.to = v)}} ELSE {}

\* The rows to insert: those whose key is in the outbox conflict with it.
Pushes(o) ==
    IF Says[o].event \in DOMAIN PushClass
    THEN {DedupeKey(o, u) : u \in Eligible(o)} \ Range(pushed) ELSE {}

Notify(o) ==
    LET new == SetToSeq(Pushes(o))
        rows == Len(pushed) + 1 .. Len(pushed) + Len(new)
    IN  /\ Sound(o)
        /\ Eligible(o) # {}
        /\ told < MaxTold /\ told' = told + 1
        /\ rows \subseteq Key
        /\ inbox' = inbox \cup {Notice(o, u) : u \in Eligible(o)}
        /\ pushed' = pushed \o new
        /\ IF rows = {} THEN UNCHANGED vars
           ELSE Stage(rows, {k \in rows : CanBeReached(pushed'[k].to)})
        /\ UNCHANGED <<active, activated>>

-----------------------------------------------------------------------------
(* Reading *)

Mine(u) == {n \in inbox : n.to = u}
\* Whatever is archived is read as well.
Marked(S, archived) ==
    inbox' = (inbox \ S) \cup {[n EXCEPT !.read = TRUE, !.archived = @ \/ archived] : n \in S}
Inboxes == UNCHANGED <<vars, active, activated, pushed, told>>

MarkRead(u, n) ==
    /\ n \in Mine(u) /\ ~n.read
    /\ Marked({n}, FALSE)
    /\ Inboxes

MarkAllRead(u) ==
    /\ \E n \in Mine(u) : ~n.read
    /\ Marked({n \in Mine(u) : ~n.read}, FALSE)
    /\ Inboxes

ArchiveNotice(u, n) ==
    /\ n \in Mine(u) /\ ~n.archived
    /\ Marked({n}, TRUE)
    /\ Inboxes

ArchiveAllRead(u) ==
    /\ \E n \in Mine(u) : n.read /\ ~n.archived
    /\ Marked({n \in Mine(u) : n.read /\ ~n.archived}, TRUE)
    /\ Inboxes

-----------------------------------------------------------------------------
(* Accounts come and go; a worker reads the account when it delivers. *)

RowsOf(u) == {k \in DOMAIN pushed : pushed[k].to = u}

Account(u) ==
    /\ IF RowsOf(u) = {} THEN UNCHANGED vars ELSE RecipientsChange(RowsOf(u), u \in active' \cap activated')
    /\ UNCHANGED <<inbox, pushed, told>>

SetActive(u) ==
    /\ active' = IF u \in active THEN active \ {u} ELSE active \cup {u}
    /\ UNCHANGED activated
    /\ Account(u)

Activate(u) ==
    /\ u \in active \ activated
    /\ activated' = activated \cup {u}
    /\ UNCHANGED active
    /\ Account(u)

-----------------------------------------------------------------------------
Worked(A) == A /\ UNCHANGED own

TellInit ==
    /\ Init
    /\ active = Person /\ activated = Person \ Joining
    /\ inbox = {} /\ pushed = <<>> /\ told = 0

TellNext ==
    \/ \E o \in Observation : Notify(o)
    \/ \E u \in Readers : \/ MarkAllRead(u) \/ ArchiveAllRead(u)
                          \/ \E n \in inbox : MarkRead(u, n) \/ ArchiveNotice(u, n)
    \/ \E u \in Movable : SetActive(u)
    \/ \E u \in Joining : Activate(u)
    \/ \E k \in Key : Worked(BackoffEnds(k))
    \/ \E w \in Worker : Worked(SelectBatch(w) \/ Attempt(w) \/ GiveUp(w) \/ CommitRow(w) \/ Crash(w))

\* The fairness of Delivery: passes are scheduled, and time passes.
TellSpec ==
    /\ TellInit /\ [][TellNext]_all
    /\ \A w \in Worker : /\ WF_all(Worked(SelectBatch(w)))
                         /\ SF_all(Worked(Attempt(w))) /\ SF_all(Worked(CommitRow(w)))
    /\ \A k \in Key : WF_all(Worked(BackoffEnds(k)))

-----------------------------------------------------------------------------
(* Properties *)

\* "Restaging the same business outcome never duplicates the row", and never
\* swallows another one: a person's inbox has a notice of a push class exactly
\* when the outbox has one row for it, and a mail the provider took tells of it.
PushesMirrorNotices ==
    /\ IsInjective(pushed)
    /\ {[event |-> n.event, to |-> n.to, ref |-> n.ref] : n \in {x \in inbox : x.event \in DOMAIN PushClass}}
         = Range(pushed)
    /\ \A k \in Key : accepted[k] > 0 =>
          \E n \in inbox : n.to = pushed[k].to /\ Template(n.event) = Template(pushed[k].event)
=============================================================================
