------------------------------ MODULE Delivery ------------------------------
(***************************************************************************)
(* The notification outbox: rows staged by business transactions           *)
(* (notifications/outbound.py) and drained by passes of a worker process    *)
(* (notifications/delivery.py), several of which may run at once.           *)
(*                                                                         *)
(* A pass selects its rows FOR UPDATE SKIP LOCKED and then commits after    *)
(* every row.  The first commit releases all the locks of the pass; what it *)
(* still has to deliver are the copies of the rows it loaded, which the     *)
(* session keeps (expire_on_commit=False).  A row is written column by      *)
(* column: only what differs from the loaded copy.                          *)
(***************************************************************************)
EXTENDS Integers, FiniteSets, Sequences, Functions

CONSTANTS
  Rows,          \* rows 1..Rows, one per dedupe key, in the order of created_at
  Worker,        \* worker processes
  Limit,         \* --limit, the size of a batch
  MaxAttempts,   \* MAX_ATTEMPTS
  MaxLost        \* bound on the acceptances that go unrecorded

ASSUME OutboxAssumption ==
  Rows \in Nat /\ Limit \in Nat \ {0} /\ MaxAttempts \in Nat \ {0} /\ MaxLost \in Nat

ASSUME WorkersAssumption == IsFiniteSet(Worker)

Key == 1..Rows

VARIABLES
  outbox,      \* notification_deliveries: status, attempts and whether it is due
  reachable,   \* the recipient of the row is an active account
  batch,       \* per worker: copies of the rows it has still to deliver
  locked,      \* per worker: rows its select has locked
  outcome,     \* per worker: what came of the attempt not yet committed
  accepted,    \* history: times the provider accepted the message of a row
  unseen       \* history: acceptances that no commit will record

vars == <<outbox, reachable, batch, locked, outcome, accepted, unseen>>

Settled == {"SENT", "FAILED", "SKIPPED"}
Outcome == {"NONE", "SENT", "FAILED", "SKIPPED"}
Copy == [key : Key, attempts : Nat]

TypeOK ==
  /\ outbox \in [Key -> [status : {"ABSENT", "PENDING"} \cup Settled,
                         attempts : Nat, due : BOOLEAN]]
  /\ reachable \in [Key -> BOOLEAN]
  /\ batch \in [Worker -> Seq(Copy)]
  /\ locked \in [Worker -> SUBSET Key]
  /\ outcome \in [Worker -> Outcome]
  /\ accepted \in [Key -> Nat]
  /\ unseen \in [Key -> Nat]

Init ==
  /\ outbox = [k \in Key |-> [status |-> "ABSENT", attempts |-> 0, due |-> FALSE]]
  /\ reachable = [k \in Key |-> TRUE]
  /\ batch = [w \in Worker |-> <<>>]
  /\ locked = [w \in Worker |-> {}]
  /\ outcome = [w \in Worker |-> "NONE"]
  /\ accepted = [k \in Key |-> 0]
  /\ unseen = [k \in Key |-> 0]

\* A business transaction stages rows S, the next ones; the recipients of those
\* in up can be reached.  Staging an outcome again conflicts on its key and
\* does nothing.
Stage(S, up) ==
  /\ S # {}
  /\ \A k \in S : outbox[k].status = "ABSENT"
  /\ \A k \in S, j \in Key \ S : j < k => outbox[j].status # "ABSENT"
  /\ outbox' = [k \in Key |->
       IF k \in S THEN [outbox[k] EXCEPT !.status = "PENDING", !.due = TRUE] ELSE outbox[k]]
  /\ reachable' = [k \in Key |-> IF k \in S THEN k \in up ELSE reachable[k]]
  /\ UNCHANGED <<batch, locked, outcome, accepted, unseen>>

Due ==
  {k \in Key : /\ outbox[k].status = "PENDING" /\ outbox[k].due
               /\ \A w \in Worker : k \notin locked[w]}

\* The oldest rows that are due and that nobody has locked.
Chosen == {k \in Due : Cardinality({j \in Due : j < k}) < Limit}

\* Mutant: rows are selected without FOR UPDATE.
SelectWithoutLocks(w) ==
  /\ batch[w] = <<>> /\ Due # {}
  /\ \E k \in Chosen :
       batch' = [batch EXCEPT ![w] = <<[key |-> k, attempts |-> outbox[k].attempts]>>]
  /\ UNCHANGED <<outbox, reachable, locked, outcome, accepted, unseen>>

SelectBatch(w) ==
  /\ batch[w] = <<>> /\ Due # {}
  /\ batch' = [batch EXCEPT ![w] =
       [i \in 1..Cardinality(Chosen) |->
          LET k == CHOOSE k \in Chosen : Cardinality({j \in Chosen : j < k}) = i - 1
          IN  [key |-> k, attempts |-> outbox[k].attempts]]]
  /\ locked' = [locked EXCEPT ![w] = Chosen]
  /\ UNCHANGED <<outbox, reachable, outcome, accepted, unseen>>

Busy(w) == batch[w] # <<>>
Row(w) == Head(batch[w])
Attempting(w) == Busy(w) /\ outcome[w] = "NONE"
Lost == FoldFunction(+, 0, unseen)

\* Mutant: a skipped row is marked like a sent one.
SkipAsSent(w) ==
  /\ Attempting(w) /\ ~reachable[Row(w).key]
  /\ outcome' = [outcome EXCEPT ![w] = "SENT"]
  /\ UNCHANGED <<outbox, reachable, batch, locked, accepted, unseen>>

\* deliver_row for a recipient who is gone or not yet activated.
Skip(w) ==
  /\ Attempting(w) /\ ~reachable[Row(w).key]
  /\ outcome' = [outcome EXCEPT ![w] = "SKIPPED"]
  /\ UNCHANGED <<outbox, reachable, batch, locked, accepted, unseen>>

Send(w) ==
  /\ Attempting(w) /\ reachable[Row(w).key]
  /\ outcome' = [outcome EXCEPT ![w] = "SENT"]
  /\ accepted' = [accepted EXCEPT ![Row(w).key] = @ + 1]
  /\ UNCHANGED <<outbox, reachable, batch, locked, unseen>>

\* The provider may have accepted the message although the attempt failed.
FailToSend(w, taken) ==
  /\ Attempting(w) /\ reachable[Row(w).key]
  /\ taken => Lost < MaxLost
  /\ outcome' = [outcome EXCEPT ![w] = "FAILED"]
  /\ accepted' = IF taken THEN [accepted EXCEPT ![Row(w).key] = @ + 1] ELSE accepted
  /\ unseen' = IF taken THEN [unseen EXCEPT ![Row(w).key] = @ + 1] ELSE unseen
  /\ UNCHANGED <<outbox, reachable, batch, locked>>

\* The pass runs where no SMTP host is set: it rolls back and ends.
GiveUp(w) ==
  /\ Attempting(w) /\ reachable[Row(w).key]
  /\ batch' = [batch EXCEPT ![w] = <<>>]
  /\ locked' = [locked EXCEPT ![w] = {}]
  /\ UNCHANGED <<outbox, reachable, outcome, accepted, unseen>>

\* Mutants: the failed attempt is not counted, counted the wrong way, or the
\* last one is not recognised.
FailedUncounted(row, copy) == [row EXCEPT !.due = FALSE]

\* One more attempt than the copy had, whatever the row says by now.
Failed(row, copy) ==
  [row EXCEPT !.attempts = copy.attempts + 1, !.due = FALSE,
              !.status = IF copy.attempts + 1 >= MaxAttempts THEN "FAILED" ELSE @]

\* db.commit(): the update waits for whoever has the row locked.
CommitRow(w) ==
  LET k == Row(w).key
  IN  /\ Busy(w) /\ outcome[w] # "NONE"
      /\ \A v \in Worker \ {w} : k \notin locked[v]
      /\ outbox' = [outbox EXCEPT ![k] =
           IF outcome[w] = "FAILED" THEN Failed(@, Row(w)) ELSE [@ EXCEPT !.status = outcome[w]]]
      /\ batch' = [batch EXCEPT ![w] = Tail(@)]
      /\ locked' = [locked EXCEPT ![w] = {}]
      /\ outcome' = [outcome EXCEPT ![w] = "NONE"]
      /\ UNCHANGED <<reachable, accepted, unseen>>

\* The process dies; the database rolls its open transaction back.
Crash(w) ==
  /\ Busy(w)
  /\ outcome[w] = "SENT" => Lost < MaxLost
  /\ unseen' = IF outcome[w] = "SENT" THEN [unseen EXCEPT ![Row(w).key] = @ + 1] ELSE unseen
  /\ batch' = [batch EXCEPT ![w] = <<>>]
  /\ locked' = [locked EXCEPT ![w] = {}]
  /\ outcome' = [outcome EXCEPT ![w] = "NONE"]
  /\ UNCHANGED <<outbox, reachable, accepted>>

\* next_attempt_at passes.
BackoffEnds(k) ==
  /\ outbox[k].status = "PENDING" /\ ~outbox[k].due
  /\ outbox' = [outbox EXCEPT ![k].due = TRUE]
  /\ UNCHANGED <<reachable, batch, locked, outcome, accepted, unseen>>

\* The recipient of rows S is deactivated, reactivated or activates the account.
RecipientsChange(S, able) ==
  /\ S # {}
  /\ reachable' = [k \in Key |-> IF k \in S THEN able ELSE reachable[k]]
  /\ UNCHANGED <<outbox, batch, locked, outcome, accepted, unseen>>

Attempt(w) == Skip(w) \/ Send(w) \/ \E taken \in BOOLEAN : FailToSend(w, taken)

Next ==
  \/ \E S, up \in SUBSET Key : Stage(S, up)
  \/ \E S \in SUBSET Key, able \in BOOLEAN : RecipientsChange(S, able)
  \/ \E k \in Key : BackoffEnds(k)
  \/ \E w \in Worker : SelectBatch(w) \/ Attempt(w) \/ GiveUp(w) \/ CommitRow(w) \/ Crash(w)

Spec == Init /\ [][Next]_vars

\* Operators schedule passes again and again (docs/OPERATIONS.md).  Not every
\* pass runs without SMTP settings, not every pass crashes, and time passes.
FairSpec ==
  /\ Spec
  /\ \A w \in Worker : WF_vars(SelectBatch(w)) /\ SF_vars(Attempt(w)) /\ SF_vars(CommitRow(w))
  /\ \A k \in Key : WF_vars(BackoffEnds(k))

----------------------------------------------------------------------------

\* delivery.py:4: "one row = one logical push; SKIP LOCKED makes concurrent
\* workers safe".  Whoever was sent the same message twice was sent it again
\* because an acceptance went unrecorded (a crash before the commit, a failure
\* reported after the provider had accepted), never because two passes worked
\* on the same row.
DuplicatesNeedALostAcceptance == \A k \in Key : accepted[k] <= 1 + unseen[k]

\* A row is marked SENT only when the provider did accept its message.
SentWasAccepted == \A k \in Key : outbox[k].status = "SENT" => accepted[k] > unseen[k]

\* Whatever the size of a batch: passes that overlap send a message as often as
\* there are workers to hold a copy of its row, and no more often for what is
\* retried later, since a row that one of them settled is not selected again.
OneCopyPerWorker == \A k \in Key : accepted[k] <= Cardinality(Worker) + unseen[k]

\* Overlapping passes overwrite each other's count of attempts with that of
\* their own copies, yet no row waits for a retry beyond the last one allowed.
RetriesBounded ==
  \A k \in Key : /\ outbox[k].status = "PENDING" => outbox[k].attempts < MaxAttempts
                 /\ outbox[k].attempts <= MaxAttempts

\* Every staged notification is settled in the end, whatever the provider
\* does, as long as passes go on being scheduled.
EventuallySettled ==
  \A k \in Key : outbox[k].status = "PENDING" ~> outbox[k].status \in Settled
=============================================================================
