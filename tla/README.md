# Verification of the Corporate Virtual Economy backend

TLA+ models of the backend in `src/backend/app` (FastAPI, SQLAlchemy, PostgreSQL),
model-checked with TLC and proved with TLAPS where the proof system reaches. `PROJECT.json`
maps every definition to the lines it models.

## 1. The system

A company gives its people tasks that pay coins, and rewards that coins buy.
Every HTTP command is one database transaction (`routes.mutate`): it
authenticates the actor, runs a service function, commits. PostgreSQL runs at
READ COMMITTED, so what orders two commands is only the row locks and advisory
locks they take. Two things run outside requests: the outbox worker
(`scripts/deliver_notifications.py`) and the help escalation pass
(`scripts/escalate_help.py`), both started by operators on a schedule.

### 1.1 Components

| Component | State | Operations | Talks to |
|---|---|---|---|
| Task engine (`task_services`, `task_cycle_services`, `task_access`, `audience_guard`) | tasks, task cycles, submissions, contributions, task rows of the ledger | create, edit, reassign, claim, decline, return, progress, submit, resume, approve, reject, handoff, cancel, reopen, reactivate, set access | accounts (role, capacity), organization (admission), events |
| Accounts (`user_lifecycle`, `security`, `pilot_accounts`, `onboarding`) | users: role, active, activation, limit | update, capacity, invite, activate, sign in | task engine and rewards (nobody with responsibilities changes role) |
| Rewards (`reward_services`) | rewards, executor seats, redemptions, wallet rows of the ledger | redeem, approve, fulfil, cancel, adjust, save, toggle permission | accounts |
| Organization (`organization`) | units, memberships, lock row per company | create, join, leave, close | every scoped command |
| Capabilities (`capabilities`) | switches per company | update, require | governance, connectors |
| Canonical events (`canonical_events`, `ingestion`, `source_authority`, `internal_event_recorder`) | append-only events, deduplicated by key | record, ingest, webhook | rules |
| Governance (`rules`, `policies`, `approvals`, `incentive_safety`, `economic_effects`) | rule and policy versions, candidates, decisions, approvals, safety heads, effects, reversals | evaluate, decide, assess, issue, reverse | events, ledger |
| Collaboration (`collaboration`) | help requests, their routing, appreciation | open, accept, finish, confirm, route, retry, escalate | organization, notices |
| Notification outbox (`notifications`) | deliveries with status and attempts | stage, deliver, retry | mail server |
| Connectors (`github_connector`, `slack_connector`) | deliveries by digest or trigger | receive, map identities | ingestion, collaboration |
| Views (`provenance`, `attention`, `shadow`, `serializers`) | none, or append-only observations | read | all |
| Maintenance (`workspace_reset`, `workspace_files`, seeds, migrations) | none of their own | clear, provision | all |
| Browser application (`src/src`) | a copy of the company's state | calls the API; a reducer for the demonstration | backend |

### 1.2 What is hard about it

- **Stale actors.** Authentication loads the actor's row, and commands then wait
  for locks. Task commands take the organization lock exclusively, so tasks are
  read and written by one command at a time, yet the actor's role is the one
  from before the wait unless the task belongs to a unit.
- **Account edits run beside task commands.** `update_user` takes the company
  row and the user's row, not the organization lock; the capacity check takes the
  user's row. `set_access` takes the organization lock only in shared mode.
- **Money is floating point and is rounded two ways**: partial payouts up to the
  next half coin, remaining rewards half-up to whole coins.
- **History crosses cycles and holders**: a reward is paid in parts to several
  people, a task is reopened, an audience is narrowed and broadened.
- **The outbox worker commits inside its loop**, which gives up the locks its
  batch was selected with; it can crash between sending and committing.
- **Rewards take row locks in two orders** (redemption before reward, reward before
  user) beside edits that read a reward without a lock.
- **The governance chain is several transactions**, each of which can be repeated
  or race another, that must end in one credit at most. What people are told of it
  is derived a second time, by other queries.
- **Help routing lists first and locks later**, so requests are accepted, people moved
  and units closed between the two.
- **Providers repeat, delay and overlap messages**, while an admin rotates secrets, maps
  identities and moves work between projects.
- **The entry of accounts checks and then inserts**, and different companies share no
  lock; requests run with the role that authentication saw.

### 1.3 What makes each component correct

- Task engine: the ledger, the contributions and the task agree; no cycle pays
  more than it promises; progress adds up to 100 and no further; exactly one
  submission waits for review; closed cycles never change; the reward stands while
  someone works; live work is held only by somebody eligible; restricted history is
  exposed only with confirmation; limits hold; nobody pays out their own promise.
- Accounts: an address is one account; a password is its owner's alone; an admin who can
  log in remains; nobody with responsibilities is deactivated.
- Rewards: one debit and at most one refund per redemption; stock and personal limits
  hold; no wallet is overdrawn by a redemption.
- Governance: at most one credit per candidate, only while it is cleared and approved by
  somebody it does not pay, and at most one reversal, of exactly what was paid; what people
  are told agrees with the gate and with the ledger.
- Collaboration: one helper per request; a due request is escalated, once; only people of
  the scope are asked and credited.
- Outbox: every staged message settles; SENT means sent; nobody gets a message twice
  unless an acceptance went unrecorded, or more often than passes overlap; it mirrors
  what inboxes hold.
- Connectors: a signed message acts once, under the secret in force, for people in use,
  in the project and the unit it belongs to.

## 2. Modules

| Module | What it is |
|---|---|
| `TaskEconomy` | The task engine with the accounts it races with. |
| `CyclePayroll` | The abstract promise of the task engine: whom a task pays, within which promise, and when a promise may change. |
| `Sums` | The laws of finite sums that the proofs about money cite. |
| `TaskEconomyProofs` | Types, books, totals, routing, capacity and promises of any company; `TaskEconomy` implements `CyclePayroll`. |
| `Redemptions` | Rewards, redemptions, executor seats and account edits, lock by lock. |
| `RedemptionProofs` | What the row locks guarantee for any company and number of requests, and that wallets add up. |
| `Predicates` | The predicate language of rules and policies. |
| `Governance` | From a recorded event to coins: rules, policies, shadow, safety, approvals, effects, reversals. |
| `CreditOnce` | The abstract promise of governance: paid at most once, while cleared; a reversal leaves nothing. |
| `GovernanceProofs` | `Governance` implements `CreditOnce`; history stands; who approves is not who is paid; what `Provenance` shows is what the books hold. |
| `Provenance` | What people are told of governance, and who is asked to decide. |
| `Collaboration` | Organization, help, its routing passes, appreciation. |
| `Attention` | What help asks of each person. |
| `CollaborationProofs` | Routing, crediting and what people are asked, for any number of passes and people. |
| `Delivery` | The outbox and its concurrent workers. |
| `DeliveryProofs` | What SENT, copies and attempts are worth with batches of any size and any number of workers, in `Delivery` and in `Notices`; the outbox mirrors the inboxes. |
| `Notices` | Inboxes and the staging of mail, composed with `Delivery`. |
| `Inbound` | Webhook, GitHub and Slack deliveries against the admin. |
| `InboundProofs` | What the lock of the source, of people and of a delivery's keys guarantee. |
| `Access` | Provisioning, onboarding, activation, sessions, account edits. |
| `AccessProofs` | What unique addresses, row locks and the company lock guarantee. |
| `MCTaskEconomy`, `MCRedemptions`, `MCGovernance`, `MCCollaboration`, `MCNotices`, `MCInbound`, `MCAccess` | Small instances for TLC. |

Composition: `Provenance` extends `Governance`, `Attention` extends `Collaboration`, and
`Notices` extends `Delivery`: the views and the staging read and write the state
of the module below. Refinement: `Governance` implements `CreditOnce` (property `PaidOnce`,
an `INSTANCE ... WITH`) and `TaskEconomy` implements `CyclePayroll` (`PaysAsPromised`, read through
`AccountOf`).

### 2.1 TaskEconomy

One action per command; the grain is justified by the code: the whole of a task
command runs under `organization.exclusive_guarded`. `update_user` and
`update_capacity` are single steps because the user's row lock and the company's row lock
serialize what they share with task commands (the capacity check re-reads the user
under the lock; `require_clean` reads tasks after it). `set_access` holds the shared
lock, which excludes the exclusive holders. One reading is left out: a handoff's
`private_worker_role` is taken from the recipient as loaded before the lock
(`audience_guard.py:26`), which can lag behind a promotion that runs in that instant.

| TLA+ | code |
|---|---|
| `role`, `active`, `limit` | `User.role`, `User.active` and no activation hash, `User.max_active_tasks` |
| `held` | the actor rows in the sessions of requests that still wait for a lock (`security.py`, `expire_on_commit=False`): every role an active account has had |
| `task` | routing and workflow columns of `Task`; `restricted` is the history that `audience_guard` derives from activities; `pending` are the submissions of all cycles still pending; `submitted` that one was made in this cycle; `exposed` the last routing's confirmation |
| `econ` | reward, paid amount, verified progress and current cycle of `Task`; `author` and `ownPromise` are history for a property |
| `row` | `TaskCycle` |
| `credited`, `contributed`, `fined` | `LedgerTransaction` (task rewards, claim penalties) and `Contribution`, summed |

`Next` lets every user act with every role in `held`, so a request can run after any
promotion, demotion or deactivation of its actor. Coins are counted in quarters:
rewards need not be multiples of the half coin (a JSON number), and the two roundings
differ only then. Text, priorities and deadlines are left out; the claim penalty keeps
the priorities because it depends on them. Notices are left out: they are rows that no
decision reads. An event that cannot be attributed refuses the review decision that
wrote it (`task_events`), which is the guard `active[a] /\ active[owner]`.

### 2.2 Delivery

`outbox` is `notification_deliveries`, `batch` the rows a pass holds in its session,
`locked` its row locks, `outcome` the uncommitted result of the row in hand. A step is
a database statement or a call to the provider: `SelectBatch` (FOR UPDATE SKIP LOCKED,
oldest first, `LIMIT`), `Skip`, `Send`, `FailToSend`, `GiveUp` (no SMTP host:
rollback), `CommitRow` (releases every lock of the pass), `Crash`. The copy of
`attempts` in `batch` is the loaded one, because commits do not expire it.
`FailToSend(w, TRUE)` and a crash after `Send` are acceptances nobody records.

### 2.3 Redemptions

The commands of `reward_services.py` take no organization lock, so they are cut where
a statement may have to wait for a row lock: `Free(w, lock)` is that wait, `held` the locks of a
request, and the last step of a command is its commit, which releases them. A
transaction's writes are shown at that commit, because nobody else sees them earlier and
the rows are locked. Each request in `Request` is one worker of the server.

| TLA+ | code |
|---|---|
| `account` | `User.role`, `User.active` and no activation hash, `User.can_fulfill_rewards` |
| `wallet`, `given` | the sum of a user's `LedgerTransaction` rows (`balance_of`), and the adjustments among them (history, for a property) |
| `reward`, `intended` | `Reward`; the stock and consumption when a form last set the stock (history) |
| `redemption`, `seat` | `Redemption` in order of creation, `RewardExecutor` |
| `req[w].as`, `.flag` | the actor's row as `current_auth` loaded it (`Begin`), which a command sees until it refreshes it |
| `req[w].copy`, `.drop` | the row `save_reward` read; the seats its DELETE saw when it began |

- `Abandon` ends a request without effect at any point: a refusal, a crash, the victim
  of a deadlock. A guard that fails is a refusal, so it needs no action of its own.
- `save_reward` reads its row without a lock, and SQLAlchemy writes only the columns
  the form changes with respect to that copy (`Merged`); an unchanged row is not locked.
- Rows with a foreign key to `companies` take FOR KEY SHARE on the company, which only
  conflicts with the FOR UPDATE of `update_user`: `CompanyKey` and `CompanyRow`. A step
  that takes the key and commits at once does not show it in `held`.
- Deleted rows stay locked until the commit; a DELETE that waited passes over what
  is gone (`CommitsDeleting`), and a row that somebody else inserted is not in it.
- A seat names its reward by a foreign key, so its insertion waits for whoever locked that reward to
  buy or refund (`RewardKeyFree`), and not for another form.
- `Approve` is one step, and `RoleSeen` reads the redeemer at that moment: their role
  cannot change while the redemption is open (`OwnersKeepTheirRoles`).

Left out: names, categories, icons and availability dates, which only refuse;
open tasks in `require_clean`, which are the task engine's. A form names one executor
at most. The cost and stock of a form are natural numbers. Prices are whole coins
here, because nothing rounds them.

### 2.4 Governance, CreditOnce, Provenance

Rules, policies, settings, assessments, requests and decisions are one transaction each, and a
row lock makes each one step. Issuing and reversing are cut at their locks: `Gate` takes
the safety lock of the candidate and reads everything the decision needs, `OwnIssue` and
`OwnReverse` take the lock of the economic identity, `IssueEffect` and `ReverseEffect` are the
wallet rows and the commit with the guards the database keeps (`Guarded`), `Leave` is a refusal,
a retry that finds its earlier effect, or a crash.

| TLA+ | code |
|---|---|
| `rules`, `policies`, `settings` | the definitions with their version; saving the same form keeps the version |
| `candidates` | `RuleCandidate`, identified by event, rule and version, with the terms frozen |
| `decisions` | `PolicyDecision` with the evidence (`basis`) it was made on |
| `evals`, `head` | `IncentiveSafetyEvaluation` by candidate and the head that only moves on |
| `requests`, `verdicts` | `ApprovalRequest` and `ApprovalDecision`; `safety` is 0 for a request a policy asked for |
| `effects`, `reversals`, `coins` | `EconomicEffect`, its reversal, and the sum of the ledger rows of a candidate |
| `shadows` | what a decision would have paid, frozen at the first observation |

Amounts are half coins. Events are recorded facts (`EventOf`) with the flag `trusted` of source
authority. The six detectors count over all events with a candidate, as the queries do. An assessment is
known by its outcome, its version of the settings and its counts; the code's fingerprint also hashes the history
read and the sampled events (`detectors.py:66`), so there history that grew without changing a count moves the
head as well. A head that moves on under an approval or an executor is what the run has anyway, by new settings.

`Provenance` is read only. One query of it names no order and no policy set although a candidate
has one decision per set it was evaluated against (`provenance/service.py:33`): the operators
are sets of everything the query may return. `ProjectionMirrorsGate` therefore speaks of each
decision by itself. `Eligibility` is `is_candidate_economically_processable` and includes the assessment it
makes on the spot (`AtGate`); `NonPayoutOutcome` is the page. Whatever the gate would issue is authorized on the page. The
converse has two exceptions, which the property names: nobody or nothing to pay (`Unpayable`), and a candidate whom nobody
has assessed and the gate would hold back (`HeldAtGate`, section 4). `PaidAsAnnounced` says the same of the
step that pays, after everything may have moved since the gate.

### 2.5 Collaboration, Attention

A person's command is one step. A routing pass is not: `StartPass` checks the capability and
lists the due requests of a class (`Batch` at most), `PassRow` locks the oldest of them and looks at it
again, `NextClass` lists the unresolved ones, `CommitPass` writes. A pass holds the shared locks of
organization and capability all along, which is what `NoPass` says to the admin's commands; accounts
are not locked, so `SetActive` interleaves. The escalation window is the flag `stale`, set by
`Expire`. Routing snapshots are a set (`routings`), never taken back.

`Admit` is the scope check of `organization.admit`. An event is recorded once for what it is about;
its subject is who is credited.

### 2.6 Notices

`Notify` is the NotificationRouter within the business transaction: the check of everyone and
everything named, the recipients narrowed to viewers and active accounts, one notice each, and
for push classes one outbox row per key (`ON CONFLICT DO NOTHING`). `pushed[k]` is the key of
outbox row `k` of `Delivery`, and `Stage` is Delivery's own action with the rows it adds.
`RecipientsChange` is how the worker sees an account come and go.

### 2.7 Inbound

A delivery is `Send` (environment: the provider signs with some version of the secret, repeats
itself), `Verify` (source row under a shared lock, the signature against the secret in force, the clock),
`Wait` (one advisory lock, or the unique index for the webhook), `ActWebhook`, `ActGithub` or `ActSlack`,
and `Commit`. What is written shows at the commit. Commands of the admin wait for the locks that
deliveries hold: the source row, the company, the capability, the accounts named.

An accepted Slack command leaves a record with the people, the time and the scope, which
the model calls its event; of HELP the code keeps a `help_requests` row and no canonical event.

Payloads are facts: `News` says which action, state and times a GitHub payload carries and whether its
repository and resource fit; `Asked` says which keyword and words a Slack command carries. What
the normaliser refuses, keeps without an event, or turns into an event is computed by the
operators it has (`Minimized`, `Supported`, `Consistent`, `Semantic`, `OccurredAt`), and which unit a
command means by `MatchUnit` and `HelpScope`. What the collaboration service answers is a
choice (`willing`): the service itself is `Collaboration`.

### 2.8 Access

`Arrive` is `current_auth`: a request keeps the role and company it saw. `Enter` takes the company's lock
and finds the address free, `Insert` adds the row unless the unique index objects; two companies
have two locks. Other commands of an admin are one step under the company's lock. `LogIn`
reads the account without a lock. Passwords and addresses are model values, `Normal` is the
normalisation of an address, a link is a number, 0 when none is outstanding.

## 3. Runs

Each run asks one question; every property has a mutant in `PROJECT.json`, a change
of one mapped definition that TLC must catch under the same configuration.

| Run | Instance | Shows |
|---|---|---|
| `task_life` | admin, two interchangeable employees; one task, 2 cycles, reward 9 quarters, 60% acceptances, an override of 6 quarters | types, the ledger, the contributions and the task agree in coins and in progress, approved work is whole, no overpayment, closed cycles are frozen, no change of terms through edits, handoffs, partial cancellation; refinement of `CyclePayroll` |
| `task_accounts` | admin and an employee who is promoted, demoted, made admin, deactivated; all audiences, both scopes; one returned claim | holders stay eligible, exposure is confirmed |
| `task_team` | admin, unit manager, member; two tasks of the unit, reward 4, limits 1 and 2 that change | no step goes over the limit; managers never pay a manager's promise as long as no handoff overrides the reward |
| `reward_money` | admin, manager, employee; one reward: stock 2, limit 1, cost 2; a form that asks for stock 1 at cost 1; two requests, two redemptions, adjustments of 2 coins | coins, stock, limits, outcomes |
| `reward_staff` | admin, employee; an empty catalog and a free gift; every command but adjustments | owners of open redemptions, circles of waiting requests |
| `governance` | admin, manager, employee; one event, a rule edited once, a policy that allows or only observes, settings that ask for review or suppress; two workers issuing and reversing; the employee may become admin | paid once (refinement of `CreditOnce`), approved by another, history stands; the page agrees with the gate and with the ledger, and announces what is paid |
| `help` | admin, team manager, member; two teams; two requests, thanks or recognitions; two passes; one move, deactivation, closing, switch or crash | routed to the right people, escalated once and in time, credited within scope |
| `notices` | two people, one yet to activate and one who comes and goes; four kinds of observation; 2 rows, 2 workers, batches of 1, 2 attempts, 1 lost acceptance | inbox and outbox agree, SENT means accepted, no duplicates without a lost acceptance, every row settles |
| `inbound` | one source of one of three kinds, two deliveries at work, two identities, two messages, two commands of the admin | acts once, secret in force, active people as mapped, project of the occurrence, unit that was named |
| `access` | two companies, three addresses typed two ways, three accounts, two links, two sessions, two transactions | addresses, admins, passwords, companies |
| `task_promise` | such a team, one task, 60% acceptances and an override of 6 quarters | **violated**, see findings |
| `delivery_overlap` | batches of 2, nothing ever lost | **violated**, see findings |

### 3.1 Bounds and why they are enough

Tasks. `MaxCycle` 2: closing and reopening once shows what crosses cycles; a second reopening
repeats it. `MaxFined` 20: one return of claimed work, in the run that asks who
holds it; returns change no other figure. One task, because tasks share nothing but
the capacity count, which `task_team` checks with two. The reward 9, 60% and an
override of 6 are chosen so that roundings matter: 60% of 9 quarters is 5.4,
rounded up to 6, and only 3 of the next 60%'s 4 are left. Task runs switch deadlock
checking off: when every task is closed and every bound reached, nothing is left to do.

Rewards. Two requests at a time show every race of two commands; longer circles of waiting, which
three would add, are excluded by the theorem (section 5). `MaxRedemptions` 2 is a
redemption that is decided on while another is made, with stock for both and a
limit for one. `MaxGiven` 2 affords one item and can be taken back while it is
bought. In `reward_staff` the gift is free so that redemptions need no adjustments; an
employee who becomes admin can deactivate the first one, so that both can try to remove
each other. The two requests are interchangeable, hence the symmetry.

Governance. `Bounds` allows one candidate with two versions of the rule, so that terms and
definition differ when it is reversed; two decisions, by an allowing policy and by none (approval
required) or by an observing one; two assessments, so that an approval for the first is outdated
by the second; one request. Two workers race at each lock.

Help. Two requests fill a batch of 2; a batch of 1 starves (section 4). `MaxMoves` 1: each hazard needs
one move of an admin or one dead pass at the right moment; two passes race with each other. The
unit is a team; the manager may move to the other team and leave the first.

Notices. `MaxAttempts` 2 has a first and a last attempt (the code has 5); `MaxLost` 1 lets one acceptance
go unrecorded. The same observation can be told twice, which is what the dedupe key is for; and two requests
for help escalate to the same person, alone or with another, so that two notices of one class differ in nothing but
what they refer to, and the key must keep both.

Inbound. A behaviour has one source, because sources share nothing; the three kinds all occur. Two messages
are a message and its repetition, or two that conflict; two commands are what it takes to
assign work and take it away. The clock runs from 0 to 1 and a provider's may be one ahead, so
there is a past, a present and a future. The name of one team begins with that of the other and
the two projects share a name.

Access. `LinkLife` 0 makes a link expire within the bound, `SessionLife` 1 a session. Three accounts are
two admins and a person in one company, or two companies that want one address.

### 3.2 Fairness

`notices` assumes what `docs/OPERATIONS.md:170` has operators do: passes are scheduled
again and again. A pass that can select rows eventually does (weak fairness of
`SelectBatch`), time passes (`BackoffEnds`), and a row that is taken up over and over
is eventually attempted and eventually committed (strong fairness of `Attempt` and
`CommitRow`, because crashes and runs without SMTP settings come between). Nothing is
assumed of the provider, which may fail for ever; nothing forces `Notify`.

`help` assumes weak fairness of each pass's next step, by the same document: a pass that can run
does. Nothing is assumed of people; the number of passes that die is bounded by `MaxMoves`.

## 4. Findings

- `delivery_overlap`: the comment that SKIP LOCKED makes concurrent workers safe
  (`notifications/delivery.py:4`) holds for batches of one. With more, the commit
  after the first row releases the locks on the others, and both passes send the same row.
- `task_promise`: `task_access.py:90` states that a manager must not author a promise and trigger its
  payout. The check looks at the creator's role (`task_access.py:97`); a handoff with an overridden
  remaining reward (`task_services.py:457`) is a new promise, and on an admin's task a manager may
  set it and then approve it. `task_team` has no overrides (`Leftovers = {}`) for that reason.

The models follow the code in these further places where a document or comment reads otherwise, or
where nothing promises an outcome; no run is about them.

- The same check reads the role the creator has by then. Of two managers of a unit, one sets a reward and
  is promoted, and the other may pay it out (TLC finds that in five steps, in a company of four).
- `docs/ORGANIZATION.md:28` says participants must belong to the scope. `reassign` and the new cycles
  check it, `handoff` does not (`task_services.py:408`).
- `reward_services.py:361` says that admins never carry the permission to fulfil.
  `toggle_fulfill_permission` tests the role on an unlocked read and then writes the flag; a promotion
  that commits in between clears it first.
- `docs/RECOGNITION_HELP.md:169` makes managers escalation targets after the window. A pass takes the
  oldest 100 due requests of a class and passes over those of the company, which stay due
  (`routing.py:162`): 100 of them starve every later one of a unit. With `Batch = 1` TLC finds
  `StaleHelpEscalates` violated.
- An actor who was promoted after authentication redeems by the old role (`reward_services.py:56`), and
  two forms that name executors at once leave both seated or end in a duplicate key
  (`reward_services.py:278`).
- `provenance/service.py:33` takes any decision of a candidate although there may be several.
- The docstring of `_non_payout_outcome` (`provenance/service.py:281`) promises to mirror the gate exactly. It does not look at
  source authority, participant and amount; and of a candidate nobody assessed it says AUTHORIZED_PENDING
  (`provenance/service.py:313`), where the gate assesses first (`eligibility.py:68`) and may refuse. The refusal rolls
  the assessment back, so page and gate go on disagreeing until an admin assesses the candidate.
- A request for approval that concerns the only active admin is pushed to nobody and can be decided by nobody
  (`approvals/notify.py:20`, `:49`) until there is another admin.
- With overlapping batches a pass also writes to a row another pass has settled, although `delivery.py:8` calls the
  states terminal; the outcome may turn from SENT to FAILED, never to SENT without an acceptance (`SentIsAccepted`).
- A GitHub event stamped ahead of our clock (within the tolerance) keeps the project of its receipt, although
  the interval may end before that time; `ScopeAsOfOccurrence` speaks of what happened before.

## 5. Proofs

`TaskEconomyProofs` proves `TypeCorrect` (`Spec => []TypeOK`) for every company, set of
inputs and bound. The arithmetic lemmas (a partial payout is a natural number and at
most what is left, accepted progress never passes 100) are stated once and
cited by the steps.

It then proves that the books are right. `PaidWithinPromise` is not inductive: a
task not yet created could hold money, a new cycle could start on a row that is closed,
a reward could drop below what was paid for work whose progress reads zero. `Books` adds,
per task: an absent task is in its first cycle with nothing paid; zero progress means
nothing paid (what lets `edit_task` change a reward only when nothing was accepted); the
rows of later cycles are blank; held work has an owner; the pending submissions are
exactly those the status asks for; ledger and contributions agree worker by worker.
A command touches one task (`OthersSame`), and the three decisions that pay share one
shape (`Pays`), so each action needs only its own few conjuncts. From `Books` follow
`NeverOverpaid`, `LedgerMatchesContributions`, `OneSubmissionPending`, and the action
properties `HistoryIsFinal` and `TermsAreKept`.

`LedgerIsRight` adds the total. `Totals` says of each task that the credits of a cycle, summed over
the workers, are the balance of the task while the cycle runs and what its row was closed with
later, and that a closed task's row has the balance (what makes the first half survive a reopening).
A decision that pays changes one summand by the payout, so the sum changes by it (`TotalChanges`). The same goes for
the accepted parts of the work and its progress (`PartsFit`, `ClosedAsAccepted`); with `ApprovedInFull` follows
`ProgressIsRight`: parts add up to the progress, and to 100 where the work was approved.

`HoldersStayEligible`, `ExposureIsConfirmed` and `CapacityIsKept` follow from a second invariant, `Peopled`:
nobody holds what is on offer, an absent task is offered to nobody, private work was given to
one, and who holds live work or is offered it is active and admitted by its audience (`HoldersEligible`
itself). What any command may do to the routing of its task is one of five moves (`Moves`:
created, rerouted, taken, resumed, kept), which `StepMoves` reads off the commands; each property then looks at the moves and not at the commands. Capacity counts: a
person who gains work in a step gains one task, and the move that gave it had asked.

`ImplementsPayroll` is the refinement: `Spec => PaysAsPromised`. `AccountOf` forgets status, routing, progress and
review, and keeps of a task whether it is open, approved or cancelled, its cycle, its promise, what was paid and who holds it. Each command is
shown to be one move of the payroll on its own task, or none (`OnPayroll`, one lemma per command that
moves the account): a claim takes, a decline or return gives back, a handoff hands on, an approval finishes, a
cancellation stops, reopening and reactivating renew; submitting, rejecting, resuming and rerouting are not seen.
`Books` gives what a decision pays and that nothing was paid before anything was accepted, `Peopled` that what is on
offer has no holder. The payroll says at once what the properties above say singly, and more: no coin reaches anybody
but the holder, an approval pays to the last quarter coin, and a cancellation without a holder pays nobody. That includes
`PaidWithinPromise`, which no run lists any more; its theorem stands.

`Sums` holds what those totals and the wallets need. The sums of the community modules pick the elements
of a set one by one by CHOOSE; `FoldIsSum` and `MapIsSum` bring both forms to `SumOver`. That it does what a sum
should (`SumRecurs`) is an induction over the subsets of a finite set, done by taking a
smallest counterexample (`SmallestSubset`, from the library's minimal elements of a well-founded
relation) and not by the induction theorems, which the provers cannot instantiate. From it follow that the order
of picking does not matter (`SumPicks`, `SumRemoves`), what adding or changing an element does
(`SumAdds`, `SumChanges`), that equal summands give equal sums, and that a sum may be
renamed by a bijection (`SumRenames`).

`DeliveryProofs` proves what the outbox guarantees with batches of any size (the code takes 50) and any number of
rows, workers, attempts and lost acceptances, overlapping passes included. `AlwaysTyped` is the types; a batch is as long
as the rows that are due, which takes a count (`NthOf`: of a finite set of numbers there is one with any
given number below it). The inductive invariant `Counted` adds three things. `CopiesFit`: a pass holds one copy of a
row at most, and every copy was loaded below the last attempt. `AttemptsFit`: no row is beyond the last attempt, and one
that waits is below it. `SendsFit`: the acceptances of a row are at least those that went unrecorded, those about to
be recorded and one if it is SENT; exactly the first two while it is not settled; and once it is settled, the copies
that still lag behind (`Behind`) are all that can add to them, so together they never pass one for each worker beside
the unrecorded ones. From it follow `SentIsAccepted`, `CopiesAreBounded` (`OneCopyPerWorker`) and `RetriesAreBounded`
(`RetriesBounded`). The last two properties stand in `Delivery` and no run lists them; they say how far the finding
`delivery_overlap` can go: as many duplicates as passes overlap, and no endless retries. That batches of one send no
duplicates at all is model-checked only.

`NoticesSend` carries the three over to the composed system. It needs `Staged`: as many rows are in use as
keys were pushed, rows beyond are absent, and no worker holds one. A step of the composed system is a
step of the worker, the staging of exactly the rows of the keys that are new (`NotifyStages`), accounts that
come and go, or a person who marks notices, which the outbox does not see. `AlwaysMirrored` is `PushesMirrorNotices`: its
invariant `Mirrored` says that no key is pushed twice, that the keys are those of the notices of push classes, and that a
notice has its fields, so that marking it (which changes the record) leaves its key. `CompanyAssumption` (finitely many
people) is what makes the new keys a sequence.

`RedemptionProofs` proves the reward commands right for any company, catalog, forms and number
of requests. Its inductive invariant `Orderly` has three parts. `LocksFit`: which locks a request
holds at each of its steps. `Relies`: what it has read under them and still needs, such as stock
and limit until the redemption is recorded, solvency under the account's lock, an open
redemption until the refund, a clean account and another admin until the edit. `LocksApart`:
no two requests hold one lock, but for the shared key. Steps are of two kinds. One that takes
locks writes nothing (`Taking`). One that ends a request changes only rows that no other request
has locked (`Respects`), so what the others rely on stands (`Ending`). Each action then only owes
its own part. From `Orderly` follow `TypeCorrect`, `AnAdminRemains`, `ExecutorsAreFit`,
`OwnersAreActive`, `StockIsRight` and `NoPlainCircles`; from what a step may do to a redemption
or a role (`RedemptionSteps`, `RoleSteps`) follow `OutcomesAreFinal`, `NobodyOverdraws`,
`OwnersKeepTheirRoles` and `LimitsAlwaysHold`. Three of them (an admin
remains, executors are fit, owners keep their roles) are stated of properties no run lists any more,
because the theorem says more. TLC checked `Orderly` on the instances of both
reward runs before it was proved. `FounderAssumption` (a company starts with an admin) is what
provisioning does; a form without an audience is excluded, as the API does.

`WalletsAreRight` adds the coins. `Balanced` is `WalletsAddUp` in terms of `Sums`: a wallet is what was given less the costs
of what the person keeps. A purchase adds one element to what is kept (`SumAdds`), a refund takes one away
(`SumRemoves`) and pays its cost back, and no other step changes the owner, the cost or the side of a
redemption. That a purchase uses a fresh slot and a refund an open redemption of that person is `Orderly`, with
the locks that keep it so.

`NoPlainCircles` speaks of circles of any length. Waiting among requests that only move coins or
decide leads from a reward to an account, and from there to a purchase about to be recorded, which
waits for the company row that none of them holds (`PlainWants`, `PlainLocks`); and whoever has a reward
waits for no reward that another has (`PlainBlocks`, `PlainCircle`).

Assumptions of the task proofs are those declared in `TaskEconomy`: inputs are natural numbers and
percentages, the bounds are naturals, `NoUser` is no user. All are evaluated by TLC in
every task run.

`AccessProofs` proves that people get in rightly, for any companies, addresses, number of accounts
and of transactions at work. Its inductive invariant `Inv` is the types, of which the telling part is
that a link is outstanding exactly as long as there is no password, one account per address,
an admin who can log in per existing company, and `CompaniesExist` (accounts and transactions
belong to companies that were provisioned). The last is what the third needs: a company that is provisioned
gets its first admin in that step, and nobody can have acted for it before. `KeepsAnAdmin` survives an
edit because whoever loses the role leaves another admin who is usable, and survives a
stale role because only the rows count, not who asks. From `Inv` follow `AddressesAreUnique`,
`AnAdminIsKept`, and, action by action, `PasswordsStand` and `CompaniesAreApart`.

`GovernanceProofs` proves the refinement: `Spec => PaidOnce` (`ImplementsCreditOnce`), whatever the rules,
policies, detectors, events, people and number of executors. Its inductive invariant `Sound` says:
saved rules are in range, so what they propose is (`RulesFit`); an identity names one candidate
(`CandidatesFit`); an effect is the only one of its candidate and the ledger has its
amount, or nothing once it is reversed (`BooksFit`); what an executor read before it locked
still holds when it commits, because decisions, approvals and candidates only grow
(`WorkFits`). It says nothing of assessments: they do change between the gate and the commit,
which is why the step simulation rests on the comparison the commit repeats
(`IssueCleared`). Steps fall into kinds (`Steps`): saving a rule, evaluating an event, those that leave money,
candidates and work alone (`Quiet`), and the steps of an executor; issuing simulates `Credit`,
reversing `Reverse`, and all others `Govern`.
A second invariant, `AssessedFit` (assessments are sequences, the one in force is among them), gives that
assessments only get longer (`LaterAssessed`), hence `AlwaysHistory`. A third, `Agreed`, adds to
`ApprovedByAnother` that the approval an effect names exists and that nobody decided about an event
that concerns them; it survives because verdicts and assessments are never rewritten. TLC
checked the three invariants on the instance of the governance run. `BoundsAssumption` is needed for two
facts: a first version is within its bound, and no person is called `Nobody`.

The views of `Provenance` are proved to agree with what they show. `Legible` says that the books can be read:
policies and decisions know four results, requests have one of two authorities, a verdict is about a request, and
an effect paid whom its event concerns. `AlwaysMirrorsGate` compares, decision by decision, what the page computes
with what the gate takes as approvals (`GateReads`), the gate's own assessment included. `AlwaysAnnounced` says of the step
that issues an effect what the page showed at that moment: the comparison the commit repeats (`Guarded`) is with the
assessment in force, and approvals only grow. `AlwaysExplained` shows that the effects listed as issued to a
person are, one for one, the candidates the ledger credits them (`StandingIsCredited`, from `BooksFit`), so the sums are
equal by renaming (`SumRenames`). `WhoIsToldDecides` says that whoever is told of an undecided request is who may
decide it, and finds it in the list, in their attention, in the flow's count and on record. It does not say that
somebody is told, because the code does not see to it (section 4).

`InboundProofs` proves the five properties of `Inbound`, for any sources, people, units, bodies and number
of deliveries at work. The inductive invariant `Inv` has four parts. `RequestsFit` says what a delivery
relies on at each step: verified, that its source is active and its secret in force (`Trusted`); waiting, which
of its keys it holds (`Waiting`); about to commit, that what it will store is there already or is new, and that
the people, scope and time of its event are still right (`Staged`, `Fresh`); and that no two deliveries of a source
hold one key (`Apart`). `IntervalsFit` says that nothing was assigned in the future and that intervals of a
source never overlap, so there is one project to find. `EventsFit` says that every stored event is where
the history has it; `Assign` keeps that because it cuts at the clock and so leaves the past alone (`AssignFits`). The
fourth is `ActedOnce`. Commands of the admin disturb nothing a delivery has locked (`Steady`,
`OutsideSound`); a step of one delivery disturbs no other (`RequestMoves`); and a commit adds what no
other delivery about to commit can add, since they hold different keys (`CommitSound`). `AlwaysNoStaleSecret`,
`AlwaysNamesActivePeople` and `AlwaysAskedWhereNamed` read off what the commit relied on. TLC checked
`Inv` on the instance of the inbound run. `LimitsAssumption` is needed for finitely many units and for teams
not being projects.

`CollaborationProofs` proves the three action properties of help, for any people, units and number of
passes. Its inductive invariant `Inv` says of requests that nobody helps themselves and that one not
escalated was escalated zero times (`RowFits`); of passes, that they hold different requests and that what each
is going to write of one is still right (`PassFits`, `Onward`): the request is open, its people are the same, and
whoever a new routing names belongs to the scope. That survives people because a row under a lock keeps
all but the flag of its window (`PassesStay`), and admins because seats stand still while a pass is at work;
deactivation does not stand still, which is why the properties speak of seats and not of accounts. It survives
the pass itself because the row is looked at again under the lock (`HandledOnward`). `Changes` is what
any step may do to requests; the properties follow from it. TLC checked `Inv` on the instance of the help run.

Only model-checked: `EventuallySettled` and `StaleHelpEscalates`, because liveness under fairness and ENABLED are out of
TLAPS' reach; `DuplicatesNeedALostAcceptance`, which holds for batches of one and not for the code's default; and
`ManagersDoNotPayOwnPromise`, which holds as long as no handoff sets a reward anew and no account changes role.
Every other property of a run has its theorem. Out of reach as well: what a recursive
definition computes for every input, by the library's induction theorems. Where a proof needed an induction
over a finite set, it takes a smallest counterexample instead; sequences and records never needed one.
RECURSIVE operators are declared nowhere here.

## 6. Plan

1. More than one executor in a form of `Redemptions`.
2. The order of capability locks and domain locks over all commands, checked for deadlock.

## 7. Not modelled

- The workspace reset, files, seeds, deployment and migrations: one transaction that deletes everything, or
  data, or wiring. The browser application is a client; its demonstration reducer repeats the rules
  of `domain.py`.
- Wording, languages, listings and paging. Two paged readings could miss or repeat a row while rows come in
  (the attention scans by OFFSET under READ COMMITTED, `attention/service.py:155`; the first 100 requests of
  `list_requests`): the operators here return whole sets.
- The mute toggle of notices is read, changed and written without a lock (`service_common.py:352`); at
  worst one of two simultaneous toggles is lost.
- Signatures, password hashes, tokens and encryption: a signature is the version of the secret it was
  made with. Throttling of logins. The name of an event travels in an unsigned header; the model has
  it fit the body or not (`agrees`).
- GitHub work is attributed per resource; the model keeps one resource per source.
- Sources of events beside those of `Inbound`, `Collaboration` and the task decisions: governance starts from
  events that are recorded.
- The capability switches of the rest of the system, and the order of their locks.

`PROJECT.json` lists every component with its status.
