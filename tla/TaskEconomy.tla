---------------------------- MODULE TaskEconomy ----------------------------
(***************************************************************************)
(* The task engine of the backend: task_services.py, task_cycle_services.py,*)
(* task_access.py, audience_guard.py and the account edits of              *)
(* user_lifecycle.py they race with.                                       *)
(*                                                                         *)
(* Every task command takes the company's organization lock exclusively    *)
(* before it reads an account or a task (organization.exclusive_guarded),  *)
(* so a command is one step.  What is NOT read under that lock is the      *)
(* actor: authentication loaded that row when the request arrived.  held   *)
(* keeps, for every user, the roles a request still in flight may have     *)
(* been authenticated with; a command runs with any of them.               *)
(*                                                                         *)
(* Coins are counted in quarters: a stored reward is a float that need not *)
(* be a multiple of the half coin that partial payouts are rounded to.     *)
(***************************************************************************)
EXTENDS Integers, FiniteSets, Sequences, Functions

CONSTANTS
  User, Task,   \* accounts of one company, task identities
  NoUser,       \* "no owner", "no assignee"
  InitRole,     \* [User -> Role], the accounts the company starts with
  UnitSeat,     \* [User -> {"NONE", "MEMBER", "MANAGER"}], seats in the one unit
  Scopes,       \* the task scopes requests name: {"COMPANY", "UNIT"} or a part of it
  Audiences,    \* the audiences requests name
  Rewards,      \* rewards a request may name, in quarter coins
  Leftovers,    \* values of remaining_reward a handoff may name
  Pcts,         \* accepted and reported percentages, already rounded
  Limits,       \* values of max_active_tasks
  Panels,       \* <<viewers, reviewers>> an admin may name
  Editable,     \* accounts update_user may be applied to
  MaxCycle,     \* bound on the cycles of a task
  MaxFined      \* bound on the claim penalties of one user

Role == {"ADMIN", "MANAGER", "EMPLOYEE"}
Audience == {"EMPLOYEES", "MANAGEMENT", "PRIVATE"}
Restricted == {"MANAGEMENT", "PRIVATE"}
Mode == {"SPECIFIC_EMPLOYEE", "ALL_EMPLOYEES"}
Status == {"ABSENT", "OPEN", "IN_PROGRESS", "SUBMITTED", "REJECTED", "APPROVED", "CANCELLED"}
ActiveStatuses == {"IN_PROGRESS", "SUBMITTED"}
Terminal == {"APPROVED", "CANCELLED"}
Cycle == 1..MaxCycle
Someone == User \cup {NoUser}
Keep == -1                       \* remaining_reward not given
SameAudience == "AS_BEFORE"      \* audience not given

ASSUME UsersAssumption == NoUser \notin User /\ InitRole \in [User -> Role]
ASSUME FiniteAssumption == IsFiniteSet(User) /\ IsFiniteSet(Task)
ASSUME SeatsAssumption == UnitSeat \in [User -> {"NONE", "MEMBER", "MANAGER"}]
ASSUME InputsAssumption ==
  /\ Rewards \subseteq Nat /\ Leftovers \subseteq Nat
  /\ Pcts \subseteq 0..100 /\ Limits \subseteq 1..100
  /\ Scopes \subseteq {"COMPANY", "UNIT"} /\ Audiences \subseteq Audience
  /\ Panels \subseteq (SUBSET User) \X (SUBSET User)
  /\ Editable \subseteq User
ASSUME BoundsAssumption == MaxCycle \in Nat \ {0} /\ MaxFined \in Nat

VARIABLES
  role, active, limit,  \* users: role, active and activated, max_active_tasks
  held,                 \* roles a request in flight may carry, see above
  task,                 \* tasks: routing and workflow columns
  econ,                 \* tasks: reward, paid, verified, cycle
  row,                  \* task_cycles, by task and cycle
  credited,             \* ledger rows of task rewards, summed by task, cycle, user
  contributed,          \* contributions, summed by task, cycle, user
  fined                 \* ledger rows of claim penalties, summed by user

userVars == <<role, active, limit, held>>
bookVars == <<econ, row, credited, contributed, fined>>
vars == <<userVars, task, bookVars>>

----------------------------------------------------------------------------
(* Pure rules of domain.py and service_common.py.                          *)

Coin == 4

AtLeastZero(x) == IF x > 0 THEN x ELSE 0

AtMost(x, y) == IF x < y THEN x ELSE y

\* ceil(reward * pct / 100 * 2) / 2: rounded up to the next half coin.
PartialPayout(reward, pct) == 2 * ((reward * pct + 199) \div 200)

\* Half-up to whole coins.
RoundCoins(x) == Coin * ((x + 2) \div Coin)

ClaimPenalty == [NONE |-> 20, NORMAL |-> 20, IMPORTANT |-> 30, URGENT |-> 40]

RoleFits(aud, r) ==
  /\ r # "ADMIN"
  /\ aud = "MANAGEMENT" => r = "MANAGER"
  /\ aud = "EMPLOYEES" => r = "EMPLOYEE"

IsMgmt(r) == r # "EMPLOYEE"

ActiveCount(u) ==
  Cardinality({t \in Task : task[t].owner = u /\ task[t].status \in ActiveStatuses})

\* require_capacity, which re-reads the account under its row lock.
HasCapacity(u) == role[u] # "ADMIN" /\ active[u] /\ ActiveCount(u) < limit[u]

HasCapacityFor(u, aud) == HasCapacity(u) /\ RoleFits(aud, role[u])

----------------------------------------------------------------------------
(* Who may act: task_access.py over organization.admit.  s is the role the *)
(* request was authenticated with.  A scoped task makes can_view re-read   *)
(* the account, a company task does not.                                   *)

InUnit(u) == UnitSeat[u] # "NONE"

Allowed(a, asManager) ==
  /\ active[a]
  /\ role[a] # "ADMIN" =>
       \/ asManager /\ role[a] = "MANAGER" /\ UnitSeat[a] = "MANAGER"
       \/ ~asManager /\ InUnit(a)

Admitted(a, r, scope) == scope = "UNIT" => Allowed(a, r = "MANAGER")

Participates(u, scope) == active[u] /\ (scope = "UNIT" => InUnit(u))

Now(a, s, scope) == IF scope = "UNIT" THEN role[a] ELSE s

Sees(a, s, t) ==
  LET x == task[t]
      r == Now(a, s, x.scope)
  IN  /\ x.status # "ABSENT"
      /\ Admitted(a, s, x.scope)
      /\ r # "ADMIN" =>
           \/ x.audience = "PRIVATE" /\ a \in {x.assignee, x.owner}
           \/ /\ x.audience = "PRIVATE" /\ r = "MANAGER"
              /\ \/ a \in x.viewers \cup x.reviewers
                 \/ x.workerRole = "EMPLOYEE" /\ x.creator = a
           \/ x.audience # "PRIVATE" /\ (r = "MANAGER" \/ x.audience = "EMPLOYEES")

\* require_view, then admit as a worker.
Works(a, s, t) ==
  Sees(a, s, t) /\ Admitted(a, Now(a, s, task[t].scope), task[t].scope)

\* admit_management, given the role the actor row shows by then.
MayManage(a, r, scope) == (r # "ADMIN" => scope = "UNIT") /\ Admitted(a, r, scope)

Manages(a, s, t) ==
  /\ IsMgmt(s) /\ Sees(a, s, t)
  /\ MayManage(a, Now(a, s, task[t].scope), task[t].scope)

OwnsTerms(a, s, t) == Now(a, s, task[t].scope) # "ADMIN" => task[t].creator = a

\* admit_review and require_review.
Reviews(a, s, t) ==
  LET x == task[t]
      r == Now(a, s, x.scope)
  IN  /\ IsMgmt(s) /\ Sees(a, s, t) /\ a # x.owner
      /\ r # "ADMIN" =>
           /\ r = "MANAGER"
           /\ \/ x.scope = "COMPANY" /\ a \in x.reviewers
              \/ /\ x.scope = "UNIT" /\ UnitSeat[a] = "MANAGER"
                 /\ x.owner # NoUser
                 /\ role[x.owner] = "EMPLOYEE" \/ a \in x.reviewers

\* Mutant: a second manager substitutes for the admin.
MayPayIfManaged(a, s, t, amount) ==
  amount # 0 => IsMgmt(Now(a, s, task[t].scope))

\* require_payout_authority.
MayPay(a, s, t, amount) ==
  amount # 0 => Now(a, s, task[t].scope) = "ADMIN" \/ role[task[t].creator] = "ADMIN"

----------------------------------------------------------------------------
(* audience_guard.route: v is the person the work goes to, or NoUser.      *)

History(t) == task[t].restricted \cup ({task[t].audience} \cap Restricted)

\* Mutant: only what employees see counts as broader.
BroadensToEmployees(t, aud, v) ==
  History(t) # {} /\ (aud = "EMPLOYEES" \/ (v # NoUser /\ role[v] = "EMPLOYEE"))

Broadens(t, aud, v) ==
  \/ /\ "PRIVATE" \in History(t)
     /\ aud # "PRIVATE" \/ v \notin {task[t].assignee, task[t].owner}
  \/ /\ "MANAGEMENT" \in History(t)
     /\ aud = "EMPLOYEES" \/ (v # NoUser /\ role[v] = "EMPLOYEE")

\* A request may always carry the confirmation that broadening needs, so only
\* the record of it remains: exposed says that the last routing of the task was
\* confirmed (the TASK_AUDIENCE_CONFIRMED activity).
MayRoute(aud, v) == aud = "PRIVATE" => v # NoUser

Routed(t, aud, v) ==
  [task[t] EXCEPT
     !.audience = aud,
     !.assignee = v,
     !.mode = IF v = NoUser THEN "ALL_EMPLOYEES" ELSE "SPECIFIC_EMPLOYEE",
     !.restricted = History(t) \cup ({aud} \cap Restricted),
     !.exposed = Broadens(t, aud, v),
     !.workerRole = IF aud = "PRIVATE" THEN role[v] ELSE @]

\* An audience that is not named follows the person.
Derived(aud, v, otherwise) ==
  IF aud # SameAudience THEN aud
  ELSE IF v = NoUser THEN otherwise
  ELSE IF role[v] = "EMPLOYEE" THEN "EMPLOYEES" ELSE "MANAGEMENT"

----------------------------------------------------------------------------
(* Records and the initial state.                                          *)

NoTask ==
  [status |-> "ABSENT", owner |-> NoUser, assignee |-> NoUser,
   mode |-> "ALL_EMPLOYEES", audience |-> "EMPLOYEES", restricted |-> {},
   exposed |-> FALSE, workerRole |-> "NONE", scope |-> "COMPANY",
   creator |-> NoUser, viewers |-> {}, reviewers |-> {}, reported |-> 0,
   pending |-> <<>>, submitted |-> FALSE]

TaskRow ==
  [status : Status, owner : Someone, assignee : Someone, mode : Mode,
   audience : Audience, restricted : SUBSET Restricted, exposed : BOOLEAN,
   workerRole : Role \cup {"NONE"}, scope : {"COMPANY", "UNIT"},
   creator : Someone, viewers : SUBSET User, reviewers : SUBSET User,
   reported : 0..100, pending : Seq([cycle : Cycle, user : Someone]),
   submitted : BOOLEAN]

\* Two fields are history only.  author: the role that set the current reward;
\* ownPromise: a manager paid out a reward that a manager had set.
EconRow ==
  [cycle : Cycle, reward : Nat, paid : Nat, verified : 0..100,
   author : Role \cup {"NONE"}, ownPromise : BOOLEAN]

CycleRow ==
  [outcome : {"ABSENT", "LIVE", "APPROVED", "CANCELLED"}, paid : Nat, verified : 0..100]

Share == [any : BOOLEAN, pct : Nat, payout : Nat]

TypeOK ==
  /\ role \in [User -> Role]
  /\ active \in [User -> BOOLEAN]
  /\ limit \in [User -> 1..100]
  /\ held \in [User -> SUBSET Role]
  /\ task \in [Task -> TaskRow]
  /\ econ \in [Task -> EconRow]
  /\ row \in [Task -> [Cycle -> CycleRow]]
  /\ credited \in [Task -> [Cycle -> [User -> Nat]]]
  /\ contributed \in [Task -> [Cycle -> [User -> Share]]]
  /\ fined \in [User -> Nat]

Init ==
  /\ role = InitRole
  /\ active = [u \in User |-> TRUE]
  /\ limit \in [User -> Limits]
  /\ held = [u \in User |-> {InitRole[u]}]
  /\ task = [t \in Task |-> NoTask]
  /\ econ = [t \in Task |->
       [cycle |-> 1, reward |-> 0, paid |-> 0, verified |-> 0,
        author |-> "NONE", ownPromise |-> FALSE]]
  /\ row = [t \in Task |->
       [c \in Cycle |-> [outcome |-> "ABSENT", paid |-> 0, verified |-> 0]]]
  /\ credited = [t \in Task |-> [c \in Cycle |-> [u \in User |-> 0]]]
  /\ contributed = [t \in Task |-> [c \in Cycle |->
       [u \in User |-> [any |-> FALSE, pct |-> 0, payout |-> 0]]]]
  /\ fined = [u \in User |-> 0]

----------------------------------------------------------------------------
(* Intake and work.                                                        *)

CreateTask(a, s, t, scope, aud, mode, v, reward) ==
  LET eff == IF aud = "PRIVATE" \/ mode = "SPECIFIC_EMPLOYEE" THEN v ELSE NoUser
  IN  /\ task[t].status = "ABSENT"
      /\ IsMgmt(s) /\ MayManage(a, s, scope)
      /\ aud = "PRIVATE" => v # NoUser
      /\ v # NoUser => Participates(v, scope)
      /\ eff # NoUser => HasCapacityFor(eff, aud)
      /\ task' = [task EXCEPT ![t] =
           [NoTask EXCEPT
              !.status = "OPEN", !.scope = scope, !.creator = a, !.audience = aud,
              !.mode = IF aud = "PRIVATE" THEN "SPECIFIC_EMPLOYEE" ELSE mode,
              !.assignee = eff, !.restricted = {aud} \cap Restricted,
              !.workerRole = IF aud = "PRIVATE" THEN role[v] ELSE "NONE"]]
      /\ econ' = [econ EXCEPT ![t].reward = reward, ![t].author = Now(a, s, scope)]
      /\ row' = [row EXCEPT ![t][1].outcome = "LIVE"]
      /\ UNCHANGED <<userVars, credited, contributed, fined>>

ClaimTask(a, s, t) ==
  /\ Works(a, s, t)
  /\ task[t].status = "OPEN"
  /\ RoleFits(task[t].audience, Now(a, s, task[t].scope))
  /\ task[t].mode = "ALL_EMPLOYEES" \/ task[t].assignee = a
  /\ HasCapacityFor(a, task[t].audience)
  /\ task' = [task EXCEPT ![t].owner = a, ![t].status = "IN_PROGRESS",
                          ![t].assignee = NoUser]
  /\ UNCHANGED <<userVars, bookVars>>

DeclineAssignment(a, s, t) ==
  LET owned == /\ task[t].owner = a /\ task[t].status \in {"IN_PROGRESS", "REJECTED"}
               /\ task[t].mode = "SPECIFIC_EMPLOYEE"
  IN  /\ Works(a, s, t)
      /\ owned \/ (task[t].status = "OPEN" /\ task[t].assignee = a)
      /\ task' = [task EXCEPT
           ![t].assignee = NoUser,
           ![t].owner = IF owned THEN NoUser ELSE @,
           ![t].status = IF owned THEN "OPEN" ELSE @,
           ![t].reported = IF owned THEN 0 ELSE @]
      /\ UNCHANGED <<userVars, bookVars>>

ReturnClaim(a, s, t, priority) ==
  /\ Works(a, s, t)
  /\ task[t].owner = a /\ task[t].status \in {"IN_PROGRESS", "REJECTED"}
  /\ task[t].mode = "ALL_EMPLOYEES"
  /\ fined[a] + ClaimPenalty[priority] <= MaxFined
  /\ fined' = [fined EXCEPT ![a] = @ + ClaimPenalty[priority]]
  /\ task' = [task EXCEPT ![t].owner = NoUser, ![t].status = "OPEN", ![t].reported = 0]
  /\ UNCHANGED <<userVars, econ, row, credited, contributed>>

\* Mutant: the reward is locked only while somebody works.
StartedByStatus(t) == task[t].status # "OPEN" \/ task[t].owner # NoUser

\* The work of this cycle has begun: the reward is locked.
Started(t) ==
  \/ task[t].status # "OPEN" \/ task[t].owner # NoUser
  \/ econ[t].verified # 0 \/ task[t].submitted
  \/ \E u \in User : contributed[t][econ[t].cycle][u].any

\* edit_task, as far as it changes the reward: the other fields only reword the task.
EditReward(a, s, t, reward) ==
  /\ Manages(a, s, t) /\ OwnsTerms(a, s, t)
  /\ task[t].status \notin Terminal
  /\ reward >= econ[t].paid
  /\ reward # econ[t].reward /\ ~Started(t)
  /\ econ' = [econ EXCEPT ![t].reward = reward,
                          ![t].author = Now(a, s, task[t].scope)]
  /\ UNCHANGED <<userVars, task, row, credited, contributed, fined>>

Reassign(a, s, t, v, audience) ==
  LET aud == IF task[t].audience = "PRIVATE" /\ audience = SameAudience
             THEN "PRIVATE" ELSE Derived(audience, v, task[t].audience)
  IN  /\ Manages(a, s, t)
      /\ task[t].status = "OPEN"
      /\ MayRoute(aud, v)
      /\ v # NoUser => /\ Admitted(a, "MANAGER", task[t].scope)
                       /\ Participates(v, task[t].scope)
                       /\ HasCapacityFor(v, aud)
      /\ task' = [task EXCEPT ![t] = Routed(t, aud, v)]
      /\ UNCHANGED <<userVars, bookVars>>

ReportProgress(a, s, t, pct) ==
  /\ Works(a, s, t)
  /\ task[t].owner = a /\ task[t].status \in {"IN_PROGRESS", "REJECTED"}
  /\ task' = [task EXCEPT ![t].reported = pct]
  /\ UNCHANGED <<userVars, bookVars>>

SubmitWork(a, s, t) ==
  /\ Works(a, s, t)
  /\ task[t].owner = a /\ task[t].status = "IN_PROGRESS"
  /\ \E pct \in Pcts \cup {task[t].reported} :
       task' = [task EXCEPT
         ![t].status = "SUBMITTED", ![t].reported = pct, ![t].submitted = TRUE,
         ![t].pending = Append(@, [cycle |-> econ[t].cycle, user |-> a])]
  /\ UNCHANGED <<userVars, bookVars>>

\* Mutant: resuming does not count against the limit.
ResumeUnchecked(a, s, t) ==
  /\ Works(a, s, t)
  /\ task[t].owner = a /\ task[t].status = "REJECTED"
  /\ task' = [task EXCEPT ![t].status = "IN_PROGRESS"]
  /\ UNCHANGED <<userVars, bookVars>>

ResumeWork(a, s, t) ==
  /\ Works(a, s, t)
  /\ task[t].owner = a /\ task[t].status = "REJECTED"
  /\ HasCapacity(a)
  /\ task' = [task EXCEPT ![t].status = "IN_PROGRESS"]
  /\ UNCHANGED <<userVars, bookVars>>

----------------------------------------------------------------------------
(* Review decisions.                                                       *)

\* _close_pending_submission settles the newest pending one, if any.
ClosePending(subs) ==
  IF subs = <<>> THEN subs ELSE SubSeq(subs, 1, Len(subs) - 1)

\* Mutant: the rest is paid in whole coins.
UnpaidInCoins(t) == Coin * ((econ[t].reward - econ[t].paid) \div Coin)

Unpaid(t) == AtLeastZero(econ[t].reward - econ[t].paid)

\* What a partial acceptance of pct pays: never more than is left.
PartialDue(t, pct) ==
  IF pct > 0 THEN AtMost(PartialPayout(econ[t].reward, pct), Unpaid(t)) ELSE 0

\* Mutant: accepted progress may pass 100.
AcceptableUncapped(t, pct) == pct

Acceptable(t, pct) == AtLeastZero(AtMost(100 - econ[t].verified, pct))

OwnPromise(a, s, t, payout) ==
  \/ econ[t].ownPromise
  \/ payout > 0 /\ econ[t].author = "MANAGER" /\ Now(a, s, task[t].scope) = "MANAGER"

\* One ledger row and one contribution row for the worker of the current cycle.
Settle(t, u, pct, payout) ==
  /\ credited' = [credited EXCEPT ![t][econ[t].cycle][u] = @ + payout]
  /\ contributed' = [contributed EXCEPT ![t][econ[t].cycle][u] =
       [any |-> TRUE, pct |-> @.pct + pct, payout |-> @.payout + payout]]

\* Mutants: the cycle is closed with the amount before this decision, or the
\* first cycle is closed again.
CloseBeforePayout(t, outcome, paid, verified) ==
  row' = [row EXCEPT ![t][econ[t].cycle] =
            [outcome |-> outcome, paid |-> econ[t].paid, verified |-> verified]]

CloseFirstCycle(t, outcome, paid, verified) ==
  row' = [row EXCEPT ![t][1] = [outcome |-> outcome, paid |-> paid, verified |-> verified]]

CloseCycle(t, outcome, paid, verified) ==
  row' = [row EXCEPT ![t][econ[t].cycle] =
            [outcome |-> outcome, paid |-> paid, verified |-> verified]]

\* Mutant: what the worker reported is taken for what was accepted before.
RestOfReported(t) == 100 - task[t].reported

\* Final approval accepts what no handoff accepted before.
RestToAccept(t) == 100 - econ[t].verified

ApproveWork(a, s, t) ==
  LET due == Unpaid(t)
  IN  /\ Reviews(a, s, t)
      /\ task[t].status = "SUBMITTED"
      /\ MayPay(a, s, t, due)
      /\ active[a] /\ active[task[t].owner]   \* or the review event refuses it all
      /\ Settle(t, task[t].owner, RestToAccept(t), due)
      /\ econ' = [econ EXCEPT ![t].paid = @ + due, ![t].verified = 100,
                              ![t].ownPromise = OwnPromise(a, s, t, due)]
      /\ CloseCycle(t, "APPROVED", econ[t].paid + due, 100)
      /\ task' = [task EXCEPT ![t].status = "APPROVED",
                              ![t].pending = ClosePending(@)]
      /\ UNCHANGED <<userVars, fined>>

RejectWork(a, s, t) ==
  /\ Reviews(a, s, t)
  /\ task[t].status = "SUBMITTED"
  /\ active[a] /\ active[task[t].owner]
  /\ task' = [task EXCEPT ![t].status = "REJECTED", ![t].pending = ClosePending(@)]
  /\ UNCHANGED <<userVars, bookVars>>

\* A reason can always be given, so the override check removes no behaviour:
\* it only decides whether the reward was set anew.
Handoff(a, s, t, pct0, v, audience, left) ==
  LET pct == Acceptable(t, pct0)
      payout == PartialDue(t, pct)
      aud == Derived(audience, v, task[t].audience)
      overridden == left # Keep /\ RoundCoins(left) # Unpaid(t) - payout
  IN  /\ Reviews(a, s, t)
      /\ task[t].status \in {"IN_PROGRESS", "SUBMITTED"}
      /\ MayRoute(aud, v)
      /\ v # NoUser => HasCapacityFor(v, aud)
      /\ MayPay(a, s, t, payout)
      /\ Settle(t, task[t].owner, pct, payout)
      /\ econ' = [econ EXCEPT
           ![t].paid = @ + payout,
           ![t].verified = @ + pct,
           ![t].reward = IF left = Keep THEN @ ELSE econ[t].paid + payout + RoundCoins(left),
           ![t].ownPromise = OwnPromise(a, s, t, payout),
           ![t].author = IF overridden THEN Now(a, s, task[t].scope) ELSE @]
      /\ task' = [task EXCEPT ![t] =
           [Routed(t, aud, v) EXCEPT
              !.status = "OPEN", !.owner = NoUser, !.reported = 0,
              !.pending = ClosePending(@)]]
      /\ UNCHANGED <<userVars, row, fined>>

----------------------------------------------------------------------------
(* Cycles.                                                                 *)

\* cancel_task: an accepted part is only decided while someone owns the work.
CancelTask(a, s, t, pct0) ==
  LET pct == IF task[t].owner = NoUser THEN 0 ELSE Acceptable(t, pct0)
      payout == PartialDue(t, pct)
  IN  /\ Manages(a, s, t) /\ OwnsTerms(a, s, t)
      /\ task[t].status \notin Terminal
      /\ task[t].owner # a
      /\ pct > 0 => Reviews(a, s, t)
      /\ MayPay(a, s, t, payout)
      /\ IF pct > 0 THEN Settle(t, task[t].owner, pct, payout)
         ELSE UNCHANGED <<credited, contributed>>
      /\ econ' = [econ EXCEPT ![t].paid = @ + payout, ![t].verified = @ + pct,
                              ![t].ownPromise = OwnPromise(a, s, t, payout)]
      /\ CloseCycle(t, "CANCELLED", econ[t].paid + payout, econ[t].verified + pct)
      /\ task' = [task EXCEPT ![t].status = "CANCELLED",
                              ![t].pending = ClosePending(@)]
      /\ UNCHANGED <<userVars, fined>>

\* reopen_task and reactivate_task are the same reset of a closed task.
NewCycle(a, s, t, closed, v, audience) ==
  LET aud == IF audience = SameAudience THEN task[t].audience ELSE audience
      next == econ[t].cycle + 1
  IN  /\ Manages(a, s, t)
      /\ task[t].status = closed
      /\ next <= MaxCycle
      /\ MayRoute(aud, v)
      /\ v # NoUser => /\ Admitted(a, Now(a, s, task[t].scope), task[t].scope)
                       /\ Participates(v, task[t].scope)
                       /\ HasCapacityFor(v, aud)
      /\ task' = [task EXCEPT ![t] =
           [Routed(t, aud, v) EXCEPT
              !.status = "OPEN", !.owner = NoUser, !.reported = 0, !.submitted = FALSE]]
      /\ econ' = [econ EXCEPT ![t].cycle = next, ![t].paid = 0, ![t].verified = 0]
      /\ row' = [row EXCEPT ![t][next].outcome = "LIVE"]
      /\ UNCHANGED <<userVars, credited, contributed, fined>>

ReopenTask(a, s, t, v, aud) == NewCycle(a, s, t, "APPROVED", v, aud)

ReactivateTask(a, s, t, v, aud) ==
  NewCycle(a, s, t, "CANCELLED", v, aud)

----------------------------------------------------------------------------
(* Access grants and account edits.                                        *)

SetAccess(a, s, t, viewers, reviewers) ==
  /\ s = "ADMIN" /\ task[t].status # "ABSENT"
  /\ \A u \in viewers \cup reviewers : role[u] = "MANAGER" /\ active[u]
  /\ {task[t].owner, task[t].assignee} \cap reviewers = {}
  /\ task' = [task EXCEPT ![t].viewers = viewers, ![t].reviewers = reviewers]
  /\ UNCHANGED <<userVars, bookVars>>

\* update_capacity: an admin for any worker, a manager for an employee.
UpdateCapacity(a, s, u, l) ==
  /\ \/ s = "ADMIN" /\ role[u] # "ADMIN"
     \/ s = "MANAGER" /\ role[u] = "EMPLOYEE" /\ a # u
  /\ limit' = [limit EXCEPT ![u] = l]
  /\ UNCHANGED <<role, active, held, task, bookVars>>

\* Mutant: being asked to do a task is no responsibility.
OwnsNothing(u) ==
  ~ \E t \in Task : /\ task[t].status \notin Terminal \cup {"ABSENT"}
                    /\ u = task[t].owner

\* require_clean, as far as it concerns tasks.
NoResponsibilities(u) ==
  ~ \E t \in Task : /\ task[t].status \notin Terminal \cup {"ABSENT"}
                    /\ u \in {task[t].owner, task[t].assignee}

AnotherAdmin(u) == \E v \in User \ {u} : role[v] = "ADMIN" /\ active[v]

\* l = limit[u] stands for a request that names no new limit as well.
UpdateUser(a, s, u, r, act, l) ==
  /\ s = "ADMIN"
  /\ role[u] = "ADMIN" /\ (r # "ADMIN" \/ ~act) => AnotherAdmin(u)
  /\ r # role[u] \/ ~act => NoResponsibilities(u)
  /\ role' = [role EXCEPT ![u] = r]
  /\ active' = [active EXCEPT ![u] = act]
  /\ held' = [held EXCEPT ![u] = IF act THEN @ \cup {r} ELSE @]
  /\ l # limit[u] => r # "ADMIN"
  /\ limit' = [limit EXCEPT ![u] = l]
  /\ UNCHANGED <<task, bookVars>>

----------------------------------------------------------------------------

WorkStep(a, s, t) ==
  \/ ClaimTask(a, s, t)
  \/ DeclineAssignment(a, s, t)
  \/ \E p \in DOMAIN ClaimPenalty : ReturnClaim(a, s, t, p)
  \/ \E pct \in Pcts : ReportProgress(a, s, t, pct)
  \/ SubmitWork(a, s, t)
  \/ ResumeWork(a, s, t)

ManageStep(a, s, t) ==
  \/ \E scope \in Scopes, aud \in Audiences, mode \in Mode, v \in Someone, w \in Rewards :
       CreateTask(a, s, t, scope, aud, mode, v, w)
  \/ \E w \in Rewards : EditReward(a, s, t, w)
  \/ \E pct \in Pcts : CancelTask(a, s, t, pct)
  \/ \E p \in Panels : SetAccess(a, s, t, p[1], p[2])
  \/ \E v \in Someone, aud \in Audiences \cup {SameAudience} :
       \/ Reassign(a, s, t, v, aud)
       \/ ReopenTask(a, s, t, v, aud)
       \/ ReactivateTask(a, s, t, v, aud)

ReviewStep(a, s, t) ==
  \/ ApproveWork(a, s, t)
  \/ RejectWork(a, s, t)
  \/ \E pct \in Pcts, v \in Someone, aud \in Audiences \cup {SameAudience},
        left \in Leftovers \cup {Keep} :
       Handoff(a, s, t, pct, v, aud, left)

AccountStep(a, s) ==
  \/ \E u \in User, l \in Limits : UpdateCapacity(a, s, u, l)
  \/ \E u \in Editable, r \in Role, act \in BOOLEAN, l \in Limits :
       UpdateUser(a, s, u, r, act, l)

Next ==
  \E a \in User : \E s \in held[a] :
    \/ \E t \in Task : WorkStep(a, s, t) \/ ManageStep(a, s, t) \/ ReviewStep(a, s, t)
    \/ AccountStep(a, s)

Spec == Init /\ [][Next]_vars

----------------------------------------------------------------------------
(* Properties.                                                             *)

Past(t, c) == c < econ[t].cycle
Current(t, c) == c = econ[t].cycle /\ task[t].status # "ABSENT"

Total(f) == FoldFunction(+, 0, f)

\* Three records are kept of every coin a task pays: the ledger rows, the
\* contribution rows and the amounts on the task and its cycle.  They agree:
\* worker by worker, and in total for every cycle, closed ones included.
LedgerByWorker ==
  \A t \in Task, c \in Cycle, u \in User :
    credited[t][c][u] = contributed[t][c][u].payout

LedgerInTotal ==
  \A t \in Task, c \in Cycle :
    Total(credited[t][c]) =
      IF Current(t, c) THEN econ[t].paid
      ELSE IF Past(t, c) THEN row[t][c].paid ELSE 0

LedgerAgrees == LedgerByWorker /\ LedgerInTotal

\* What was accepted of the work in a cycle, over everybody who had a part in it.
Accepted(t, c) == Total([u \in User |-> contributed[t][c][u].pct])

Finished(t, c) ==
  \/ Current(t, c) /\ task[t].status = "APPROVED"
  \/ Past(t, c) /\ row[t][c].outcome = "APPROVED"

\* The parts of the work that were accepted, handoff by handoff and person by
\* person, add up to the progress the task and its cycle rows state: never to
\* more, and to the whole of it where the work was approved.
ProgressAddsUp ==
  \A t \in Task, c \in Cycle :
    /\ Accepted(t, c) =
         IF Current(t, c) THEN econ[t].verified
         ELSE IF Past(t, c) THEN row[t][c].verified ELSE 0
    /\ Finished(t, c) => Accepted(t, c) = 100

\* A cycle never pays more than it promises, whatever mix of handoffs with
\* overridden rewards, reward edits, partial cancellations and final approval.
PaidWithinPromise == \A t \in Task : econ[t].paid <= econ[t].reward

\* A submission waits for review exactly while its task does, it belongs to
\* the person who owns the task and to the current cycle, and it is the only
\* one: what a reviewer closes is what the owner handed in.
OnePendingSubmission ==
  \A t \in Task :
    task[t].pending =
      IF task[t].status = "SUBMITTED"
      THEN <<[cycle |-> econ[t].cycle, user |-> task[t].owner]>> ELSE <<>>

\* Whom the audience of a task shows it to, grants of access apart.
ShownTo(t, u) ==
  CASE task[t].audience = "EMPLOYEES" -> TRUE
    [] task[t].audience = "MANAGEMENT" -> role[u] # "EMPLOYEE"
    [] task[t].audience = "PRIVATE" -> u \in {task[t].assignee, task[t].owner}

\* Sensitivity follows the history of a task through any number of returns,
\* declines, reassignments and cycles: a step that shows a task which once was
\* private or for management to a worker who did not see it before is one whose
\* request confirmed the exposure.
ExposureConfirmed ==
  [][\A t \in Task, u \in User :
       (/\ task[t].status # "ABSENT" /\ History(t) # {}
        /\ role'[u] = role[u] /\ role[u] # "ADMIN"
        /\ ~ShownTo(t, u) /\ ShownTo(t, u)')
       => task'[t].exposed]_vars

\* A live task is held by, or offered to, an active worker whom its audience
\* admits, although accounts change role and are deactivated while requests
\* authenticated earlier are still under way.
HoldersEligible ==
  \A t \in Task, u \in User :
    (task[t].status \notin Terminal /\ u \in {task[t].owner, task[t].assignee}) =>
      active[u] /\ RoleFits(task[t].audience, role[u])

\* No step makes a user's active work exceed the limit, neither a claim nor
\* the resumption of rejected work that stopped counting meanwhile.
NoStepOverCapacity ==
  [][\A u \in User : ActiveCount(u)' > ActiveCount(u) => ActiveCount(u)' <= limit'[u]]_vars

KeepsClosedCycles ==
  \A t \in Task, c \in Cycle :
    Past(t, c) \/ task[t].status \in Terminal =>
      /\ row[t][c].outcome \in Terminal => row'[t][c] = row[t][c]
      /\ c <= econ[t].cycle => /\ credited'[t][c] = credited[t][c]
                               /\ contributed'[t][c] = contributed[t][c]

\* What happened in a closed cycle is history: once the task moved on, its
\* cycle row, its ledger rows and its contributions never change.
ClosedCyclesFrozen == [][KeepsClosedCycles]_vars

KeepsTerms ==
  \A t \in Task :
    (econ'[t].reward # econ[t].reward /\ task[t].status # "ABSENT") =>
      \/ task[t].owner # NoUser /\ task'[t].owner = NoUser
      \/ /\ task[t].status = "OPEN" /\ econ[t].verified = 0 /\ ~task[t].submitted
         /\ econ[t].paid = 0

\* Nobody's terms change under them: while a person holds a task its reward
\* stands, unless the very step that changes it takes the work off them; and
\* once anything was accepted in a cycle only such a handoff moves it.
TermsStandWhileHeld == [][KeepsTerms]_vars

\* What the engine keeps of the money, read as CyclePayroll does.
AccountOf(t) ==
  [phase |-> CASE task[t].status = "ABSENT" -> "NONE"
               [] task[t].status = "APPROVED" -> "DONE"
               [] task[t].status = "CANCELLED" -> "STOPPED"
               [] OTHER -> "OPEN",
   cycle |-> econ[t].cycle, promise |-> econ[t].reward,
   paid |-> econ[t].paid, holder |-> task[t].owner]

Payroll == INSTANCE CyclePayroll WITH
  Nobody <- NoUser, earned <- credited, books <- [t \in Task |-> AccountOf(t)]

\* Whatever the commands, the money moves as the payroll of a cycle may: coins go
\* to who holds the work and within the promise, approved work has been paid in
\* full, and a promise is never changed under somebody who works for it.
PaysAsPromised == Payroll!Spec

\* task_access.py:90: "a manager must not author the economic promise and
\* later trigger its payout".  Read of the promise actually paid from: no
\* manager pays out a reward that a manager set.
ManagersDoNotPayOwnPromise ==
  \A t \in Task : ~econ[t].ownPromise
=============================================================================
