---------------------------- MODULE Redemptions ----------------------------
(***************************************************************************)
(* Rewards and what people buy with their coins: reward_services.py, with  *)
(* the account edits of user_lifecycle.py it races with.                   *)
(*                                                                         *)
(* None of these commands takes the organization lock.  What orders them   *)
(* are row locks, so a step here ends where a statement may have to wait   *)
(* for one: Free is that wait.  A transaction's writes are shown when it   *)
(* commits; a request may also end without effect at any point (refused,   *)
(* crashed, chosen as the victim of a deadlock): Abandon.                  *)
(*                                                                         *)
(* The actor's row is the one authentication loaded (Begin).  A command    *)
(* sees it again as it was then, except where it is locked and refreshed.  *)
(***************************************************************************)
EXTENDS Integers, FiniteSets, FiniteSetsExt

CONSTANTS
  User, Reward,   \* accounts of one company, rows of its catalog
  NoUser, NoReward,
  Request,        \* requests the server works on at the same time
  MaxRedemptions, \* bound on the redemptions ever made
  MaxGiven,       \* bound on the coins an admin gives to or takes from one person
  InitRole,       \* [User -> Role]
  InitRow,        \* [Reward -> Row], the catalog at first; NoRow is not created
  Unlimited,      \* a stock or a personal limit that is NULL
  Forms,          \* the rows a catalog form may carry
  Gifts,          \* amounts of adjustments
  Commands        \* the commands an instance is about

Role == {"ADMIN", "MANAGER", "EMPLOYEE"}
Eligibility == {"EMPLOYEES", "MANAGERS", "BOTH"}
Open == {"PENDING", "APPROVED"}
Settled == {"FULFILLED", "CANCELLED"}
Slot == 1..MaxRedemptions

Count == Nat \cup {Unlimited}
Row == [stock : Count, limit : Count, cost : Nat, for : Eligibility \cup {"NONE"}, open : BOOLEAN]
NoRow == [stock |-> 0, limit |-> 0, cost |-> 0, for |-> "NONE", open |-> FALSE]
NoRedemption == [user |-> NoUser, reward |-> NoReward, cost |-> 0, status |-> "ABSENT"]

ASSUME NamesAssumption ==
  /\ NoUser \notin User /\ NoReward \notin Reward /\ Unlimited \notin Int
  /\ InitRole \in [User -> Role] /\ InitRow \in [Reward -> Row]
\* A company is provisioned with an admin.
ASSUME FounderAssumption == \E u \in User : InitRole[u] = "ADMIN"
ASSUME FormsAssumption ==
  /\ Forms \subseteq Row /\ \A f \in Forms : f.for # "NONE"
  /\ Gifts \subseteq Int \ {0}
  /\ MaxRedemptions \in Nat /\ MaxGiven \in Nat

VARIABLES
  account,     \* users: role, active and activated, can_fulfill_rewards
  wallet,      \* the sum of a user's ledger rows
  given,       \* history: the adjustments in it
  reward,      \* rewards
  intended,    \* history: stock and consumption when a form last set the stock
  redemption,  \* redemptions, by order of creation
  seat,        \* reward_executors
  req          \* requests at work

vars == <<account, wallet, given, reward, intended, redemption, seat, req>>

----------------------------------------------------------------------------
(* Requests and the locks they hold.                                       *)

Idle == [at |-> "IDLE", actor |-> NoUser, as |-> "NONE", flag |-> FALSE,
         user |-> NoUser, reward |-> NoReward, slot |-> 0,
         form |-> NoRow, copy |-> NoRow, edit |-> "NONE", on |-> FALSE,
         drop |-> {}, held |-> {}]

RewardRow(r) == <<"reward", r>>
UserRow(u) == <<"user", u>>
RedemptionRow(i) == <<"redemption", i>>
SeatRow(r, u) == <<"seat", r, u>>
CompanyRow == <<"company">>        \* FOR UPDATE
CompanyKey == <<"company key">>    \* FOR KEY SHARE, what a foreign key takes

Free(w, lock) == \A v \in Request \ {w} : lock \notin req[v].held

Holding(w, locks) == req[w].held \cup locks

Commits(w) == req' = [req EXCEPT ![w] = Idle]

\* Seats that a commit deletes are out of the reach of a DELETE that waited.
CommitsDeleting(w, seats) ==
  req' = [v \in Request |->
           IF v = w THEN Idle
           ELSE [req[v] EXCEPT !.drop = {u \in @ : <<req[v].reward, u>> \notin seats}]]

At(w, label) == req[w].at = label
Ready(w, command) == At(w, "READY") /\ command \in Commands

----------------------------------------------------------------------------
(* What the commands read.                                                 *)

\* get_user returns the object authentication loaded when it is the actor.
RoleSeen(w, u) == IF u = req[w].actor THEN req[w].as ELSE account[u].role

\* _can_decide
CanDecide(w, u) ==
  \/ req[w].as = "ADMIN"
  \/ req[w].as = "MANAGER" /\ RoleSeen(w, u) = "EMPLOYEE"

Seats(r) == {u \in User : <<r, u>> \in seat}

\* _can_fulfill
CanFulfill(w, r) ==
  \/ req[w].as = "ADMIN"
  \/ Seats(r) = {} /\ req[w].as = "MANAGER"
  \/ req[w].flag /\ req[w].actor \in Seats(r)

Eligible(s, for) ==
  /\ s # "ADMIN"
  /\ for = "EMPLOYEES" => s = "EMPLOYEE"
  /\ for = "MANAGERS" => s = "MANAGER"

\* Everything but CANCELLED counts.
Counted(u, r) ==
  {i \in Slot : /\ redemption[i].status \in Open \cup {"FULFILLED"}
                /\ redemption[i].user = u /\ redemption[i].reward = r}

Consumed(r) == UNION {Counted(u, r) : u \in User}

WithinLimit(u, r) ==
  reward[r].limit # Unlimited => Cardinality(Counted(u, r)) < reward[r].limit

\* May hold an executor seat.
Executor(u) == account[u].active /\ account[u].role # "ADMIN" /\ account[u].flag

\* The event store refuses a reference to somebody who is not active.
Attributable(us) == \A u \in us : account[u].active

NextFree(i) ==
  /\ redemption[i].status = "ABSENT"
  /\ \A j \in Slot : j < i => redemption[j].status # "ABSENT"

----------------------------------------------------------------------------
(* Requests come, give up, and leave the rest alone.                       *)

books == <<wallet, given, reward, intended, redemption>>
people == <<account, seat>>
world == <<books, people>>

Init ==
  /\ account = [u \in User |-> [role |-> InitRole[u], active |-> TRUE, flag |-> FALSE]]
  /\ wallet = [u \in User |-> 0]
  /\ given = [u \in User |-> 0]
  /\ reward = InitRow
  /\ intended = [r \in Reward |-> IF InitRow[r].stock = Unlimited THEN 0 ELSE InitRow[r].stock]
  /\ redemption = [i \in Slot |-> NoRedemption]
  /\ seat = {}
  /\ req = [w \in Request |-> Idle]

\* current_auth
Begin(w, a) ==
  /\ At(w, "IDLE") /\ account[a].active
  /\ req' = [req EXCEPT ![w].at = "READY", ![w].actor = a, ![w].as = account[a].role,
              ![w].flag = account[a].flag]
  /\ UNCHANGED world

\* Refused, failed, chosen to break a deadlock: everything is rolled back.
Abandon(w) ==
  /\ ~At(w, "IDLE")
  /\ Commits(w)
  /\ UNCHANGED world

----------------------------------------------------------------------------
(* redeem: reward row, user row, then the event's key on the company.      *)

\* Mutant: the reward is read without FOR UPDATE.
RedeemUnlocked(w, r) ==
  /\ Ready(w, "REDEEM")
  /\ Eligible(req[w].as, reward[r].for)
  /\ reward[r].open /\ reward[r].for # "NONE" /\ reward[r].stock # 0
  /\ WithinLimit(req[w].actor, r)
  /\ req' = [req EXCEPT ![w].at = "DEBIT", ![w].reward = r]
  /\ UNCHANGED world

RedeemLock(w, r) ==
  /\ Ready(w, "REDEEM")
  /\ Free(w, RewardRow(r))
  /\ Eligible(req[w].as, reward[r].for)
  /\ reward[r].open /\ reward[r].for # "NONE" /\ reward[r].stock # 0
  /\ WithinLimit(req[w].actor, r)
  /\ req' = [req EXCEPT ![w].at = "DEBIT", ![w].reward = r, ![w].held = {RewardRow(r)}]
  /\ UNCHANGED world

Affords(u, cost) == wallet[u] >= cost \/ cost = 0

\* Mutant: the balance is read without locking the account.
RedeemDebitUnlocked(w) ==
  /\ At(w, "DEBIT")
  /\ LET u == req[w].actor
     IN  /\ account[u].active /\ Affords(u, reward[req[w].reward].cost)
         /\ req' = [req EXCEPT ![w].at = "RECORD"]
  /\ UNCHANGED world

RedeemDebit(w) ==
  /\ At(w, "DEBIT")
  /\ LET u == req[w].actor
     IN  /\ Free(w, UserRow(u))
         /\ account[u].active /\ Affords(u, reward[req[w].reward].cost)
         /\ req' = [req EXCEPT ![w].at = "RECORD", ![w].held = Holding(w, {UserRow(u)})]
  /\ UNCHANGED world

Taken(stock, n) == IF stock = Unlimited THEN stock ELSE stock + n

RedeemRecord(w) ==
  /\ At(w, "RECORD") /\ Free(w, CompanyRow)
  /\ LET u == req[w].actor
         r == req[w].reward
     IN  /\ Attributable({u})
         /\ reward' = [reward EXCEPT ![r].stock = Taken(@, -1)]
         /\ wallet' = [wallet EXCEPT ![u] = @ - reward[r].cost]
         /\ \E i \in Slot :
              /\ NextFree(i)
              /\ redemption' = [redemption EXCEPT ![i] =
                   [user |-> u, reward |-> r, cost |-> reward[r].cost, status |-> "PENDING"]]
  /\ Commits(w)
  /\ UNCHANGED <<given, intended, people>>

----------------------------------------------------------------------------
(* Decisions.  A redeemer with an open redemption keeps their role, so     *)
(* approval reads nothing that could change before it commits.             *)

Approve(w, i) ==
  /\ Ready(w, "APPROVE")
  /\ Free(w, RedemptionRow(i)) /\ redemption[i].status = "PENDING"
  /\ CanDecide(w, redemption[i].user)
  /\ redemption' = [redemption EXCEPT ![i].status = "APPROVED"]
  /\ Commits(w)
  /\ UNCHANGED <<wallet, given, reward, intended, people>>

\* Mutant: fulfilment reads the redemption without FOR UPDATE.
FulfillUnlocked(w, i) ==
  /\ Ready(w, "FULFILL")
  /\ redemption[i].status = "APPROVED" /\ CanFulfill(w, redemption[i].reward)
  /\ req' = [req EXCEPT ![w].at = "DELIVER", ![w].slot = i]
  /\ UNCHANGED world

FulfillLock(w, i) ==
  /\ Ready(w, "FULFILL")
  /\ Free(w, RedemptionRow(i))
  /\ redemption[i].status = "APPROVED" /\ CanFulfill(w, redemption[i].reward)
  /\ req' = [req EXCEPT ![w].at = "DELIVER", ![w].slot = i,
              ![w].held = {RedemptionRow(i)}]
  /\ UNCHANGED world

FulfillDeliver(w) ==
  /\ At(w, "DELIVER") /\ Free(w, CompanyRow)
  /\ Attributable({req[w].actor, redemption[req[w].slot].user})
  /\ redemption' = [redemption EXCEPT ![req[w].slot].status = "FULFILLED"]
  /\ Commits(w)
  /\ UNCHANGED <<wallet, given, reward, intended, people>>

\* cancel_redemption: redemption row, reward row, user row.
MayCancel(w, i) ==
  IF req[w].as = "EMPLOYEE" THEN redemption[i].user = req[w].actor
  ELSE CanDecide(w, redemption[i].user)

\* Mutant: the refund takes the account before the reward.
CancelLockUserFirst(w, i) ==
  /\ Ready(w, "CANCEL")
  /\ Free(w, RedemptionRow(i)) /\ redemption[i].status \in Open
  /\ MayCancel(w, i) /\ Free(w, UserRow(redemption[i].user))
  /\ req' = [req EXCEPT ![w].at = "RESTOCK", ![w].slot = i,
              ![w].reward = redemption[i].reward,
              ![w].held = {RedemptionRow(i), UserRow(redemption[i].user)}]
  /\ UNCHANGED world

\* Mutant: the status is checked before the row is locked.
CancelUnlocked(w, i) ==
  /\ Ready(w, "CANCEL")
  /\ redemption[i].status \in Open /\ MayCancel(w, i)
  /\ req' = [req EXCEPT ![w].at = "RESTOCK", ![w].slot = i,
              ![w].reward = redemption[i].reward]
  /\ UNCHANGED world

CancelLock(w, i) ==
  /\ Ready(w, "CANCEL")
  /\ Free(w, RedemptionRow(i)) /\ redemption[i].status \in Open
  /\ MayCancel(w, i)
  /\ req' = [req EXCEPT ![w].at = "RESTOCK", ![w].slot = i,
              ![w].reward = redemption[i].reward, ![w].held = {RedemptionRow(i)}]
  /\ UNCHANGED world

CancelRestock(w) ==
  /\ At(w, "RESTOCK") /\ Free(w, RewardRow(req[w].reward))
  /\ req' = [req EXCEPT ![w].at = "REFUND",
              ![w].held = Holding(w, {RewardRow(req[w].reward)})]
  /\ UNCHANGED world

CancelRefund(w) ==
  /\ At(w, "REFUND")
  /\ LET x == redemption[req[w].slot]
     IN  /\ Free(w, UserRow(x.user))
         /\ reward' = [reward EXCEPT ![x.reward].stock = Taken(@, 1)]
         /\ wallet' = [wallet EXCEPT ![x.user] = @ + x.cost]
         /\ redemption' = [redemption EXCEPT ![req[w].slot].status = "CANCELLED"]
  /\ Commits(w)
  /\ UNCHANGED <<given, intended, people>>

\* admin_adjust: the target's role is read without a lock.
AdjustRead(w, u) ==
  /\ Ready(w, "ADJUST") /\ req[w].as = "ADMIN"
  /\ RoleSeen(w, u) # "ADMIN"
  /\ req' = [req EXCEPT ![w].at = "GIVE", ![w].user = u]
  /\ UNCHANGED world

AdjustGive(w, amount) ==
  /\ At(w, "GIVE")
  /\ LET u == req[w].user
     IN  /\ Free(w, UserRow(u))
         /\ given[u] + amount \in -MaxGiven..MaxGiven
         /\ given' = [given EXCEPT ![u] = @ + amount]
         /\ wallet' = [wallet EXCEPT ![u] = @ + amount]
  /\ Commits(w)
  /\ UNCHANGED <<reward, intended, redemption, people>>

----------------------------------------------------------------------------
(* save_reward.  The row is read without a lock; only the columns that the *)
(* form changes with respect to that copy are written, and the row is      *)
(* locked only if there are any.                                           *)

MaySave(s, for, copyFor) ==
  \/ s = "ADMIN"
  \/ s = "MANAGER" /\ for # "MANAGERS" /\ copyFor \in {"EMPLOYEES", "NONE"}

SaveRead(w, r, form) ==
  /\ Ready(w, "SAVE") /\ reward[r] # NoRow
  /\ MaySave(req[w].as, form.for, reward[r].for)
  /\ req' = [req EXCEPT ![w].at = "WRITE", ![w].reward = r, ![w].form = form,
              ![w].copy = reward[r]]
  /\ UNCHANGED world

\* A new row is invisible to others until the commit; its insertion takes
\* the key of the company.
SaveCreate(w, r, form) ==
  /\ Ready(w, "SAVE") /\ reward[r] = NoRow
  /\ Free(w, RewardRow(r)) /\ Free(w, CompanyRow)
  /\ MaySave(req[w].as, form.for, "NONE")
  /\ req' = [req EXCEPT ![w].at = "WRITE", ![w].reward = r, ![w].form = form,
              ![w].held = {RewardRow(r), CompanyKey}]
  /\ UNCHANGED world

\* Mutant: every column of the form is written, changed or not.
MergedAll(w) == req[w].form

Merged(w) ==
  LET form == req[w].form
      copy == req[w].copy
      now == reward[req[w].reward]
      Written(asked, read, stored) == IF asked = read THEN stored ELSE asked
  IN  [stock |-> Written(form.stock, copy.stock, now.stock),
       limit |-> Written(form.limit, copy.limit, now.limit),
       cost |-> Written(form.cost, copy.cost, now.cost),
       for |-> Written(form.for, copy.for, now.for),
       open |-> Written(form.open, copy.open, now.open)]

RowChanges(w) == req[w].form # req[w].copy

LocksRow(w) == IF RowChanges(w) THEN {RewardRow(req[w].reward)} ELSE {}

\* intended follows the stock a form asks for.
CommitSave(w, deleted, added) ==
  LET r == req[w].reward
      asked == req[w].form.stock
  IN  /\ reward' = IF RowChanges(w) THEN [reward EXCEPT ![r] = Merged(w)] ELSE reward
      /\ intended' = IF asked \notin {req[w].copy.stock, Unlimited}
                     THEN [intended EXCEPT ![r] = asked + Cardinality(Consumed(r))]
                     ELSE intended
      /\ seat' = (seat \ deleted) \cup added
      /\ CommitsDeleting(w, deleted)
      /\ UNCHANGED <<account, wallet, given, redemption>>

\* No executors are given, or the form comes from a manager.
SaveKeep(w) ==
  /\ At(w, "WRITE")
  /\ \A lock \in LocksRow(w) : Free(w, lock)
  /\ CommitSave(w, {}, {})

\* An admin names at most one executor; a person who may not hold a seat is
\* passed over.  drop is what the DELETE sees when it starts.
SaveName(w, u) ==
  /\ At(w, "WRITE") /\ req[w].as = "ADMIN"
  /\ \A lock \in LocksRow(w) : Free(w, lock)
  /\ u \in User => Executor(u)
  /\ req' = [req EXCEPT ![w].at = "CLEAR", ![w].user = u,
              ![w].drop = Seats(req[w].reward), ![w].held = Holding(w, LocksRow(w))]
  /\ UNCHANGED world

Cleared(w) == {<<req[w].reward, u>> : u \in req[w].drop}

SaveClear(w) ==
  /\ At(w, "CLEAR")
  /\ \A u \in req[w].drop : Free(w, SeatRow(req[w].reward, u))
  /\ IF req[w].user = NoUser THEN CommitSave(w, Cleared(w), {})
     ELSE /\ req' = [req EXCEPT ![w].at = "SEAT",
                      ![w].held = Holding(w, {SeatRow(req[w].reward, u) : u \in req[w].drop})]
          /\ UNCHANGED world

\* The account is locked and looked at again.
SaveSeat(w) ==
  /\ At(w, "SEAT") /\ Free(w, UserRow(req[w].user))
  /\ IF Executor(req[w].user)
     THEN /\ req' = [req EXCEPT ![w].at = "INSERT",
                      ![w].held = Holding(w, {UserRow(req[w].user)})]
          /\ UNCHANGED world
     ELSE CommitSave(w, Cleared(w), {})

\* A seat refers to its reward, whose key it takes in share mode: it waits for a
\* purchase or refund that locked the row FOR UPDATE, not for another form.
RewardKeyFree(w) ==
  \A v \in Request \ {w} :
    RewardRow(req[w].reward) \in req[v].held => req[v].at \in {"CLEAR", "SEAT", "INSERT"}

\* A seat that somebody else added meanwhile is a duplicate key.
SaveInsert(w) ==
  LET new == <<req[w].reward, req[w].user>>
  IN  /\ At(w, "INSERT") /\ Free(w, CompanyRow) /\ RewardKeyFree(w)
      /\ Free(w, SeatRow(req[w].reward, req[w].user))
      /\ new \notin seat \ Cleared(w)
      /\ CommitSave(w, Cleared(w), {new})

----------------------------------------------------------------------------
(* toggle_fulfill_permission: the flag is turned from what an unlocked     *)
(* read showed.                                                            *)

ToggleRead(w, u) ==
  /\ Ready(w, "TOGGLE") /\ req[w].as = "ADMIN"
  /\ RoleSeen(w, u) # "ADMIN"
  /\ req' = [req EXCEPT ![w].at = IF account[u].flag THEN "REVOKE" ELSE "GRANT",
              ![w].user = u]
  /\ UNCHANGED world

ToggleGrant(w) ==
  /\ At(w, "GRANT") /\ Free(w, UserRow(req[w].user))
  /\ account' = [account EXCEPT ![req[w].user].flag = TRUE]
  /\ Commits(w)
  /\ UNCHANGED <<books, seat>>

ToggleRevoke(w) ==
  /\ At(w, "REVOKE") /\ Free(w, UserRow(req[w].user))
  /\ req' = [req EXCEPT ![w].at = "STRIP", ![w].held = {UserRow(req[w].user)}]
  /\ UNCHANGED world

SeatsOf(u) == {s \in seat : s[2] = u}

ToggleStrip(w) ==
  /\ At(w, "STRIP")
  /\ \A s \in SeatsOf(req[w].user) : Free(w, SeatRow(s[1], s[2]))
  /\ account' = [account EXCEPT ![req[w].user].flag = FALSE]
  /\ seat' = seat \ SeatsOf(req[w].user)
  /\ CommitsDeleting(w, SeatsOf(req[w].user))
  /\ UNCHANGED books

----------------------------------------------------------------------------
(* update_user: the company's row, then the user's.                        *)

UpdateLock(w) ==
  /\ Ready(w, "UPDATE") /\ req[w].as = "ADMIN"
  /\ Free(w, CompanyRow) /\ Free(w, CompanyKey)
  /\ req' = [req EXCEPT ![w].at = "EDIT", ![w].held = {CompanyRow}]
  /\ UNCHANGED world

AnotherAdmin(u) ==
  \E v \in User \ {u} : account[v].role = "ADMIN" /\ account[v].active

\* Mutant: rewards on their way do not count as responsibilities.
CleanOfSeats(u) == SeatsOf(u) = {}

\* require_clean; open work is the task engine's.
Clean(u) ==
  /\ SeatsOf(u) = {}
  /\ \A i \in Slot : redemption[i].user = u => redemption[i].status \notin Open

UpdateCheck(w, u, role, on) ==
  /\ At(w, "EDIT") /\ Free(w, UserRow(u))
  /\ account[u].role = "ADMIN" /\ (role # "ADMIN" \/ ~on) => AnotherAdmin(u)
  /\ role # account[u].role \/ ~on => Clean(u)
  /\ req' = [req EXCEPT ![w].at = "APPLY", ![w].user = u, ![w].edit = role, ![w].on = on,
              ![w].held = Holding(w, {UserRow(u)})]
  /\ UNCHANGED world

UpdateApply(w) ==
  /\ At(w, "APPLY")
  /\ account' = [account EXCEPT ![req[w].user] =
       [role |-> req[w].edit, active |-> req[w].on,
        flag |-> req[w].edit # "ADMIN" /\ @.flag]]
  /\ Commits(w)
  /\ UNCHANGED <<books, seat>>

----------------------------------------------------------------------------
Step(w) ==
  \/ \E a \in User : Begin(w, a) \/ AdjustRead(w, a) \/ ToggleRead(w, a)
  \/ \E r \in Reward : RedeemLock(w, r) \/ \E f \in Forms : SaveRead(w, r, f) \/ SaveCreate(w, r, f)
  \/ \E i \in Slot : Approve(w, i) \/ FulfillLock(w, i) \/ CancelLock(w, i)
  \/ \E g \in Gifts : AdjustGive(w, g)
  \/ \E u \in User \cup {NoUser} : SaveName(w, u)
  \/ \E u \in User, role \in Role, on \in BOOLEAN : UpdateCheck(w, u, role, on)
  \/ RedeemDebit(w) \/ RedeemRecord(w) \/ FulfillDeliver(w)
  \/ CancelRestock(w) \/ CancelRefund(w)
  \/ SaveKeep(w) \/ SaveClear(w) \/ SaveSeat(w) \/ SaveInsert(w)
  \/ ToggleGrant(w) \/ ToggleRevoke(w) \/ ToggleStrip(w)
  \/ UpdateLock(w) \/ UpdateApply(w) \/ Abandon(w)

Next == \E w \in Request : Step(w)

Spec == Init /\ [][Next]_vars

----------------------------------------------------------------------------
(* Properties.                                                             *)

Lock ==
  {CompanyRow, CompanyKey} \cup {RewardRow(r) : r \in Reward} \cup {UserRow(u) : u \in User}
    \cup {RedemptionRow(i) : i \in Slot} \cup {SeatRow(r, u) : r \in Reward, u \in User}

Label == {"IDLE", "READY", "DEBIT", "RECORD", "DELIVER", "RESTOCK", "REFUND", "GIVE",
          "WRITE", "CLEAR", "SEAT", "INSERT", "GRANT", "REVOKE", "STRIP", "EDIT", "APPLY"}

Account == [role : Role, active : BOOLEAN, flag : BOOLEAN]

Purchase ==
  [user : User \cup {NoUser}, reward : Reward \cup {NoReward}, cost : Nat,
   status : Open \cup Settled \cup {"ABSENT"}]

Work ==
  [at : Label, actor : User \cup {NoUser}, as : Role \cup {"NONE"}, flag : BOOLEAN,
   user : User \cup {NoUser}, reward : Reward \cup {NoReward}, slot : Slot \cup {0},
   form : Row, copy : Row, edit : Role \cup {"NONE"}, on : BOOLEAN,
   drop : SUBSET User, held : SUBSET Lock]

\* The shape of every row and of every request (models.py).
TypeOK ==
  /\ account \in [User -> Account]
  /\ wallet \in [User -> Int] /\ given \in [User -> Int]
  /\ reward \in [Reward -> Row] /\ intended \in [Reward -> Nat]
  /\ redemption \in [Slot -> Purchase]
  /\ seat \subseteq Reward \X User
  /\ req \in [Request -> Work]

\* A wallet is what an admin gave less what redemptions still keep: one debit
\* for each redemption and one refund for each that was cancelled, however
\* many requests decide on it at once.
WalletsAddUp ==
  \A u \in User :
    wallet[u] = given[u] - MapThenSumSet(LAMBDA i : redemption[i].cost,
                                         UNION {Counted(u, r) : r \in Reward})

\* The stock of a reward is what the last form asked for, counting what had
\* been redeemed by then, less what is redeemed now: no redemption, refund or
\* edit of other columns loses or repeats an item, and none is sold twice.
StockAddsUp ==
  \A r \in Reward : reward[r].stock # Unlimited =>
    /\ reward[r].stock >= 0
    /\ reward[r].stock + Cardinality(Consumed(r)) = intended[r]

\* A redemption is recorded only within the personal limit of its reward,
\* whatever other requests the same person has under way.
LimitsHold ==
  [][\A u \in User, r \in Reward :
       (Counted(u, r)' # Counted(u, r) /\ Counted(u, r) \subseteq Counted(u, r)')
         => (reward[r].limit # Unlimited => Cardinality(Counted(u, r)') <= reward[r].limit)]_vars

\* Buying a reward leaves nobody in debt, whatever an admin takes back at
\* the same time.
NoOverdraft ==
  [][\A u \in User :
       (wallet'[u] < wallet[u] /\ redemption' # redemption) => wallet'[u] >= 0]_vars

\* Whoever waits for a reward has an account that can receive it, although
\* they may be deactivated while they redeem.
OpenHaveOwners ==
  \A i \in Slot : redemption[i].status \in Open => account[redemption[i].user].active

\* Nobody changes role while a redemption of theirs is open, so the decision
\* is taken by those it was put to.
OwnersKeepRoles ==
  [][\A i \in Slot :
       (redemption'[i].status \in Open /\ redemption[i].user \in User) =>
         account'[redemption[i].user].role = account[redemption[i].user].role]_vars

\* Every seat is held by somebody who may fulfil: active, no admin, with the
\* permission, although each of these is edited by another command.
SeatsFit ==
  \A s \in seat : Executor(s[2])

\* Two admins cannot remove each other.
AlwaysAnAdmin ==
  \E u \in User : account[u].role = "ADMIN" /\ account[u].active

\* What was delivered or refunded stays so: fulfilment and cancellation have
\* one outcome.
OutcomesStand ==
  [][\A i \in Slot : redemption[i].status \in Settled => redemption'[i] = redemption[i]]_vars

\* What a request that has already locked something waits for next; the key of
\* the reward of a seat is counted as the whole row.
Wanted(w) ==
  CASE At(w, "DEBIT") -> {UserRow(req[w].actor)}
    [] At(w, "RECORD") \/ At(w, "DELIVER") -> {CompanyRow}
    [] At(w, "RESTOCK") -> {RewardRow(req[w].reward)}
    [] At(w, "REFUND") -> {UserRow(redemption[req[w].slot].user)}
    [] At(w, "WRITE") -> LocksRow(w)
    [] At(w, "CLEAR") -> {SeatRow(req[w].reward, u) : u \in req[w].drop}
    [] At(w, "SEAT") -> {UserRow(req[w].user)}
    [] At(w, "EDIT") -> {UserRow(u) : u \in User}
    [] At(w, "INSERT") ->
         {CompanyRow, RewardRow(req[w].reward), SeatRow(req[w].reward, req[w].user)}
    [] At(w, "STRIP") -> {SeatRow(s[1], s[2]) : s \in SeatsOf(req[w].user)}
    [] OTHER -> {}

Blocks(v, w) == Wanted(w) \cap req[v].held # {}

\* Requests that move coins never block each other in a circle, of any length:
\* wherever each of some requests waits for another of them, one names an
\* executor, takes a permission away or edits an account.
CirclesNeedAdmins ==
  \A S \in (SUBSET Request) \ {{}} :
    (\A w \in S : \E v \in S \ {w} : Blocks(v, w)) =>
      \E x \in S : req[x].at \in {"SEAT", "INSERT", "STRIP", "EDIT"}
=============================================================================
