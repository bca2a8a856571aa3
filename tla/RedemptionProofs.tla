-------------------------- MODULE RedemptionProofs --------------------------
(* What the row locks of the reward commands guarantee, for every company, *)
(* catalog, set of forms and number of requests at work.                   *)
EXTENDS Redemptions, Sums

\* What a request has locked when it is about to take its next step.
Lockless == {"IDLE", "READY", "GIVE", "GRANT", "REVOKE"}

Drops(w) == {SeatRow(req[w].reward, u) : u \in User}

RewardLocks(w) == {RewardRow(req[w].reward), CompanyKey}

LocksFit(w) ==
  /\ req[w].at \in Lockless => req[w].held = {}
  /\ At(w, "DEBIT") => req[w].held = {RewardRow(req[w].reward)}
  /\ At(w, "RECORD") => req[w].held = {RewardRow(req[w].reward), UserRow(req[w].actor)}
  /\ At(w, "DELIVER") \/ At(w, "RESTOCK") => req[w].held = {RedemptionRow(req[w].slot)}
  /\ At(w, "REFUND") =>
       req[w].held = {RedemptionRow(req[w].slot), RewardRow(req[w].reward)}
  /\ At(w, "WRITE") => req[w].held = {} \/ req[w].held = RewardLocks(w)
  /\ At(w, "CLEAR") =>
       LocksRow(w) \subseteq req[w].held /\ req[w].held \subseteq RewardLocks(w)
  /\ At(w, "SEAT") =>
       LocksRow(w) \subseteq req[w].held /\ req[w].held \subseteq RewardLocks(w) \cup Drops(w)
  /\ At(w, "INSERT") =>
       /\ LocksRow(w) \cup {UserRow(req[w].user)} \subseteq req[w].held
       /\ req[w].held \subseteq RewardLocks(w) \cup Drops(w) \cup {UserRow(req[w].user)}
  /\ At(w, "STRIP") => req[w].held = {UserRow(req[w].user)}
  /\ At(w, "EDIT") => req[w].held = {CompanyRow}
  /\ At(w, "APPLY") => req[w].held = {CompanyRow, UserRow(req[w].user)}

\* What it has read under those locks and may still rely on.
InStock(w) ==
  /\ req[w].actor \in User /\ req[w].reward \in Reward
  /\ reward[req[w].reward].stock # 0
  /\ WithinLimit(req[w].actor, req[w].reward)

Solvent(w) ==
  /\ account[req[w].actor].active
  /\ Affords(req[w].actor, reward[req[w].reward].cost)

Undecided(w) ==
  /\ req[w].slot \in Slot
  /\ redemption[req[w].slot].status \in Open
  /\ req[w].reward = redemption[req[w].slot].reward

Deliverable(w) == req[w].slot \in Slot /\ redemption[req[w].slot].status = "APPROVED"

Editable(w) ==
  LET u == req[w].user
      old == account[u]
  IN  /\ u \in User /\ req[w].edit \in Role
      /\ old.role = "ADMIN" /\ (req[w].edit # "ADMIN" \/ ~req[w].on) => AnotherAdmin(u)
      /\ req[w].edit # old.role \/ ~req[w].on => Clean(u)

Relies(w) ==
  /\ ~At(w, "IDLE") => req[w].actor \in User
  /\ req[w].at \in {"DEBIT", "RECORD"} => InStock(w)
  /\ At(w, "RECORD") => Solvent(w)
  /\ At(w, "DELIVER") => Deliverable(w)
  /\ req[w].at \in {"RESTOCK", "REFUND"} => Undecided(w)
  /\ req[w].at \in {"WRITE", "CLEAR", "SEAT", "INSERT"} => req[w].reward \in Reward
  /\ req[w].at \in {"SEAT", "INSERT", "GRANT", "REVOKE", "STRIP", "GIVE"} =>
       req[w].user \in User
  /\ At(w, "INSERT") => Executor(req[w].user)
  /\ At(w, "APPLY") => Editable(w)

LocksApart ==
  \A v, w \in Request : v # w => req[v].held \cap req[w].held \subseteq {CompanyKey}

\* Every redemption has an owner and a reward.
Named ==
  \A i \in Slot : redemption[i].status # "ABSENT" =>
    redemption[i].user \in User /\ redemption[i].reward \in Reward

\* The inductive invariant.
Orderly ==
  /\ TypeOK /\ LocksApart /\ Named
  /\ \A w \in Request : LocksFit(w) /\ Relies(w)
  /\ OpenHaveOwners /\ SeatsFit /\ AlwaysAnAdmin /\ StockAddsUp

----------------------------------------------------------------------------
(* Locks.                                                                  *)

\* A row is not the key of a company.
LEMMA NotTheKey ==
  /\ \A r : RewardRow(r) # CompanyKey
  /\ \A u : UserRow(u) # CompanyKey
  /\ \A i : RedemptionRow(i) # CompanyKey
  /\ \A r, u : SeatRow(r, u) # CompanyKey
  /\ CompanyRow # CompanyKey
BY DEF RewardRow, UserRow, RedemptionRow, SeatRow, CompanyRow, CompanyKey

\* What a request has locked is free for it.
LEMMA HeldIsFree ==
  ASSUME LocksApart, NEW w \in Request, NEW l \in req[w].held, l # CompanyKey
  PROVE  Free(w, l)
BY DEF LocksApart, Free

\* A step that takes locks and writes nothing.
Takes(w) ==
  /\ UNCHANGED world
  /\ req' \in [Request -> Work]
  /\ \A v \in Request \ {w} : req'[v] = req[v]
  /\ \A l \in req'[w].held : l = CompanyKey \/ Free(w, l)

\* A step that ends a request: it gives up its locks, and at most the seats
\* that others are about to delete become fewer.
Ends(w) ==
  /\ req' \in [Request -> Work]
  /\ req'[w] = Idle
  /\ \A v \in Request \ {w} : req'[v] = [req[v] EXCEPT !.drop = req'[v].drop]

\* It changes no row that another request has locked.
Respects(w) ==
  /\ \A u \in User :
       \/ Free(w, UserRow(u))
       \/ account'[u] = account[u] /\ wallet'[u] = wallet[u] /\ (Clean(u) => Clean(u)')
  /\ \A r \in Reward :
       \/ Free(w, RewardRow(r))
       \/ reward'[r] = reward[r] /\ \A u \in User : Counted(u, r)' = Counted(u, r)
  /\ \A i \in Slot :
       \/ Free(w, RedemptionRow(i))
       \/ redemption'[i] = redemption[i] \/ redemption[i].status = "ABSENT"
  /\ \/ Free(w, CompanyRow)
     \/ \A u \in User :
          account'[u].role = account[u].role /\ account'[u].active = account[u].active

\* What a request relies on stands when neither it nor a table changes.
LEMMA Untouched ==
  ASSUME NEW v \in Request, UNCHANGED world, req'[v] = req[v], LocksFit(v), Relies(v)
  PROVE  LocksFit(v)' /\ Relies(v)'
<1>1. /\ req'[v] = req[v] /\ account' = account /\ wallet' = wallet /\ reward' = reward
      /\ redemption' = redemption /\ seat' = seat
  BY DEF world, books, people
<1>2. LocksFit(v)'
  BY <1>1 DEF LocksFit, At, RewardLocks, Drops, LocksRow, RowChanges
<1>3. InStock(v)' = InStock(v) /\ Solvent(v)' = Solvent(v)
  BY <1>1 DEF InStock, Solvent, WithinLimit, Counted, Affords
<1>4. Undecided(v)' = Undecided(v) /\ Deliverable(v)' = Deliverable(v)
  BY <1>1 DEF Undecided, Deliverable
<1>5. Editable(v)' = Editable(v)
  BY <1>1 DEF Editable, AnotherAdmin, Clean, SeatsOf
<1>6. Executor(req[v].user)' = Executor(req[v].user)
  BY <1>1 DEF Executor
<1> QED
  BY <1>1, <1>2, <1>3, <1>4, <1>5, <1>6 DEF Relies, At

\* A step that takes locks keeps the invariant if it finds what it relies on.
LEMMA Taking ==
  ASSUME Orderly, NEW w \in Request, Takes(w), LocksFit(w)', Relies(w)'
  PROVE  Orderly'
<1>1. /\ account' = account /\ wallet' = wallet /\ given' = given /\ reward' = reward
      /\ intended' = intended /\ redemption' = redemption /\ seat' = seat
  BY DEF Takes, world, books, people
<1>2. TypeOK'
  BY <1>1 DEF Orderly, TypeOK, Takes
<1>3. LocksApart'
  BY DEF Orderly, LocksApart, Takes, Free
<1>4. ASSUME NEW v \in Request
      PROVE  LocksFit(v)' /\ Relies(v)'
  BY Untouched DEF Orderly, Takes
<1>5. Named' /\ OpenHaveOwners' /\ SeatsFit' /\ AlwaysAnAdmin'
  BY <1>1 DEF Orderly, Named, OpenHaveOwners, SeatsFit, AlwaysAnAdmin, Executor
<1>6. \A r : Consumed(r)' = Consumed(r)
  BY <1>1 DEF Consumed, Counted
<1>7. StockAddsUp'
  BY <1>1, <1>6 DEF Orderly, StockAddsUp
<1> QED
  BY <1>2, <1>3, <1>4, <1>5, <1>7 DEF Orderly

\* Locks protect what other requests rely on from a commit.
LEMMA EndingLeavesOthers ==
  ASSUME TypeOK, NEW w \in Request, NEW v \in Request \ {w}, Ends(w), Respects(w),
         LocksFit(v), Relies(v)
  PROVE  LocksFit(v)' /\ Relies(v)'
<1>1. /\ req'[v].at = req[v].at /\ req'[v].actor = req[v].actor
      /\ req'[v].user = req[v].user
      /\ req'[v].reward = req[v].reward /\ req'[v].slot = req[v].slot
      /\ req'[v].form = req[v].form /\ req'[v].copy = req[v].copy
      /\ req'[v].edit = req[v].edit /\ req'[v].on = req[v].on /\ req'[v].held = req[v].held
  BY DEF Ends, TypeOK, Work
<1>2. LocksFit(v)'
  BY <1>1 DEF LocksFit, At, RewardLocks, Drops, LocksRow, RowChanges
<1>3. \A l \in req[v].held : ~Free(w, l)
  BY DEF Free
<1>4. ASSUME req[v].at \in {"DEBIT", "RECORD"}
      PROVE  InStock(v)' /\ (At(v, "RECORD") => Solvent(v)')
  <2>1. RewardRow(req[v].reward) \in req[v].held /\ InStock(v)
    BY <1>4 DEF LocksFit, Relies, At
  <2>2. /\ reward'[req[v].reward] = reward[req[v].reward]
        /\ Counted(req[v].actor, req[v].reward)' = Counted(req[v].actor, req[v].reward)
    BY <1>1, <1>3, <2>1 DEF Respects, InStock, Counted
  <2>3. InStock(v)'
    BY <1>1, <2>1, <2>2 DEF InStock, WithinLimit
  <2>4. ASSUME At(v, "RECORD")
        PROVE  Solvent(v)'
    <3>1. UserRow(req[v].actor) \in req[v].held /\ Solvent(v)
      BY <2>4 DEF LocksFit, Relies
    <3>2. account'[req[v].actor] = account[req[v].actor]
          /\ wallet'[req[v].actor] = wallet[req[v].actor]
      BY <1>3, <2>1, <3>1 DEF Respects, InStock
    <3> QED
      BY <1>1, <2>2, <3>1, <3>2 DEF Solvent, Affords
  <2> QED
    BY <2>3, <2>4
<1>5. ASSUME req[v].at \in {"DELIVER", "RESTOCK", "REFUND"}
      PROVE  /\ At(v, "DELIVER") => Deliverable(v)'
             /\ ~At(v, "DELIVER") => Undecided(v)'
  <2>1. RedemptionRow(req[v].slot) \in req[v].held
    BY <1>5 DEF LocksFit, At
  <2>2. req[v].slot \in Slot /\ redemption[req[v].slot].status # "ABSENT"
    BY <1>5 DEF Relies, At, Deliverable, Undecided, Open
  <2>3. redemption'[req[v].slot] = redemption[req[v].slot]
    BY <1>3, <2>1, <2>2 DEF Respects
  <2> QED
    BY <1>1, <1>5, <2>3 DEF Relies, At, Deliverable, Undecided
<1>6. ASSUME At(v, "INSERT")
      PROVE  Executor(req[v].user)'
  <2>1. UserRow(req[v].user) \in req[v].held /\ req[v].user \in User
    BY <1>6 DEF LocksFit, Relies, At
  <2>2. account'[req[v].user] = account[req[v].user]
    BY <1>3, <2>1 DEF Respects
  <2> QED
    BY <1>1, <1>6, <2>2 DEF Relies, Executor, At
<1>7. ASSUME At(v, "APPLY")
      PROVE  Editable(v)'
  <2>1. CompanyRow \in req[v].held /\ UserRow(req[v].user) \in req[v].held /\ Editable(v)
    BY <1>7 DEF LocksFit, Relies, At
  <2>2. account'[req[v].user] = account[req[v].user]
        /\ (Clean(req[v].user) => Clean(req[v].user)')
    BY <1>1, <1>3, <2>1 DEF Respects, Editable, Clean, SeatsOf
  <2>3. AnotherAdmin(req[v].user) => AnotherAdmin(req[v].user)'
    BY <1>1, <1>3, <2>1 DEF Respects, AnotherAdmin
  <2> QED
    BY <1>1, <2>1, <2>2, <2>3 DEF Editable
<1> QED
  BY <1>1, <1>2, <1>4, <1>5, <1>6, <1>7 DEF Relies, At

\* An idle request is one.
LEMMA IdleIsWork == Idle \in Work
<1>1. NoRow \in Row
  BY DEF NoRow, Row, Count
<1> QED
  BY <1>1 DEF Idle, Work, Label

\* What is known of requests survives the end of one.
LEMMA Ending ==
  ASSUME Orderly, NEW w \in Request, Ends(w), Respects(w)
  PROVE  LocksApart' /\ \A v \in Request : LocksFit(v)' /\ Relies(v)'
<1>1. /\ req'[w].at = "IDLE" /\ req'[w].held = {}
  BY DEF Ends, Idle
<1>2. \A v \in Request \ {w} : req'[v].held = req[v].held
  BY DEF Ends, Orderly, TypeOK, Work
<1>3. LocksApart'
  BY <1>1, <1>2 DEF Orderly, LocksApart
<1>4. LocksFit(w)' /\ Relies(w)'
  BY <1>1 DEF LocksFit, Relies, At
<1> QED
  BY <1>3, <1>4, EndingLeavesOthers DEF Orderly

\* A commit ends a request.
LEMMA CommitEnds ==
  ASSUME TypeOK, NEW w \in Request,
         Commits(w) \/ \E seats : CommitsDeleting(w, seats)
  PROVE  Ends(w)
<1>1. req \in [Request -> Work]
  BY DEF TypeOK
<1>2. CASE Commits(w)
  <2>1. \A v \in Request : req[v] = [req[v] EXCEPT !.drop = req[v].drop]
    BY <1>1 DEF Work
  <2>2. req' \in [Request -> Work] /\ req'[w] = Idle
        /\ \A v \in Request \ {w} : req'[v] = req[v]
    BY <1>1, <1>2, IdleIsWork DEF Commits
  <2> QED
    BY <2>1, <2>2 DEF Ends
<1>3. CASE \E seats : CommitsDeleting(w, seats)
  <2>1. PICK seats : CommitsDeleting(w, seats)
    BY <1>3
  <2> DEFINE left(v) == {u \in req[v].drop : <<req[v].reward, u>> \notin seats}
  <2>2. req' = [v \in Request |-> IF v = w THEN Idle ELSE [req[v] EXCEPT !.drop = left(v)]]
    BY <2>1 DEF CommitsDeleting
  <2>3. \A v \in Request : [req[v] EXCEPT !.drop = left(v)] \in Work
                          /\ [req[v] EXCEPT !.drop = left(v)].drop = left(v)
    BY <1>1 DEF Work
  <2> HIDE DEF left
  <2> QED
    BY <2>2, <2>3, IdleIsWork DEF Ends
<1> QED
  BY <1>2, <1>3

----------------------------------------------------------------------------
(* Steps that take locks.                                                  *)

\* What is known of a request before its step.
LEMMA Before ==
  ASSUME Orderly, NEW w \in Request
  PROVE  /\ req[w] \in Work /\ LocksFit(w) /\ Relies(w) /\ LocksApart
         /\ account \in [User -> Account] /\ reward \in [Reward -> Row]
         /\ redemption \in [Slot -> Purchase] /\ seat \subseteq Reward \X User
BY DEF Orderly, TypeOK

\* The rows of the company are locks of the model.
LEMMA LocksAreLocks ==
  /\ \A r \in Reward : RewardRow(r) \in Lock
  /\ \A u \in User : UserRow(u) \in Lock
  /\ \A i \in Slot : RedemptionRow(i) \in Lock
  /\ \A r \in Reward, u \in User : SeatRow(r, u) \in Lock
  /\ CompanyRow \in Lock /\ CompanyKey \in Lock
BY DEF Lock

\* A step that writes nothing leaves the tables alone.
LEMMA Unwritten ==
  ASSUME UNCHANGED world
  PROVE  /\ account' = account /\ wallet' = wallet /\ reward' = reward
         /\ redemption' = redemption /\ seat' = seat
BY DEF world, books, people

\* A step that moves one request to x and finds its locks free takes them.
LEMMA Took ==
  ASSUME Orderly, NEW w \in Request, NEW x \in Work,
         req' = [req EXCEPT ![w] = x], UNCHANGED world,
         \A l \in x.held : l = CompanyKey \/ Free(w, l)
  PROVE  Takes(w) /\ req'[w] = x
BY DEF Takes, Orderly, TypeOK

\* Authentication.
LEMMA BeginSafe ==
  ASSUME Orderly, NEW w \in Request, NEW a \in User, Begin(w, a)
  PROVE  Orderly'
<1>1. req[w] \in Work /\ req[w].held = {} /\ account[a] \in Account
  BY Before DEF LocksFit, Lockless, Begin, At
<1> DEFINE x == [req[w] EXCEPT !.at = "READY", !.actor = a, !.as = account[a].role,
                               !.flag = account[a].flag]
<1>2. /\ x \in Work /\ x.at = "READY" /\ x.actor = a /\ x.as = account[a].role
      /\ x.flag = account[a].flag /\ x.held = req[w].held
  BY <1>1 DEF Work, Label, Account
<1>3. req' = [req EXCEPT ![w] = x] /\ UNCHANGED world
  BY <1>1 DEF Begin, Holding
<1> HIDE DEF x
<1>4. \A l \in x.held : l = CompanyKey \/ Free(w, l)
  BY <1>1, <1>2
<1>5. Takes(w) /\ req'[w] = x
  BY <1>2, <1>3, <1>4, Took
<1>6. LocksFit(w)'
  BY <1>1, <1>2, <1>5 DEF LocksFit, At, Lockless
<1>7. Relies(w)'
  BY <1>1, <1>2, <1>3, <1>5, Unwritten DEF Relies, At
<1> QED
  BY <1>5, <1>6, <1>7, Taking

\* Buying: the reward.
LEMMA RedeemLockSafe ==
  ASSUME Orderly, NEW w \in Request, NEW r \in Reward, RedeemLock(w, r)
  PROVE  Orderly'
<1>1. req[w] \in Work /\ req[w].held = {} /\ req[w].actor \in User
      /\ Free(w, RewardRow(r))
      /\ reward[r].stock # 0 /\ WithinLimit(req[w].actor, r)
  BY Before DEF LocksFit, Lockless, Relies, Ready, At, RedeemLock
<1> DEFINE x == [req[w] EXCEPT !.at = "DEBIT", !.reward = r, !.held = {RewardRow(r)}]
<1>2. {RewardRow(r)} \subseteq Lock
  BY <1>1, LocksAreLocks
<1>3. /\ x \in Work /\ x.at = "DEBIT" /\ x.reward = r /\ x.held = {RewardRow(r)}
      /\ x.actor = req[w].actor
  BY <1>1, <1>2 DEF Work, Label
<1>4. req' = [req EXCEPT ![w] = x] /\ UNCHANGED world
  BY <1>1 DEF RedeemLock, Holding
<1> HIDE DEF x
<1>5. \A l \in x.held : l = CompanyKey \/ Free(w, l)
  BY <1>1, <1>3
<1>6. Takes(w) /\ req'[w] = x
  BY <1>3, <1>4, <1>5, Took
<1>7. LocksFit(w)'
  BY <1>1, <1>3, <1>6 DEF LocksFit, At, Lockless
<1>8. Relies(w)'
  BY <1>1, <1>3, <1>4, <1>6, Unwritten DEF Relies, At, InStock, WithinLimit, Counted
<1> QED
  BY <1>6, <1>7, <1>8, Taking

\* Buying: the account.
LEMMA RedeemDebitSafe ==
  ASSUME Orderly, NEW w \in Request, RedeemDebit(w)
  PROVE  Orderly'
<1>1. req[w] \in Work /\ req[w].held = {RewardRow(req[w].reward)} /\ InStock(w)
      /\ Free(w, UserRow(req[w].actor)) /\ Free(w, RewardRow(req[w].reward))
      /\ Solvent(w) /\ req[w].actor \in User
  BY Before, HeldIsFree, NotTheKey DEF LocksFit, Relies, At, RedeemDebit, Solvent
<1> DEFINE x == [req[w] EXCEPT !.at = "RECORD",
                               !.held = req[w].held \cup {UserRow(req[w].actor)}]
<1>2. {UserRow(req[w].actor)} \subseteq Lock
  BY <1>1, LocksAreLocks DEF InStock
<1>3. /\ x \in Work /\ x.at = "RECORD"
      /\ x.held = req[w].held \cup {UserRow(req[w].actor)} /\ x.actor = req[w].actor
      /\ x.reward = req[w].reward
  BY <1>1, <1>2 DEF Work, Label, InStock
<1>4. req' = [req EXCEPT ![w] = x] /\ UNCHANGED world
  BY <1>1 DEF RedeemDebit, Holding
<1> HIDE DEF x
<1>5. \A l \in x.held : l = CompanyKey \/ Free(w, l)
  BY <1>1, <1>3
<1>6. Takes(w) /\ req'[w] = x
  BY <1>3, <1>4, <1>5, Took
<1>7. LocksFit(w)'
  BY <1>1, <1>3, <1>6 DEF LocksFit, At, Lockless
<1>8. InStock(w)' /\ Solvent(w)'
  <2>1. /\ req'[w].actor = req[w].actor /\ req'[w].reward = req[w].reward
        /\ account' = account /\ wallet' = wallet /\ reward' = reward
        /\ redemption' = redemption
    BY <1>3, <1>4, <1>6, Unwritten
  <2>2. InStock(w)'
    BY <1>1, <2>1 DEF InStock, WithinLimit, Counted
  <2>3. Solvent(w)'
    BY <1>1, <2>1 DEF Solvent, Affords
  <2> QED
    BY <2>2, <2>3
<1>9. Relies(w)'
  BY <1>1, <1>3, <1>4, <1>6, Unwritten, <1>8 DEF Relies, At
<1> QED
  BY <1>6, <1>7, <1>9, Taking

\* Fulfilment: the redemption.
LEMMA FulfillLockSafe ==
  ASSUME Orderly, NEW w \in Request, NEW i \in Slot, FulfillLock(w, i)
  PROVE  Orderly'
<1>1. req[w] \in Work /\ req[w].held = {} /\ req[w].actor \in User
      /\ Free(w, RedemptionRow(i))
      /\ redemption[i].status = "APPROVED"
  BY Before DEF LocksFit, Lockless, Relies, Ready, At, FulfillLock
<1> DEFINE x == [req[w] EXCEPT !.at = "DELIVER", !.slot = i, !.held = {RedemptionRow(i)}]
<1>2. {RedemptionRow(i)} \subseteq Lock
  BY <1>1, LocksAreLocks
<1>3. /\ x \in Work /\ x.at = "DELIVER" /\ x.slot = i /\ x.held = {RedemptionRow(i)}
      /\ x.actor = req[w].actor
  BY <1>1, <1>2 DEF Work, Label
<1>4. req' = [req EXCEPT ![w] = x] /\ UNCHANGED world
  BY <1>1 DEF FulfillLock, Holding
<1> HIDE DEF x
<1>5. \A l \in x.held : l = CompanyKey \/ Free(w, l)
  BY <1>1, <1>3
<1>6. Takes(w) /\ req'[w] = x
  BY <1>3, <1>4, <1>5, Took
<1>7. LocksFit(w)'
  BY <1>1, <1>3, <1>6 DEF LocksFit, At, Lockless
<1>8. Relies(w)'
  BY <1>1, <1>3, <1>4, <1>6, Unwritten DEF Relies, At, Deliverable
<1> QED
  BY <1>6, <1>7, <1>8, Taking

\* Cancellation: the redemption.
LEMMA CancelLockSafe ==
  ASSUME Orderly, NEW w \in Request, NEW i \in Slot, CancelLock(w, i)
  PROVE  Orderly'
<1>1. req[w] \in Work /\ req[w].held = {} /\ req[w].actor \in User
      /\ Free(w, RedemptionRow(i))
      /\ redemption[i].status \in Open /\ redemption[i] \in Purchase
  BY Before DEF LocksFit, Lockless, Relies, Ready, At, CancelLock
<1> DEFINE x == [req[w] EXCEPT !.at = "RESTOCK", !.slot = i,
                               !.reward = redemption[i].reward,
                               !.held = {RedemptionRow(i)}]
<1>2. {RedemptionRow(i)} \subseteq Lock
  BY <1>1, LocksAreLocks
<1>3. /\ x \in Work /\ x.at = "RESTOCK" /\ x.slot = i
      /\ x.reward = redemption[i].reward /\ x.held = {RedemptionRow(i)}
      /\ x.actor = req[w].actor
  BY <1>1, <1>2 DEF Work, Label, Purchase
<1>4. req' = [req EXCEPT ![w] = x] /\ UNCHANGED world
  BY <1>1 DEF CancelLock, Holding
<1> HIDE DEF x
<1>5. \A l \in x.held : l = CompanyKey \/ Free(w, l)
  BY <1>1, <1>3
<1>6. Takes(w) /\ req'[w] = x
  BY <1>3, <1>4, <1>5, Took
<1>7. LocksFit(w)'
  BY <1>1, <1>3, <1>6 DEF LocksFit, At, Lockless
<1>8. Relies(w)'
  BY <1>1, <1>3, <1>4, <1>6, Unwritten DEF Relies, At, Undecided
<1> QED
  BY <1>6, <1>7, <1>8, Taking

\* Cancellation: the reward, which is that of the redemption.
LEMMA CancelRestockSafe ==
  ASSUME Orderly, NEW w \in Request, CancelRestock(w)
  PROVE  Orderly'
<1>1. /\ req[w] \in Work /\ req[w].held = {RedemptionRow(req[w].slot)} /\ Undecided(w)
      /\ Free(w, RewardRow(req[w].reward)) /\ Free(w, RedemptionRow(req[w].slot))
      /\ req[w].reward \in Reward /\ req[w].actor \in User
  BY Before, HeldIsFree, NotTheKey
     DEF LocksFit, Relies, At, CancelRestock, Orderly, Named, Undecided, Open
<1> DEFINE x == [req[w] EXCEPT !.at = "REFUND",
                               !.held = req[w].held \cup {RewardRow(req[w].reward)}]
<1>2. {RewardRow(req[w].reward)} \subseteq Lock
  BY <1>1, LocksAreLocks
<1>3. /\ x \in Work /\ x.at = "REFUND"
      /\ x.held = req[w].held \cup {RewardRow(req[w].reward)}
      /\ x.actor = req[w].actor /\ x.slot = req[w].slot /\ x.reward = req[w].reward
  BY <1>1, <1>2 DEF Work, Label
<1>4. req' = [req EXCEPT ![w] = x] /\ UNCHANGED world
  BY <1>1 DEF CancelRestock, Holding
<1> HIDE DEF x
<1>5. \A l \in x.held : l = CompanyKey \/ Free(w, l)
  BY <1>1, <1>3
<1>6. Takes(w) /\ req'[w] = x
  BY <1>3, <1>4, <1>5, Took
<1>7. LocksFit(w)'
  BY <1>1, <1>3, <1>6 DEF LocksFit, At, Lockless
<1>8. Relies(w)'
  BY <1>1, <1>3, <1>4, <1>6, Unwritten DEF Relies, At, Undecided
<1> QED
  BY <1>6, <1>7, <1>8, Taking

\* Adjustment: the role is read.
LEMMA AdjustReadSafe ==
  ASSUME Orderly, NEW w \in Request, NEW u \in User, AdjustRead(w, u)
  PROVE  Orderly'
<1>1. req[w] \in Work /\ req[w].held = {} /\ req[w].actor \in User
  BY Before DEF LocksFit, Lockless, Relies, Ready, At, AdjustRead
<1> DEFINE x == [req[w] EXCEPT !.at = "GIVE", !.user = u]
<1>2. /\ x \in Work /\ x.at = "GIVE" /\ x.user = u /\ x.held = req[w].held
      /\ x.actor = req[w].actor
  BY <1>1 DEF Work, Label
<1>3. req' = [req EXCEPT ![w] = x] /\ UNCHANGED world
  BY <1>1 DEF AdjustRead, Holding
<1> HIDE DEF x
<1>4. \A l \in x.held : l = CompanyKey \/ Free(w, l)
  BY <1>1, <1>2
<1>5. Takes(w) /\ req'[w] = x
  BY <1>2, <1>3, <1>4, Took
<1>6. LocksFit(w)'
  BY <1>1, <1>2, <1>5 DEF LocksFit, At, Lockless
<1>7. Relies(w)'
  BY <1>1, <1>2, <1>3, <1>5, Unwritten DEF Relies, At
<1> QED
  BY <1>5, <1>6, <1>7, Taking

\* Permission: the flag is read.
LEMMA ToggleReadSafe ==
  ASSUME Orderly, NEW w \in Request, NEW u \in User, ToggleRead(w, u)
  PROVE  Orderly'
<1>1. req[w] \in Work /\ req[w].held = {} /\ req[w].actor \in User
  BY Before DEF LocksFit, Lockless, Relies, Ready, At, ToggleRead
<1> DEFINE x == [req[w] EXCEPT !.at = IF account[u].flag THEN "REVOKE" ELSE "GRANT",
                               !.user = u]
<1>2. /\ x \in Work /\ x.at = IF account[u].flag THEN "REVOKE" ELSE "GRANT"
      /\ x.user = u /\ x.held = req[w].held /\ x.actor = req[w].actor
  <2>1. x \in Work
    BY <1>1 DEF Work, Label
  <2> QED
    BY <1>1, <2>1 DEF Work
<1>3. req' = [req EXCEPT ![w] = x] /\ UNCHANGED world
  BY <1>1 DEF ToggleRead, Holding
<1> HIDE DEF x
<1>4. \A l \in x.held : l = CompanyKey \/ Free(w, l)
  BY <1>1, <1>2
<1>5. Takes(w) /\ req'[w] = x
  BY <1>2, <1>3, <1>4, Took
<1>6. LocksFit(w)'
  BY <1>1, <1>2, <1>5 DEF LocksFit, At, Lockless
<1>7. Relies(w)'
  BY <1>1, <1>2, <1>3, <1>5, Unwritten DEF Relies, At
<1> QED
  BY <1>5, <1>6, <1>7, Taking

\* Forms: the row is read.
LEMMA SaveReadSafe ==
  ASSUME Orderly, NEW w \in Request, NEW r \in Reward, NEW f \in Forms, SaveRead(w, r, f)
  PROVE  Orderly'
<1>1. req[w] \in Work /\ req[w].held = {} /\ req[w].actor \in User
      /\ f \in Row /\ reward[r] \in Row
  BY Before, FormsAssumption DEF LocksFit, Lockless, Relies, Ready, At, SaveRead
<1> DEFINE x == [req[w] EXCEPT !.at = "WRITE", !.reward = r, !.form = f, !.copy = reward[r]]
<1>2. /\ x \in Work /\ x.at = "WRITE" /\ x.reward = r /\ x.form = f
      /\ x.copy = reward[r] /\ x.held = req[w].held /\ x.actor = req[w].actor
  BY <1>1 DEF Work, Label
<1>3. req' = [req EXCEPT ![w] = x] /\ UNCHANGED world
  BY <1>1 DEF SaveRead, Holding
<1> HIDE DEF x
<1>4. \A l \in x.held : l = CompanyKey \/ Free(w, l)
  BY <1>1, <1>2
<1>5. Takes(w) /\ req'[w] = x
  BY <1>2, <1>3, <1>4, Took
<1>6. LocksFit(w)'
  BY <1>1, <1>2, <1>5 DEF LocksFit, At, Lockless
<1>7. Relies(w)'
  BY <1>1, <1>2, <1>3, <1>5, Unwritten DEF Relies, At
<1> QED
  BY <1>5, <1>6, <1>7, Taking

\* Forms: a row is added.
LEMMA SaveCreateSafe ==
  ASSUME Orderly, NEW w \in Request, NEW r \in Reward, NEW f \in Forms, SaveCreate(w, r, f)
  PROVE  Orderly'
<1>1. req[w] \in Work /\ req[w].held = {} /\ req[w].actor \in User
      /\ f \in Row /\ Free(w, RewardRow(r))
  BY Before, FormsAssumption DEF LocksFit, Lockless, Relies, Ready, At, SaveCreate
<1> DEFINE x == [req[w] EXCEPT !.at = "WRITE", !.reward = r, !.form = f,
                               !.held = {RewardRow(r), CompanyKey}]
<1>2. {RewardRow(r), CompanyKey} \subseteq Lock
  BY <1>1, LocksAreLocks
<1>3. /\ x \in Work /\ x.at = "WRITE" /\ x.reward = r /\ x.form = f
      /\ x.held = {RewardRow(r), CompanyKey} /\ x.actor = req[w].actor
  BY <1>1, <1>2 DEF Work, Label
<1>4. req' = [req EXCEPT ![w] = x] /\ UNCHANGED world
  BY <1>1 DEF SaveCreate, Holding
<1> HIDE DEF x
<1>5. \A l \in x.held : l = CompanyKey \/ Free(w, l)
  BY <1>1, <1>3
<1>6. Takes(w) /\ req'[w] = x
  BY <1>3, <1>4, <1>5, Took
<1>7. LocksFit(w)'
  BY <1>1, <1>3, <1>6 DEF LocksFit, At, Lockless, RewardLocks
<1>8. Relies(w)'
  BY <1>1, <1>3, <1>4, <1>6, Unwritten DEF Relies, At
<1> QED
  BY <1>6, <1>7, <1>8, Taking

\* Forms: the row is locked and an executor named.
LEMMA SaveNameSafe ==
  ASSUME Orderly, NEW w \in Request, NEW u \in User \cup {NoUser}, SaveName(w, u)
  PROVE  Orderly'
<1>1. /\ req[w] \in Work
      /\ req[w].held = {} \/ req[w].held = RewardLocks(w)
      /\ req[w].actor \in User /\ req[w].reward \in Reward
  BY Before DEF LocksFit, Relies, At, SaveName
<1>2. /\ LocksRow(w) \subseteq {RewardRow(req[w].reward)}
      /\ \A l \in LocksRow(w) : Free(w, l)
  BY DEF LocksRow, SaveName
<1>3. \A l \in req[w].held : l = CompanyKey \/ Free(w, l)
  BY HeldIsFree, Before
<1>4. LocksRow(w) \subseteq Lock
  BY <1>1, <1>2, LocksAreLocks
<1>5. Seats(req[w].reward) \subseteq User
  BY DEF Seats
<1> DEFINE x == [req[w] EXCEPT !.at = "CLEAR", !.user = u, !.drop = Seats(req[w].reward),
                               !.held = req[w].held \cup LocksRow(w)]
<1>6. /\ x \in Work /\ x.at = "CLEAR" /\ x.user = u /\ x.drop = Seats(req[w].reward)
      /\ x.held = req[w].held \cup LocksRow(w) /\ x.actor = req[w].actor
      /\ x.reward = req[w].reward /\ x.form = req[w].form /\ x.copy = req[w].copy
  BY <1>1, <1>4, <1>5 DEF Work, Label
<1>7. req' = [req EXCEPT ![w] = x] /\ UNCHANGED world
  BY <1>1 DEF SaveName, Holding
<1> HIDE DEF x
<1>8. \A l \in x.held : l = CompanyKey \/ Free(w, l)
  BY <1>1, <1>6, <1>2, <1>3
<1>9. Takes(w) /\ req'[w] = x
  BY <1>6, <1>7, <1>8, Took
<1>10. LocksFit(w)'
  BY <1>1, <1>6, <1>9 DEF LocksFit, At, Lockless, RewardLocks, LocksRow, RowChanges
<1>11. Relies(w)'
  BY <1>1, <1>6, <1>7, <1>9, Unwritten DEF Relies, At
<1> QED
  BY <1>9, <1>10, <1>11, Taking

\* An executor is named: the old seats are deleted, the commit is still to come.
LEMMA SaveClearSafe ==
  ASSUME Orderly, NEW w \in Request, SaveClear(w), req[w].user # NoUser
  PROVE  Orderly'
<1>1. /\ req[w] \in Work /\ req[w].actor \in User /\ req[w].reward \in Reward
      /\ LocksRow(w) \subseteq req[w].held
      /\ req[w].held \subseteq RewardLocks(w)
      /\ req[w].user \in User /\ req[w].drop \subseteq User
  BY Before DEF LocksFit, Relies, At, SaveClear, Work
<1>2. \A u \in req[w].drop : Free(w, SeatRow(req[w].reward, u))
  BY DEF SaveClear
<1>3. \A l \in req[w].held : l = CompanyKey \/ Free(w, l)
  BY HeldIsFree, Before
<1>4. {SeatRow(req[w].reward, u) : u \in req[w].drop} \subseteq Lock
  BY <1>1, LocksAreLocks
<1> DEFINE x == [req[w] EXCEPT !.at = "SEAT",
             !.held = req[w].held \cup {SeatRow(req[w].reward, u) : u \in req[w].drop}]
<1>5. /\ x \in Work /\ x.at = "SEAT"
      /\ x.held = req[w].held \cup {SeatRow(req[w].reward, u) : u \in req[w].drop}
      /\ x.actor = req[w].actor /\ x.user = req[w].user /\ x.reward = req[w].reward
      /\ x.form = req[w].form /\ x.copy = req[w].copy
  BY <1>1, <1>4 DEF Work, Label
<1>6. req' = [req EXCEPT ![w] = x] /\ UNCHANGED world
  BY <1>1 DEF SaveClear, Holding
<1> HIDE DEF x
<1>7. \A l \in x.held : l = CompanyKey \/ Free(w, l)
  BY <1>1, <1>5, <1>2, <1>3
<1>8. Takes(w) /\ req'[w] = x
  BY <1>5, <1>6, <1>7, Took
<1>9. LocksFit(w)'
  BY <1>1, <1>5, <1>8 DEF LocksFit, At, Lockless, RewardLocks, Drops, LocksRow, RowChanges
<1>10. Relies(w)'
  BY <1>1, <1>5, <1>6, <1>8, Unwritten DEF Relies, At
<1> QED
  BY <1>8, <1>9, <1>10, Taking

\* The named executor is still fit.
LEMMA SaveSeatSafe ==
  ASSUME Orderly, NEW w \in Request, SaveSeat(w), Executor(req[w].user)
  PROVE  Orderly'
<1>1. /\ req[w] \in Work /\ req[w].actor \in User /\ req[w].reward \in Reward
      /\ LocksRow(w) \subseteq req[w].held
      /\ req[w].held \subseteq RewardLocks(w) \cup Drops(w) /\ req[w].user \in User
      /\ Free(w, UserRow(req[w].user))
  BY Before DEF LocksFit, Relies, At, SaveSeat
<1>2. \A l \in req[w].held : l = CompanyKey \/ Free(w, l)
  BY HeldIsFree, Before
<1> DEFINE x == [req[w] EXCEPT !.at = "INSERT",
                               !.held = req[w].held \cup {UserRow(req[w].user)}]
<1>3. {UserRow(req[w].user)} \subseteq Lock
  BY <1>1, LocksAreLocks
<1>4. /\ x \in Work /\ x.at = "INSERT"
      /\ x.held = req[w].held \cup {UserRow(req[w].user)} /\ x.actor = req[w].actor
      /\ x.user = req[w].user /\ x.reward = req[w].reward /\ x.form = req[w].form
      /\ x.copy = req[w].copy
  BY <1>1, <1>3 DEF Work, Label
<1>5. req' = [req EXCEPT ![w] = x] /\ UNCHANGED world
  BY <1>1 DEF SaveSeat, Holding
<1> HIDE DEF x
<1>6. \A l \in x.held : l = CompanyKey \/ Free(w, l)
  BY <1>1, <1>4, <1>2
<1>7. Takes(w) /\ req'[w] = x
  BY <1>4, <1>5, <1>6, Took
<1>8. LocksFit(w)'
  BY <1>1, <1>4, <1>7 DEF LocksFit, At, Lockless, RewardLocks, Drops, LocksRow, RowChanges
<1>9. Relies(w)'
  BY <1>1, <1>4, <1>5, <1>7, Unwritten DEF Relies, At, Executor
<1> QED
  BY <1>7, <1>8, <1>9, Taking

\* Permission: the account is locked.
LEMMA ToggleRevokeSafe ==
  ASSUME Orderly, NEW w \in Request, ToggleRevoke(w)
  PROVE  Orderly'
<1>1. req[w] \in Work /\ req[w].actor \in User /\ req[w].user \in User
      /\ Free(w, UserRow(req[w].user))
  BY Before DEF LocksFit, Relies, At, ToggleRevoke
<1> DEFINE x == [req[w] EXCEPT !.at = "STRIP", !.held = {UserRow(req[w].user)}]
<1>2. {UserRow(req[w].user)} \subseteq Lock
  BY <1>1, LocksAreLocks
<1>3. /\ x \in Work /\ x.at = "STRIP" /\ x.held = {UserRow(req[w].user)}
      /\ x.actor = req[w].actor /\ x.user = req[w].user
  BY <1>1, <1>2 DEF Work, Label
<1>4. req' = [req EXCEPT ![w] = x] /\ UNCHANGED world
  BY <1>1 DEF ToggleRevoke, Holding
<1> HIDE DEF x
<1>5. \A l \in x.held : l = CompanyKey \/ Free(w, l)
  BY <1>1, <1>3
<1>6. Takes(w) /\ req'[w] = x
  BY <1>3, <1>4, <1>5, Took
<1>7. LocksFit(w)'
  BY <1>1, <1>3, <1>6 DEF LocksFit, At, Lockless
<1>8. Relies(w)'
  BY <1>1, <1>3, <1>4, <1>6, Unwritten DEF Relies, At
<1> QED
  BY <1>6, <1>7, <1>8, Taking

\* Account edits: the company is locked.
LEMMA UpdateLockSafe ==
  ASSUME Orderly, NEW w \in Request, UpdateLock(w)
  PROVE  Orderly'
<1>1. req[w] \in Work /\ req[w].held = {} /\ req[w].actor \in User
      /\ Free(w, CompanyRow)
  BY Before DEF LocksFit, Lockless, Relies, Ready, At, UpdateLock
<1> DEFINE x == [req[w] EXCEPT !.at = "EDIT", !.held = {CompanyRow}]
<1>2. {CompanyRow} \subseteq Lock
  BY <1>1, LocksAreLocks
<1>3. /\ x \in Work /\ x.at = "EDIT" /\ x.held = {CompanyRow}
      /\ x.actor = req[w].actor
  BY <1>1, <1>2 DEF Work, Label
<1>4. req' = [req EXCEPT ![w] = x] /\ UNCHANGED world
  BY <1>1 DEF UpdateLock, Holding
<1> HIDE DEF x
<1>5. \A l \in x.held : l = CompanyKey \/ Free(w, l)
  BY <1>1, <1>3
<1>6. Takes(w) /\ req'[w] = x
  BY <1>3, <1>4, <1>5, Took
<1>7. LocksFit(w)'
  BY <1>1, <1>3, <1>6 DEF LocksFit, At, Lockless
<1>8. Relies(w)'
  BY <1>1, <1>3, <1>4, <1>6, Unwritten DEF Relies, At
<1> QED
  BY <1>6, <1>7, <1>8, Taking

\* Account edits: the account is locked and found clean.
LEMMA UpdateCheckSafe ==
  ASSUME Orderly, NEW w \in Request, NEW u \in User, NEW role \in Role,
         NEW on \in BOOLEAN, UpdateCheck(w, u, role, on)
  PROVE  Orderly'
<1>1. /\ req[w] \in Work /\ req[w].actor \in User /\ req[w].held = {CompanyRow}
      /\ Free(w, UserRow(u)) /\ Free(w, CompanyRow)
  BY Before, HeldIsFree, NotTheKey DEF LocksFit, Relies, At, UpdateCheck
<1> DEFINE x == [req[w] EXCEPT !.at = "APPLY", !.user = u, !.edit = role, !.on = on,
                               !.held = req[w].held \cup {UserRow(u)}]
<1>2. {UserRow(u)} \subseteq Lock
  BY <1>1, LocksAreLocks
<1>3. /\ x \in Work /\ x.at = "APPLY" /\ x.user = u /\ x.edit = role /\ x.on = on
      /\ x.held = req[w].held \cup {UserRow(u)} /\ x.actor = req[w].actor
  BY <1>1, <1>2 DEF Work, Label
<1>4. req' = [req EXCEPT ![w] = x] /\ UNCHANGED world
  BY <1>1 DEF UpdateCheck, Holding
<1> HIDE DEF x
<1>5. \A l \in x.held : l = CompanyKey \/ Free(w, l)
  BY <1>1, <1>3
<1>6. Takes(w) /\ req'[w] = x
  BY <1>3, <1>4, <1>5, Took
<1>7. LocksFit(w)'
  BY <1>1, <1>3, <1>6 DEF LocksFit, At, Lockless
<1>8. Editable(w)'
  <2>1. /\ req'[w].user = u /\ req'[w].edit = role /\ req'[w].on = on
        /\ account' = account /\ redemption' = redemption /\ seat' = seat
    BY <1>3, <1>4, <1>6, Unwritten
  <2>2. /\ account[u].role = "ADMIN" /\ (role # "ADMIN" \/ ~on) => AnotherAdmin(u)
        /\ role # account[u].role \/ ~on => Clean(u)
    BY DEF UpdateCheck
  <2> QED
    BY <2>1, <2>2 DEF Editable, AnotherAdmin, Clean, SeatsOf
<1>9. Relies(w)'
  BY <1>1, <1>3, <1>4, <1>6, Unwritten, <1>8 DEF Relies, At
<1> QED
  BY <1>6, <1>7, <1>9, Taking

----------------------------------------------------------------------------
(* Steps that end a request.                                               *)

\* A rollback.
LEMMA AbandonSafe ==
  ASSUME Orderly, NEW w \in Request, Abandon(w)
  PROVE  Orderly'
<1>1. /\ account' = account /\ wallet' = wallet /\ given' = given /\ reward' = reward
      /\ intended' = intended /\ redemption' = redemption /\ seat' = seat
  BY DEF Abandon, world, books, people
<1>2. Ends(w)
  BY CommitEnds DEF Orderly, Abandon
<1>3. Respects(w)
  BY <1>1 DEF Respects, Clean, SeatsOf, Counted
<1>4. TypeOK'
  BY <1>1, <1>2 DEF Orderly, TypeOK, Ends
<1>5. Named' /\ OpenHaveOwners' /\ SeatsFit' /\ AlwaysAnAdmin'
  BY <1>1 DEF Orderly, Named, OpenHaveOwners, SeatsFit, AlwaysAnAdmin, Executor
<1>6. \A r : Consumed(r)' = Consumed(r)
  BY <1>1 DEF Consumed, Counted
<1>7. StockAddsUp'
  BY <1>1, <1>6 DEF Orderly, StockAddsUp
<1> QED
  BY <1>2, <1>3, <1>4, <1>5, <1>7, Ending DEF Orderly

\* Adding or taking back an item leaves a stock a stock.
LEMMA TakenType ==
  ASSUME NEW n \in Count
  PROVE  /\ Taken(n, 1) \in Count
         /\ n # 0 => Taken(n, -1) \in Count
         /\ \A k \in {-1, 1} : Taken(n, k) = Unlimited <=> n = Unlimited
         /\ n # Unlimited => n \in Nat /\ \A k \in {-1, 1} : Taken(n, k) = n + k
BY NamesAssumption DEF Taken, Count

\* A row with another stock is a row.
LEMMA RestockedType ==
  ASSUME NEW x \in Row, NEW n \in Count
  PROVE  [x EXCEPT !.stock = n] \in Row /\ [x EXCEPT !.stock = n].stock = n
BY DEF Row

\* What counts against a stock.
Keeps == Open \cup {"FULFILLED"}

\* Redemptions of a reward can be counted.
LEMMA ConsumedFinite ==
  ASSUME NEW r
  PROVE  /\ Consumed(r) = {i \in Slot : /\ redemption[i].status \in Keeps
                                        /\ redemption[i].user \in User
                                        /\ redemption[i].reward = r}
         /\ IsFiniteSet(Consumed(r)) /\ Cardinality(Consumed(r)) \in Nat
<1>1. Consumed(r) = {i \in Slot : /\ redemption[i].status \in Keeps
                                  /\ redemption[i].user \in User
                                  /\ redemption[i].reward = r}
  BY DEF Consumed, Counted, Keeps
<1>2. IsFiniteSet(Slot)
  BY FormsAssumption, FS_Interval DEF Slot
<1>3. IsFiniteSet(Consumed(r))
  BY <1>1, <1>2, FS_Subset
<1> QED
  BY <1>1, <1>3, FS_CardinalityType

\* Adjustment: the ledger row.
LEMMA AdjustGiveSafe ==
  ASSUME Orderly, NEW w \in Request, NEW g \in Gifts, AdjustGive(w, g)
  PROVE  Orderly'
<1>1. /\ account' = account /\ reward' = reward /\ intended' = intended
      /\ redemption' = redemption /\ seat' = seat
  BY DEF AdjustGive, people
<1>2. Ends(w)
  BY CommitEnds DEF Orderly, AdjustGive
<1>3. /\ Free(w, UserRow(req[w].user)) /\ g \in Int
      /\ given' = [given EXCEPT ![req[w].user] = @ + g]
      /\ wallet' = [wallet EXCEPT ![req[w].user] = @ + g]
  BY FormsAssumption DEF AdjustGive
<1>4. Respects(w)
  BY <1>1, <1>3 DEF Respects, Clean, SeatsOf, Counted, Orderly, TypeOK
<1>5. wallet' \in [User -> Int] /\ given' \in [User -> Int]
  <2>1. req[w].user \in User
    BY Before DEF AdjustGive, Relies, At
  <2>2. wallet \in [User -> Int] /\ given \in [User -> Int]
    BY DEF Orderly, TypeOK
  <2>3. /\ wallet[req[w].user] + g \in Int /\ given[req[w].user] + g \in Int
    BY <1>3, <2>1, <2>2
  <2> QED
    BY <1>3, <2>2, <2>3
<1>6. TypeOK'
  BY <1>1, <1>2, <1>5 DEF Orderly, TypeOK, Ends
<1>7. Named' /\ OpenHaveOwners' /\ SeatsFit' /\ AlwaysAnAdmin'
  BY <1>1 DEF Orderly, Named, OpenHaveOwners, SeatsFit, AlwaysAnAdmin, Executor
<1>8. \A r : Consumed(r)' = Consumed(r)
  BY <1>1 DEF Consumed, Counted
<1>9. StockAddsUp'
  BY <1>1, <1>8 DEF Orderly, StockAddsUp
<1> QED
  BY <1>2, <1>4, <1>6, <1>7, <1>9, Ending DEF Orderly

\* A decision that keeps the item: pending to approved, approved to fulfilled.
Decides(w, i, status) ==
  /\ redemption' = [redemption EXCEPT ![i].status = status]
  /\ Commits(w)
  /\ UNCHANGED <<wallet, given, reward, intended, people>>

\* A decision keeps the books of the catalog as they are.
LEMMA DecisionSafe ==
  ASSUME Orderly, NEW w \in Request, NEW i \in Slot,
         NEW status \in {"APPROVED", "FULFILLED"},
         Decides(w, i, status), Free(w, RedemptionRow(i)), redemption[i].status \in Open
  PROVE  Orderly'
<1>1. /\ account' = account /\ reward' = reward /\ intended' = intended
      /\ wallet' = wallet /\ given' = given /\ seat' = seat
  BY DEF Decides, people
<1>2. Ends(w)
  BY CommitEnds DEF Orderly, Decides
<1>3. /\ redemption'[i].status = status /\ redemption'[i].user = redemption[i].user
      /\ redemption'[i].reward = redemption[i].reward
      /\ redemption' \in [Slot -> Purchase]
      /\ \A j \in Slot \ {i} : redemption'[j] = redemption[j]
  BY DEF Decides, Orderly, TypeOK, Purchase, Open, Settled
<1>4. \A u, r : Counted(u, r)' = Counted(u, r)
  BY <1>3 DEF Counted, Open
<1>5. \A u \in User : Clean(u) => Clean(u)'
  BY <1>1, <1>3 DEF Clean, SeatsOf
<1>6. Respects(w)
  BY <1>1, <1>3, <1>4, <1>5 DEF Respects
<1>7. TypeOK'
  BY <1>1, <1>2, <1>3 DEF Orderly, TypeOK, Ends
<1>8. Named' /\ OpenHaveOwners'
  BY <1>1, <1>3 DEF Orderly, Named, OpenHaveOwners, Open
<1>9. SeatsFit' /\ AlwaysAnAdmin'
  BY <1>1 DEF Orderly, SeatsFit, AlwaysAnAdmin, Executor
<1>10. \A r : Consumed(r)' = Consumed(r)
  BY <1>4 DEF Consumed
<1>11. StockAddsUp'
  BY <1>1, <1>10 DEF Orderly, StockAddsUp
<1> QED
  BY <1>2, <1>6, <1>7, <1>8, <1>9, <1>11, Ending DEF Orderly

\* Approval.
LEMMA ApproveSafe ==
  ASSUME Orderly, NEW w \in Request, NEW i \in Slot, Approve(w, i)
  PROVE  Orderly'
<1>1. Decides(w, i, "APPROVED")
  BY DEF Approve, Decides
<1>2. Free(w, RedemptionRow(i)) /\ redemption[i].status \in Open
  BY DEF Approve, Open
<1> QED
  BY <1>1, <1>2, DecisionSafe

\* Fulfilment: the commit.
LEMMA FulfillDeliverSafe ==
  ASSUME Orderly, NEW w \in Request, FulfillDeliver(w)
  PROVE  Orderly'
<1>1. /\ req[w].slot \in Slot /\ redemption[req[w].slot].status \in Open
      /\ RedemptionRow(req[w].slot) \in req[w].held
  BY Before DEF FulfillDeliver, LocksFit, Relies, Deliverable, At, Open
<1>2. Free(w, RedemptionRow(req[w].slot))
  BY <1>1, HeldIsFree, NotTheKey, Before
<1>3. Decides(w, req[w].slot, "FULFILLED")
  BY DEF FulfillDeliver, Decides
<1> QED
  BY <1>1, <1>2, <1>3, DecisionSafe

\* Buying: one item, one debit, one redemption.
LEMMA RedeemRecordSafe ==
  ASSUME Orderly, NEW w \in Request, RedeemRecord(w)
  PROVE  Orderly'
<1>0. PICK u, r : u = req[w].actor /\ r = req[w].reward
  OBVIOUS
<1>1. /\ u \in User /\ r \in Reward /\ reward[r].stock # 0
      /\ account[u].active /\ reward[r] \in Row
      /\ Free(w, RewardRow(r)) /\ Free(w, UserRow(u))
  BY <1>0, Before, HeldIsFree, NotTheKey
     DEF RedeemRecord, LocksFit, Relies, InStock, Solvent, At
<1>2. PICK i \in Slot :
        /\ redemption[i].status = "ABSENT"
        /\ redemption' = [redemption EXCEPT ![i] =
             [user |-> u, reward |-> r, cost |-> reward[r].cost, status |-> "PENDING"]]
  BY <1>0 DEF RedeemRecord, NextFree
<1>3. /\ reward' = [reward EXCEPT ![r].stock = Taken(@, -1)]
      /\ wallet' = [wallet EXCEPT ![u] = @ - reward[r].cost]
      /\ account' = account /\ given' = given /\ intended' = intended /\ seat' = seat
  BY <1>0 DEF RedeemRecord, people
<1>4. Ends(w)
  BY CommitEnds DEF Orderly, RedeemRecord
<1>5. /\ redemption'[i].status = "PENDING" /\ redemption'[i].user = u
      /\ redemption'[i].reward = r /\ redemption' \in [Slot -> Purchase]
      /\ \A j \in Slot \ {i} : redemption'[j] = redemption[j]
  BY <1>1, <1>2 DEF Orderly, TypeOK, Purchase, Row, Open
<1>6. \A v \in User, s \in Reward \ {r} : Counted(v, s)' = Counted(v, s)
  BY <1>2, <1>5 DEF Counted, Open
<1>7. \A v \in User \ {u} : Clean(v) => Clean(v)'
  BY <1>3, <1>5 DEF Clean, SeatsOf
<1>8. /\ reward' \in [Reward -> Row] /\ \A s \in Reward \ {r} : reward'[s] = reward[s]
      /\ reward'[r].stock = Taken(reward[r].stock, -1)
  <2>1. Taken(reward[r].stock, -1) \in Count
    BY <1>1, TakenType DEF Row
  <2>2. reward' = [reward EXCEPT ![r] =
                     [reward[r] EXCEPT !.stock = Taken(reward[r].stock, -1)]]
    BY <1>3
  <2> QED
    BY <1>1, <2>1, <2>2, RestockedType DEF Orderly, TypeOK
<1>9. wallet' \in [User -> Int] /\ \A v \in User \ {u} : wallet'[v] = wallet[v]
  BY <1>1, <1>3 DEF Orderly, TypeOK, Row
<1>10. Respects(w)
  BY <1>1, <1>2, <1>3, <1>5, <1>6, <1>7, <1>8, <1>9 DEF Respects
<1>11. TypeOK'
  BY <1>3, <1>4, <1>5, <1>8, <1>9 DEF Orderly, TypeOK, Ends
<1>12. Named' /\ OpenHaveOwners'
  BY <1>1, <1>3, <1>5 DEF Orderly, Named, OpenHaveOwners
<1>13. SeatsFit' /\ AlwaysAnAdmin'
  BY <1>3 DEF Orderly, SeatsFit, AlwaysAnAdmin, Executor
<1>14. ASSUME NEW s \in Reward \ {r}
       PROVE  Consumed(s)' = Consumed(s)
  BY <1>6 DEF Consumed
<1>15. /\ Consumed(r)' = Consumed(r) \cup {i} /\ i \notin Consumed(r)
       /\ Cardinality(Consumed(r)') = Cardinality(Consumed(r)) + 1
  <2>1. Consumed(r)' = Consumed(r) \cup {i} /\ i \notin Consumed(r)
    BY <1>1, <1>2, <1>5 DEF Consumed, Counted, Open
  <2> QED
    BY <2>1, ConsumedFinite, FS_AddElement
<1>16. StockAddsUp'
  <2>1. \A s \in Reward \ {r} : reward'[s].stock # Unlimited =>
          /\ reward'[s].stock >= 0
          /\ reward'[s].stock + Cardinality(Consumed(s)') = intended'[s]
    BY <1>3, <1>8, <1>14 DEF Orderly, StockAddsUp
  <2>2. ASSUME reward'[r].stock # Unlimited
        PROVE  /\ reward'[r].stock >= 0
               /\ reward'[r].stock + Cardinality(Consumed(r)') = intended'[r]
    <3>1. reward[r].stock \in Count
      BY <1>1 DEF Row
    <3>2. reward[r].stock \in Nat /\ reward'[r].stock = reward[r].stock - 1
      BY <1>8, <2>2, <3>1, TakenType
    <3>3. reward[r].stock # Unlimited
      BY <3>2, NamesAssumption
    <3>4. reward[r].stock + Cardinality(Consumed(r)) = intended[r]
      BY <1>1, <3>3 DEF Orderly, StockAddsUp
    <3>5. Cardinality(Consumed(r)) \in Nat
      BY ConsumedFinite
    <3> QED
      BY <1>1, <1>3, <1>15, <3>2, <3>4, <3>5
  <2> QED
    BY <2>1, <2>2 DEF StockAddsUp
<1> QED
  BY <1>4, <1>10, <1>11, <1>12, <1>13, <1>16, Ending DEF Orderly

\* Cancellation: the item and the coins go back.
LEMMA CancelRefundSafe ==
  ASSUME Orderly, NEW w \in Request, CancelRefund(w)
  PROVE  Orderly'
<1>0. PICK i, u, r : i = req[w].slot /\ u = redemption[i].user /\ r = redemption[i].reward
  OBVIOUS
<1>1. /\ i \in Slot /\ redemption[i].status \in Open /\ redemption[i] \in Purchase
      /\ u \in User /\ r \in Reward /\ reward[r] \in Row
      /\ RedemptionRow(i) \in req[w].held /\ RewardRow(r) \in req[w].held
      /\ Free(w, UserRow(u))
  <2>1. /\ Undecided(w) /\ redemption \in [Slot -> Purchase] /\ reward \in [Reward -> Row]
        /\ req[w].held = {RedemptionRow(req[w].slot), RewardRow(req[w].reward)}
        /\ Named
    BY Before DEF CancelRefund, LocksFit, Relies, At, Orderly
  <2> QED
    BY <1>0, <2>1 DEF CancelRefund, Undecided, Named, Open
<1>2. Free(w, RedemptionRow(i)) /\ Free(w, RewardRow(r))
  BY <1>1, HeldIsFree, NotTheKey, Before
<1>3. /\ reward' = [reward EXCEPT ![r].stock = Taken(@, 1)]
      /\ wallet' = [wallet EXCEPT ![u] = @ + redemption[i].cost]
      /\ redemption' = [redemption EXCEPT ![i].status = "CANCELLED"]
      /\ account' = account /\ given' = given /\ intended' = intended /\ seat' = seat
  BY <1>0 DEF CancelRefund, people
<1>4. Ends(w)
  BY CommitEnds DEF Orderly, CancelRefund
<1>5. /\ redemption'[i].status = "CANCELLED" /\ redemption'[i].user = u
      /\ redemption'[i].reward = r /\ redemption' \in [Slot -> Purchase]
      /\ \A j \in Slot \ {i} : redemption'[j] = redemption[j]
  BY <1>0, <1>1, <1>3 DEF Orderly, TypeOK, Purchase, Settled
<1>6. redemption[i].user = u /\ redemption[i].reward = r
  BY <1>0
<1>7. \A v \in User, s \in Reward \ {r} : Counted(v, s)' = Counted(v, s)
  BY <1>5, <1>6 DEF Counted
<1>8. \A v \in User : Clean(v) => Clean(v)'
  BY <1>3, <1>5 DEF Clean, SeatsOf, Open
<1>9. /\ reward' \in [Reward -> Row] /\ \A s \in Reward \ {r} : reward'[s] = reward[s]
      /\ reward'[r].stock = Taken(reward[r].stock, 1)
  <2>1. Taken(reward[r].stock, 1) \in Count
    BY <1>1, TakenType DEF Row
  <2>2. reward' = [reward EXCEPT ![r] =
                     [reward[r] EXCEPT !.stock = Taken(reward[r].stock, 1)]]
    BY <1>3
  <2> QED
    BY <1>1, <2>1, <2>2, RestockedType DEF Orderly, TypeOK
<1>10. wallet' \in [User -> Int] /\ \A v \in User \ {u} : wallet'[v] = wallet[v]
  BY <1>1, <1>3 DEF Orderly, TypeOK, Purchase
<1>11. Respects(w)
  BY <1>1, <1>2, <1>3, <1>5, <1>7, <1>8, <1>9, <1>10 DEF Respects
<1>12. TypeOK'
  BY <1>3, <1>4, <1>5, <1>9, <1>10 DEF Orderly, TypeOK, Ends
<1>13. Named' /\ OpenHaveOwners'
  BY <1>1, <1>3, <1>5 DEF Orderly, Named, OpenHaveOwners, Open
<1>14. SeatsFit' /\ AlwaysAnAdmin'
  BY <1>3 DEF Orderly, SeatsFit, AlwaysAnAdmin, Executor
<1>15. ASSUME NEW s \in Reward \ {r}
       PROVE  Consumed(s)' = Consumed(s)
  BY <1>7 DEF Consumed
<1>16. Cardinality(Consumed(r)') = Cardinality(Consumed(r)) - 1
  <2>1. Consumed(r)' = Consumed(r) \ {i} /\ i \in Consumed(r)
    BY <1>1, <1>5, <1>6 DEF Consumed, Counted, Open
  <2> QED
    BY <2>1, ConsumedFinite, FS_RemoveElement
<1>17. StockAddsUp'
  <2>1. \A s \in Reward \ {r} : reward'[s].stock # Unlimited =>
          /\ reward'[s].stock >= 0
          /\ reward'[s].stock + Cardinality(Consumed(s)') = intended'[s]
    BY <1>3, <1>9, <1>15 DEF Orderly, StockAddsUp
  <2>2. ASSUME reward'[r].stock # Unlimited
        PROVE  /\ reward'[r].stock >= 0
               /\ reward'[r].stock + Cardinality(Consumed(r)') = intended'[r]
    <3>1. reward[r].stock \in Count
      BY <1>1 DEF Row
    <3>2. reward[r].stock \in Nat /\ reward'[r].stock = reward[r].stock + 1
      BY <1>9, <2>2, <3>1, TakenType
    <3>3. reward[r].stock # Unlimited
      BY <3>2, NamesAssumption
    <3>4. reward[r].stock + Cardinality(Consumed(r)) = intended[r]
      BY <1>1, <3>3 DEF Orderly, StockAddsUp
    <3>5. Cardinality(Consumed(r)) \in Nat
      BY ConsumedFinite
    <3> QED
      BY <1>1, <1>3, <1>16, <3>2, <3>4, <3>5
  <2> QED
    BY <2>1, <2>2 DEF StockAddsUp
<1> QED
  BY <1>4, <1>11, <1>12, <1>13, <1>14, <1>17, Ending DEF Orderly

\* A form is written: the row if it changes, the seats it deletes and adds.
LEMMA CommitSaveSafe ==
  ASSUME Orderly, NEW w \in Request, NEW deleted, NEW added \in SUBSET (Reward \X User),
         CommitSave(w, deleted, added), req[w].reward \in Reward,
         \A l \in LocksRow(w) : Free(w, l),
         \A s \in added : Executor(s[2]) /\ Free(w, UserRow(s[2]))
  PROVE  Orderly'
<1>0. PICK r, form, copy : r = req[w].reward /\ form = req[w].form /\ copy = req[w].copy
  OBVIOUS
<1>1. /\ r \in Reward /\ form \in Row /\ copy \in Row /\ reward[r] \in Row
      /\ reward \in [Reward -> Row] /\ intended \in [Reward -> Nat]
  BY <1>0 DEF Orderly, TypeOK, Work
<1>2. /\ account' = account /\ wallet' = wallet /\ given' = given
      /\ redemption' = redemption
      /\ seat' = (seat \ deleted) \cup added
  BY DEF CommitSave
<1>3. Ends(w)
  BY CommitEnds DEF Orderly, CommitSave
<1>4. intended' = IF form.stock \notin {copy.stock, Unlimited}
                  THEN [intended EXCEPT ![r] = form.stock + Cardinality(Consumed(r))]
                  ELSE intended
  BY <1>0 DEF CommitSave
<1>5. PICK new \in Row :
        /\ new.stock = IF form.stock = copy.stock THEN reward[r].stock ELSE form.stock
        /\ reward' = IF form # copy THEN [reward EXCEPT ![r] = new] ELSE reward
  <2>1. Merged(w) \in Row
    BY <1>0, <1>1 DEF Merged, Row
  <2>2. Merged(w).stock = IF form.stock = copy.stock THEN reward[r].stock ELSE form.stock
    BY <1>0 DEF Merged
  <2>3. reward' = IF form # copy THEN [reward EXCEPT ![r] = Merged(w)] ELSE reward
    BY <1>0 DEF CommitSave, RowChanges
  <2> QED
    BY <2>1, <2>2, <2>3
<1>6. form # copy => Free(w, RewardRow(r))
  BY <1>0 DEF LocksRow, RowChanges
<1>7. reward' \in [Reward -> Row] /\ \A s \in Reward \ {r} : reward'[s] = reward[s]
  BY <1>1, <1>5
<1>8. \A q : Consumed(q)' = Consumed(q) /\ \A u \in User : Counted(u, q)' = Counted(u, q)
  BY <1>2 DEF Consumed, Counted
<1>9. \A u \in User : Free(w, UserRow(u)) \/ (Clean(u) => Clean(u)')
  BY <1>2 DEF Clean, SeatsOf
<1>10. Respects(w)
  BY <1>1, <1>2, <1>5, <1>6, <1>7, <1>8, <1>9 DEF Respects
<1>11. intended' \in [Reward -> Nat]
  <2>1. form.stock # Unlimited => form.stock \in Nat
    BY <1>1 DEF Row, Count
  <2>2. form.stock # Unlimited => form.stock + Cardinality(Consumed(r)) \in Nat
    BY <2>1, ConsumedFinite
  <2> QED
    BY <1>1, <1>4, <2>2
<1>12. seat' \subseteq Reward \X User
  BY <1>2 DEF Orderly, TypeOK
<1>13. TypeOK'
  BY <1>2, <1>3, <1>7, <1>11, <1>12 DEF Orderly, TypeOK, Ends
<1>14. Named' /\ OpenHaveOwners' /\ AlwaysAnAdmin'
  BY <1>2 DEF Orderly, Named, OpenHaveOwners, AlwaysAnAdmin
<1>15. SeatsFit'
  BY <1>2 DEF Orderly, SeatsFit, Executor
<1>16. StockAddsUp'
  <2>1. \A s \in Reward \ {r} : reward'[s] = reward[s] /\ intended'[s] = intended[s]
    BY <1>1, <1>4, <1>7
  <2>2. ASSUME reward'[r].stock # Unlimited
        PROVE  /\ reward'[r].stock >= 0
               /\ reward'[r].stock + Cardinality(Consumed(r)') = intended'[r]
    <3>1. CASE form.stock = copy.stock
      <4>1. reward'[r].stock = reward[r].stock /\ intended' = intended
        BY <1>1, <1>4, <1>5, <3>1
      <4> QED
        BY <1>1, <1>8, <2>2, <4>1 DEF Orderly, StockAddsUp
    <3>2. CASE form.stock # copy.stock
      <4>1. reward'[r].stock = form.stock
        BY <1>1, <1>5, <3>2
      <4>2. intended'[r] = form.stock + Cardinality(Consumed(r))
        BY <1>1, <1>4, <2>2, <3>2, <4>1
      <4>3. form.stock \in Nat
        BY <1>1, <2>2, <4>1 DEF Row, Count
      <4> QED
        BY <1>8, <4>1, <4>2, <4>3
    <3> QED
      BY <3>1, <3>2
  <2> QED
    BY <1>8, <2>1, <2>2 DEF Orderly, StockAddsUp
<1> QED
  BY <1>3, <1>10, <1>13, <1>14, <1>15, <1>16, Ending DEF Orderly

\* Forms: seats are kept.
LEMMA SaveKeepSafe ==
  ASSUME Orderly, NEW w \in Request, SaveKeep(w)
  PROVE  Orderly'
<1>1. req[w].reward \in Reward
  BY Before DEF Relies, At, SaveKeep
<1>2. CommitSave(w, {}, {}) /\ \A l \in LocksRow(w) : Free(w, l)
  BY DEF SaveKeep
<1> QED
  BY <1>1, <1>2, CommitSaveSafe

\* What a form has locked besides keys and seats is free for it.
LEMMA RowLocked ==
  ASSUME Orderly, NEW w \in Request, LocksRow(w) \subseteq req[w].held
  PROVE  \A l \in LocksRow(w) : Free(w, l)
BY HeldIsFree, NotTheKey, Before DEF LocksRow

\* Forms: seats are emptied.
LEMMA SaveClearedSafe ==
  ASSUME Orderly, NEW w \in Request, SaveClear(w), req[w].user = NoUser
  PROVE  Orderly'
<1>1. req[w].reward \in Reward /\ LocksRow(w) \subseteq req[w].held
  BY Before DEF LocksFit, Relies, At, SaveClear
<1>2. CommitSave(w, Cleared(w), {})
  BY DEF SaveClear
<1> QED
  BY <1>1, <1>2, RowLocked, CommitSaveSafe

\* Forms: the executor is no longer fit.
LEMMA SavePassedOverSafe ==
  ASSUME Orderly, NEW w \in Request, SaveSeat(w), ~Executor(req[w].user)
  PROVE  Orderly'
<1>1. req[w].reward \in Reward /\ LocksRow(w) \subseteq req[w].held
  BY Before DEF LocksFit, Relies, At, SaveSeat
<1>2. CommitSave(w, Cleared(w), {})
  BY DEF SaveSeat
<1> QED
  BY <1>1, <1>2, RowLocked, CommitSaveSafe

\* Forms: the executor is seated.
LEMMA SaveInsertSafe ==
  ASSUME Orderly, NEW w \in Request, SaveInsert(w)
  PROVE  Orderly'
<1>1. /\ req[w].reward \in Reward /\ req[w].user \in User /\ Executor(req[w].user)
      /\ LocksRow(w) \subseteq req[w].held /\ UserRow(req[w].user) \in req[w].held
  BY Before DEF LocksFit, Relies, At, SaveInsert
<1>2. Free(w, UserRow(req[w].user))
  BY <1>1, Before, HeldIsFree, NotTheKey
<1>3. CommitSave(w, Cleared(w), {<<req[w].reward, req[w].user>>})
  BY DEF SaveInsert
<1>4. /\ {<<req[w].reward, req[w].user>>} \in SUBSET (Reward \X User)
      /\ \A s \in {<<req[w].reward, req[w].user>>} :
           Executor(s[2]) /\ Free(w, UserRow(s[2]))
  BY <1>1, <1>2
<1> QED
  BY <1>1, <1>3, <1>4, RowLocked, CommitSaveSafe

\* Permission: a grant changes one account, whose row is locked.
LEMMA ToggleGrantSafe ==
  ASSUME Orderly, NEW w \in Request, ToggleGrant(w)
  PROVE  Orderly'
<1>0. PICK u : u = req[w].user
  OBVIOUS
<1>1. /\ u \in User /\ Free(w, UserRow(u)) /\ account \in [User -> Account]
      /\ account' = [account EXCEPT ![u].flag = TRUE]
  BY <1>0, Before DEF ToggleGrant, Relies, At
<1>2. /\ wallet' = wallet /\ given' = given /\ reward' = reward /\ intended' = intended
      /\ redemption' = redemption /\ seat' = seat
  BY DEF ToggleGrant, books
<1>3. Ends(w)
  BY CommitEnds DEF Orderly, ToggleGrant
<1>4. /\ account' \in [User -> Account] /\ account'[u].flag
      /\ \A v \in User : /\ account'[v].role = account[v].role
                         /\ account'[v].active = account[v].active
                         /\ v # u => account'[v] = account[v]
  BY <1>1 DEF Account
<1>5. /\ \A v \in User : Clean(v)' <=> Clean(v)
      /\ \A v, r : Counted(v, r)' = Counted(v, r)
  BY <1>2 DEF Clean, SeatsOf, Counted
<1>6. Respects(w)
  BY <1>1, <1>2, <1>4, <1>5 DEF Respects
<1>7. TypeOK'
  BY <1>2, <1>3, <1>4 DEF Orderly, TypeOK, Ends
<1>8. Named' /\ OpenHaveOwners' /\ AlwaysAnAdmin'
  BY <1>2, <1>4 DEF Orderly, Named, OpenHaveOwners, AlwaysAnAdmin, Open
<1>9. SeatsFit'
  BY <1>2, <1>4 DEF Orderly, TypeOK, SeatsFit, Executor
<1>10. \A r : Consumed(r)' = Consumed(r)
  BY <1>5 DEF Consumed
<1>11. StockAddsUp'
  BY <1>2, <1>10 DEF Orderly, StockAddsUp
<1> QED
  BY <1>3, <1>6, <1>7, <1>8, <1>9, <1>11, Ending DEF Orderly

\* Permission: the flag and the seats go together.
LEMMA ToggleStripSafe ==
  ASSUME Orderly, NEW w \in Request, ToggleStrip(w)
  PROVE  Orderly'
<1>0. PICK u : u = req[w].user
  OBVIOUS
<1>1. /\ u \in User /\ Free(w, UserRow(u)) /\ account \in [User -> Account]
      /\ account' = [account EXCEPT ![u].flag = FALSE]
      /\ seat' = {s \in seat : s[2] # u}
  BY <1>0, Before, HeldIsFree, NotTheKey DEF ToggleStrip, Relies, LocksFit, At, SeatsOf
<1>2. /\ wallet' = wallet /\ given' = given /\ reward' = reward /\ intended' = intended
      /\ redemption' = redemption
  BY DEF ToggleStrip, books
<1>3. Ends(w)
  BY CommitEnds DEF Orderly, ToggleStrip
<1>4. /\ account' \in [User -> Account]
      /\ \A v \in User : /\ account'[v].role = account[v].role
                         /\ account'[v].active = account[v].active
                         /\ v # u => account'[v] = account[v]
  BY <1>1 DEF Account
<1>5. /\ \A v \in User : Clean(v) => Clean(v)'
      /\ \A v, r : Counted(v, r)' = Counted(v, r)
  BY <1>1, <1>2 DEF Clean, SeatsOf, Counted
<1>6. Respects(w)
  BY <1>1, <1>2, <1>4, <1>5 DEF Respects
<1>7. TypeOK'
  BY <1>1, <1>2, <1>3, <1>4 DEF Orderly, TypeOK, Ends
<1>8. Named' /\ OpenHaveOwners' /\ AlwaysAnAdmin'
  BY <1>2, <1>4 DEF Orderly, Named, OpenHaveOwners, AlwaysAnAdmin, Open
<1>9. SeatsFit'
  BY <1>1, <1>4 DEF Orderly, TypeOK, SeatsFit, Executor
<1>10. \A r : Consumed(r)' = Consumed(r)
  BY <1>5 DEF Consumed
<1>11. StockAddsUp'
  BY <1>2, <1>10 DEF Orderly, StockAddsUp
<1> QED
  BY <1>3, <1>6, <1>7, <1>8, <1>9, <1>11, Ending DEF Orderly

\* Account edits: an admin remains, and whoever changes had nothing open.
LEMMA UpdateApplySafe ==
  ASSUME Orderly, NEW w \in Request, UpdateApply(w)
  PROVE  Orderly'
<1>0. PICK u, new, on : u = req[w].user /\ new = req[w].edit /\ on = req[w].on
  OBVIOUS
<1>1. /\ u \in User /\ new \in Role /\ on \in BOOLEAN
      /\ Free(w, UserRow(u)) /\ Free(w, CompanyRow) /\ account \in [User -> Account]
      /\ account[u].role = "ADMIN" /\ (new # "ADMIN" \/ ~on) => AnotherAdmin(u)
      /\ new # account[u].role \/ ~on => Clean(u)
  <2>1. /\ Editable(w) /\ req[w] \in Work
        /\ UserRow(u) \in req[w].held /\ CompanyRow \in req[w].held
    BY <1>0, Before DEF UpdateApply, Relies, LocksFit, At
  <2>2. Free(w, UserRow(u)) /\ Free(w, CompanyRow)
    BY <2>1, Before, HeldIsFree, NotTheKey
  <2> QED
    BY <1>0, <2>1, <2>2, Before DEF Editable, Work
<1>2. account' = [account EXCEPT ![u] =
                    [role |-> new, active |-> on, flag |-> new # "ADMIN" /\ @.flag]]
  BY <1>0 DEF UpdateApply
<1>3. /\ wallet' = wallet /\ given' = given /\ reward' = reward /\ intended' = intended
      /\ redemption' = redemption /\ seat' = seat
  BY DEF UpdateApply, books
<1>4. Ends(w)
  BY CommitEnds DEF Orderly, UpdateApply
<1>5. /\ account' \in [User -> Account]
      /\ account'[u].role = new /\ account'[u].active = on
      /\ account'[u].flag <=> (new # "ADMIN" /\ account[u].flag)
      /\ \A v \in User \ {u} : account'[v] = account[v]
  BY <1>1, <1>2 DEF Account
<1>6. /\ \A v \in User : Clean(v)' <=> Clean(v)
      /\ \A v, r : Counted(v, r)' = Counted(v, r)
  BY <1>3 DEF Clean, SeatsOf, Counted
<1>7. Respects(w)
  BY <1>1, <1>3, <1>5, <1>6 DEF Respects
<1>8. TypeOK'
  BY <1>3, <1>4, <1>5 DEF Orderly, TypeOK, Ends
<1>9. Named'
  BY <1>3 DEF Orderly, Named
<1>10. OpenHaveOwners'
  <2>1. SUFFICES ASSUME NEW i \in Slot, redemption[i].status \in Open
                 PROVE  account'[redemption[i].user].active
    BY <1>3 DEF OpenHaveOwners
  <2>2. account[redemption[i].user].active /\ redemption[i].user \in User
    BY <2>1 DEF Orderly, OpenHaveOwners, Named, Open
  <2>3. redemption[i].user = u => on
    BY <1>1, <2>1 DEF Clean
  <2> QED
    BY <1>1, <1>5, <2>2, <2>3
<1>11. SeatsFit'
  <2>1. SUFFICES ASSUME NEW s \in seat
                 PROVE  Executor(s[2])'
    BY <1>3 DEF SeatsFit
  <2>2. Executor(s[2]) /\ s[2] \in User
    BY DEF Orderly, TypeOK, SeatsFit
  <2>3. s[2] = u => on /\ new = account[u].role
    BY <1>1 DEF Clean, SeatsOf
  <2> QED
    BY <1>1, <1>5, <2>2, <2>3 DEF Executor
<1>12. AlwaysAnAdmin'
  <2>1. PICK v \in User : account[v].role = "ADMIN" /\ account[v].active
    BY DEF Orderly, AlwaysAnAdmin
  <2>2. CASE v # u
    BY <1>5, <2>1, <2>2 DEF AlwaysAnAdmin
  <2>3. CASE v = u /\ new = "ADMIN" /\ on
    BY <1>1, <1>5, <2>3 DEF AlwaysAnAdmin
  <2>4. CASE v = u /\ (new # "ADMIN" \/ ~on)
    BY <1>1, <1>5, <2>1, <2>4 DEF AlwaysAnAdmin, AnotherAdmin
  <2> QED
    BY <1>1, <2>2, <2>3, <2>4
<1>13. \A r : Consumed(r)' = Consumed(r)
  BY <1>6 DEF Consumed
<1>14. StockAddsUp'
  BY <1>3, <1>13 DEF Orderly, StockAddsUp
<1> QED
  BY <1>4, <1>7, <1>8, <1>9, <1>10, <1>11, <1>12, <1>14, Ending DEF Orderly

----------------------------------------------------------------------------
(* The invariant.                                                          *)

\* The invariant holds at first.
LEMMA InitOrderly == Init => Orderly
<1> SUFFICES ASSUME Init PROVE Orderly
  OBVIOUS
<1>1. TypeOK
  <2>1. \A r \in Reward : InitRow[r] \in Row /\ InitRow[r].stock \in Count
    BY NamesAssumption DEF Row
  <2>2. \A r \in Reward :
          (IF InitRow[r].stock = Unlimited THEN 0 ELSE InitRow[r].stock) \in Nat
    BY <2>1 DEF Count
  <2>3. intended \in [Reward -> Nat] /\ reward \in [Reward -> Row]
    BY <2>2, NamesAssumption DEF Init
  <2>4. account \in [User -> Account]
    BY NamesAssumption DEF Init, Account
  <2>5. redemption \in [Slot -> Purchase]
    BY DEF Init, Purchase, NoRedemption
  <2> QED
    BY <2>3, <2>4, <2>5, IdleIsWork DEF Init, TypeOK
<1>2. \A w \in Request : req[w].at = "IDLE" /\ req[w].held = {}
  BY DEF Init, Idle
<1>3. LocksApart /\ \A w \in Request : LocksFit(w) /\ Relies(w)
  BY <1>2 DEF LocksApart, LocksFit, Relies, At
<1>4. \A i \in Slot : redemption[i].status = "ABSENT"
  BY DEF Init, NoRedemption
<1>5. Named /\ OpenHaveOwners /\ SeatsFit
  BY <1>4 DEF Init, Named, OpenHaveOwners, SeatsFit, Open
<1>6. AlwaysAnAdmin
  BY FounderAssumption DEF Init, AlwaysAnAdmin
<1>7. StockAddsUp
  <2>1. SUFFICES ASSUME NEW r \in Reward, reward[r].stock # Unlimited
                 PROVE  /\ reward[r].stock >= 0
                        /\ reward[r].stock + Cardinality(Consumed(r)) = intended[r]
    BY DEF StockAddsUp
  <2>2. Consumed(r) = {}
    BY <1>4 DEF Consumed, Counted, Open
  <2>3. Cardinality(Consumed(r)) = 0
    BY <2>2, FS_EmptySet
  <2>4. reward[r].stock \in Nat /\ intended[r] = reward[r].stock
    BY <2>1, NamesAssumption DEF Init, Row, Count
  <2> QED
    BY <2>3, <2>4
<1> QED
  BY <1>1, <1>3, <1>5, <1>6, <1>7 DEF Orderly

\* Every step keeps it.
LEMMA StepOrderly ==
  ASSUME Orderly, NEW w \in Request, Step(w)
  PROVE  Orderly'
<1>1. ASSUME NEW a \in User, Begin(w, a) \/ AdjustRead(w, a) \/ ToggleRead(w, a)
      PROVE  Orderly'
  BY <1>1, BeginSafe, AdjustReadSafe, ToggleReadSafe
<1>2. ASSUME NEW r \in Reward,
             RedeemLock(w, r) \/ \E f \in Forms : SaveRead(w, r, f) \/ SaveCreate(w, r, f)
      PROVE  Orderly'
  BY <1>2, RedeemLockSafe, SaveReadSafe, SaveCreateSafe
<1>3. ASSUME NEW i \in Slot, Approve(w, i) \/ FulfillLock(w, i) \/ CancelLock(w, i)
      PROVE  Orderly'
  BY <1>3, ApproveSafe, FulfillLockSafe, CancelLockSafe
<1>4. ASSUME \E g \in Gifts : AdjustGive(w, g)
      PROVE  Orderly'
  BY <1>4, AdjustGiveSafe
<1>5. ASSUME \E u \in User \cup {NoUser} : SaveName(w, u)
      PROVE  Orderly'
  BY <1>5, SaveNameSafe
<1>6. ASSUME \E u \in User, role \in Role, on \in BOOLEAN : UpdateCheck(w, u, role, on)
      PROVE  Orderly'
  BY <1>6, UpdateCheckSafe
<1>7. ASSUME SaveClear(w)
      PROVE  Orderly'
  BY <1>7, SaveClearSafe, SaveClearedSafe
<1>8. ASSUME SaveSeat(w)
      PROVE  Orderly'
  BY <1>8, SaveSeatSafe, SavePassedOverSafe
<1>9. ASSUME \/ RedeemDebit(w) \/ RedeemRecord(w) \/ FulfillDeliver(w)
             \/ CancelRestock(w) \/ CancelRefund(w)
      PROVE  Orderly'
  BY <1>9, RedeemDebitSafe, RedeemRecordSafe, FulfillDeliverSafe, CancelRestockSafe,
     CancelRefundSafe
<1>10. ASSUME \/ SaveKeep(w) \/ SaveInsert(w) \/ ToggleGrant(w) \/ ToggleRevoke(w)
              \/ ToggleStrip(w) \/ UpdateLock(w) \/ UpdateApply(w) \/ Abandon(w)
       PROVE  Orderly'
  BY <1>10, SaveKeepSafe, SaveInsertSafe, ToggleGrantSafe, ToggleRevokeSafe,
     ToggleStripSafe,
     UpdateLockSafe, UpdateApplySafe, AbandonSafe
<1> QED
  BY <1>1, <1>2, <1>3, <1>4, <1>5, <1>6, <1>7, <1>8, <1>9, <1>10 DEF Step

\* So does no step.
LEMMA StutterOrderly ==
  ASSUME Orderly, UNCHANGED vars
  PROVE  Orderly'
<1>1. /\ account' = account /\ wallet' = wallet /\ given' = given /\ reward' = reward
      /\ intended' = intended /\ redemption' = redemption /\ seat' = seat /\ req' = req
  BY DEF vars
<1>2. TypeOK' /\ LocksApart'
  BY <1>1 DEF Orderly, TypeOK, LocksApart
<1>3. Named' /\ OpenHaveOwners' /\ SeatsFit' /\ AlwaysAnAdmin'
  BY <1>1 DEF Orderly, Named, OpenHaveOwners, SeatsFit, AlwaysAnAdmin, Executor
<1>4. \A r : Consumed(r)' = Consumed(r)
  BY <1>1 DEF Consumed, Counted
<1>5. StockAddsUp'
  BY <1>1, <1>4 DEF Orderly, StockAddsUp
<1>6. ASSUME NEW w \in Request
      PROVE  LocksFit(w)' /\ Relies(w)'
  BY <1>1, Untouched DEF Orderly, world, books, people
<1> QED
  BY <1>2, <1>3, <1>5, <1>6 DEF Orderly

\* Requests hold the locks their step needs, what they read under them stands,
\* and the catalog and its people are in order.
THEOREM AlwaysOrderly == Spec => []Orderly
<1>1. Orderly /\ [Next]_vars => Orderly'
  BY StepOrderly, StutterOrderly DEF Next
<1> QED
  BY <1>1, InitOrderly, PTL DEF Spec

\* Every reachable state of the catalog has its type.
THEOREM TypeCorrect == Spec => []TypeOK
<1>1. Orderly => TypeOK
  BY DEF Orderly
<1> QED
  BY <1>1, AlwaysOrderly, PTL

\* A company keeps an admin, however many admins edit accounts at once.
THEOREM AnAdminRemains == Spec => []AlwaysAnAdmin
<1>1. Orderly => AlwaysAnAdmin
  BY DEF Orderly
<1> QED
  BY <1>1, AlwaysOrderly, PTL

\* Nobody holds an executor seat without the permission.
THEOREM ExecutorsAreFit == Spec => []SeatsFit
<1>1. Orderly => SeatsFit
  BY DEF Orderly
<1> QED
  BY <1>1, AlwaysOrderly, PTL

\* Whoever waits for a reward is active.
THEOREM OwnersAreActive == Spec => []OpenHaveOwners
<1>1. Orderly => OpenHaveOwners
  BY DEF Orderly
<1> QED
  BY <1>1, AlwaysOrderly, PTL

\* No item of a stock is lost or sold twice.
THEOREM StockIsRight == Spec => []StockAddsUp
<1>1. Orderly => StockAddsUp
  BY DEF Orderly
<1> QED
  BY <1>1, AlwaysOrderly, PTL

----------------------------------------------------------------------------
(* What a step may do to redemptions and to the people they belong to.     *)

Buys(w) ==
  /\ InStock(w) /\ Solvent(w) /\ account' = account /\ given' = given
  /\ wallet' = [wallet EXCEPT ![req[w].actor] = @ - reward[req[w].reward].cost]
  /\ \E i \in Slot :
       /\ redemption[i].status = "ABSENT"
       /\ redemption' = [redemption EXCEPT ![i] =
            [user |-> req[w].actor, reward |-> req[w].reward,
             cost |-> reward[req[w].reward].cost, status |-> "PENDING"]]

\* Approved or delivered: nobody pays for that.
Passed(i) ==
  /\ redemption[i].status \in Open /\ account' = account
  /\ \E s \in {"APPROVED", "FULFILLED"} : redemption' = [redemption EXCEPT ![i].status = s]
  /\ UNCHANGED <<wallet, given>>

\* Cancelled, and paid back.
Refunded(i) ==
  /\ redemption[i].status \in Open /\ account' = account /\ given' = given
  /\ redemption' = [redemption EXCEPT ![i].status = "CANCELLED"]
  /\ wallet' = [wallet EXCEPT ![redemption[i].user] = @ + redemption[i].cost]

\* Given by an admin, or taken back.
Adjusted ==
  /\ redemption' = redemption
  /\ \E u \in User, n \in Int : /\ wallet' = [wallet EXCEPT ![u] = @ + n]
                                /\ given' = [given EXCEPT ![u] = @ + n]

NoMoney == UNCHANGED <<wallet, given, redemption>>

\* Coins move in four ways.
LEMMA MoneySteps ==
  ASSUME Orderly, NEW w \in Request, Step(w)
  PROVE  \/ NoMoney \/ Adjusted \/ Buys(w)
         \/ \E i \in Slot : Passed(i) \/ Refunded(i)
<1> USE DEF world, books, people
<1>1. ASSUME NEW a \in User, Begin(w, a) \/ AdjustRead(w, a) \/ ToggleRead(w, a)
      PROVE  NoMoney
  BY <1>1 DEF Begin, AdjustRead, ToggleRead, NoMoney
<1>2. ASSUME NEW r \in Reward,
             RedeemLock(w, r) \/ \E f \in Forms : SaveRead(w, r, f) \/ SaveCreate(w, r, f)
      PROVE  NoMoney
  BY <1>2 DEF RedeemLock, SaveRead, SaveCreate, NoMoney
<1>3. ASSUME NEW i \in Slot, FulfillLock(w, i) \/ CancelLock(w, i)
      PROVE  NoMoney
  BY <1>3 DEF FulfillLock, CancelLock, NoMoney
<1>4. ASSUME \/ \E u \in User \cup {NoUser} : SaveName(w, u)
             \/ \E u \in User, role \in Role, on \in BOOLEAN : UpdateCheck(w, u, role, on)
      PROVE  NoMoney
  BY <1>4 DEF SaveName, UpdateCheck, NoMoney
<1>5. ASSUME RedeemDebit(w) \/ CancelRestock(w)
      PROVE  NoMoney
  BY <1>5 DEF RedeemDebit, CancelRestock, NoMoney
<1>6. ASSUME SaveKeep(w) \/ SaveClear(w) \/ SaveSeat(w) \/ SaveInsert(w)
      PROVE  NoMoney
  BY <1>6 DEF SaveKeep, SaveClear, SaveSeat, SaveInsert, CommitSave, NoMoney
<1>7. ASSUME \/ ToggleGrant(w) \/ ToggleRevoke(w) \/ ToggleStrip(w) \/ UpdateLock(w)
             \/ UpdateApply(w) \/ Abandon(w)
      PROVE  NoMoney
  BY <1>7
     DEF ToggleGrant, ToggleRevoke, ToggleStrip, UpdateLock, UpdateApply, Abandon, NoMoney
<1>8. ASSUME NEW g \in Gifts, AdjustGive(w, g)
      PROVE  Adjusted
  <2>1. req[w].user \in User /\ g \in Int
    BY <1>8, Before, FormsAssumption DEF AdjustGive, Relies, At
  <2> QED
    BY <1>8, <2>1 DEF AdjustGive, Adjusted
<1>9. ASSUME RedeemRecord(w)
      PROVE  Buys(w)
  <2>1. InStock(w) /\ Solvent(w)
    BY <1>9, Before DEF RedeemRecord, Relies, At
  <2> QED
    BY <1>9, <2>1 DEF RedeemRecord, Buys, NextFree
<1>10. ASSUME NEW i \in Slot, Approve(w, i)
       PROVE  Passed(i)
  <2>1. redemption' = [redemption EXCEPT ![i].status = "APPROVED"]
    BY <1>10 DEF Approve
  <2> QED
    BY <1>10, <2>1 DEF Approve, Passed, Open
<1>11. ASSUME FulfillDeliver(w)
       PROVE  req[w].slot \in Slot /\ Passed(req[w].slot)
  <2>1. Deliverable(w)
    BY <1>11, Before DEF FulfillDeliver, Relies
  <2> QED
    BY <1>11, <2>1 DEF FulfillDeliver, Deliverable, Passed, Open
<1>12. ASSUME CancelRefund(w)
       PROVE  req[w].slot \in Slot /\ Refunded(req[w].slot)
  <2>1. Undecided(w)
    BY <1>12, Before DEF CancelRefund, Relies, At
  <2> QED
    BY <1>12, <2>1 DEF CancelRefund, Undecided, Refunded
<1> QED
  BY <1>1, <1>2, <1>3, <1>4, <1>5, <1>6, <1>7, <1>8, <1>9, <1>10, <1>11, <1>12 DEF Step

\* An open redemption is decided on; nobody pays for that.
Decided(i) ==
  /\ redemption[i].status \in Open /\ account' = account
  /\ \E s \in {"APPROVED"} \cup Settled : redemption' = [redemption EXCEPT ![i].status = s]
  /\ \A u \in User : wallet'[u] >= wallet[u]

\* A redemption is bought once and then only decided on while open.
LEMMA RedemptionSteps ==
  ASSUME Orderly, NEW w \in Request, Step(w)
  PROVE  redemption' = redemption \/ Buys(w) \/ \E i \in Slot : Decided(i)
<1>1. wallet \in [User -> Int] /\ redemption \in [Slot -> Purchase]
  BY DEF Orderly, TypeOK
<1>2. ASSUME NEW i \in Slot, Passed(i)
      PROVE  Decided(i)
  <2>1. \A u \in User : wallet'[u] >= wallet[u]
    BY <1>1, <1>2 DEF Passed
  <2> QED
    BY <1>2, <2>1 DEF Passed, Decided, Settled
<1>3. ASSUME NEW i \in Slot, Refunded(i)
      PROVE  Decided(i)
  <2>1. redemption[i].cost \in Nat /\ redemption[i].user \in User
    BY <1>1, <1>3 DEF Refunded, Purchase, Orderly, Named, Open
  <2>2. \A u \in User : wallet'[u] >= wallet[u]
    BY <1>1, <1>3, <2>1 DEF Refunded
  <2> QED
    BY <1>3, <2>2 DEF Refunded, Decided, Settled
<1> QED
  BY <1>2, <1>3, MoneySteps DEF NoMoney, Adjusted

\* Only an account edit changes a role, and only of somebody without open
\* redemptions.
LEMMA RoleSteps ==
  ASSUME Orderly, NEW w \in Request, Step(w)
  PROVE  \/ \A u \in User : account'[u].role = account[u].role
         \/ /\ redemption' = redemption
            /\ \A u \in User : account'[u].role # account[u].role => Clean(u)
<1> USE DEF world, books, people
<1>1. account \in [User -> Account]
  BY DEF Orderly, TypeOK
<1>2. ASSUME NEW a \in User, Begin(w, a) \/ AdjustRead(w, a) \/ ToggleRead(w, a)
      PROVE  account' = account
  BY <1>2 DEF Begin, AdjustRead, ToggleRead
<1>3. ASSUME NEW r \in Reward,
             RedeemLock(w, r) \/ \E f \in Forms : SaveRead(w, r, f) \/ SaveCreate(w, r, f)
      PROVE  account' = account
  BY <1>3 DEF RedeemLock, SaveRead, SaveCreate
<1>4. ASSUME NEW i \in Slot, Approve(w, i) \/ FulfillLock(w, i) \/ CancelLock(w, i)
      PROVE  account' = account
  BY <1>4 DEF Approve, FulfillLock, CancelLock
<1>5. ASSUME \/ \E g \in Gifts : AdjustGive(w, g)
             \/ \E u \in User \cup {NoUser} : SaveName(w, u)
             \/ \E u \in User, role \in Role, on \in BOOLEAN : UpdateCheck(w, u, role, on)
      PROVE  account' = account
  BY <1>5 DEF AdjustGive, SaveName, UpdateCheck
<1>6. ASSUME \/ RedeemDebit(w) \/ RedeemRecord(w) \/ FulfillDeliver(w)
             \/ CancelRestock(w) \/ CancelRefund(w)
      PROVE  account' = account
  BY <1>6 DEF RedeemDebit, RedeemRecord, FulfillDeliver, CancelRestock, CancelRefund
<1>7. ASSUME SaveKeep(w) \/ SaveClear(w) \/ SaveSeat(w) \/ SaveInsert(w)
      PROVE  account' = account
  BY <1>7 DEF SaveKeep, SaveClear, SaveSeat, SaveInsert, CommitSave
<1>8. ASSUME ToggleRevoke(w) \/ UpdateLock(w) \/ Abandon(w)
      PROVE  account' = account
  BY <1>8 DEF ToggleRevoke, UpdateLock, Abandon
<1>9. ASSUME ToggleGrant(w) \/ ToggleStrip(w)
      PROVE  \A u \in User : account'[u].role = account[u].role
  BY <1>1, <1>9 DEF ToggleGrant, ToggleStrip, Account
<1>10. ASSUME UpdateApply(w)
       PROVE  /\ redemption' = redemption
              /\ \A u \in User : account'[u].role # account[u].role => Clean(u)
  <2>1. Editable(w)
    BY <1>10, Before DEF UpdateApply, Relies
  <2> QED
    BY <1>1, <1>10, <2>1 DEF UpdateApply, Editable
<1> QED
  BY <1>2, <1>3, <1>4, <1>5, <1>6, <1>7, <1>8, <1>9, <1>10 DEF Step

\* The outcome of a redemption is final.
THEOREM OutcomesAreFinal == Spec => OutcomesStand
<1>1. ASSUME Orderly, [Next]_vars
      PROVE  \A i \in Slot : redemption[i].status \in Settled => redemption'[i] = redemption[i]
  <2> SUFFICES ASSUME NEW i \in Slot, redemption[i].status \in Settled
               PROVE  redemption'[i] = redemption[i]
    OBVIOUS
  <2>1. redemption[i].status # "ABSENT" /\ redemption[i].status \notin Open
    BY <1>1 DEF Settled, Open
  <2>2. CASE UNCHANGED vars
    BY <2>2 DEF vars
  <2>3. ASSUME NEW w \in Request, Step(w)
        PROVE  redemption'[i] = redemption[i]
    <3>1. redemption \in [Slot -> Purchase]
      BY <1>1 DEF Orderly, TypeOK
    <3>2. CASE Buys(w)
      BY <2>1, <3>1, <3>2 DEF Buys
    <3>3. CASE \E j \in Slot : Decided(j)
      BY <2>1, <3>1, <3>3 DEF Decided
    <3> QED
      BY <1>1, <2>3, <3>2, <3>3, RedemptionSteps
  <2> QED
    BY <1>1, <2>2, <2>3 DEF Next
<1> QED
  BY <1>1, AlwaysOrderly, PTL DEF Spec, OutcomesStand

\* Buying leaves nobody in debt.
THEOREM NobodyOverdraws == Spec => NoOverdraft
<1>1. ASSUME Orderly, [Next]_vars
      PROVE  \A u \in User :
               (wallet'[u] < wallet[u] /\ redemption' # redemption) => wallet'[u] >= 0
  <2> SUFFICES ASSUME NEW u \in User, wallet'[u] < wallet[u], redemption' # redemption
               PROVE  wallet'[u] >= 0
    OBVIOUS
  <2>1. PICK w \in Request : Step(w)
    BY <1>1 DEF Next, vars
  <2>2. /\ wallet \in [User -> Int] /\ wallet' \in [User -> Int]
        /\ reward \in [Reward -> Row]
    BY <1>1, <2>1, StepOrderly DEF Orderly, TypeOK
  <2>3. ~ \E i \in Slot : Decided(i)
    BY <1>1, <2>2 DEF Decided
  <2>4. Buys(w)
    BY <1>1, <2>1, <2>3, RedemptionSteps
  <2>5. /\ req[w].actor \in User /\ reward[req[w].reward].cost \in Nat
        /\ Affords(req[w].actor, reward[req[w].reward].cost)
    BY <2>2, <2>4 DEF Buys, InStock, Solvent, Row
  <2>6. wallet' = [wallet EXCEPT ![req[w].actor] = @ - reward[req[w].reward].cost]
    BY <2>4 DEF Buys
  <2> QED
    BY <1>1, <2>2, <2>5, <2>6 DEF Affords
<1> QED
  BY <1>1, AlwaysOrderly, PTL DEF Spec, NoOverdraft

\* Nobody changes role while a redemption of theirs is open.
THEOREM OwnersKeepTheirRoles == Spec => OwnersKeepRoles
<1>1. ASSUME Orderly, [Next]_vars
      PROVE  \A i \in Slot :
               (redemption'[i].status \in Open /\ redemption[i].user \in User) =>
                 account'[redemption[i].user].role = account[redemption[i].user].role
  <2> SUFFICES ASSUME NEW i \in Slot, redemption'[i].status \in Open,
                      redemption[i].user \in User
               PROVE  account'[redemption[i].user].role = account[redemption[i].user].role
    OBVIOUS
  <2>1. CASE UNCHANGED vars
    BY <2>1 DEF vars
  <2>2. ASSUME NEW w \in Request, Step(w)
        PROVE  account'[redemption[i].user].role = account[redemption[i].user].role
    BY <1>1, <2>2, RoleSteps DEF Clean
  <2> QED
    BY <1>1, <2>1, <2>2 DEF Next
<1> QED
  BY <1>1, AlwaysOrderly, PTL DEF Spec, OwnersKeepRoles

\* Personal limits hold when a redemption is recorded.
THEOREM LimitsAlwaysHold == Spec => LimitsHold
<1>1. ASSUME Orderly, [Next]_vars
      PROVE  \A u \in User, r \in Reward :
               (Counted(u, r)' # Counted(u, r) /\ Counted(u, r) \subseteq Counted(u, r)')
                 => (reward[r].limit # Unlimited =>
                       Cardinality(Counted(u, r)') <= reward[r].limit)
  <2> SUFFICES ASSUME NEW u \in User, NEW r \in Reward,
                      Counted(u, r)' # Counted(u, r), Counted(u, r) \subseteq Counted(u, r)',
                      reward[r].limit # Unlimited
               PROVE  Cardinality(Counted(u, r)') <= reward[r].limit
    OBVIOUS
  <2>1. redemption' # redemption
    BY <1>1 DEF Counted
  <2>2. PICK w \in Request : Step(w)
    BY <1>1, <2>1 DEF Next, vars
  <2>3. redemption \in [Slot -> Purchase] /\ reward \in [Reward -> Row]
    BY <1>1 DEF Orderly, TypeOK
  <2>4. ASSUME NEW i \in Slot, Decided(i)
        PROVE  Counted(u, r)' \subseteq Counted(u, r)
    <3>1. /\ redemption[i].status \in Open /\ redemption'[i].user = redemption[i].user
          /\ redemption'[i].reward = redemption[i].reward
          /\ \A j \in Slot \ {i} : redemption'[j] = redemption[j]
      BY <2>3, <2>4 DEF Decided, Purchase
    <3> QED
      BY <3>1 DEF Counted, Open
  <2>5. Buys(w)
    BY <1>1, <2>1, <2>2, <2>4, RedemptionSteps
  <2>6. PICK i \in Slot :
          /\ redemption[i].status = "ABSENT"
          /\ redemption' = [redemption EXCEPT ![i] =
               [user |-> req[w].actor, reward |-> req[w].reward,
                cost |-> reward[req[w].reward].cost, status |-> "PENDING"]]
    BY <2>5 DEF Buys
  <2>7. /\ redemption'[i].user = req[w].actor /\ redemption'[i].reward = req[w].reward
        /\ \A j \in Slot \ {i} : redemption'[j] = redemption[j]
    BY <2>3, <2>6
  <2>8. i \notin Counted(u, r) /\ Counted(u, r)' \subseteq Counted(u, r) \cup {i}
    BY <2>6, <2>7 DEF Counted, Open
  <2>9. u = req[w].actor /\ r = req[w].reward /\ Counted(u, r)' = Counted(u, r) \cup {i}
    BY <1>1, <2>7, <2>8 DEF Counted
  <2>10. IsFiniteSet(Counted(u, r)) /\ Cardinality(Counted(u, r)) \in Nat
    <3>1. IsFiniteSet(Slot)
      BY FormsAssumption, FS_Interval DEF Slot
    <3>2. Counted(u, r) \subseteq Slot
      BY DEF Counted
    <3> QED
      BY <3>1, <3>2, FS_Subset, FS_CardinalityType
  <2>11. Cardinality(Counted(u, r)') = Cardinality(Counted(u, r)) + 1
    BY <2>8, <2>9, <2>10, FS_AddElement
  <2>12. Cardinality(Counted(u, r)) < reward[r].limit
    BY <1>1, <2>5, <2>9 DEF Buys, InStock, WithinLimit
  <2>13. reward[r].limit \in Nat
    BY <1>1, <2>3 DEF Row, Count
  <2> QED
    BY <2>10, <2>11, <2>12, <2>13
<1> QED
  BY <1>1, AlwaysOrderly, PTL DEF Spec, LimitsHold

----------------------------------------------------------------------------
(* Wallets: what was given less what redemptions keep.                     *)

\* The redemptions of a person that keep their coins, and what each cost.
Keeping(u) == UNION {Counted(u, r) : r \in Reward}

Costs == [i \in Slot |-> redemption[i].cost]

\* The sum over the redemptions is one over their costs.
LEMMA CostsAreSummed ==
  ASSUME NEW S, S \subseteq Slot
  PROVE  MapThenSumSet(LAMBDA i : redemption[i].cost, S) = SumOver(Costs, S)
<1> DEFINE ByField(sum) ==
             [s \in SUBSET S |-> IF s = {} THEN 0
                                 ELSE redemption[Pick(s)].cost + sum[s \ {Pick(s)}]]
           ByCost(sum) ==
             [s \in SUBSET S |-> IF s = {} THEN 0 ELSE Costs[Pick(s)] + sum[s \ {Pick(s)}]]
<1>1. ASSUME NEW sum
      PROVE  ByField(sum) = ByCost(sum)
  <2>1. \A s \in SUBSET S : s # {} => Costs[Pick(s)] = redemption[Pick(s)].cost
    BY PickIsElement DEF Costs
  <2> QED
    BY <2>1
<1>2. MapThenSumSet(LAMBDA i : redemption[i].cost, S) = (CHOOSE sum : sum = ByField(sum))[S]
  BY Zenon DEF MapThenSumSet, MapThenFoldSet, Pick
<1>3. SumOver(Costs, S) = (CHOOSE sum : sum = ByCost(sum))[S]
  BY Zenon DEF SumOver, Sums
<1> HIDE DEF ByField, ByCost
<1> QED
  BY <1>1, <1>2, <1>3, Zenon

\* The invariant, in terms of the sums whose laws are known.
Balanced == \A u \in User : wallet[u] = given[u] - SumOver(Costs, Keeping(u))

LEMMA BalancedMeans == Balanced <=> WalletsAddUp
<1>1. \A u \in User : Keeping(u) \subseteq Slot
  BY DEF Keeping, Counted
<1> QED
  BY <1>1, CostsAreSummed DEF Balanced, WalletsAddUp, Keeping

\* What a person keeps is finite, and the costs are numbers.
LEMMA KeepingIsFinite ==
  ASSUME Orderly, NEW u
  PROVE  /\ IsFiniteSet(Keeping(u)) /\ Keeping(u) \subseteq Slot
         /\ \A i \in Slot : Costs[i] \in Nat
         /\ SumOver(Costs, Keeping(u)) \in Int
<1>1. IsFiniteSet(Slot) /\ Keeping(u) \subseteq Slot
  BY FormsAssumption, FS_Interval DEF Slot, Keeping, Counted
<1>2. IsFiniteSet(Keeping(u))
  BY <1>1, FS_Subset
<1>3. \A i \in Slot : Costs[i] \in Nat
  BY DEF Orderly, TypeOK, Purchase, Costs
<1> QED
  BY <1>1, <1>2, <1>3, SumIsInt

\* A redemption keeps its coins unless it was cancelled.
LEMMA KeptBy ==
  ASSUME Orderly, NEW u \in User, NEW i \in Slot
  PROVE  i \in Keeping(u) <=>
           redemption[i].user = u /\ redemption[i].status \in Open \cup {"FULFILLED"}
BY DEF Orderly, Named, Keeping, Counted, Open

\* A person whose redemptions and coins stand stays balanced.
LEMMA StaysBalanced ==
  ASSUME Orderly, Balanced, NEW u \in User, Keeping(u)' = Keeping(u),
         \A i \in Keeping(u) : Costs'[i] = Costs[i],
         NEW n \in Int, wallet'[u] = wallet[u] + n, given'[u] = given[u] + n
  PROVE  wallet'[u] = given'[u] - SumOver(Costs', Keeping(u)')
<1>1. PICK f, g, K : f = Costs /\ g = Costs' /\ K = Keeping(u)
  OBVIOUS
<1>2. SumOver(f, K) = SumOver(g, K)
  BY <1>1, KeepingIsFinite, SumOfSame
<1>3. SumOver(f, K) \in Int /\ wallet[u] = given[u] - SumOver(f, K) /\ given[u] \in Int
  BY <1>1, KeepingIsFinite DEF Balanced, Orderly, TypeOK
<1>4. SumOver(Costs', Keeping(u)') = SumOver(f, K)
  BY <1>1, <1>2
<1> QED
  BY <1>3, <1>4

\* Only redemptions of which nothing is changed: who is not concerned.
LEMMA StandsBy ==
  ASSUME Orderly, Orderly', NEW i \in Slot, \A j \in Slot \ {i} : redemption'[j] = redemption[j],
         NEW u \in User, i \notin Keeping(u), i \notin Keeping(u)'
  PROVE  Keeping(u)' = Keeping(u) /\ \A j \in Keeping(u) : Costs'[j] = Costs[j]
<1>1. Keeping(u) \subseteq Slot /\ Keeping(u)' \subseteq Slot
  BY DEF Keeping, Counted
<1>2. \A j \in Slot \ {i} : j \in Keeping(u)' <=> j \in Keeping(u)
  BY DEF Keeping, Counted
<1> QED
  BY <1>1, <1>2 DEF Costs

LEMMA BuyingBalances ==
  ASSUME Orderly, Orderly', Balanced, NEW w \in Request, Buys(w)
  PROVE  Balanced'
<1>1. PICK a, c : a = req[w].actor /\ c = reward[req[w].reward].cost
  OBVIOUS
<1>2. PICK i \in Slot :
        /\ redemption[i].status = "ABSENT"
        /\ redemption' = [redemption EXCEPT ![i] =
             [user |-> a, reward |-> req[w].reward, cost |-> c, status |-> "PENDING"]]
  BY <1>1 DEF Buys
<1>3. /\ wallet \in [User -> Int] /\ given \in [User -> Int] /\ redemption \in [Slot -> Purchase]
      /\ a \in User /\ c \in Nat
  BY <1>1 DEF Buys, InStock, Orderly, TypeOK, Row
<1>4. /\ redemption'[i].user = a /\ redemption'[i].status = "PENDING" /\ Costs'[i] = c
      /\ \A j \in Slot \ {i} : redemption'[j] = redemption[j]
  BY <1>2, <1>3 DEF Costs
<1>5. given' = given /\ wallet' = [wallet EXCEPT ![a] = @ - c]
  BY <1>1 DEF Buys
<1>6. \A u \in User : i \notin Keeping(u)
  BY <1>2, KeptBy DEF Open
<1>7. ASSUME NEW u \in User, u # a
      PROVE  wallet'[u] = given'[u] - SumOver(Costs', Keeping(u)')
  <2>1. i \notin Keeping(u)'
    BY <1>4, <1>7 DEF Keeping, Counted
  <2>2. Keeping(u)' = Keeping(u) /\ \A j \in Keeping(u) : Costs'[j] = Costs[j]
    BY <1>4, <1>6, <2>1, StandsBy
  <2>3. wallet'[u] = wallet[u] + 0 /\ given'[u] = given[u] + 0
    BY <1>3, <1>5, <1>7
  <2> QED
    BY <2>2, <2>3, StaysBalanced
<1>8. wallet'[a] = given'[a] - SumOver(Costs', Keeping(a)')
  <2>1. PICK f, g, K : f = Costs /\ g = Costs' /\ K = Keeping(a)
    OBVIOUS
  <2>2. IsFiniteSet(K) /\ K \subseteq Slot /\ (\A j \in Slot : f[j] \in Nat) /\ i \notin K
    BY <1>3, <1>6, <2>1, KeepingIsFinite
  <2>3. \A j \in K : f[j] = g[j]
    BY <1>4, <2>1, <2>2 DEF Costs
  <2>4. Keeping(a)' = K \cup {i}
    <3>1. Keeping(a)' \subseteq Slot
      BY DEF Keeping, Counted
    <3>2. \A j \in Slot \ {i} : j \in Keeping(a)' <=> j \in K
      BY <1>4, <2>1 DEF Keeping, Counted
    <3>3. i \in Keeping(a)'
      BY <1>3, <1>4, KeptBy DEF Orderly, Named, Keeping, Counted, Open
    <3> QED
      BY <2>2, <3>1, <3>2, <3>3
  <2>5. SumOver(g, K \cup {i}) = SumOver(g, K) + g[i]
    BY <1>3, <1>4, <2>1, <2>2, <2>3, SumAdds
  <2>6. SumOver(g, K) = SumOver(f, K) /\ SumOver(f, K) \in Int
    BY <2>2, <2>3, SumOfSame, SumIsInt
  <2>7. wallet[a] = given[a] - SumOver(f, K)
    BY <1>3, <2>1 DEF Balanced
  <2>8. SumOver(Costs', Keeping(a)') = SumOver(g, K \cup {i}) /\ g[i] = c
    BY <1>4, <2>1, <2>4
  <2>9. wallet'[a] = wallet[a] - c /\ given'[a] = given[a] /\ wallet[a] \in Int /\ given[a] \in Int
    BY <1>3, <1>5
  <2> QED
    BY <1>3, <2>5, <2>6, <2>7, <2>8, <2>9
<1> QED
  BY <1>7, <1>8 DEF Balanced

LEMMA RefundBalances ==
  ASSUME Orderly, Orderly', Balanced, NEW i \in Slot, Refunded(i)
  PROVE  Balanced'
<1>1. PICK a, c : a = redemption[i].user /\ c = redemption[i].cost
  OBVIOUS
<1>2. /\ wallet \in [User -> Int] /\ given \in [User -> Int] /\ redemption \in [Slot -> Purchase]
      /\ a \in User /\ c \in Nat /\ Costs[i] = c
  BY <1>1 DEF Refunded, Orderly, Named, TypeOK, Purchase, Open, Costs
<1>3. /\ redemption'[i].user = a /\ redemption'[i].status = "CANCELLED"
      /\ \A j \in Slot \ {i} : redemption'[j] = redemption[j]
  BY <1>1, <1>2 DEF Refunded, Purchase
<1>4. given' = given /\ wallet' = [wallet EXCEPT ![a] = @ + c]
  BY <1>1 DEF Refunded
<1>5. /\ i \in Keeping(a) /\ \A u \in User : u # a => i \notin Keeping(u)
      /\ \A u \in User : i \notin Keeping(u)'
  BY <1>1, <1>2, <1>3, KeptBy DEF Refunded, Keeping, Counted, Open
<1>6. ASSUME NEW u \in User, u # a
      PROVE  wallet'[u] = given'[u] - SumOver(Costs', Keeping(u)')
  <2>1. Keeping(u)' = Keeping(u) /\ \A j \in Keeping(u) : Costs'[j] = Costs[j]
    BY <1>3, <1>5, <1>6, StandsBy
  <2>2. wallet'[u] = wallet[u] + 0 /\ given'[u] = given[u] + 0
    BY <1>2, <1>4, <1>6
  <2> QED
    BY <2>1, <2>2, StaysBalanced
<1>7. wallet'[a] = given'[a] - SumOver(Costs', Keeping(a)')
  <2>1. PICK f, g, K : f = Costs /\ g = Costs' /\ K = Keeping(a)
    OBVIOUS
  <2>2. /\ IsFiniteSet(K) /\ K \subseteq Slot /\ (\A j \in Slot : f[j] \in Nat) /\ i \in K
        /\ SumOver(f, K) \in Int
    BY <1>2, <1>5, <2>1, KeepingIsFinite
  <2>3. Keeping(a)' = K \ {i}
    <3>1. Keeping(a)' \subseteq Slot
      BY DEF Keeping, Counted
    <3>2. \A j \in Slot \ {i} : j \in Keeping(a)' <=> j \in K
      BY <1>3, <2>1 DEF Keeping, Counted
    <3> QED
      BY <1>2, <1>5, <2>2, <3>1, <3>2
  <2>4. SumOver(f, K) = f[i] + SumOver(f, K \ {i})
    BY <2>2, SumRemoves
  <2>5. IsFiniteSet(K \ {i}) /\ \A j \in K \ {i} : f[j] = g[j] /\ f[j] \in Nat
    BY <1>3, <2>1, <2>2, FS_RemoveElement DEF Costs
  <2>6. SumOver(g, K \ {i}) = SumOver(f, K \ {i}) /\ SumOver(f, K \ {i}) \in Int
    BY <2>5, SumOfSame, SumIsInt
  <2>7. wallet[a] = given[a] - SumOver(f, K)
    BY <1>2, <2>1 DEF Balanced
  <2>8. SumOver(Costs', Keeping(a)') = SumOver(g, K \ {i}) /\ f[i] = c
    BY <1>2, <2>1, <2>3
  <2>9. wallet'[a] = wallet[a] + c /\ given'[a] = given[a] /\ wallet[a] \in Int /\ given[a] \in Int
    BY <1>2, <1>4
  <2> QED
    BY <1>2, <2>4, <2>6, <2>7, <2>8, <2>9
<1> QED
  BY <1>6, <1>7 DEF Balanced

LEMMA PassingBalances ==
  ASSUME Orderly, Orderly', Balanced, NEW i \in Slot, Passed(i)
  PROVE  Balanced'
<1>1. wallet \in [User -> Int] /\ given \in [User -> Int] /\ redemption \in [Slot -> Purchase]
  BY DEF Orderly, TypeOK
<1>2. \A j \in Slot : /\ redemption'[j].user = redemption[j].user
                      /\ redemption'[j].cost = redemption[j].cost
                      /\ redemption'[j].reward = redemption[j].reward
                      /\ redemption'[j].status \in Open \cup {"FULFILLED"} <=>
                           redemption[j].status \in Open \cup {"FULFILLED"}
  BY <1>1 DEF Passed, Purchase, Open
<1>3. Costs' = Costs /\ \A u : Keeping(u)' = Keeping(u)
  <2>1. \A u, r : Counted(u, r)' = Counted(u, r)
    BY <1>2 DEF Counted
  <2> QED
    BY <1>2, <2>1 DEF Costs, Keeping
<1>4. \A u \in User : wallet'[u] = wallet[u] + 0 /\ given'[u] = given[u] + 0
  BY <1>1 DEF Passed
<1> QED
  BY <1>3, <1>4, StaysBalanced DEF Balanced

LEMMA AdjustingBalances ==
  ASSUME Orderly, Balanced, Adjusted
  PROVE  Balanced'
<1>1. PICK a \in User, m \in Int : /\ wallet' = [wallet EXCEPT ![a] = @ + m]
                                   /\ given' = [given EXCEPT ![a] = @ + m]
  BY DEF Adjusted
<1>2. wallet \in [User -> Int] /\ given \in [User -> Int]
  BY DEF Orderly, TypeOK
<1>3. Costs' = Costs /\ \A u : Keeping(u)' = Keeping(u)
  BY DEF Adjusted, Costs, Keeping, Counted
<1>4. ASSUME NEW u \in User
      PROVE  \E n \in Int : wallet'[u] = wallet[u] + n /\ given'[u] = given[u] + n
  <2>1. CASE u = a
    BY <1>1, <1>2, <2>1
  <2>2. CASE u # a
    <3>1. wallet'[u] = wallet[u] + 0 /\ given'[u] = given[u] + 0
      BY <1>1, <1>2, <2>2
    <3> QED
      BY <3>1
  <2> QED
    BY <2>1, <2>2
<1> QED
  BY <1>3, <1>4, StaysBalanced DEF Balanced

LEMMA StillBalanced ==
  ASSUME Balanced, NoMoney
  PROVE  Balanced'
<1>1. Costs' = Costs /\ wallet' = wallet /\ given' = given
      /\ \A u : Keeping(u)' = Keeping(u)
  BY DEF NoMoney, Costs, Keeping, Counted
<1> QED
  BY <1>1 DEF Balanced

\* Every wallet is what an admin gave less what redemptions keep, however many
\* requests buy, decide and refund at once.
THEOREM WalletsAreRight == Spec => []WalletsAddUp
<1>1. Init => Orderly /\ Balanced
  <2> SUFFICES ASSUME Init PROVE Balanced
    BY InitOrderly
  <2>1. \A u \in User : Keeping(u) = {}
    BY DEF Init, NoRedemption, Keeping, Counted, Open
  <2>2. SumOver(Costs, {}) = 0
    BY SumOfNone
  <2>3. \A u \in User : SumOver(Costs, Keeping(u)) = 0
    BY <2>1, <2>2
  <2>4. \A u \in User : wallet[u] = 0 /\ given[u] = 0
    BY DEF Init
  <2> QED
    BY <2>3, <2>4 DEF Balanced
<1>2. Orderly /\ Balanced /\ [Next]_vars => (Orderly /\ Balanced)'
  <2> SUFFICES ASSUME Orderly, Balanced, [Next]_vars PROVE (Orderly /\ Balanced)'
    OBVIOUS
  <2>1. CASE UNCHANGED vars
    BY <2>1, StutterOrderly, StillBalanced DEF vars, NoMoney
  <2>2. ASSUME NEW w \in Request, Step(w)
        PROVE  (Orderly /\ Balanced)'
    <3>1. Orderly'
      BY <2>2, StepOrderly
    <3> QED
      BY <2>2, <3>1, MoneySteps, StillBalanced, AdjustingBalances, BuyingBalances,
         PassingBalances, RefundBalances
  <2> QED
    BY <2>1, <2>2 DEF Next
<1>3. Balanced => WalletsAddUp
  BY BalancedMeans
<1> QED
  BY <1>1, <1>2, <1>3, PTL DEF Spec

----------------------------------------------------------------------------
(* Requests that wait for each other.                                      *)

\* Locks of different rows are different.
LEMMA RowNames ==
  /\ \A r, s : RewardRow(r) = RewardRow(s) <=> r = s
  /\ \A r, u, i : /\ RewardRow(r) # UserRow(u) /\ RewardRow(r) # RedemptionRow(i)
                  /\ UserRow(u) # RedemptionRow(i)
  /\ \A r, s, u : /\ RewardRow(r) # SeatRow(s, u) /\ UserRow(r) # SeatRow(s, u)
                  /\ RedemptionRow(r) # SeatRow(s, u)
  /\ \A x, y : /\ CompanyRow # RewardRow(x) /\ CompanyRow # UserRow(x)
               /\ CompanyRow # RedemptionRow(x) /\ CompanyRow # SeatRow(x, y)
BY DEF RewardRow, UserRow, RedemptionRow, SeatRow, CompanyRow

\* Where a request stands that names no executor and edits no account.
Plain == {"DEBIT", "RECORD", "DELIVER", "RESTOCK", "REFUND", "WRITE", "CLEAR"}

\* What a plain request can hold.
LEMMA PlainLocks ==
  ASSUME Orderly, NEW w \in Request, req[w].at \in Plain
  PROVE  /\ CompanyRow \notin req[w].held
         /\ \A r, u : SeatRow(r, u) \notin req[w].held
         /\ (\E u : UserRow(u) \in req[w].held) => At(w, "RECORD")
         /\ \A r : RewardRow(r) \in req[w].held => r = req[w].reward
         /\ At(w, "RESTOCK") => \A r : RewardRow(r) \notin req[w].held
<1>1. LocksFit(w)
  BY Before
<1>2. CASE At(w, "DEBIT")
  BY <1>1, <1>2, RowNames DEF LocksFit, At
<1>3. CASE At(w, "RECORD")
  BY <1>1, <1>3, RowNames DEF LocksFit, At
<1>4. CASE At(w, "DELIVER") \/ At(w, "RESTOCK")
  BY <1>1, <1>4, RowNames DEF LocksFit, At
<1>5. CASE At(w, "REFUND")
  BY <1>1, <1>5, RowNames DEF LocksFit, At
<1>6. CASE At(w, "WRITE") \/ At(w, "CLEAR")
  <2>1. req[w].held \subseteq {RewardRow(req[w].reward), CompanyKey}
    BY <1>1, <1>6 DEF LocksFit, At, RewardLocks
  <2> QED
    BY <1>6, <2>1, RowNames, NotTheKey DEF At
<1> QED
  BY <1>2, <1>3, <1>4, <1>5, <1>6 DEF Plain, At

\* What a plain request waits for.
LEMMA PlainWants ==
  ASSUME NEW w \in Request
  PROVE  /\ At(w, "DEBIT") => Wanted(w) = {UserRow(req[w].actor)}
         /\ At(w, "RECORD") \/ At(w, "DELIVER") => Wanted(w) = {CompanyRow}
         /\ At(w, "RESTOCK") => Wanted(w) = {RewardRow(req[w].reward)}
         /\ At(w, "REFUND") => Wanted(w) = {UserRow(redemption[req[w].slot].user)}
         /\ At(w, "WRITE") => Wanted(w) \subseteq {RewardRow(req[w].reward)}
         /\ At(w, "CLEAR") => \A l \in Wanted(w) : \E u : l = SeatRow(req[w].reward, u)
         /\ req[w].at \notin Plain \cup {"SEAT", "INSERT", "STRIP", "EDIT"} => Wanted(w) = {}
BY DEF Wanted, At, LocksRow, Plain

\* A plain request that blocks a plain one records a purchase of theirs, or has
\* the reward they want.
LEMMA PlainBlocks ==
  ASSUME Orderly, NEW x \in Request, NEW y \in Request, x # y,
         req[x].at \in Plain, req[y].at \in Plain, Blocks(y, x)
  PROVE  \/ (At(x, "DEBIT") \/ At(x, "REFUND")) /\ At(y, "RECORD")
         \/ /\ At(x, "RESTOCK") \/ At(x, "WRITE")
            /\ RewardRow(req[x].reward) \in req[y].held
BY PlainLocks, PlainWants DEF Blocks, Plain, At

\* Waiting leads from a reward to an account and from there to the company: of
\* some plain requests, one waits for none of the others.
LEMMA PlainCircle ==
  ASSUME Orderly, NEW S \in SUBSET Request, S # {},
         \A w \in S : req[w].at \in Plain,
         \A w \in S : \E v \in S \ {w} : Blocks(v, w)
  PROVE  FALSE
<1>1. ASSUME NEW x \in S
      PROVE  \E y \in S \ {x} :
               \/ (At(x, "DEBIT") \/ At(x, "REFUND")) /\ At(y, "RECORD")
               \/ /\ At(x, "RESTOCK") \/ At(x, "WRITE")
                  /\ RewardRow(req[x].reward) \in req[y].held
  BY PlainBlocks
<1>2. \A x \in S : ~At(x, "RECORD")
  BY <1>1 DEF At
<1>3. \A x \in S :
        /\ At(x, "RESTOCK") \/ At(x, "WRITE")
        /\ \E y \in S \ {x} : RewardRow(req[x].reward) \in req[y].held
  BY <1>1, <1>2
<1>4. PICK x \in S : TRUE
  OBVIOUS
<1>5. PICK y \in S \ {x} : RewardRow(req[x].reward) \in req[y].held
  BY <1>3
<1>6. RewardRow(req[y].reward) \in req[y].held
  BY <1>5, PlainLocks
<1>7. PICK z \in S \ {y} : RewardRow(req[y].reward) \in req[z].held
  BY <1>3
<1> QED
  BY <1>6, <1>7, Before, NotTheKey DEF LocksApart

\* In every circle, however long, one names an executor, takes a permission away
\* or edits an account: purchases, refunds and forms alone never deadlock.
THEOREM NoPlainCircles == Spec => []CirclesNeedAdmins
<1>1. ASSUME Orderly
      PROVE  CirclesNeedAdmins
  <2>1. ASSUME NEW x \in Request, NEW y \in Request, Blocks(y, x)
        PROVE  req[x].at \in Plain \cup {"SEAT", "INSERT", "STRIP", "EDIT"}
    BY <2>1, PlainWants DEF Blocks
  <2>2. ASSUME NEW S \in (SUBSET Request) \ {{}}, \A w \in S : \E v \in S \ {w} : Blocks(v, w)
        PROVE  \E x \in S : req[x].at \in {"SEAT", "INSERT", "STRIP", "EDIT"}
    <3>1. S \in SUBSET Request /\ S # {}
      OBVIOUS
    <3>2. ASSUME \A x \in S : req[x].at \notin {"SEAT", "INSERT", "STRIP", "EDIT"} PROVE FALSE
      <4>1. \A w \in S : req[w].at \in Plain
        BY <2>1, <2>2, <3>1, <3>2
      <4> QED
        BY <1>1, <2>2, <3>1, <4>1, PlainCircle
    <3> QED
      BY <3>2
  <2> QED
    BY <2>2 DEF CirclesNeedAdmins
<1> QED
  BY <1>1, AlwaysOrderly, PTL
=============================================================================
