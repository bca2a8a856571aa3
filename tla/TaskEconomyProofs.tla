------------------------- MODULE TaskEconomyProofs -------------------------
(* What is proved of the task engine for every company, every set of tasks *)
(* and every amount.                                                       *)
EXTENDS TaskEconomy, Sums, SequenceTheorems

----------------------------------------------------------------------------
(* The arithmetic of payouts.                                              *)

\* A partial payout is an amount of coins.
LEMMA PartialPayoutType ==
  ASSUME NEW r \in Nat, NEW p \in Nat
  PROVE  PartialPayout(r, p) \in Nat
<1>1. r * p \in Nat
  OBVIOUS
<1>2. \A x \in Nat : 2 * ((x + 199) \div 200) \in Nat
  OBVIOUS
<1> QED
  BY <1>1, <1>2 DEF PartialPayout

\* Rounding to whole coins keeps an amount an amount.
LEMMA RoundCoinsType ==
  ASSUME NEW x \in Nat
  PROVE  RoundCoins(x) \in Nat
BY DEF RoundCoins, Coin

\* What a partial acceptance pays is an amount, and never more than is left of
\* the promise.
LEMMA PartialDueBounded ==
  ASSUME NEW t \in Task, NEW pct \in Nat,
         econ[t].reward \in Nat, econ[t].paid \in Nat
  PROVE  /\ PartialDue(t, pct) \in Nat
         /\ econ[t].paid <= econ[t].reward =>
              econ[t].paid + PartialDue(t, pct) <= econ[t].reward
<1>1. PartialPayout(econ[t].reward, pct) \in Nat
  BY PartialPayoutType
<1> QED
  BY <1>1 DEF PartialDue, AtMost, AtLeastZero, Unpaid

\* The accepted share never takes the verified progress beyond 100.
LEMMA AcceptableBounded ==
  ASSUME NEW t \in Task, NEW pct \in 0..100, econ[t].verified \in 0..100
  PROVE  /\ Acceptable(t, pct) \in Nat
         /\ econ[t].verified + Acceptable(t, pct) \in 0..100
<1>1. \A v \in 0..100 : LET x == AtLeastZero(AtMost(100 - v, pct))
                           IN  x \in Nat /\ v + x \in 0..100
  BY DEF AtMost, AtLeastZero
<1> QED
  BY <1>1 DEF Acceptable

\* Closing the newest pending submission leaves a list of submissions.
LEMMA ClosePendingType ==
  ASSUME NEW S, NEW subs \in Seq(S)
  PROVE  ClosePending(subs) \in Seq(S)
<1>1. CASE subs = <<>>
  BY <1>1 DEF ClosePending
<1>2. CASE subs # <<>>
  <2>1. Len(subs) \in Nat /\ Len(subs) - 1 \in Int
    OBVIOUS
  <2>2. \A i \in 1..(Len(subs) - 1) : subs[i] \in S
    OBVIOUS
  <2> QED
    BY <1>2, <2>1, <2>2 DEF ClosePending
<1> QED
  BY <1>1, <1>2

----------------------------------------------------------------------------
(* Types: what the parts of a step preserve.                               *)

\* Routing a task leaves it a task.
LEMMA RoutedType ==
  ASSUME TypeOK, NEW t \in Task, NEW aud \in Audience, NEW v \in Someone,
         MayRoute(aud, v)
  PROVE  Routed(t, aud, v) \in TaskRow
<1> DEFINE w == IF aud = "PRIVATE" THEN role[v] ELSE task[t].workerRole
           h == History(t) \cup ({aud} \cap Restricted)
           b == Broadens(t, aud, v)
           m == IF v = NoUser THEN "ALL_EMPLOYEES" ELSE "SPECIFIC_EMPLOYEE"
<1>1. task[t] \in TaskRow
  BY DEF TypeOK
<1>2. h \in SUBSET Restricted
  BY <1>1 DEF History, TaskRow
<1>3. b \in BOOLEAN
  BY DEF Broadens
<1>4. w \in Role \cup {"NONE"}
  BY <1>1 DEF TypeOK, TaskRow, MayRoute, Someone
<1>5. m \in Mode
  BY DEF Mode
<1>6. Routed(t, aud, v) =
        [task[t] EXCEPT !.audience = aud, !.assignee = v, !.mode = m,
                        !.restricted = h, !.exposed = b, !.workerRole = w]
  BY DEF Routed
<1> HIDE DEF w, h, b, m
<1>7. [task[t] EXCEPT !.audience = aud, !.assignee = v, !.mode = m] \in TaskRow
  BY <1>1, <1>5 DEF TaskRow
<1> DEFINE x == [task[t] EXCEPT !.audience = aud, !.assignee = v, !.mode = m]
           y == [x EXCEPT !.restricted = h]
<1>8. Routed(t, aud, v) = [y EXCEPT !.exposed = b, !.workerRole = w]
  BY <1>1, <1>6 DEF TaskRow
<1>9. x \in TaskRow
  BY <1>7
<1> HIDE DEF x
<1>10. y \in TaskRow
  BY <1>2, <1>9 DEF TaskRow
<1> HIDE DEF y
<1> QED
  BY <1>3, <1>4, <1>8, <1>10 DEF TaskRow

\* An audience that follows the person is an audience.
LEMMA DerivedType ==
  ASSUME NEW v \in Someone, NEW otherwise \in Audience,
         NEW aud \in Audience \cup {SameAudience}
  PROVE  Derived(aud, v, otherwise) \in Audience
BY DEF Derived, Audience, SameAudience

\* Settling a decision keeps the ledger and the contributions amounts.
LEMMA SettleType ==
  ASSUME TypeOK, NEW t \in Task, NEW u, NEW pct \in Nat, NEW payout \in Nat,
         Settle(t, u, pct, payout)
  PROVE  /\ credited' \in [Task -> [Cycle -> [User -> Nat]]]
         /\ contributed' \in [Task -> [Cycle -> [User -> Share]]]
<1> DEFINE c == econ[t].cycle
           cred == [credited[t][c] EXCEPT ![u] = @ + payout]
           cont == [contributed[t][c] EXCEPT ![u] =
                      [any |-> TRUE, pct |-> @.pct + pct, payout |-> @.payout + payout]]
<1>1. c \in Cycle
  BY DEF TypeOK, EconRow
<1>2. credited[t][c] \in [User -> Nat] /\ contributed[t][c] \in [User -> Share]
  BY <1>1 DEF TypeOK
<1>3. cred \in [User -> Nat] /\ cont \in [User -> Share]
  <2>1. CASE u \in User
    <3>1. credited[t][c][u] \in Nat /\ contributed[t][c][u] \in Share
      BY <1>2, <2>1
    <3>2. credited[t][c][u] + payout \in Nat
      BY <3>1
    <3>3. [any |-> TRUE, pct |-> contributed[t][c][u].pct + pct,
           payout |-> contributed[t][c][u].payout + payout] \in Share
      BY <3>1 DEF Share
    <3> QED
      BY <1>2, <3>2, <3>3
  <2>2. CASE u \notin User
    BY <1>2, <2>2
  <2> QED
    BY <2>1, <2>2
<1>4. credited' = [credited EXCEPT ![t] = [@ EXCEPT ![c] = cred]]
  BY DEF Settle
<1>5. contributed' = [contributed EXCEPT ![t] = [@ EXCEPT ![c] = cont]]
  BY DEF Settle
<1> HIDE DEF c, cred, cont
<1> QED
  BY <1>1, <1>3, <1>4, <1>5 DEF TypeOK

\* Closing a cycle writes a cycle row.
LEMMA CloseCycleType ==
  ASSUME TypeOK, NEW t \in Task, NEW outcome \in {"APPROVED", "CANCELLED"},
         NEW paid \in Nat, NEW verified \in 0..100,
         CloseCycle(t, outcome, paid, verified)
  PROVE  row' \in [Task -> [Cycle -> CycleRow]]
BY DEF TypeOK, CloseCycle, CycleRow

\* Work keeps the types.
LEMMA WorkStepType ==
  ASSUME TypeOK, NEW a \in User, NEW s \in Role, NEW t \in Task, WorkStep(a, s, t)
  PROVE  TypeOK'
<1> DEFINE x == task[t]
<1>1. x \in TaskRow /\ a \in Someone /\ NoUser \in Someone
  BY DEF TypeOK, Someone
<1>2. SUFFICES /\ task' \in [Task -> TaskRow]
               /\ UNCHANGED <<userVars, econ, row, credited, contributed>>
               /\ fined' \in [User -> Nat]
  BY DEF TypeOK, userVars
<1>3. CASE ClaimTask(a, s, t)
  <2>1. [x EXCEPT !.owner = a, !.status = "IN_PROGRESS", !.assignee = NoUser] \in TaskRow
    BY <1>1 DEF TaskRow, Status
  <2> QED
    BY <1>3, <2>1 DEF ClaimTask, TypeOK, bookVars
<1>4. CASE DeclineAssignment(a, s, t)
  <2> DEFINE owned == /\ x.owner = a /\ x.status \in {"IN_PROGRESS", "REJECTED"}
                      /\ x.mode = "SPECIFIC_EMPLOYEE"
             o == IF owned THEN NoUser ELSE x.owner
             st == IF owned THEN "OPEN" ELSE x.status
             r == IF owned THEN 0 ELSE x.reported
  <2>1. /\ task' = [task EXCEPT ![t].assignee = NoUser, ![t].owner = o,
                                 ![t].status = st, ![t].reported = r]
        /\ UNCHANGED <<userVars, bookVars>>
    BY <1>4 DEF DeclineAssignment
  <2>2. o \in Someone /\ st \in Status /\ r \in 0..100
    BY <1>1 DEF TaskRow, Status
  <2> HIDE DEF x, o, st, r
  <2>3. [x EXCEPT !.assignee = NoUser, !.owner = o, !.status = st, !.reported = r] \in TaskRow
    BY <1>1, <2>2 DEF TaskRow
  <2> QED
    BY <2>1, <2>3 DEF x, TypeOK, bookVars
<1>5. CASE \E p \in DOMAIN ClaimPenalty : ReturnClaim(a, s, t, p)
  <2>1. PICK p \in DOMAIN ClaimPenalty : ReturnClaim(a, s, t, p)
    BY <1>5
  <2>2. ClaimPenalty[p] \in Nat
    BY DEF ClaimPenalty
  <2>3. [x EXCEPT !.owner = NoUser, !.status = "OPEN", !.reported = 0] \in TaskRow
    <3>1. "OPEN" \in Status /\ 0 \in 0..100
      BY DEF Status
    <3> HIDE DEF x
    <3> QED
      BY <1>1, <3>1 DEF TaskRow
  <2> QED
    BY <2>1, <2>2, <2>3 DEF ReturnClaim, TypeOK
<1>6. CASE \E pct \in Pcts : ReportProgress(a, s, t, pct)
  <2>1. PICK pct \in Pcts : ReportProgress(a, s, t, pct)
    BY <1>6
  <2>2. [x EXCEPT !.reported = pct] \in TaskRow
    BY <1>1, InputsAssumption DEF TaskRow
  <2> QED
    BY <2>1, <2>2 DEF ReportProgress, TypeOK, bookVars
<1>7. CASE SubmitWork(a, s, t)
  <2> DEFINE sub == [cycle |-> econ[t].cycle, user |-> a]
  <2>1. PICK pct \in Pcts \cup {x.reported} :
          task' = [task EXCEPT
            ![t].status = "SUBMITTED", ![t].reported = pct, ![t].submitted = TRUE,
            ![t].pending = Append(@, sub)]
    BY <1>7 DEF SubmitWork
  <2>2. pct \in 0..100
    BY <1>1, InputsAssumption DEF TaskRow
  <2>3. sub \in [cycle : Cycle, user : Someone]
    BY <1>1 DEF TypeOK, EconRow
  <2>4. Append(x.pending, sub) \in Seq([cycle : Cycle, user : Someone])
    BY <1>1, <2>3 DEF TaskRow
  <2>5. [x EXCEPT !.status = "SUBMITTED", !.reported = pct, !.submitted = TRUE,
                  !.pending = Append(x.pending, sub)] \in TaskRow
    BY <1>1, <2>2, <2>4 DEF TaskRow, Status
  <2> QED
    BY <1>7, <2>1, <2>5 DEF SubmitWork, TypeOK, bookVars
<1>8. CASE ResumeWork(a, s, t)
  <2>1. [x EXCEPT !.status = "IN_PROGRESS"] \in TaskRow
    BY <1>1 DEF TaskRow, Status
  <2> QED
    BY <1>8, <2>1 DEF ResumeWork, TypeOK, bookVars
<1> QED
  BY <1>3, <1>4, <1>5, <1>6, <1>7, <1>8 DEF WorkStep

\* Creating a task keeps the types.
LEMMA CreateTaskType ==
  ASSUME TypeOK, NEW a \in User, NEW s \in Role, NEW t \in Task, NEW scope \in Scopes,
         NEW aud \in Audiences, NEW mode \in Mode, NEW v \in Someone, NEW reward \in Rewards,
         CreateTask(a, s, t, scope, aud, mode, v, reward)
  PROVE  TypeOK'
<1> DEFINE eff == IF aud = "PRIVATE" \/ mode = "SPECIFIC_EMPLOYEE" THEN v ELSE NoUser
           m == IF aud = "PRIVATE" THEN "SPECIFIC_EMPLOYEE" ELSE mode
           w == IF aud = "PRIVATE" THEN role[v] ELSE "NONE"
           h == {aud} \cap Restricted
           au == Now(a, s, scope)
<1>1. /\ aud = "PRIVATE" => v # NoUser
      /\ task' = [task EXCEPT ![t] =
           [NoTask EXCEPT
              !.status = "OPEN", !.scope = scope, !.creator = a, !.audience = aud,
              !.mode = m, !.assignee = eff, !.restricted = h, !.workerRole = w]]
      /\ econ' = [econ EXCEPT ![t].reward = reward, ![t].author = au]
      /\ row' = [row EXCEPT ![t][1].outcome = "LIVE"]
      /\ UNCHANGED <<userVars, credited, contributed, fined>>
  BY DEF CreateTask
<1>2. /\ eff \in Someone /\ m \in Mode /\ h \in SUBSET Restricted /\ a \in Someone
      /\ scope \in {"COMPANY", "UNIT"} /\ aud \in Audience /\ reward \in Nat
  BY InputsAssumption DEF Someone, Mode
<1>3. w \in Role \cup {"NONE"}
  BY <1>1 DEF TypeOK, Someone
<1>4. au \in Role \cup {"NONE"}
  BY DEF Now, TypeOK
<1>5. NoTask \in TaskRow
  <2>1. <<>> \in Seq([cycle : Cycle, user : Someone])
    OBVIOUS
  <2> QED
    BY <2>1 DEF NoTask, TaskRow, Status, Mode, Audience, Someone
<1> HIDE DEF eff, m, w, h, au
<1>6. [NoTask EXCEPT !.status = "OPEN", !.scope = scope, !.creator = a, !.audience = aud,
                     !.mode = m, !.assignee = eff, !.restricted = h, !.workerRole = w]
        \in TaskRow
  <2>1. "OPEN" \in Status
    BY DEF Status
  <2> DEFINE n == NoTask
  <2>2. n \in TaskRow
    BY <1>5
  <2> HIDE DEF n
  <2>3. [n EXCEPT !.status = "OPEN", !.scope = scope, !.creator = a, !.audience = aud,
                  !.mode = m, !.assignee = eff, !.restricted = h, !.workerRole = w]
          \in TaskRow
    BY <2>1, <2>2, <1>2, <1>3 DEF TaskRow
  <2> QED
    BY <2>3 DEF n
<1>7. task' \in [Task -> TaskRow]
  BY <1>1, <1>6 DEF TypeOK
<1>8. econ' \in [Task -> EconRow]
  <2>1. econ[t] \in EconRow
    BY DEF TypeOK
  <2>2. [econ[t] EXCEPT !.reward = reward, !.author = au] \in EconRow
    BY <2>1, <1>2, <1>4 DEF EconRow
  <2> QED
    BY <1>1, <2>2 DEF TypeOK
<1>9. row' \in [Task -> [Cycle -> CycleRow]]
  <2>1. row[t][1] \in CycleRow
    BY BoundsAssumption DEF TypeOK, Cycle
  <2>2. [row[t][1] EXCEPT !.outcome = "LIVE"] \in CycleRow
    BY <2>1 DEF CycleRow
  <2> QED
    BY <1>1, <2>2 DEF TypeOK
<1> QED
  BY <1>1, <1>7, <1>8, <1>9 DEF TypeOK, userVars

\* Cancelling a task keeps the types.
LEMMA CancelTaskType ==
  ASSUME TypeOK, NEW a \in User, NEW s \in Role, NEW t \in Task, NEW pct0 \in 0..100,
         CancelTask(a, s, t, pct0)
  PROVE  TypeOK'
<1> DEFINE pct == IF task[t].owner = NoUser THEN 0 ELSE Acceptable(t, pct0)
           payout == PartialDue(t, pct)
           own == OwnPromise(a, s, t, payout)
<1>1. /\ IF pct > 0 THEN Settle(t, task[t].owner, pct, payout)
         ELSE UNCHANGED <<credited, contributed>>
      /\ econ' = [econ EXCEPT ![t].paid = @ + payout, ![t].verified = @ + pct,
                              ![t].ownPromise = own]
      /\ CloseCycle(t, "CANCELLED", econ[t].paid + payout, econ[t].verified + pct)
      /\ task' = [task EXCEPT ![t].status = "CANCELLED",
                              ![t].pending = ClosePending(@)]
      /\ UNCHANGED <<userVars, fined>>
  BY DEF CancelTask
<1>2. econ[t] \in EconRow /\ task[t] \in TaskRow
  BY DEF TypeOK
<1>3. econ[t].paid \in Nat /\ econ[t].reward \in Nat /\ econ[t].verified \in 0..100
  BY <1>2 DEF EconRow
<1>4. pct \in Nat /\ econ[t].verified + pct \in 0..100
  <2>1. /\ Acceptable(t, pct0) \in Nat
        /\ econ[t].verified + Acceptable(t, pct0) \in 0..100
    BY <1>3, AcceptableBounded
  <2> QED
    BY <1>3, <2>1
<1>5. payout \in Nat
  BY <1>3, <1>4, PartialDueBounded
<1>6. own \in BOOLEAN
  BY <1>2 DEF OwnPromise, EconRow
<1>7. ClosePending(task[t].pending) \in Seq([cycle : Cycle, user : Someone])
  BY <1>2, ClosePendingType DEF TaskRow
<1> HIDE DEF pct, payout, own
<1>8. task' \in [Task -> TaskRow]
  <2>1. "CANCELLED" \in Status
    BY DEF Status
  <2>2. [task[t] EXCEPT !.status = "CANCELLED", !.pending = ClosePending(task[t].pending)]
          \in TaskRow
    BY <1>2, <1>7, <2>1 DEF TaskRow
  <2> QED
    BY <1>1, <2>2 DEF TypeOK
<1>9. econ' \in [Task -> EconRow]
  <2>1. econ[t].paid + payout \in Nat
    BY <1>3, <1>5
  <2> QED
    BY <1>1, <1>2, <2>1, <1>4, <1>6 DEF TypeOK, EconRow
<1>10. row' \in [Task -> [Cycle -> CycleRow]]
  <2>1. econ[t].paid + payout \in Nat
    BY <1>3, <1>5
  <2> QED
    BY <1>1, <1>4, <2>1, CloseCycleType
<1>11. /\ credited' \in [Task -> [Cycle -> [User -> Nat]]]
       /\ contributed' \in [Task -> [Cycle -> [User -> Share]]]
  BY <1>1, <1>4, <1>5, SettleType DEF TypeOK
<1> QED
  BY <1>1, <1>8, <1>9, <1>10, <1>11 DEF TypeOK, userVars

\* A new cycle keeps the types.
LEMMA NewCycleType ==
  ASSUME TypeOK, NEW a \in User, NEW s \in Role, NEW t \in Task, NEW closed,
         NEW v \in Someone, NEW audience \in Audiences \cup {SameAudience},
         NewCycle(a, s, t, closed, v, audience)
  PROVE  TypeOK'
<1> DEFINE aud == IF audience = SameAudience THEN task[t].audience ELSE audience
           next == econ[t].cycle + 1
           x == Routed(t, aud, v)
<1>1. /\ next <= MaxCycle /\ MayRoute(aud, v)
      /\ task' = [task EXCEPT ![t] =
           [x EXCEPT !.status = "OPEN", !.owner = NoUser, !.reported = 0,
                     !.submitted = FALSE]]
      /\ econ' = [econ EXCEPT ![t].cycle = next, ![t].paid = 0, ![t].verified = 0]
      /\ row' = [row EXCEPT ![t][next].outcome = "LIVE"]
      /\ UNCHANGED <<userVars, credited, contributed, fined>>
  BY DEF NewCycle
<1>2. task[t] \in TaskRow /\ econ[t] \in EconRow
  BY DEF TypeOK
<1>3. aud \in Audience
  BY <1>2, InputsAssumption DEF TaskRow
<1>4. next \in Cycle
  BY <1>1, <1>2, BoundsAssumption DEF EconRow, Cycle
<1>5. x \in TaskRow
  BY <1>1, <1>3, RoutedType
<1> HIDE DEF aud, next, x
<1>6. task' \in [Task -> TaskRow]
  <2>1. "OPEN" \in Status /\ 0 \in 0..100 /\ NoUser \in Someone
    BY DEF Status, Someone
  <2>2. [x EXCEPT !.status = "OPEN", !.owner = NoUser, !.reported = 0, !.submitted = FALSE]
          \in TaskRow
    BY <1>5, <2>1 DEF TaskRow
  <2> QED
    BY <1>1, <2>2 DEF TypeOK
<1>7. econ' \in [Task -> EconRow]
  <2>1. [econ[t] EXCEPT !.cycle = next, !.paid = 0, !.verified = 0] \in EconRow
    <3>1. 0 \in Nat /\ 0 \in 0..100
      OBVIOUS
    <3> QED
      BY <1>2, <1>4, <3>1 DEF EconRow
  <2> QED
    BY <1>1, <2>1 DEF TypeOK
<1>8. row' \in [Task -> [Cycle -> CycleRow]]
  <2>1. row[t][next] \in CycleRow
    BY <1>4 DEF TypeOK
  <2>2. [row[t][next] EXCEPT !.outcome = "LIVE"] \in CycleRow
    BY <2>1 DEF CycleRow
  <2> QED
    BY <1>1, <2>2 DEF TypeOK
<1> QED
  BY <1>1, <1>6, <1>7, <1>8 DEF TypeOK, userVars

\* Routing, rewarding, granting, cancelling and starting cycles keep the types.
LEMMA ManageStepType ==
  ASSUME TypeOK, NEW a \in User, NEW s \in Role, NEW t \in Task, ManageStep(a, s, t)
  PROVE  TypeOK'
<1>1. CASE \E scope \in Scopes, aud \in Audiences, mode \in Mode, v \in Someone, w \in Rewards :
             CreateTask(a, s, t, scope, aud, mode, v, w)
  BY <1>1, CreateTaskType
<1>2. CASE \E w \in Rewards : EditReward(a, s, t, w)
  <2>1. PICK w \in Rewards : EditReward(a, s, t, w)
    BY <1>2
  <2>2. econ[t] \in EconRow /\ w \in Nat
    BY InputsAssumption DEF TypeOK
  <2>3. Now(a, s, task[t].scope) \in Role
    BY DEF Now, TypeOK
  <2>4. [econ[t] EXCEPT !.reward = w, !.author = Now(a, s, task[t].scope)] \in EconRow
    BY <2>2, <2>3 DEF EconRow
  <2> QED
    BY <2>1, <2>4 DEF EditReward, TypeOK, userVars
<1>3. CASE \E pct \in Pcts : CancelTask(a, s, t, pct)
  BY <1>3, CancelTaskType, InputsAssumption
<1>4. CASE \E p \in Panels : SetAccess(a, s, t, p[1], p[2])
  <2>1. PICK p \in Panels : SetAccess(a, s, t, p[1], p[2])
    BY <1>4
  <2>2. task[t] \in TaskRow /\ p[1] \in SUBSET User /\ p[2] \in SUBSET User
    BY InputsAssumption DEF TypeOK
  <2>3. [task[t] EXCEPT !.viewers = p[1], !.reviewers = p[2]] \in TaskRow
    BY <2>2 DEF TaskRow
  <2> QED
    BY <2>1, <2>3 DEF SetAccess, TypeOK, userVars, bookVars
<1>5. ASSUME NEW v \in Someone, NEW aud \in Audiences \cup {SameAudience},
             Reassign(a, s, t, v, aud)
      PROVE  TypeOK'
  <2> DEFINE eff == IF task[t].audience = "PRIVATE" /\ aud = SameAudience
                    THEN "PRIVATE" ELSE Derived(aud, v, task[t].audience)
  <2>1. /\ MayRoute(eff, v)
        /\ task' = [task EXCEPT ![t] = Routed(t, eff, v)]
        /\ UNCHANGED <<userVars, bookVars>>
    BY <1>5 DEF Reassign
  <2>2. eff \in Audience
    <3>1. task[t].audience \in Audience /\ aud \in Audience \cup {SameAudience}
      BY InputsAssumption DEF TypeOK, TaskRow
    <3>2. Derived(aud, v, task[t].audience) \in Audience
      BY <3>1, DerivedType
    <3> QED
      BY <3>2 DEF Audience
  <2>3. Routed(t, eff, v) \in TaskRow
    BY <2>1, <2>2, RoutedType
  <2> QED
    BY <2>1, <2>3 DEF TypeOK, userVars, bookVars
<1>6. ASSUME NEW v \in Someone, NEW aud \in Audiences \cup {SameAudience},
             ReopenTask(a, s, t, v, aud) \/ ReactivateTask(a, s, t, v, aud)
      PROVE  TypeOK'
  BY <1>6, NewCycleType DEF ReopenTask, ReactivateTask
<1> QED
  BY <1>1, <1>2, <1>3, <1>4, <1>5, <1>6 DEF ManageStep

\* A handoff keeps the types.
LEMMA HandoffType ==
  ASSUME TypeOK, NEW a \in User, NEW s \in Role, NEW t \in Task, NEW pct0 \in 0..100,
         NEW v \in Someone, NEW audience \in Audiences \cup {SameAudience},
         NEW left \in Leftovers \cup {Keep},
         Handoff(a, s, t, pct0, v, audience, left)
  PROVE  TypeOK'
<1> DEFINE pct == Acceptable(t, pct0)
           payout == PartialDue(t, pct)
           aud == Derived(audience, v, task[t].audience)
           overridden == left # Keep /\ RoundCoins(left) # Unpaid(t) - payout
           own == OwnPromise(a, s, t, payout)
           reward == IF left = Keep THEN econ[t].reward
                     ELSE econ[t].paid + payout + RoundCoins(left)
           author == IF overridden THEN Now(a, s, task[t].scope) ELSE econ[t].author
           x == Routed(t, aud, v)
<1>1. /\ MayRoute(aud, v)
      /\ Settle(t, task[t].owner, pct, payout)
      /\ econ' = [econ EXCEPT ![t].paid = @ + payout, ![t].verified = @ + pct,
                              ![t].reward = reward, ![t].ownPromise = own,
                              ![t].author = author]
      /\ task' = [task EXCEPT ![t] =
           [x EXCEPT !.status = "OPEN", !.owner = NoUser, !.reported = 0,
                     !.pending = ClosePending(@)]]
      /\ UNCHANGED <<userVars, row, fined>>
  BY DEF Handoff
<1>2. econ[t] \in EconRow /\ task[t] \in TaskRow
  BY DEF TypeOK
<1>3. /\ econ[t].paid \in Nat /\ econ[t].reward \in Nat /\ econ[t].verified \in 0..100
      /\ econ[t].author \in Role \cup {"NONE"} /\ econ[t].ownPromise \in BOOLEAN
  BY <1>2 DEF EconRow
<1>4. pct \in Nat /\ econ[t].verified + pct \in 0..100
  BY <1>3, AcceptableBounded
<1>5. payout \in Nat
  BY <1>3, <1>4, PartialDueBounded
<1>6. own \in BOOLEAN
  BY <1>3 DEF OwnPromise
<1>7. reward \in Nat
  <2>1. left # Keep => RoundCoins(left) \in Nat
    BY InputsAssumption, RoundCoinsType
  <2> QED
    BY <1>3, <1>5, <2>1
<1>8. author \in Role \cup {"NONE"}
  BY <1>3 DEF Now, TypeOK
<1>9. x \in TaskRow
  <2>1. aud \in Audience
    BY <1>2, InputsAssumption, DerivedType DEF TaskRow
  <2> QED
    BY <1>1, <2>1, RoutedType
<1> HIDE DEF pct, payout, aud, own, reward, author, x
<1>10. task' \in [Task -> TaskRow]
  <2>1. ClosePending(x.pending) \in Seq([cycle : Cycle, user : Someone])
    BY <1>9, ClosePendingType DEF TaskRow
  <2>2. "OPEN" \in Status /\ 0 \in 0..100 /\ NoUser \in Someone
    BY DEF Status, Someone
  <2>3. [x EXCEPT !.status = "OPEN", !.owner = NoUser, !.reported = 0,
                  !.pending = ClosePending(x.pending)] \in TaskRow
    BY <1>9, <2>1, <2>2 DEF TaskRow
  <2> QED
    BY <1>1, <2>3 DEF TypeOK
<1>11. econ' \in [Task -> EconRow]
  <2>1. econ[t].paid + payout \in Nat
    BY <1>3, <1>5
  <2>2. [econ[t] EXCEPT !.paid = econ[t].paid + payout, !.verified = econ[t].verified + pct,
                        !.reward = reward, !.ownPromise = own, !.author = author]
          \in EconRow
    BY <1>2, <1>4, <1>6, <1>7, <1>8, <2>1 DEF EconRow
  <2> QED
    BY <1>1, <2>2 DEF TypeOK
<1>12. /\ credited' \in [Task -> [Cycle -> [User -> Nat]]]
       /\ contributed' \in [Task -> [Cycle -> [User -> Share]]]
  BY <1>1, <1>4, <1>5, SettleType
<1> QED
  BY <1>1, <1>10, <1>11, <1>12 DEF TypeOK, userVars

\* Review decisions keep the types.
LEMMA ReviewStepType ==
  ASSUME TypeOK, NEW a \in User, NEW s \in Role, NEW t \in Task, ReviewStep(a, s, t)
  PROVE  TypeOK'
<1>1. /\ task[t] \in TaskRow /\ econ[t] \in EconRow
      /\ ClosePending(task[t].pending) \in Seq([cycle : Cycle, user : Someone])
  BY ClosePendingType DEF TypeOK, TaskRow
<1>2. \A st \in Status : [task[t] EXCEPT !.status = st, !.pending = ClosePending(task[t].pending)]
                         \in TaskRow
  BY <1>1 DEF TaskRow
<1>3. CASE ApproveWork(a, s, t)
  <2> DEFINE due == Unpaid(t)
             own == OwnPromise(a, s, t, due)
  <2>1. /\ Settle(t, task[t].owner, 100 - econ[t].verified, due)
        /\ econ' = [econ EXCEPT ![t].paid = @ + due, ![t].verified = 100,
                                ![t].ownPromise = own]
        /\ CloseCycle(t, "APPROVED", econ[t].paid + due, 100)
        /\ task' = [task EXCEPT ![t].status = "APPROVED", ![t].pending = ClosePending(@)]
        /\ UNCHANGED <<userVars, fined>>
    BY <1>3 DEF ApproveWork, RestToAccept
  <2>2. due \in Nat /\ econ[t].paid + due \in Nat /\ 100 - econ[t].verified \in Nat
    <3>1. econ[t].paid \in Nat /\ econ[t].reward \in Nat /\ econ[t].verified \in 0..100
      BY <1>1 DEF EconRow
    <3>2. \A n \in 0..100 : 100 - n \in Nat
      OBVIOUS
    <3> QED
      BY <3>1, <3>2 DEF Unpaid, AtLeastZero
  <2>3. own \in BOOLEAN
    BY <1>1 DEF EconRow, OwnPromise
  <2> HIDE DEF due, own
  <2>4. [econ[t] EXCEPT !.paid = econ[t].paid + due, !.verified = 100, !.ownPromise = own]
          \in EconRow
    <3>1. 100 \in 0..100
      OBVIOUS
    <3> QED
      BY <1>1, <2>2, <2>3, <3>1 DEF EconRow
  <2>5. task' \in [Task -> TaskRow] /\ econ' \in [Task -> EconRow]
    BY <1>2, <2>1, <2>4 DEF TypeOK, Status
  <2>6. row' \in [Task -> [Cycle -> CycleRow]]
    BY <2>1, <2>2, CloseCycleType
  <2>7. /\ credited' \in [Task -> [Cycle -> [User -> Nat]]]
        /\ contributed' \in [Task -> [Cycle -> [User -> Share]]]
    BY <2>1, <2>2, SettleType
  <2> QED
    BY <2>1, <2>5, <2>6, <2>7 DEF TypeOK, userVars
<1>4. CASE RejectWork(a, s, t)
  <2>1. task' \in [Task -> TaskRow]
    BY <1>2, <1>4 DEF RejectWork, TypeOK, Status
  <2> QED
    BY <1>4, <2>1 DEF RejectWork, TypeOK, userVars, bookVars
<1>5. CASE \E pct \in Pcts, v \in Someone, aud \in Audiences \cup {SameAudience},
             left \in Leftovers \cup {Keep} :
            Handoff(a, s, t, pct, v, aud, left)
  BY <1>5, HandoffType, InputsAssumption
<1> QED
  BY <1>3, <1>4, <1>5 DEF ReviewStep

\* Account edits keep the types.
LEMMA AccountStepType ==
  ASSUME TypeOK, NEW a \in User, NEW s \in Role, AccountStep(a, s)
  PROVE  TypeOK'
<1>1. CASE \E u \in User, l \in Limits : UpdateCapacity(a, s, u, l)
  BY <1>1, InputsAssumption DEF UpdateCapacity, TypeOK, bookVars
<1>2. CASE \E u \in Editable, r \in Role, act \in BOOLEAN, l \in Limits :
             UpdateUser(a, s, u, r, act, l)
  BY <1>2, InputsAssumption DEF UpdateUser, TypeOK, bookVars
<1> QED
  BY <1>1, <1>2 DEF AccountStep

\* Every step keeps the types.
LEMMA NextType ==
  ASSUME TypeOK, [Next]_vars
  PROVE  TypeOK'
<1>1. CASE Next
  <2>0. PICK a \in User : \E s \in held[a] :
          \/ \E t \in Task : WorkStep(a, s, t) \/ ManageStep(a, s, t) \/ ReviewStep(a, s, t)
          \/ AccountStep(a, s)
    BY <1>1 DEF Next
  <2>1. PICK s \in held[a] :
          \/ \E t \in Task : WorkStep(a, s, t) \/ ManageStep(a, s, t) \/ ReviewStep(a, s, t)
          \/ AccountStep(a, s)
    BY <2>0
  <2>2. s \in Role
    BY DEF TypeOK
  <2> QED
    BY <2>1, <2>2, WorkStepType, ManageStepType, ReviewStepType, AccountStepType
<1>2. CASE UNCHANGED vars
  BY <1>2 DEF TypeOK, vars, userVars, bookVars
<1> QED
  BY <1>1, <1>2

\* The company starts with well-typed records.
LEMMA InitType == Init => TypeOK
<1> SUFFICES ASSUME Init PROVE TypeOK
  OBVIOUS
<1>1. NoTask \in TaskRow
  <2>1. <<>> \in Seq([cycle : Cycle, user : Someone])
    OBVIOUS
  <2> QED
    BY <2>1 DEF NoTask, TaskRow, Status, Mode, Audience, Someone
<1>2. limit \in [User -> 1..100]
  BY InputsAssumption DEF Init
<1>3. 1 \in Cycle
  BY BoundsAssumption DEF Cycle
<1> QED
  BY <1>1, <1>2, <1>3, UsersAssumption DEF Init, TypeOK, EconRow, CycleRow, Share

\* Type correctness: whatever the commands and their order, every record of the
\* task engine keeps its type; verified progress, for one, never leaves 0..100.
THEOREM TypeCorrect == Spec => []TypeOK
<1>1. Init => TypeOK
  BY InitType
<1>2. TypeOK /\ [Next]_vars => TypeOK'
  BY NextType
<1> QED
  BY <1>1, <1>2, PTL DEF Spec
----------------------------------------------------------------------------
(* The books of a task are right for every company and every sequence of  *)
(* commands: no cycle pays more than it promises, what the ledger says of a *)
(* worker is what the contributions say, a closed cycle is history, and a   *)
(* reward stands while somebody works for it.                               *)

\* The inductive invariant, task by task.  PaidWithinPromise alone is not
\* inductive: a task that does not exist yet could hold a balance already, and
\* a new cycle could start on a row that was closed before.
PaidFits(t) == econ[t].paid <= econ[t].reward

FreshIsEmpty(t) == task[t].status = "ABSENT" => econ[t].paid = 0 /\ econ[t].cycle = 1

NothingForNothing(t) == econ[t].verified = 0 => econ[t].paid = 0

FutureIsBlank(t) == \A c \in Cycle : c > econ[t].cycle => row[t][c].outcome = "ABSENT"

HeldHasOwner(t) ==
  task[t].status \in {"IN_PROGRESS", "SUBMITTED", "REJECTED"} => task[t].owner # NoUser

PendingFits(t) ==
  task[t].pending =
    IF task[t].status = "SUBMITTED"
    THEN <<[cycle |-> econ[t].cycle, user |-> task[t].owner]>> ELSE <<>>

SharesFit(t) ==
  \A c \in Cycle, u \in User : credited[t][c][u] = contributed[t][c][u].payout

TaskBooks(t) ==
  /\ PaidFits(t) /\ FreshIsEmpty(t) /\ NothingForNothing(t) /\ FutureIsBlank(t)
  /\ HeldHasOwner(t) /\ PendingFits(t) /\ SharesFit(t)

Books == TypeOK /\ \A t \in Task : TaskBooks(t)

----------------------------------------------------------------------------
(* The frame: a command on one task leaves the others alone.               *)

Same(t) ==
  /\ task'[t] = task[t] /\ econ'[t] = econ[t] /\ row'[t] = row[t]
  /\ credited'[t] = credited[t] /\ contributed'[t] = contributed[t]

\* What was true of the books of a task stays true while nothing touches them.
LEMMA SameKeepsBooks ==
  ASSUME NEW t \in Task, TaskBooks(t), Same(t)
  PROVE  TaskBooks(t)'
BY DEF Same, TaskBooks, PaidFits, FreshIsEmpty, NothingForNothing, FutureIsBlank,
       HeldHasOwner, PendingFits, SharesFit

\* Settling touches the ledger and the contributions of one task only, there
\* those of the current cycle only, and both by the same amount.
LEMMA SettleEffect ==
  ASSUME TypeOK, NEW t \in Task, NEW w, NEW pct \in Nat, NEW payout \in Nat,
         Settle(t, w, pct, payout)
  PROVE  /\ \A o \in Task \ {t} : credited'[o] = credited[o] /\ contributed'[o] = contributed[o]
         /\ \A c \in Cycle \ {econ[t].cycle} :
              credited'[t][c] = credited[t][c] /\ contributed'[t][c] = contributed[t][c]
         /\ SharesFit(t) => SharesFit(t)'
<1> DEFINE d == econ[t].cycle
<1>1. d \in Cycle
  BY DEF TypeOK, EconRow
<1>2. /\ credited \in [Task -> [Cycle -> [User -> Nat]]]
      /\ contributed \in [Task -> [Cycle -> [User -> Share]]]
  BY DEF TypeOK
<1>3. /\ credited' = [credited EXCEPT ![t][d][w] = @ + payout]
      /\ contributed' = [contributed EXCEPT ![t][d][w] =
           [any |-> TRUE, pct |-> @.pct + pct, payout |-> @.payout + payout]]
  BY DEF Settle
<1> HIDE DEF d
<1>4. \A o \in Task \ {t} : credited'[o] = credited[o] /\ contributed'[o] = contributed[o]
  BY <1>2, <1>3
<1>5. \A c \in Cycle \ {d} :
        credited'[t][c] = credited[t][c] /\ contributed'[t][c] = contributed[t][c]
  BY <1>2, <1>3
<1>6. ASSUME SharesFit(t), NEW c \in Cycle, NEW u \in User
      PROVE  credited'[t][c][u] = contributed'[t][c][u].payout
  <2>1. credited[t][c][u] = contributed[t][c][u].payout
    BY <1>6 DEF SharesFit
  <2>2. CASE c = d /\ u = w
    BY <1>1, <1>2, <1>3, <2>1, <2>2
  <2>3. CASE c # d
    BY <1>5, <2>1, <2>3
  <2>4. CASE u # w
    BY <1>1, <1>2, <1>3, <2>1, <2>4
  <2> QED
    BY <2>2, <2>3, <2>4
<1> QED
  BY <1>4, <1>5, <1>6 DEF SharesFit, d

----------------------------------------------------------------------------
(* The decisions that pay.                                                 *)

\* A decision accepts pct of the work for payout: the worker's books and the
\* task's advance by the same amount, and the promise still covers it.
Pays(t, pct, payout) ==
  /\ \/ task[t].owner # NoUser /\ Settle(t, task[t].owner, pct, payout)
     \/ pct = 0 /\ payout = 0 /\ UNCHANGED <<credited, contributed>>
  /\ econ'[t].paid = econ[t].paid + payout
  /\ econ'[t].verified = econ[t].verified + pct
  /\ econ'[t].paid <= econ'[t].reward
  /\ econ'[t].verified = 0 => econ[t].verified = 0 /\ payout = 0
  /\ econ'[t].cycle = econ[t].cycle
  /\ \A o \in Task \ {t} : econ'[o] = econ[o]

\* Final approval pays what is left of the reward, which stands.
LEMMA ApprovePays ==
  ASSUME TypeOK, NEW a \in User, NEW s \in Role, NEW t \in Task, PaidFits(t), HeldHasOwner(t),
         ApproveWork(a, s, t)
  PROVE  \E pct \in Nat, payout \in Nat :
           /\ Pays(t, pct, payout)
           /\ econ'[t].paid = econ[t].reward /\ econ'[t].reward = econ[t].reward
<1> DEFINE due == Unpaid(t)
           pct == RestToAccept(t)
<1>1. econ[t] \in EconRow
  BY DEF TypeOK
<1>2. econ[t].paid \in Nat /\ econ[t].reward \in Nat /\ econ[t].verified \in 0..100
  BY <1>1 DEF EconRow
<1>3. /\ Settle(t, task[t].owner, pct, due)
      /\ econ' = [econ EXCEPT ![t].paid = @ + due, ![t].verified = 100,
                              ![t].ownPromise = OwnPromise(a, s, t, due)]
  BY DEF ApproveWork
<1>4. pct \in Nat /\ econ[t].verified + pct = 100
  BY <1>2 DEF RestToAccept
<1>5. due \in Nat /\ econ[t].paid + due = econ[t].reward
  BY <1>2 DEF Unpaid, AtLeastZero, PaidFits
<1> HIDE DEF due, pct
<1>6. /\ econ'[t].paid = econ[t].paid + due /\ econ'[t].reward = econ[t].reward
      /\ econ'[t].verified = 100 /\ econ'[t].cycle = econ[t].cycle
      /\ \A o \in Task \ {t} : econ'[o] = econ[o]
  BY <1>1, <1>3 DEF TypeOK, EconRow
<1>7. Pays(t, pct, due)
  <2>1. econ'[t].paid <= econ'[t].reward
    BY <1>2, <1>5, <1>6
  <2>2. econ'[t].verified # 0
    BY <1>6
  <2>3. task[t].owner # NoUser
    BY DEF ApproveWork, HeldHasOwner
  <2> QED
    BY <1>3, <1>4, <1>6, <2>1, <2>2, <2>3 DEF Pays
<1> QED
  BY <1>4, <1>5, <1>6, <1>7

\* A cancellation pays for the part that is accepted, if any.
LEMMA CancelPays ==
  ASSUME TypeOK, NEW a \in User, NEW s \in Role, NEW t \in Task, NEW pct0 \in 0..100,
         PaidFits(t), CancelTask(a, s, t, pct0)
  PROVE  \E pct \in Nat, payout \in Nat : Pays(t, pct, payout) /\ econ'[t].reward = econ[t].reward
<1> DEFINE pct == IF task[t].owner = NoUser THEN 0 ELSE Acceptable(t, pct0)
           payout == PartialDue(t, pct)
<1>1. econ[t] \in EconRow
  BY DEF TypeOK
<1>2. econ[t].paid \in Nat /\ econ[t].reward \in Nat /\ econ[t].verified \in 0..100
  BY <1>1 DEF EconRow
<1>3. /\ IF pct > 0 THEN Settle(t, task[t].owner, pct, payout)
         ELSE UNCHANGED <<credited, contributed>>
      /\ econ' = [econ EXCEPT ![t].paid = @ + payout, ![t].verified = @ + pct,
                              ![t].ownPromise = OwnPromise(a, s, t, payout)]
  BY DEF CancelTask
<1>4. pct \in Nat
  BY <1>2, AcceptableBounded
<1>5. /\ payout \in Nat /\ econ[t].paid + payout <= econ[t].reward
      /\ pct = 0 => payout = 0
  <2>1. payout \in Nat /\ econ[t].paid + payout <= econ[t].reward
    BY <1>2, <1>4, PartialDueBounded DEF PaidFits
  <2>2. pct = 0 => payout = 0
    BY DEF PartialDue
  <2> QED
    BY <2>1, <2>2
<1>8. pct > 0 => task[t].owner # NoUser
  OBVIOUS
<1> HIDE DEF payout, pct
<1>6. /\ econ'[t].paid = econ[t].paid + payout /\ econ'[t].reward = econ[t].reward
      /\ econ'[t].verified = econ[t].verified + pct /\ econ'[t].cycle = econ[t].cycle
      /\ \A o \in Task \ {t} : econ'[o] = econ[o]
  BY <1>1, <1>3 DEF TypeOK, EconRow
<1>7. Pays(t, pct, payout)
  <2>1. \/ task[t].owner # NoUser /\ Settle(t, task[t].owner, pct, payout)
        \/ pct = 0 /\ payout = 0 /\ UNCHANGED <<credited, contributed>>
    <3>1. CASE pct > 0
      BY <1>3, <1>8, <3>1
    <3>2. CASE ~(pct > 0)
      BY <1>3, <1>4, <1>5, <3>2
    <3> QED
      BY <3>1, <3>2
  <2>2. econ'[t].paid <= econ'[t].reward
    BY <1>5, <1>6
  <2>3. econ'[t].verified = 0 => econ[t].verified = 0 /\ payout = 0
    <3>1. econ'[t].verified = econ[t].verified + pct
      BY <1>6
    <3>2. econ'[t].verified = 0 => econ[t].verified = 0 /\ pct = 0
      BY <1>2, <1>4, <3>1
    <3> QED
      BY <1>5, <3>2
  <2> QED
    BY <1>6, <2>1, <2>2, <2>3 DEF Pays
<1> QED
  BY <1>4, <1>5, <1>6, <1>7

\* A handoff pays for the accepted part; a reward set anew covers what is paid.
LEMMA HandoffPays ==
  ASSUME TypeOK, NEW a \in User, NEW s \in Role, NEW t \in Task, NEW pct0 \in 0..100,
         NEW v \in Someone, NEW audience, NEW left \in Leftovers \cup {Keep},
         PaidFits(t), HeldHasOwner(t), Handoff(a, s, t, pct0, v, audience, left)
  PROVE  \E pct \in Nat, payout \in Nat :
           Pays(t, pct, payout) /\ econ[t].paid + payout <= econ[t].reward
<1> DEFINE pct == Acceptable(t, pct0)
           payout == PartialDue(t, pct)
           overridden == left # Keep /\ RoundCoins(left) # Unpaid(t) - payout
           reward == IF left = Keep THEN econ[t].reward
                     ELSE econ[t].paid + payout + RoundCoins(left)
           author == IF overridden THEN Now(a, s, task[t].scope) ELSE econ[t].author
<1>1. econ[t] \in EconRow
  BY DEF TypeOK
<1>2. econ[t].paid \in Nat /\ econ[t].reward \in Nat /\ econ[t].verified \in 0..100
  BY <1>1 DEF EconRow
<1>3. /\ Settle(t, task[t].owner, pct, payout)
      /\ econ' = [econ EXCEPT ![t].paid = @ + payout, ![t].verified = @ + pct,
                              ![t].reward = reward,
                              ![t].ownPromise = OwnPromise(a, s, t, payout),
                              ![t].author = author]
  BY DEF Handoff
<1>4. pct \in Nat
  BY <1>2, AcceptableBounded
<1>5. /\ payout \in Nat /\ econ[t].paid + payout <= econ[t].reward
      /\ pct = 0 => payout = 0
  <2>1. payout \in Nat /\ econ[t].paid + payout <= econ[t].reward
    BY <1>2, <1>4, PartialDueBounded DEF PaidFits
  <2>2. pct = 0 => payout = 0
    BY DEF PartialDue
  <2> QED
    BY <2>1, <2>2
<1>6. econ[t].paid + payout <= reward
  <2>1. left # Keep => RoundCoins(left) \in Nat
    BY InputsAssumption, RoundCoinsType
  <2> QED
    BY <1>2, <1>5, <2>1
<1> HIDE DEF payout, pct, reward, author
<1>7. /\ econ'[t].paid = econ[t].paid + payout /\ econ'[t].reward = reward
      /\ econ'[t].verified = econ[t].verified + pct /\ econ'[t].cycle = econ[t].cycle
      /\ \A o \in Task \ {t} : econ'[o] = econ[o]
  BY <1>1, <1>3 DEF TypeOK, EconRow
<1>8. Pays(t, pct, payout)
  <2>1. econ'[t].paid <= econ'[t].reward
    BY <1>6, <1>7
  <2>2. econ'[t].verified = 0 => econ[t].verified = 0 /\ payout = 0
    BY <1>2, <1>4, <1>5, <1>7
  <2>3. task[t].owner # NoUser
    BY DEF Handoff, HeldHasOwner
  <2> QED
    BY <1>3, <1>7, <2>1, <2>2, <2>3 DEF Pays
<1> QED
  BY <1>4, <1>5, <1>8

\* A decision that pays keeps the amounts of its task in order.
LEMMA PaysKeepsAmounts ==
  ASSUME TypeOK, NEW t \in Task, NEW pct \in Nat, NEW payout \in Nat,
         Pays(t, pct, payout), TaskBooks(t)
  PROVE  /\ PaidFits(t)' /\ NothingForNothing(t)' /\ SharesFit(t)'
         /\ \A o \in Task \ {t} : /\ econ'[o] = econ[o] /\ credited'[o] = credited[o]
                                  /\ contributed'[o] = contributed[o]
<1>1. PaidFits(t)'
  BY DEF Pays, PaidFits
<1>2. NothingForNothing(t)'
  <2>1. econ[t].paid \in Nat
    BY DEF TypeOK, EconRow
  <2> QED
    BY <2>1 DEF Pays, NothingForNothing, TaskBooks
<1>3. CASE Settle(t, task[t].owner, pct, payout)
  BY <1>1, <1>2, <1>3, SettleEffect DEF Pays, TaskBooks
<1>4. CASE UNCHANGED <<credited, contributed>>
  BY <1>1, <1>2, <1>4 DEF Pays, TaskBooks, SharesFit
<1> QED
  BY <1>3, <1>4 DEF Pays

\* Work is on a task the worker may work on, and changes no books.
LEMMA WorkFrame ==
  ASSUME NEW a, NEW s, NEW t, WorkStep(a, s, t)
  PROVE  Works(a, s, t) /\ UNCHANGED <<econ, row, credited, contributed>>
<1>1. Works(a, s, t)
  BY Zenon DEF WorkStep, ClaimTask, DeclineAssignment, ReturnClaim, ReportProgress, SubmitWork,
     ResumeWork
<1>2. UNCHANGED <<econ, row, credited, contributed>>
  BY Zenon DEF WorkStep, ClaimTask, DeclineAssignment, ReturnClaim, ReportProgress, SubmitWork,
     ResumeWork, bookVars
<1> QED
  BY <1>1, <1>2

\* Only one task changes.
LEMMA WorkOnOne ==
  ASSUME TypeOK, NEW a, NEW s, NEW t \in Task, WorkStep(a, s, t), NEW o \in Task \ {t}
  PROVE  task'[o] = task[o]
<1>1. task \in [Task -> TaskRow]
  BY DEF TypeOK
<1>2. CASE ClaimTask(a, s, t) \/ ResumeWork(a, s, t)
  BY <1>1, <1>2 DEF ClaimTask, ResumeWork
<1>3. CASE DeclineAssignment(a, s, t) \/ \E p \in DOMAIN ClaimPenalty : ReturnClaim(a, s, t, p)
  BY <1>1, <1>3 DEF DeclineAssignment, ReturnClaim
<1>4. CASE SubmitWork(a, s, t) \/ \E pct \in Pcts : ReportProgress(a, s, t, pct)
  BY <1>1, <1>4 DEF SubmitWork, ReportProgress
<1> QED
  BY <1>2, <1>3, <1>4 DEF WorkStep

\* A command on one task leaves every other task as it was.
LEMMA OthersSame ==
  ASSUME Books, NEW a \in User, NEW s \in Role, NEW t \in Task,
         WorkStep(a, s, t) \/ ManageStep(a, s, t) \/ ReviewStep(a, s, t),
         NEW o \in Task \ {t}
  PROVE  Same(o)
<1> USE DEF Books
<1>1. CASE WorkStep(a, s, t)
  BY <1>1, WorkFrame, WorkOnOne DEF Same
<1>2. ASSUME NEW scope, NEW aud, NEW mode, NEW v, NEW w, CreateTask(a, s, t, scope, aud, mode, v, w)
      PROVE  Same(o)
  BY <1>2 DEF CreateTask, Same, TypeOK
<1>3. ASSUME NEW w, EditReward(a, s, t, w)
      PROVE  Same(o)
  BY <1>3 DEF EditReward, Same, TypeOK
<1>4. ASSUME NEW p, SetAccess(a, s, t, p[1], p[2])
      PROVE  Same(o)
  BY <1>4 DEF SetAccess, Same, bookVars, TypeOK
<1>5. ASSUME NEW v, NEW aud, Reassign(a, s, t, v, aud)
      PROVE  Same(o)
  BY <1>5 DEF Reassign, Same, bookVars, TypeOK
<1>6. ASSUME NEW closed, NEW v, NEW aud, NewCycle(a, s, t, closed, v, aud)
      PROVE  Same(o)
  BY <1>6 DEF NewCycle, Same, TypeOK
<1>7. CASE RejectWork(a, s, t)
  BY <1>7 DEF RejectWork, Same, bookVars, TypeOK
<1>8. CASE ApproveWork(a, s, t)
  <2>1. PICK pct \in Nat, payout \in Nat : Pays(t, pct, payout)
    BY <1>8, ApprovePays DEF TaskBooks
  <2>2. econ'[o] = econ[o] /\ credited'[o] = credited[o] /\ contributed'[o] = contributed[o]
    BY <2>1, PaysKeepsAmounts
  <2> QED
    BY <1>8, <2>2 DEF ApproveWork, CloseCycle, Same, TypeOK
<1>9. ASSUME NEW pct0 \in Pcts, CancelTask(a, s, t, pct0)
      PROVE  Same(o)
  <2>1. PICK pct \in Nat, payout \in Nat : Pays(t, pct, payout)
    BY <1>9, CancelPays, InputsAssumption DEF TaskBooks
  <2>2. econ'[o] = econ[o] /\ credited'[o] = credited[o] /\ contributed'[o] = contributed[o]
    BY <2>1, PaysKeepsAmounts
  <2>3. task'[o] = task[o] /\ row'[o] = row[o]
    BY <1>9 DEF CancelTask, CloseCycle, TypeOK
  <2> QED
    BY <2>2, <2>3 DEF Same
<1>10. ASSUME NEW pct0 \in Pcts, NEW v \in Someone, NEW aud, NEW left \in Leftovers \cup {Keep},
              Handoff(a, s, t, pct0, v, aud, left)
       PROVE  Same(o)
  <2>1. PICK pct \in Nat, payout \in Nat : Pays(t, pct, payout)
    BY <1>10, HandoffPays, InputsAssumption DEF TaskBooks
  <2>2. econ'[o] = econ[o] /\ credited'[o] = credited[o] /\ contributed'[o] = contributed[o]
    BY <2>1, PaysKeepsAmounts
  <2>3. task'[o] = task[o] /\ row'[o] = row[o]
    BY <1>10 DEF Handoff, TypeOK
  <2> QED
    BY <2>2, <2>3 DEF Same
<1> QED
  BY <1>1, <1>2, <1>3, <1>4, <1>5, <1>6, <1>7, <1>8, <1>9, <1>10
     DEF ManageStep, ReviewStep, ReopenTask, ReactivateTask

----------------------------------------------------------------------------
(* Each command keeps the books of its own task.                           *)

\* A decision closes the one pending submission there is.
LEMMA ClosesPending ==
  ASSUME NEW t \in Task, PendingFits(t)
  PROVE  ClosePending(task[t].pending) = <<>>
BY DEF PendingFits, ClosePending

\* Only an absent task can be created, and only a present one be seen.
LEMMA SeenIsPresent ==
  ASSUME NEW a, NEW s, NEW t,
         Works(a, s, t) \/ Manages(a, s, t) \/ Reviews(a, s, t)
  PROVE  task[t].status # "ABSENT"
BY DEF Works, Manages, Reviews, Sees

\* Work changes neither amounts nor rows.
LEMMA WorkKeepsBooks ==
  ASSUME Books, NEW a \in User, NEW s \in Role, NEW t \in Task, WorkStep(a, s, t)
  PROVE  TaskBooks(t)'
<1>1. task[t] \in TaskRow /\ TaskBooks(t) /\ a # NoUser
  BY UsersAssumption DEF Books, TypeOK
<1>2. UNCHANGED <<econ, row, credited, contributed>>
  BY WorkFrame
<1>3. /\ task'[t].status # "ABSENT"
      /\ HeldHasOwner(t)' /\ PendingFits(t)'
  <2>0. task \in [Task -> TaskRow]
    BY DEF Books, TypeOK
  <2>1. CASE ClaimTask(a, s, t)
    BY <1>1, <1>2, <2>0, <2>1 DEF ClaimTask, TaskRow, TaskBooks, HeldHasOwner, PendingFits
  <2>2. CASE DeclineAssignment(a, s, t)
    BY <1>1, <1>2, <2>0, <2>2, SeenIsPresent
       DEF DeclineAssignment, TaskRow, TaskBooks, HeldHasOwner, PendingFits
  <2>3. CASE \E p \in DOMAIN ClaimPenalty : ReturnClaim(a, s, t, p)
    BY <1>1, <1>2, <2>0, <2>3 DEF ReturnClaim, TaskRow, TaskBooks, HeldHasOwner, PendingFits
  <2>4. CASE \E pct \in Pcts : ReportProgress(a, s, t, pct)
    BY <1>1, <1>2, <2>0, <2>4 DEF ReportProgress, TaskRow, TaskBooks, HeldHasOwner, PendingFits
  <2>5. CASE SubmitWork(a, s, t)
    <3>1. task[t].pending = <<>> /\ task[t].owner = a
      BY <1>1, <2>5 DEF SubmitWork, TaskBooks, PendingFits
    <3>2. /\ task'[t].status = "SUBMITTED" /\ task'[t].owner = a
          /\ task'[t].pending = Append(<<>>, [cycle |-> econ[t].cycle, user |-> a])
      BY <1>1, <2>0, <2>5, <3>1 DEF SubmitWork, TaskRow
    <3> QED
      BY <1>1, <1>2, <3>2 DEF HeldHasOwner, PendingFits
  <2>6. CASE ResumeWork(a, s, t)
    BY <1>1, <1>2, <2>0, <2>6 DEF ResumeWork, TaskRow, TaskBooks, HeldHasOwner, PendingFits
  <2> QED
    BY <2>1, <2>2, <2>3, <2>4, <2>5, <2>6 DEF WorkStep
<1> QED
  BY <1>1, <1>2, <1>3
     DEF TaskBooks, PaidFits, FreshIsEmpty, NothingForNothing, FutureIsBlank, SharesFit

\* A decision that pays keeps the books when it also settles the workflow: the
\* submission is closed and nobody is left to hand one in.
LEMMA DecisionKeepsBooks ==
  ASSUME Books, NEW t \in Task, TaskBooks(t), NEW pct \in Nat, NEW payout \in Nat,
         Pays(t, pct, payout),
         task'[t].status \in {"OPEN", "APPROVED", "CANCELLED"}, task'[t].pending = <<>>,
         \A c \in Cycle \ {econ[t].cycle} : row'[t][c] = row[t][c]
  PROVE  TaskBooks(t)'
<1>1. PaidFits(t)' /\ NothingForNothing(t)' /\ SharesFit(t)'
  BY PaysKeepsAmounts DEF Books
<1>2. econ'[t].cycle = econ[t].cycle /\ econ[t].cycle \in Nat
  BY DEF Pays, Books, TypeOK, EconRow, Cycle
<1>3. FutureIsBlank(t)'
  BY <1>2 DEF FutureIsBlank, TaskBooks, Cycle
<1> QED
  BY <1>1, <1>3 DEF TaskBooks, FreshIsEmpty, HeldHasOwner, PendingFits

\* Creating a task opens its books.
LEMMA CreateKeepsBooks ==
  ASSUME Books, NEW a, NEW s, NEW t \in Task, NEW scope, NEW aud, NEW mode, NEW v,
         NEW reward \in Rewards, CreateTask(a, s, t, scope, aud, mode, v, reward)
  PROVE  TaskBooks(t)'
<1>1. TaskBooks(t) /\ TypeOK /\ task[t].status = "ABSENT" /\ econ[t] \in EconRow
  BY DEF Books, TypeOK, CreateTask
<1>2. /\ task'[t].status = "OPEN" /\ task'[t].owner = NoUser /\ task'[t].pending = <<>>
  BY <1>1 DEF CreateTask, NoTask, TypeOK
<1>3. /\ econ'[t].reward = reward /\ econ'[t].paid = econ[t].paid
      /\ econ'[t].cycle = econ[t].cycle /\ econ'[t].verified = econ[t].verified
  BY <1>1 DEF CreateTask, TypeOK, EconRow
<1>4. econ[t].paid = 0 /\ econ[t].cycle = 1 /\ reward \in Nat
  BY <1>1, InputsAssumption DEF TaskBooks, FreshIsEmpty
<1>5. row'[t] = [row[t] EXCEPT ![1].outcome = "LIVE"] /\ row[t] \in [Cycle -> CycleRow]
  BY <1>1 DEF CreateTask, TypeOK
<1>6. FutureIsBlank(t)'
  <2>1. \A c \in Cycle : c > 1 => row'[t][c] = row[t][c]
    BY <1>5
  <2> QED
    BY <1>1, <1>3, <1>4, <2>1 DEF FutureIsBlank, TaskBooks
<1>7. credited' = credited /\ contributed' = contributed
  BY DEF CreateTask
<1> QED
  BY <1>1, <1>2, <1>3, <1>4, <1>6, <1>7
     DEF TaskBooks, PaidFits, FreshIsEmpty, NothingForNothing, HeldHasOwner, PendingFits, SharesFit

\* A new cycle opens on a blank row with nothing paid.
LEMMA NewCycleKeepsBooks ==
  ASSUME Books, NEW a, NEW s, NEW t \in Task, NEW closed \in Terminal, NEW v, NEW aud,
         NewCycle(a, s, t, closed, v, aud)
  PROVE  TaskBooks(t)'
<1> DEFINE next == econ[t].cycle + 1
<1>1. TaskBooks(t) /\ TypeOK /\ econ[t] \in EconRow /\ task[t] \in TaskRow
  BY DEF Books, TypeOK
<1>2. task[t].pending = <<>>
  BY <1>1 DEF TaskBooks, PendingFits, NewCycle, Terminal
<1>3. /\ task'[t].status = "OPEN" /\ task'[t].pending = task[t].pending
  BY <1>1 DEF NewCycle, Routed, TypeOK, TaskRow
<1>4. /\ econ'[t].paid = 0 /\ econ'[t].cycle = next /\ econ'[t].reward = econ[t].reward
      /\ econ[t].reward \in Nat /\ econ[t].cycle \in Nat
  BY <1>1 DEF NewCycle, TypeOK, EconRow, Cycle
<1>5. row'[t] = [row[t] EXCEPT ![next].outcome = "LIVE"] /\ row[t] \in [Cycle -> CycleRow]
  BY <1>1 DEF NewCycle, TypeOK
<1>6. FutureIsBlank(t)'
  <2>1. \A c \in Cycle : c > next => row'[t][c] = row[t][c] /\ c > econ[t].cycle
    BY <1>4, <1>5 DEF Cycle
  <2> QED
    BY <1>1, <1>4, <2>1 DEF FutureIsBlank, TaskBooks
<1>7. credited' = credited /\ contributed' = contributed
  BY DEF NewCycle
<1> QED
  BY <1>1, <1>2, <1>3, <1>4, <1>6, <1>7
     DEF TaskBooks, PaidFits, FreshIsEmpty, NothingForNothing, HeldHasOwner, PendingFits, SharesFit

\* Management keeps the books of the task it manages.
LEMMA ManageKeepsBooks ==
  ASSUME Books, NEW a \in User, NEW s \in Role, NEW t \in Task, ManageStep(a, s, t)
  PROVE  TaskBooks(t)'
<1>1. TaskBooks(t) /\ TypeOK /\ econ[t] \in EconRow /\ task[t] \in TaskRow
  BY DEF Books, TypeOK
<1>2. CASE \E scope \in Scopes, aud \in Audiences, mode \in Mode, v \in Someone, w \in Rewards :
             CreateTask(a, s, t, scope, aud, mode, v, w)
  BY <1>2, CreateKeepsBooks
<1>3. ASSUME NEW w \in Rewards, EditReward(a, s, t, w)
      PROVE  TaskBooks(t)'
  <2>1. /\ econ'[t].reward = w /\ econ'[t].paid = econ[t].paid /\ w >= econ[t].paid
        /\ econ'[t].cycle = econ[t].cycle /\ econ'[t].verified = econ[t].verified
    BY <1>1, <1>3 DEF EditReward, TypeOK, EconRow
  <2>2. UNCHANGED <<task, row, credited, contributed>>
    BY <1>3 DEF EditReward
  <2>3. PaidFits(t)'
    BY <1>1, <2>1, InputsAssumption DEF PaidFits, EconRow
  <2> QED
    BY <1>1, <2>1, <2>2, <2>3
       DEF TaskBooks, FreshIsEmpty, NothingForNothing, FutureIsBlank, HeldHasOwner,
           PendingFits, SharesFit
<1>4. ASSUME NEW pct0 \in Pcts, CancelTask(a, s, t, pct0)
      PROVE  TaskBooks(t)'
  <2>1. PICK pct \in Nat, payout \in Nat : Pays(t, pct, payout)
    BY <1>1, <1>4, CancelPays, InputsAssumption DEF TaskBooks
  <2>2. task'[t].status = "CANCELLED" /\ task'[t].pending = <<>>
    BY <1>1, <1>4, ClosesPending DEF CancelTask, TypeOK, TaskRow, TaskBooks
  <2>3. \A c \in Cycle \ {econ[t].cycle} : row'[t][c] = row[t][c]
    BY <1>1, <1>4 DEF CancelTask, CloseCycle, TypeOK
  <2> QED
    BY <1>1, <2>1, <2>2, <2>3, DecisionKeepsBooks
<1>5. ASSUME NEW p \in Panels, SetAccess(a, s, t, p[1], p[2])
      PROVE  TaskBooks(t)'
  <2>1. /\ task'[t].status = task[t].status /\ task'[t].owner = task[t].owner
        /\ task'[t].pending = task[t].pending
    BY <1>1, <1>5 DEF SetAccess, TypeOK, TaskRow
  <2> QED
    BY <1>1, <1>5, <2>1
       DEF SetAccess, bookVars, TaskBooks, PaidFits, FreshIsEmpty, NothingForNothing,
           FutureIsBlank, HeldHasOwner, PendingFits, SharesFit
<1>6. ASSUME NEW v \in Someone, NEW aud, Reassign(a, s, t, v, aud)
      PROVE  TaskBooks(t)'
  <2>1. /\ task'[t].status = task[t].status /\ task'[t].owner = task[t].owner
        /\ task'[t].pending = task[t].pending
    BY <1>1, <1>6 DEF Reassign, Routed, TypeOK, TaskRow
  <2> QED
    BY <1>1, <1>6, <2>1
       DEF Reassign, bookVars, TaskBooks, PaidFits, FreshIsEmpty, NothingForNothing,
           FutureIsBlank, HeldHasOwner, PendingFits, SharesFit
<1>7. ASSUME NEW v \in Someone, NEW aud,
             ReopenTask(a, s, t, v, aud) \/ ReactivateTask(a, s, t, v, aud)
      PROVE  TaskBooks(t)'
  BY <1>7, NewCycleKeepsBooks DEF ReopenTask, ReactivateTask, Terminal
<1> QED
  BY <1>2, <1>3, <1>4, <1>5, <1>6, <1>7 DEF ManageStep

\* Review keeps the books of the task under review.
LEMMA ReviewKeepsBooks ==
  ASSUME Books, NEW a \in User, NEW s \in Role, NEW t \in Task, ReviewStep(a, s, t)
  PROVE  TaskBooks(t)'
<1>1. TaskBooks(t) /\ TypeOK /\ econ[t] \in EconRow /\ task[t] \in TaskRow
  BY DEF Books, TypeOK
<1>2. CASE ApproveWork(a, s, t)
  <2>1. PICK pct \in Nat, payout \in Nat : Pays(t, pct, payout)
    BY <1>1, <1>2, ApprovePays DEF TaskBooks
  <2>2. task'[t].status = "APPROVED" /\ task'[t].pending = <<>>
    BY <1>1, <1>2, ClosesPending DEF ApproveWork, TypeOK, TaskRow, TaskBooks
  <2>3. \A c \in Cycle \ {econ[t].cycle} : row'[t][c] = row[t][c]
    BY <1>1, <1>2 DEF ApproveWork, CloseCycle, TypeOK
  <2> QED
    BY <1>1, <2>1, <2>2, <2>3, DecisionKeepsBooks
<1>3. CASE RejectWork(a, s, t)
  <2>1. /\ task'[t].status = "REJECTED" /\ task'[t].pending = <<>>
        /\ task'[t].owner = task[t].owner /\ task[t].status = "SUBMITTED"
    BY <1>1, <1>3, ClosesPending DEF RejectWork, TypeOK, TaskRow, TaskBooks
  <2> QED
    BY <1>1, <1>3, <2>1
       DEF RejectWork, bookVars, TaskBooks, PaidFits, FreshIsEmpty, NothingForNothing,
           FutureIsBlank, HeldHasOwner, PendingFits, SharesFit
<1>4. ASSUME NEW pct0 \in Pcts, NEW v \in Someone, NEW aud, NEW left \in Leftovers \cup {Keep},
             Handoff(a, s, t, pct0, v, aud, left)
      PROVE  TaskBooks(t)'
  <2>1. PICK pct \in Nat, payout \in Nat : Pays(t, pct, payout)
    BY <1>1, <1>4, HandoffPays, InputsAssumption DEF TaskBooks
  <2>2. task'[t].status = "OPEN" /\ task'[t].pending = <<>>
    BY <1>1, <1>4, ClosesPending DEF Handoff, Routed, TypeOK, TaskRow, TaskBooks
  <2>3. \A c \in Cycle \ {econ[t].cycle} : row'[t][c] = row[t][c]
    BY <1>4 DEF Handoff
  <2> QED
    BY <1>1, <2>1, <2>2, <2>3, DecisionKeepsBooks
<1> QED
  BY <1>2, <1>3, <1>4 DEF ReviewStep

----------------------------------------------------------------------------
(* The theorems.                                                           *)

\* The books are right at the start.
LEMMA InitBooks == Init => Books
<1> SUFFICES ASSUME Init PROVE Books
  OBVIOUS
<1>1. TypeOK
  BY InitType
<1>2. \A t \in Task : task[t] = NoTask
  BY DEF Init
<1> QED
  BY <1>1, <1>2
     DEF Init, Books, NoTask, TaskBooks, PaidFits, FreshIsEmpty, NothingForNothing,
         FutureIsBlank, HeldHasOwner, PendingFits, SharesFit

\* A step is a command on one task, an edit of accounts, or nothing.
LEMMA StepCases ==
  ASSUME Books, [Next]_vars
  PROVE  \/ \E a \in User, s \in Role, t \in Task :
              WorkStep(a, s, t) \/ ManageStep(a, s, t) \/ ReviewStep(a, s, t)
         \/ UNCHANGED <<task, bookVars>>
<1>1. CASE Next
  <2>1. PICK a \in User : \E s \in held[a] :
          \/ \E t \in Task : WorkStep(a, s, t) \/ ManageStep(a, s, t) \/ ReviewStep(a, s, t)
          \/ AccountStep(a, s)
    BY <1>1 DEF Next
  <2>2. PICK s \in held[a] :
          \/ \E t \in Task : WorkStep(a, s, t) \/ ManageStep(a, s, t) \/ ReviewStep(a, s, t)
          \/ AccountStep(a, s)
    BY <2>1
  <2>3. s \in Role
    BY DEF Books, TypeOK
  <2>4. AccountStep(a, s) => UNCHANGED <<task, bookVars>>
    BY DEF AccountStep, UpdateCapacity, UpdateUser
  <2> QED
    BY <2>2, <2>3, <2>4
<1>2. CASE UNCHANGED vars
  BY <1>2 DEF vars
<1> QED
  BY <1>1, <1>2

\* Every step keeps the books.
LEMMA NextBooks ==
  ASSUME Books, [Next]_vars
  PROVE  Books'
<1>1. TypeOK'
  BY NextType DEF Books
<1>2. ASSUME NEW t \in Task
      PROVE  TaskBooks(t)'
  <2>1. ASSUME NEW a \in User, NEW s \in Role, NEW o \in Task,
               WorkStep(a, s, o) \/ ManageStep(a, s, o) \/ ReviewStep(a, s, o)
        PROVE  TaskBooks(t)'
    <3>1. CASE t = o
      BY <2>1, <3>1, WorkKeepsBooks, ManageKeepsBooks, ReviewKeepsBooks
    <3>2. CASE t # o
      <4>1. Same(t)
        BY <2>1, <3>2, OthersSame
      <4> QED
        BY <4>1, SameKeepsBooks DEF Books
    <3> QED
      BY <3>1, <3>2
  <2>2. CASE UNCHANGED <<task, bookVars>>
    BY <2>2, SameKeepsBooks DEF Books, Same, bookVars
  <2> QED
    BY <2>1, <2>2, StepCases
<1> QED
  BY <1>1, <1>2 DEF Books

\* The inductive invariant holds of every behaviour.
THEOREM BooksAlwaysRight == Spec => []Books
<1>1. Init => Books
  BY InitBooks
<1>2. Books /\ [Next]_vars => Books'
  BY NextBooks
<1> QED
  BY <1>1, <1>2, PTL DEF Spec

\* For every reward, percentage and sequence of handoffs with overridden
\* rewards, edits and cancellations, a cycle never pays more than it promises.
THEOREM NeverOverpaid == Spec => []PaidWithinPromise
<1>1. Books => PaidWithinPromise
  BY DEF Books, TaskBooks, PaidFits, PaidWithinPromise
<1> QED
  BY <1>1, BooksAlwaysRight, PTL

\* The ledger credits every worker what the contributions record, cycle by
\* cycle, whoever handed the task on to whom.
THEOREM LedgerMatchesContributions == Spec => []LedgerByWorker
<1>1. Books => LedgerByWorker
  BY DEF Books, TaskBooks, SharesFit, LedgerByWorker
<1> QED
  BY <1>1, BooksAlwaysRight, PTL

\* A review decision always closes exactly what the owner handed in.
THEOREM OneSubmissionPending == Spec => []OnePendingSubmission
<1>1. Books => OnePendingSubmission
  BY DEF Books, TaskBooks, PendingFits, OnePendingSubmission
<1> QED
  BY <1>1, BooksAlwaysRight, PTL

----------------------------------------------------------------------------
(* What no step may do.                                                    *)

\* A command leaves the closed cycles of its own task alone.
LEMMA OwnCyclesFrozen ==
  ASSUME Books, NEW a \in User, NEW s \in Role, NEW t \in Task, NEW c \in Cycle,
         WorkStep(a, s, t) \/ ManageStep(a, s, t) \/ ReviewStep(a, s, t),
         Past(t, c) \/ task[t].status \in Terminal
  PROVE  /\ row[t][c].outcome \in Terminal => row'[t][c] = row[t][c]
         /\ c <= econ[t].cycle => /\ credited'[t][c] = credited[t][c]
                                  /\ contributed'[t][c] = contributed[t][c]
<1>1. TaskBooks(t) /\ TypeOK /\ econ[t] \in EconRow /\ econ[t].cycle \in Nat /\ c \in Nat
  <2>1. TaskBooks(t) /\ TypeOK
    BY DEF Books
  <2>2. econ[t] \in EconRow
    BY <2>1 DEF TypeOK
  <2>3. econ[t].cycle \in Cycle /\ Cycle \subseteq Nat
    BY <2>2 DEF EconRow, Cycle
  <2> QED
    BY <2>1, <2>2, <2>3
<1> DEFINE frozen == /\ row[t][c].outcome \in Terminal => row'[t][c] = row[t][c]
                     /\ c <= econ[t].cycle => /\ credited'[t][c] = credited[t][c]
                                              /\ contributed'[t][c] = contributed[t][c]
<1>2. CASE WorkStep(a, s, t)
  <2>1. row' = row /\ credited' = credited /\ contributed' = contributed
    BY <1>2, WorkFrame
  <2> QED
    BY <2>1
\* Decisions are taken on live tasks, so only the past is at stake.
<1>3. ASSUME NEW pct \in Nat, NEW payout \in Nat, Pays(t, pct, payout),
             task[t].status \notin Terminal,
             \A d \in Cycle \ {econ[t].cycle} : row'[t][d] = row[t][d]
      PROVE  frozen
  <2>1. Past(t, c)
    BY <1>3
  <2>2. c # econ[t].cycle
    BY <1>1, <2>1 DEF Past
  <2>3. CASE Settle(t, task[t].owner, pct, payout)
    BY <1>1, <1>3, <2>2, <2>3, SettleEffect
  <2>4. CASE UNCHANGED <<credited, contributed>>
    BY <1>3, <2>2, <2>4
  <2> QED
    BY <1>3, <2>3, <2>4 DEF Pays
<1>4. CASE ReviewStep(a, s, t)
  <2>1. CASE ApproveWork(a, s, t)
    <3>1. PICK pct \in Nat, payout \in Nat : Pays(t, pct, payout)
      BY <1>1, <2>1, ApprovePays DEF TaskBooks
    <3>2. /\ task[t].status \notin Terminal
          /\ \A d \in Cycle \ {econ[t].cycle} : row'[t][d] = row[t][d]
      BY <1>1, <2>1 DEF ApproveWork, CloseCycle, TypeOK, Terminal
    <3> QED
      BY <1>3, <3>1, <3>2
  <2>2. CASE RejectWork(a, s, t)
    BY <2>2 DEF RejectWork, bookVars
  <2>3. ASSUME NEW pct0 \in Pcts, NEW v \in Someone, NEW aud, NEW left \in Leftovers \cup {Keep},
               Handoff(a, s, t, pct0, v, aud, left)
        PROVE  frozen
    <3>1. PICK pct \in Nat, payout \in Nat : Pays(t, pct, payout)
      BY <1>1, <2>3, HandoffPays, InputsAssumption DEF TaskBooks
    <3>2. /\ task[t].status \notin Terminal
          /\ \A d \in Cycle \ {econ[t].cycle} : row'[t][d] = row[t][d]
      BY <2>3 DEF Handoff, Terminal
    <3> QED
      BY <1>3, <3>1, <3>2
  <2> QED
    BY <1>4, <2>1, <2>2, <2>3 DEF ReviewStep
<1>5. CASE ManageStep(a, s, t)
  <2>1. ASSUME NEW scope, NEW aud, NEW mode, NEW v, NEW w, CreateTask(a, s, t, scope, aud, mode, v, w)
        PROVE  frozen
    <3>1. task[t].status = "ABSENT" /\ econ[t].cycle = 1
      BY <1>1, <2>1 DEF CreateTask, TaskBooks, FreshIsEmpty
    <3>2. c < 1
      BY <1>1, <3>1 DEF Past, Terminal
    <3> QED
      BY <3>2 DEF Cycle
  <2>2. ASSUME NEW w, EditReward(a, s, t, w)
        PROVE  frozen
    BY <2>2 DEF EditReward
  <2>3. ASSUME NEW pct0 \in Pcts, CancelTask(a, s, t, pct0)
        PROVE  frozen
    <3>1. PICK pct \in Nat, payout \in Nat : Pays(t, pct, payout)
      BY <1>1, <2>3, CancelPays, InputsAssumption DEF TaskBooks
    <3>2. /\ task[t].status \notin Terminal
          /\ \A d \in Cycle \ {econ[t].cycle} : row'[t][d] = row[t][d]
      BY <1>1, <2>3 DEF CancelTask, CloseCycle, TypeOK
    <3> QED
      BY <1>3, <3>1, <3>2
  <2>4. ASSUME NEW p, SetAccess(a, s, t, p[1], p[2])
        PROVE  frozen
    BY <2>4 DEF SetAccess, bookVars
  <2>5. ASSUME NEW v, NEW aud, Reassign(a, s, t, v, aud)
        PROVE  frozen
    BY <2>5 DEF Reassign, bookVars
  <2>6. ASSUME NEW closed, NEW v, NEW aud, NewCycle(a, s, t, closed, v, aud)
        PROVE  frozen
    <3> DEFINE next == econ[t].cycle + 1
    <3>1. /\ row'[t] = [row[t] EXCEPT ![next].outcome = "LIVE"]
          /\ row[t] \in [Cycle -> CycleRow]
      BY <1>1, <2>6 DEF NewCycle, TypeOK
    <3>2. UNCHANGED <<credited, contributed>>
      BY <2>6 DEF NewCycle
    <3>3. CASE c = next
      BY <1>1, <3>2, <3>3 DEF TaskBooks, FutureIsBlank, Terminal
    <3>4. CASE c # next
      BY <3>1, <3>2, <3>4
    <3> QED
      BY <3>3, <3>4
  <2> QED
    BY <1>5, <2>1, <2>2, <2>3, <2>4, <2>5, <2>6 DEF ManageStep, ReopenTask, ReactivateTask
<1> QED
  BY <1>2, <1>4, <1>5

\* Closed cycles are history in every behaviour: no command, on this task or on
\* another, rewrites the outcome or the payments of a cycle that was closed.
THEOREM HistoryIsFinal == Spec => ClosedCyclesFrozen
<1>1. ASSUME Books, [Next]_vars
      PROVE  KeepsClosedCycles
  <2> SUFFICES ASSUME NEW t \in Task, NEW c \in Cycle,
                      Past(t, c) \/ task[t].status \in Terminal
               PROVE  /\ row[t][c].outcome \in Terminal => row'[t][c] = row[t][c]
                      /\ c <= econ[t].cycle => /\ credited'[t][c] = credited[t][c]
                                               /\ contributed'[t][c] = contributed[t][c]
    BY DEF KeepsClosedCycles
  <2>1. ASSUME NEW a \in User, NEW s \in Role, NEW o \in Task,
               WorkStep(a, s, o) \/ ManageStep(a, s, o) \/ ReviewStep(a, s, o), t # o
        PROVE  Same(t)
    BY <1>1, <2>1, OthersSame
  <2>2. CASE UNCHANGED <<task, bookVars>>
    BY <2>2 DEF bookVars
  <2> QED
    BY <1>1, <2>1, <2>2, StepCases, OwnCyclesFrozen DEF Same
<1> QED
  BY <1>1, BooksAlwaysRight, PTL DEF Spec, ClosedCyclesFrozen

\* A command that moves the reward of its own task either takes the work off
\* its owner or finds the work not begun.
LEMMA OwnTermsStand ==
  ASSUME Books, NEW a \in User, NEW s \in Role, NEW t \in Task,
         WorkStep(a, s, t) \/ ManageStep(a, s, t) \/ ReviewStep(a, s, t),
         econ'[t].reward # econ[t].reward, task[t].status # "ABSENT"
  PROVE  \/ task[t].owner # NoUser /\ task'[t].owner = NoUser
         \/ /\ task[t].status = "OPEN" /\ econ[t].verified = 0 /\ ~task[t].submitted
            /\ econ[t].paid = 0
<1>1. /\ TaskBooks(t) /\ TypeOK /\ econ[t] \in EconRow /\ task[t] \in TaskRow
      /\ econ \in [Task -> EconRow]
  BY DEF Books, TypeOK
<1>2. CASE WorkStep(a, s, t)
  BY <1>2, WorkFrame
<1>3. ASSUME NEW w, EditReward(a, s, t, w)
      PROVE  /\ task[t].status = "OPEN" /\ econ[t].verified = 0 /\ ~task[t].submitted
             /\ econ[t].paid = 0
  BY <1>1, <1>3 DEF EditReward, Started, TaskBooks, NothingForNothing
<1>4. ASSUME NEW pct0 \in Pcts, CancelTask(a, s, t, pct0)
      PROVE  FALSE
  BY <1>1, <1>4, CancelPays, InputsAssumption DEF TaskBooks
<1>5. ASSUME NEW closed, NEW v, NEW aud, NewCycle(a, s, t, closed, v, aud)
      PROVE  FALSE
  BY <1>1, <1>5 DEF NewCycle, EconRow
<1>6. ASSUME NEW pct0, NEW v, NEW aud, NEW left, Handoff(a, s, t, pct0, v, aud, left)
      PROVE  task[t].owner # NoUser /\ task'[t].owner = NoUser
  BY <1>1, <1>6 DEF Handoff, Routed, TaskBooks, HeldHasOwner, TypeOK, TaskRow
<1>7. CASE ApproveWork(a, s, t)
  BY <1>1, <1>7 DEF ApproveWork, EconRow
<1>8. CASE ManageStep(a, s, t)
  <2>1. ASSUME NEW scope, NEW aud, NEW mode, NEW v, NEW w,
               CreateTask(a, s, t, scope, aud, mode, v, w)
        PROVE  FALSE
    BY <2>1 DEF CreateTask
  <2>2. ASSUME NEW v, NEW aud, Reassign(a, s, t, v, aud)
        PROVE  FALSE
    BY <2>2 DEF Reassign, bookVars
  <2>3. ASSUME NEW p, SetAccess(a, s, t, p[1], p[2])
        PROVE  FALSE
    BY <2>3 DEF SetAccess, bookVars
  <2>4. ASSUME NEW v, NEW aud, ReopenTask(a, s, t, v, aud) \/ ReactivateTask(a, s, t, v, aud)
        PROVE  FALSE
    BY <1>5, <2>4 DEF ReopenTask, ReactivateTask
  <2> QED
    BY <1>3, <1>4, <1>8, <2>1, <2>2, <2>3, <2>4 DEF ManageStep
<1>9. CASE ReviewStep(a, s, t)
  BY <1>6, <1>7, <1>9 DEF ReviewStep, RejectWork, bookVars
<1> QED
  BY <1>2, <1>8, <1>9

\* A reward stands for as long as somebody works for it, and once a part of it
\* was accepted only a handoff can set it anew.
THEOREM TermsAreKept == Spec => TermsStandWhileHeld
<1>1. ASSUME Books, [Next]_vars
      PROVE  KeepsTerms
  <2> SUFFICES ASSUME NEW t \in Task,
                      econ'[t].reward # econ[t].reward, task[t].status # "ABSENT"
               PROVE  \/ task[t].owner # NoUser /\ task'[t].owner = NoUser
                      \/ /\ task[t].status = "OPEN" /\ econ[t].verified = 0
                         /\ ~task[t].submitted /\ econ[t].paid = 0
    BY DEF KeepsTerms
  <2>1. ASSUME NEW a \in User, NEW s \in Role, NEW o \in Task,
               WorkStep(a, s, o) \/ ManageStep(a, s, o) \/ ReviewStep(a, s, o), t # o
        PROVE  Same(t)
    BY <1>1, <2>1, OthersSame
  <2>2. CASE UNCHANGED <<task, bookVars>>
    BY <2>2 DEF bookVars
  <2> QED
    BY <1>1, <2>1, <2>2, StepCases, OwnTermsStand DEF Same
<1> QED
  BY <1>1, BooksAlwaysRight, PTL DEF Spec, TermsStandWhileHeld

----------------------------------------------------------------------------
(* The totals: what the ledger pays out in a cycle is what the task says,   *)
(* and so is what was accepted of the work.                                 *)

\* What the ledger holds of a cycle is what its row will say: the balance of
\* the task while the cycle runs, what it was closed with later.
TotalFits(t) ==
  \A c \in Cycle :
    Total(credited[t][c]) =
      IF Current(t, c) THEN econ[t].paid
      ELSE IF Past(t, c) THEN row[t][c].paid ELSE 0

ClosedAsPaid(t) == task[t].status \in Terminal => row[t][econ[t].cycle].paid = econ[t].paid

\* The same of the parts of the work that were accepted.
Parts(t, c) == [u \in User |-> contributed[t][c][u].pct]

PartsFit(t) ==
  \A c \in Cycle :
    Total(Parts(t, c)) =
      IF Current(t, c) THEN econ[t].verified
      ELSE IF Past(t, c) THEN row[t][c].verified ELSE 0

ClosedAsAccepted(t) ==
  task[t].status \in Terminal => row[t][econ[t].cycle].verified = econ[t].verified

ApprovedInFull(t) ==
  /\ task[t].status = "APPROVED" => econ[t].verified = 100
  /\ \A c \in Cycle : row[t][c].outcome = "APPROVED" => row[t][c].verified = 100

AbsentIsUntouched(t) == task[t].status = "ABSENT" => econ[t].verified = 0

TotalsOf(t) ==
  /\ TotalFits(t) /\ ClosedAsPaid(t)
  /\ PartsFit(t) /\ ClosedAsAccepted(t) /\ ApprovedInFull(t) /\ AbsentIsUntouched(t)

Totals == Books /\ \A t \in Task : TotalsOf(t)

LEMMA TotalIsSum ==
  ASSUME NEW f
  PROVE  Total(f) = SumOver(f, DOMAIN f)
BY Zenon, FoldIsSum DEF Total

\* A credit raises the total by its amount.
LEMMA TotalChanges ==
  ASSUME NEW f \in [User -> Nat], NEW w \in User, NEW p \in Nat
  PROVE  Total([f EXCEPT ![w] = @ + p]) = Total(f) + p
<1> DEFINE g == [f EXCEPT ![w] = @ + p]
<1>1. DOMAIN f = User /\ DOMAIN g = User /\ IsFiniteSet(User)
  BY FiniteAssumption
<1>2. \A u \in User : f[u] \in Int /\ g[u] \in Int /\ (u # w => g[u] = f[u])
  OBVIOUS
<1>3. g[w] - f[w] = p
  OBVIOUS
<1>4. Total(f) = SumOver(f, User) /\ Total(g) = SumOver(g, User)
  <2> HIDE DEF g
  <2> QED
    BY <1>1, TotalIsSum
<1> HIDE DEF g
<1>5. SumOver(g, User) = SumOver(f, User) + (g[w] - f[w])
  BY <1>1, <1>2, SumChanges
<1> QED
  BY <1>3, <1>4, <1>5 DEF g

LEMMA TotalOfNothing == Total([u \in User |-> 0]) = 0
<1> DEFINE f == [u \in User |-> 0]
<1>1. DOMAIN f = User /\ \A u \in User : f[u] = 0
  OBVIOUS
<1> HIDE DEF f
<1>2. SumOver(f, User) = 0
  BY <1>1, FiniteAssumption, SumOfNoughts
<1>3. Total(f) = 0
  BY <1>1, <1>2, TotalIsSum
<1> QED
  BY <1>3 DEF f

\* Where neither the books nor the state of a task change, its totals stand.
LEMMA QuietKeepsTotals ==
  ASSUME NEW t \in Task, TotalsOf(t),
         credited'[t] = credited[t], contributed'[t] = contributed[t], row'[t] = row[t],
         econ'[t].paid = econ[t].paid, econ'[t].cycle = econ[t].cycle,
         econ'[t].verified = econ[t].verified,
         task'[t].status = "ABSENT" <=> task[t].status = "ABSENT",
         task'[t].status \in Terminal => task'[t].status = task[t].status
  PROVE  TotalsOf(t)'
<1>1. TotalFits(t)'
  BY DEF TotalsOf, TotalFits, Current, Past
<1>2. PartsFit(t)'
  <2>1. \A c \in Cycle : Parts(t, c)' = Parts(t, c)
    BY DEF Parts
  <2> QED
    BY <2>1 DEF TotalsOf, PartsFit, Current, Past
<1>3. ClosedAsPaid(t)' /\ ClosedAsAccepted(t)'
  BY DEF TotalsOf, ClosedAsPaid, ClosedAsAccepted
<1>4. ApprovedInFull(t)' /\ AbsentIsUntouched(t)'
  BY DEF TotalsOf, ApprovedInFull, AbsentIsUntouched, Terminal
<1> QED
  BY <1>1, <1>2, <1>3, <1>4 DEF TotalsOf

\* A decision that pays raises the total of the current cycle by what it pays.
LEMMA PaysTotal ==
  ASSUME TypeOK, NEW t \in Task, NEW pct \in Nat, NEW payout \in Nat, Pays(t, pct, payout),
         TotalFits(t), task[t].status # "ABSENT"
  PROVE  \A c \in Cycle : Total(credited'[t][c]) =
           IF c = econ[t].cycle THEN econ'[t].paid ELSE Total(credited[t][c])
<1> DEFINE d == econ[t].cycle
<1>1. d \in Cycle /\ econ[t].paid \in Nat /\ task[t].owner \in Someone
  BY DEF TypeOK, EconRow, TaskRow
<1>2. Total(credited[t][d]) = econ[t].paid /\ econ'[t].paid = econ[t].paid + payout
  BY <1>1 DEF TotalFits, Current, Pays
<1>3. CASE task[t].owner # NoUser /\ Settle(t, task[t].owner, pct, payout)
  <2> DEFINE w == task[t].owner
  <2>1. w \in User /\ credited \in [Task -> [Cycle -> [User -> Nat]]]
    BY <1>1, <1>3 DEF Someone, TypeOK
  <2>2. credited' = [credited EXCEPT ![t][d][w] = @ + payout]
    BY <1>3 DEF Settle
  <2> HIDE DEF d, w
  <2>3. /\ credited'[t][d] = [credited[t][d] EXCEPT ![w] = @ + payout]
        /\ \A c \in Cycle \ {d} : credited'[t][c] = credited[t][c]
    BY <1>1, <2>1, <2>2
  <2>4. credited[t][d] \in [User -> Nat]
    BY <1>1, <2>1
  <2>5. Total([credited[t][d] EXCEPT ![w] = @ + payout]) = Total(credited[t][d]) + payout
    BY <2>1, <2>4, TotalChanges
  <2>6. ASSUME NEW c \in Cycle PROVE Total(credited'[t][c]) =
           IF c = d THEN econ'[t].paid ELSE Total(credited[t][c])
    BY <1>2, <2>3, <2>5
  <2> QED
    BY <2>6 DEF d
<1>4. CASE payout = 0 /\ UNCHANGED <<credited, contributed>>
  BY <1>1, <1>2, <1>4
<1> QED
  BY <1>3, <1>4 DEF Pays

\* And the parts accepted by what it accepts.
LEMMA PaysParts ==
  ASSUME TypeOK, NEW t \in Task, NEW pct \in Nat, NEW payout \in Nat, Pays(t, pct, payout),
         PartsFit(t), task[t].status # "ABSENT"
  PROVE  \A c \in Cycle : Total(Parts(t, c)') =
           IF c = econ[t].cycle THEN econ'[t].verified ELSE Total(Parts(t, c))
<1>0. PICK d : d = econ[t].cycle
  OBVIOUS
<1>1. d \in Cycle /\ econ[t].verified \in Nat /\ task[t].owner \in Someone
  <2>1. econ[t] \in EconRow /\ task[t] \in TaskRow
    BY DEF TypeOK
  <2>2. econ[t].verified \in 0..100 /\ econ[t].cycle \in Cycle /\ task[t].owner \in Someone
    BY <2>1 DEF EconRow, TaskRow
  <2>3. \A n \in 0..100 : n \in Nat
    OBVIOUS
  <2> QED
    BY <1>0, <2>2, <2>3
<1>2. Total(Parts(t, d)) = econ[t].verified /\ econ'[t].verified = econ[t].verified + pct
  BY <1>0, <1>1 DEF PartsFit, Current, Pays
<1>3. CASE task[t].owner # NoUser /\ Settle(t, task[t].owner, pct, payout)
  <2>0. PICK w : w = task[t].owner
    OBVIOUS
  <2>1. w \in User /\ contributed \in [Task -> [Cycle -> [User -> Share]]]
    BY <1>1, <1>3, <2>0 DEF Someone, TypeOK
  <2>2. contributed' = [contributed EXCEPT ![t][d][w] =
          [any |-> TRUE, pct |-> @.pct + pct, payout |-> @.payout + payout]]
    BY <1>0, <1>3, <2>0 DEF Settle
  <2>3. /\ contributed'[t][d][w].pct = contributed[t][d][w].pct + pct
        /\ \A u \in User \ {w} : contributed'[t][d][u] = contributed[t][d][u]
        /\ \A c \in Cycle \ {d} : contributed'[t][c] = contributed[t][c]
    BY <1>1, <2>1, <2>2
  <2>4. Parts(t, d) \in [User -> Nat]
    BY <1>1, <2>1 DEF Parts, Share
  <2>5. Parts(t, d)' = [Parts(t, d) EXCEPT ![w] = @ + pct]
    BY <2>1, <2>3 DEF Parts
  <2>6. \A c \in Cycle \ {d} : Parts(t, c)' = Parts(t, c)
    BY <2>3 DEF Parts
  <2>7. Total([Parts(t, d) EXCEPT ![w] = @ + pct]) = Total(Parts(t, d)) + pct
    BY <2>1, <2>4, TotalChanges
  <2>8. ASSUME NEW c \in Cycle PROVE Total(Parts(t, c)') =
           IF c = d THEN econ'[t].verified ELSE Total(Parts(t, c))
    BY <1>2, <2>5, <2>6, <2>7
  <2> QED
    BY <1>0, <2>8
<1>4. CASE pct = 0 /\ UNCHANGED <<credited, contributed>>
  <2>1. \A c \in Cycle : Parts(t, c)' = Parts(t, c)
    BY <1>4 DEF Parts
  <2> QED
    BY <1>0, <1>1, <1>2, <1>4, <2>1
<1> QED
  BY <1>3, <1>4 DEF Pays

\* So the totals stand when the row of the current cycle alone changes, and is
\* closed with the balance and the progress or not at all.
LEMMA DecisionKeepsTotals ==
  ASSUME TypeOK, NEW t \in Task, NEW pct \in Nat, NEW payout \in Nat, Pays(t, pct, payout),
         TotalsOf(t), task[t].status # "ABSENT", task'[t].status # "ABSENT",
         \A c \in Cycle \ {econ[t].cycle} : row'[t][c] = row[t][c],
         task'[t].status \in Terminal =>
           /\ row'[t][econ[t].cycle].paid = econ'[t].paid
           /\ row'[t][econ[t].cycle].verified = econ'[t].verified
           /\ row'[t][econ[t].cycle].outcome = task'[t].status,
         task'[t].status = "APPROVED" => econ'[t].verified = 100,
         task'[t].status \notin Terminal => row'[t] = row[t]
  PROVE  TotalsOf(t)'
<1>1. /\ econ'[t].cycle = econ[t].cycle
      /\ econ[t].cycle \in Cycle /\ econ[t].cycle \in Nat /\ Cycle \subseteq Nat
  BY DEF Pays, TypeOK, EconRow, Cycle
<1>2. ASSUME NEW c \in Cycle
      PROVE  /\ Total(credited'[t][c]) =
                   IF Current(t, c)' THEN econ'[t].paid
                   ELSE IF Past(t, c)' THEN row'[t][c].paid ELSE 0
             /\ Total(Parts(t, c)') =
                   IF Current(t, c)' THEN econ'[t].verified
                   ELSE IF Past(t, c)' THEN row'[t][c].verified ELSE 0
  <2>1. CASE c = econ[t].cycle
    BY <1>1, <2>1, PaysTotal, PaysParts DEF Current, TotalsOf
  <2>2. CASE c # econ[t].cycle
    <3>1. /\ Total(credited'[t][c]) = Total(credited[t][c]) /\ row'[t][c] = row[t][c]
          /\ Total(Parts(t, c)') = Total(Parts(t, c))
      BY <2>2, PaysTotal, PaysParts DEF TotalsOf
    <3> QED
      BY <1>1, <2>2, <3>1 DEF Current, Past, TotalFits, PartsFit, TotalsOf
  <2> QED
    BY <2>1, <2>2
<1>3. TotalFits(t)' /\ PartsFit(t)'
  BY <1>2 DEF TotalFits, PartsFit
<1>4. ClosedAsPaid(t)' /\ ClosedAsAccepted(t)'
  BY <1>1 DEF ClosedAsPaid, ClosedAsAccepted
<1>5. ApprovedInFull(t)'
  <2>1. ASSUME NEW c \in Cycle, row'[t][c].outcome = "APPROVED" PROVE row'[t][c].verified = 100
    <3>1. CASE row'[t][c] = row[t][c]
      BY <2>1, <3>1 DEF TotalsOf, ApprovedInFull
    <3>2. CASE c = econ[t].cycle /\ task'[t].status \in Terminal
      BY <2>1, <3>2
    <3> QED
      BY <3>1, <3>2
  <2> QED
    BY <2>1 DEF ApprovedInFull
<1> QED
  BY <1>3, <1>4, <1>5 DEF TotalsOf, AbsentIsUntouched

\* Opening the books of a task, or of its next cycle, starts from nothing.
LEMMA CreateKeepsTotals ==
  ASSUME Totals, NEW a, NEW s, NEW t \in Task, NEW scope, NEW aud, NEW mode, NEW v,
         NEW reward, CreateTask(a, s, t, scope, aud, mode, v, reward)
  PROVE  TotalsOf(t)'
<1>1. /\ TaskBooks(t) /\ TypeOK /\ task[t].status = "ABSENT" /\ TotalsOf(t)
      /\ econ[t] \in EconRow /\ econ[t].cycle = 1 /\ econ[t].paid = 0 /\ econ[t].verified = 0
  BY DEF Totals, TotalsOf, Books, TypeOK, CreateTask, TaskBooks, FreshIsEmpty, AbsentIsUntouched
<1>2. /\ task'[t].status = "OPEN"
      /\ econ'[t].paid = 0 /\ econ'[t].cycle = 1 /\ econ'[t].verified = 0
      /\ credited' = credited /\ contributed' = contributed
  BY <1>1 DEF CreateTask, NoTask, TypeOK, EconRow
<1>3. \A c \in Cycle : c \in Nat /\ ~(c < 1)
  BY DEF Cycle
<1>4. \A c \in Cycle : Total(credited[t][c]) = 0 /\ Total(Parts(t, c)) = 0
  BY <1>1, <1>3 DEF TotalsOf, TotalFits, PartsFit, Current, Past
<1>5. TotalFits(t)'
  BY <1>2, <1>3, <1>4 DEF TotalFits, Current, Past
<1>6. PartsFit(t)'
  <2>1. \A c \in Cycle : Parts(t, c)' = Parts(t, c)
    BY <1>2 DEF Parts
  <2> QED
    BY <1>2, <1>3, <1>4, <2>1 DEF PartsFit, Current, Past
<1>7. ClosedAsPaid(t)' /\ ClosedAsAccepted(t)'
  BY <1>2 DEF ClosedAsPaid, ClosedAsAccepted, Terminal
<1>8. ApprovedInFull(t)'
  <2>1. \A c \in Cycle : row'[t][c] = row[t][c] \/ row'[t][c].outcome = "LIVE"
    BY <1>1 DEF CreateTask, TypeOK, CycleRow
  <2> QED
    BY <1>1, <1>2, <2>1 DEF TotalsOf, ApprovedInFull
<1> QED
  BY <1>2, <1>5, <1>6, <1>7, <1>8 DEF TotalsOf, AbsentIsUntouched

LEMMA NewCycleKeepsTotals ==
  ASSUME Totals, NEW a, NEW s, NEW t \in Task, NEW closed \in Terminal, NEW v, NEW aud,
         NewCycle(a, s, t, closed, v, aud)
  PROVE  TotalsOf(t)'
<1> DEFINE d == econ[t].cycle
<1>1. /\ TypeOK /\ TotalsOf(t) /\ econ[t] \in EconRow
      /\ task[t].status \in Terminal /\ task[t].status # "ABSENT" /\ d \in Cycle
  BY DEF Totals, Books, TypeOK, NewCycle, Terminal, EconRow
<1>2. task'[t].status = "OPEN"
  BY <1>1 DEF NewCycle, Routed, TypeOK, TaskRow
<1>3. /\ econ'[t].paid = 0 /\ econ'[t].cycle = d + 1 /\ econ'[t].verified = 0
      /\ credited' = credited /\ contributed' = contributed
  BY <1>1 DEF NewCycle, TypeOK, EconRow
<1>4. row'[t] = [row[t] EXCEPT ![d + 1].outcome = "LIVE"] /\ row[t] \in [Cycle -> CycleRow]
  BY <1>1 DEF NewCycle, TypeOK
<1>5. row[t][d].paid = econ[t].paid /\ row[t][d].verified = econ[t].verified
  BY <1>1 DEF TotalsOf, ClosedAsPaid, ClosedAsAccepted
<1>6. \A c \in Cycle : Parts(t, c)' = Parts(t, c)
  BY <1>3 DEF Parts
<1> HIDE DEF d
<1>7. d \in Nat /\ Cycle \subseteq Nat
  BY <1>1 DEF Cycle
<1>8. ASSUME NEW c \in Cycle
      PROVE  /\ Total(credited'[t][c]) =
                   IF Current(t, c)' THEN econ'[t].paid
                   ELSE IF Past(t, c)' THEN row'[t][c].paid ELSE 0
             /\ Total(Parts(t, c)') =
                   IF Current(t, c)' THEN econ'[t].verified
                   ELSE IF Past(t, c)' THEN row'[t][c].verified ELSE 0
  <2>1. /\ Total(credited'[t][c]) =
              IF c = d THEN econ[t].paid ELSE IF c < d THEN row[t][c].paid ELSE 0
        /\ Total(Parts(t, c)') =
              IF c = d THEN econ[t].verified ELSE IF c < d THEN row[t][c].verified ELSE 0
    BY <1>1, <1>3, <1>6 DEF TotalsOf, TotalFits, PartsFit, Current, Past, d
  <2>2. c < d + 1 => row'[t][c] = row[t][c]
    BY <1>4, <1>7
  <2>3. CASE c = d + 1
    BY <1>2, <1>3, <1>7, <2>1, <2>3 DEF Current
  <2>4. CASE c = d
    BY <1>3, <1>5, <1>7, <2>1, <2>2, <2>4 DEF Current, Past
  <2>5. CASE c < d
    BY <1>3, <1>7, <2>1, <2>2, <2>5 DEF Current, Past
  <2>6. CASE c > d + 1
    BY <1>3, <1>7, <2>1, <2>6 DEF Current, Past
  <2> QED
    BY <1>7, <2>3, <2>4, <2>5, <2>6
<1>9. TotalFits(t)' /\ PartsFit(t)'
  BY <1>8 DEF TotalFits, PartsFit
<1>10. ClosedAsPaid(t)' /\ ClosedAsAccepted(t)'
  BY <1>2 DEF ClosedAsPaid, ClosedAsAccepted, Terminal
<1>11. ApprovedInFull(t)'
  <2>1. \A c \in Cycle : row'[t][c] = row[t][c] \/ row'[t][c].outcome = "LIVE"
    BY <1>4 DEF CycleRow
  <2> QED
    BY <1>1, <1>2, <2>1 DEF TotalsOf, ApprovedInFull
<1> QED
  BY <1>2, <1>9, <1>10, <1>11 DEF TotalsOf, AbsentIsUntouched

\* Every command keeps the totals of its task.
LEMMA OwnTotalsKept ==
  ASSUME Totals, NEW a \in User, NEW s \in Role, NEW t \in Task,
         WorkStep(a, s, t) \/ ManageStep(a, s, t) \/ ReviewStep(a, s, t)
  PROVE  TotalsOf(t)'
<1>1. /\ TypeOK /\ TaskBooks(t) /\ TotalsOf(t)
      /\ task \in [Task -> TaskRow] /\ econ \in [Task -> EconRow]
      /\ task[t] \in TaskRow /\ econ[t] \in EconRow
  BY DEF Totals, Books, TypeOK
<1> DEFINE quiet == /\ credited'[t] = credited[t] /\ row'[t] = row[t]
                    /\ contributed'[t] = contributed[t]
                    /\ econ'[t].paid = econ[t].paid /\ econ'[t].cycle = econ[t].cycle
                    /\ econ'[t].verified = econ[t].verified
                    /\ task'[t].status # "ABSENT" /\ task[t].status # "ABSENT"
                    /\ task'[t].status \in Terminal => task'[t].status = task[t].status
           kept == TotalsOf(t)'
<1>2. ASSUME quiet PROVE kept
  BY <1>1, <1>2, QuietKeepsTotals
<1>3. ASSUME NEW pct \in Nat, NEW payout \in Nat, Pays(t, pct, payout),
             task[t].status # "ABSENT", task'[t].status # "ABSENT",
             \A c \in Cycle \ {econ[t].cycle} : row'[t][c] = row[t][c],
             task'[t].status \in Terminal =>
               /\ row'[t][econ[t].cycle].paid = econ'[t].paid
               /\ row'[t][econ[t].cycle].verified = econ'[t].verified
               /\ row'[t][econ[t].cycle].outcome = task'[t].status,
             task'[t].status = "APPROVED" => econ'[t].verified = 100,
             task'[t].status \notin Terminal => row'[t] = row[t]
      PROVE  kept
  BY <1>1, <1>3, DecisionKeepsTotals
<1>4. CASE WorkStep(a, s, t)
  <2>1. UNCHANGED <<econ, row, credited, contributed>>
    BY <1>4, WorkFrame
  <2>2. Works(a, s, t)
    BY <1>4, WorkFrame
  <2>3. \/ task'[t].status = task[t].status
        \/ task'[t].status \in {"IN_PROGRESS", "OPEN", "SUBMITTED"}
    <3>1. CASE ClaimTask(a, s, t) \/ ResumeWork(a, s, t)
      BY <1>1, <3>1 DEF ClaimTask, ResumeWork, TaskRow
    <3>2. CASE DeclineAssignment(a, s, t) \/ \E p \in DOMAIN ClaimPenalty : ReturnClaim(a, s, t, p)
      BY <1>1, <3>2 DEF DeclineAssignment, ReturnClaim, TaskRow
    <3>3. CASE \E pct \in Pcts : ReportProgress(a, s, t, pct)
      BY <1>1, <3>3 DEF ReportProgress, TaskRow
    <3>4. CASE SubmitWork(a, s, t)
      BY <1>1, <3>4 DEF SubmitWork, TaskRow
    <3> QED
      BY <1>4, <3>1, <3>2, <3>3, <3>4 DEF WorkStep
  <2>4. task[t].status # "ABSENT"
    BY <2>2, SeenIsPresent
  <2> QED
    BY <1>2, <2>1, <2>3, <2>4 DEF Terminal
<1>5. ASSUME NEW w, EditReward(a, s, t, w) PROVE kept
  <2>1. /\ econ'[t].paid = econ[t].paid /\ econ'[t].cycle = econ[t].cycle
        /\ econ'[t].verified = econ[t].verified
    BY <1>1, <1>5 DEF EditReward, EconRow
  <2> QED
    BY <1>2, <1>5, <2>1, SeenIsPresent DEF EditReward
<1>6. ASSUME NEW p, SetAccess(a, s, t, p[1], p[2]) PROVE kept
  <2>1. task'[t].status = task[t].status
    BY <1>1, <1>6 DEF SetAccess, TaskRow
  <2> QED
    BY <1>2, <1>6, <2>1 DEF SetAccess, bookVars
<1>7. ASSUME NEW v, NEW aud, Reassign(a, s, t, v, aud) PROVE kept
  <2>1. task'[t].status = task[t].status
    BY <1>1, <1>7 DEF Reassign, Routed, TaskRow
  <2> QED
    BY <1>2, <1>7, <2>1, SeenIsPresent DEF Reassign, bookVars
<1>8. CASE RejectWork(a, s, t)
  <2>1. task'[t].status = "REJECTED"
    BY <1>1, <1>8 DEF RejectWork, TaskRow
  <2> QED
    BY <1>2, <1>8, <2>1, SeenIsPresent DEF RejectWork, bookVars, Terminal
<1>9. ASSUME NEW pct0 \in Pcts, CancelTask(a, s, t, pct0) PROVE kept
  <2>1. PICK pct \in Nat, payout \in Nat : Pays(t, pct, payout)
    BY <1>1, <1>9, CancelPays, InputsAssumption DEF TaskBooks
  <2>2. task[t].status # "ABSENT" /\ task'[t].status = "CANCELLED"
    BY <1>1, <1>9, SeenIsPresent DEF CancelTask, TaskRow
  <2>3. /\ \A c \in Cycle \ {econ[t].cycle} : row'[t][c] = row[t][c]
        /\ row'[t][econ[t].cycle].paid = econ'[t].paid
        /\ row'[t][econ[t].cycle].verified = econ'[t].verified
        /\ row'[t][econ[t].cycle].outcome = "CANCELLED"
    BY <1>1, <1>9 DEF CancelTask, CloseCycle, TypeOK, EconRow
  <2> QED
    BY <1>3, <2>1, <2>2, <2>3 DEF Terminal
<1>10. CASE ApproveWork(a, s, t)
  <2>1. PICK pct \in Nat, payout \in Nat : Pays(t, pct, payout)
    BY <1>1, <1>10, ApprovePays DEF TaskBooks
  <2>2. task[t].status # "ABSENT" /\ task'[t].status = "APPROVED"
    BY <1>1, <1>10, SeenIsPresent DEF ApproveWork, TaskRow
  <2>3. /\ \A c \in Cycle \ {econ[t].cycle} : row'[t][c] = row[t][c]
        /\ row'[t][econ[t].cycle].paid = econ'[t].paid
        /\ econ'[t].verified = 100 /\ row'[t][econ[t].cycle].verified = 100
        /\ row'[t][econ[t].cycle].outcome = "APPROVED"
    BY <1>1, <1>10 DEF ApproveWork, CloseCycle, TypeOK, EconRow
  <2> QED
    BY <1>3, <2>1, <2>2, <2>3 DEF Terminal
<1>11. ASSUME NEW pct0 \in Pcts, NEW v \in Someone, NEW aud, NEW left \in Leftovers \cup {Keep},
              Handoff(a, s, t, pct0, v, aud, left)
       PROVE  kept
  <2>1. PICK pct \in Nat, payout \in Nat : Pays(t, pct, payout)
    BY <1>1, <1>11, HandoffPays, InputsAssumption DEF TaskBooks
  <2>2. task[t].status # "ABSENT" /\ task'[t].status = "OPEN" /\ row' = row
    BY <1>1, <1>11, SeenIsPresent DEF Handoff, Routed, TaskRow
  <2> QED
    BY <1>3, <2>1, <2>2 DEF Terminal
<1> QED
  BY <1>4, <1>5, <1>6, <1>7, <1>8, <1>9, <1>10, <1>11, CreateKeepsTotals, NewCycleKeepsTotals
     DEF ManageStep, ReviewStep, ReopenTask, ReactivateTask, Terminal

LEMMA InitTotals == Init => Totals
<1> SUFFICES ASSUME Init PROVE Totals
  OBVIOUS
<1>1. \A t \in Task : task[t].status = "ABSENT"
  BY DEF Init, NoTask
<1>2. ASSUME NEW t \in Task, NEW c \in Cycle
      PROVE  Total(credited[t][c]) = 0 /\ Total(Parts(t, c)) = 0 /\ ~Current(t, c) /\ ~Past(t, c)
  <2>1. credited[t][c] = [u \in User |-> 0] /\ Parts(t, c) = [u \in User |-> 0]
    BY DEF Init, Parts
  <2>2. ~Current(t, c) /\ ~Past(t, c)
    BY <1>1 DEF Init, Current, Past, Cycle
  <2> QED
    BY <2>1, <2>2, TotalOfNothing
<1>3. \A t \in Task : TotalFits(t) /\ PartsFit(t)
  BY <1>2 DEF TotalFits, PartsFit
<1>4. \A t \in Task : ClosedAsPaid(t) /\ ClosedAsAccepted(t)
  BY <1>1 DEF ClosedAsPaid, ClosedAsAccepted, Terminal
<1>5. \A t \in Task : ApprovedInFull(t) /\ AbsentIsUntouched(t)
  BY <1>1 DEF Init, ApprovedInFull, AbsentIsUntouched
<1> QED
  BY <1>3, <1>4, <1>5, InitBooks DEF Totals, TotalsOf

LEMMA NextTotals ==
  ASSUME Totals, [Next]_vars
  PROVE  Totals'
<1>1. Books'
  BY NextBooks DEF Totals
<1>2. ASSUME NEW t \in Task
      PROVE  TotalsOf(t)'
  <2>1. ASSUME Same(t) PROVE TotalsOf(t)'
    BY <2>1, QuietKeepsTotals DEF Totals, Same
  <2>2. ASSUME NEW a \in User, NEW s \in Role, NEW o \in Task,
               WorkStep(a, s, o) \/ ManageStep(a, s, o) \/ ReviewStep(a, s, o)
        PROVE  TotalsOf(t)'
    <3>1. CASE t = o
      BY <2>2, <3>1, OwnTotalsKept
    <3>2. CASE t # o
      BY <2>1, <2>2, <3>2, OthersSame DEF Totals
    <3> QED
      BY <3>1, <3>2
  <2>3. CASE UNCHANGED <<task, bookVars>>
    BY <2>1, <2>3 DEF Same, bookVars
  <2> QED
    BY <2>2, <2>3, StepCases DEF Totals
<1> QED
  BY <1>1, <1>2 DEF Totals

\* The three records of every coin agree, for every company and every amount:
\* worker by worker, and in the total of every cycle, closed ones included.
THEOREM LedgerIsRight == Spec => []LedgerAgrees
<1>1. Init => Totals
  BY InitTotals
<1>2. Totals /\ [Next]_vars => Totals'
  BY NextTotals
<1>3. Totals => LedgerAgrees
  BY DEF Totals, TotalsOf, Books, TaskBooks, SharesFit, TotalFits, LedgerAgrees, LedgerByWorker,
     LedgerInTotal
<1> QED
  BY <1>1, <1>2, <1>3, PTL DEF Spec

\* What was accepted of the work, person by person, adds up to the progress of its
\* cycle, to all of it where the work was approved, and never to more: for every
\* company, every split of the work and every sequence of commands.
THEOREM ProgressIsRight == Spec => []ProgressAddsUp
<1>1. Init => Totals
  BY InitTotals
<1>2. Totals /\ [Next]_vars => Totals'
  BY NextTotals
<1>3. Totals => ProgressAddsUp
  <2> SUFFICES ASSUME Totals, NEW t \in Task, NEW c \in Cycle
               PROVE  /\ Accepted(t, c) =
                           IF Current(t, c) THEN econ[t].verified
                           ELSE IF Past(t, c) THEN row[t][c].verified ELSE 0
                      /\ Finished(t, c) => Accepted(t, c) = 100
    BY DEF ProgressAddsUp
  <2>1. TotalsOf(t) /\ Accepted(t, c) = Total(Parts(t, c))
    BY DEF Totals, Accepted, Parts
  <2>2. Accepted(t, c) =
          IF Current(t, c) THEN econ[t].verified
          ELSE IF Past(t, c) THEN row[t][c].verified ELSE 0
    BY <2>1 DEF TotalsOf, PartsFit
  <2>3. Current(t, c) => ~Past(t, c)
    BY DEF Current, Past, Cycle
  <2> QED
    BY <2>1, <2>2, <2>3 DEF TotalsOf, ApprovedInFull, Finished
<1> QED
  BY <1>1, <1>2, <1>3, PTL DEF Spec

----------------------------------------------------------------------------
(* The people: who holds a task, who sees it, and how much they hold.       *)

\* Nobody holds work that is on offer, and what is private was given to one.
OfferIsFree(t) == task[t].status \in {"ABSENT", "OPEN"} => task[t].owner = NoUser

AbsentIsFree(t) == task[t].status = "ABSENT" => task[t].assignee = NoUser

PrivateIsSpecific(t) == task[t].audience = "PRIVATE" => task[t].mode = "SPECIFIC_EMPLOYEE"

HoldersFit(t) ==
  \A u \in User :
    (task[t].status \notin Terminal /\ u \in {task[t].owner, task[t].assignee}) =>
      active[u] /\ RoleFits(task[t].audience, role[u])

Routes(t) == OfferIsFree(t) /\ AbsentIsFree(t) /\ PrivateIsSpecific(t) /\ HoldersFit(t)

Peopled == TypeOK /\ \A t \in Task : Routes(t)

\* What a command may do to the routing of its task.
Created(t) ==
  /\ task[t].status = "ABSENT" /\ task'[t].status = "OPEN" /\ task'[t].owner = NoUser
  /\ task'[t].audience = "PRIVATE" => task'[t].mode = "SPECIFIC_EMPLOYEE"
  /\ task'[t].assignee # NoUser =>
       HasCapacityFor(task'[t].assignee, task'[t].audience)

Rerouted(t, aud, v) ==
  /\ MayRoute(aud, v) /\ (v # NoUser => HasCapacityFor(v, aud))
  /\ task[t].status # "ABSENT" /\ task'[t].status = "OPEN" /\ task'[t].owner = NoUser
  /\ task'[t].audience = aud /\ task'[t].assignee = v
  /\ v # NoUser => task'[t].mode = "SPECIFIC_EMPLOYEE"
  /\ task'[t].exposed = Broadens(t, aud, v)

Taken(t, a) ==
  /\ task[t].status = "OPEN" /\ task'[t].status = "IN_PROGRESS"
  /\ HasCapacityFor(a, task[t].audience)
  /\ task[t].mode = "ALL_EMPLOYEES" \/ task[t].assignee = a
  /\ task'[t].owner = a /\ task'[t].assignee = NoUser
  /\ task'[t].audience = task[t].audience /\ task'[t].mode = task[t].mode

Resumed(t) ==
  /\ task[t].status = "REJECTED" /\ task'[t].status = "IN_PROGRESS"
  /\ task'[t].owner = task[t].owner /\ task'[t].assignee = task[t].assignee
  /\ task'[t].audience = task[t].audience /\ task'[t].mode = task[t].mode
  /\ HasCapacity(task[t].owner)

Kept(t) ==
  /\ task[t].status # "ABSENT" /\ task'[t].status # "ABSENT"
  /\ task'[t].audience = task[t].audience /\ task'[t].mode = task[t].mode
  /\ task'[t].owner \in {task[t].owner, NoUser}
  /\ task'[t].assignee \in {task[t].assignee, NoUser}
  /\ task[t].status \in Terminal => task'[t].status \in Terminal
  /\ task'[t].status = "OPEN" => task[t].status = "OPEN" \/ task'[t].owner = NoUser
  /\ task'[t].status \in ActiveStatuses => task[t].status \in ActiveStatuses

Moves(t) ==
  \/ Created(t) \/ Resumed(t) \/ Kept(t)
  \/ \E a \in User : Taken(t, a)
  \/ \E aud \in Audience, v \in Someone : Rerouted(t, aud, v)

\* One lemma per command that routes.
LEMMA CreateMoves ==
  ASSUME TypeOK, NEW a, NEW s, NEW t \in Task, NEW scope, NEW aud, NEW mode, NEW v, NEW reward,
         CreateTask(a, s, t, scope, aud, mode, v, reward)
  PROVE  Created(t)
<1> DEFINE eff == IF aud = "PRIVATE" \/ mode = "SPECIFIC_EMPLOYEE" THEN v ELSE NoUser
<1>1. task[t].status = "ABSENT" /\ (eff # NoUser => HasCapacityFor(eff, aud))
  BY DEF CreateTask
<1>2. task' = [task EXCEPT ![t] =
           [NoTask EXCEPT
              !.status = "OPEN", !.scope = scope, !.creator = a, !.audience = aud,
              !.mode = IF aud = "PRIVATE" THEN "SPECIFIC_EMPLOYEE" ELSE mode,
              !.assignee = eff, !.restricted = {aud} \cap Restricted,
              !.workerRole = IF aud = "PRIVATE" THEN role[v] ELSE "NONE"]]
  BY DEF CreateTask
<1> HIDE DEF eff
<1>3. /\ task'[t].status = "OPEN" /\ task'[t].owner = NoUser /\ task'[t].audience = aud
      /\ task'[t].mode = IF aud = "PRIVATE" THEN "SPECIFIC_EMPLOYEE" ELSE mode
      /\ task'[t].assignee = eff
  BY <1>2 DEF TypeOK, NoTask
<1> QED
  BY <1>1, <1>3 DEF Created

\* The row that Routed builds.
LEMMA RoutedRow ==
  ASSUME NEW t \in Task, task[t] \in TaskRow, NEW aud, NEW v, NEW x, x = Routed(t, aud, v)
  PROVE  /\ x.audience = aud /\ x.assignee = v /\ x.exposed = Broadens(t, aud, v)
         /\ v # NoUser => x.mode = "SPECIFIC_EMPLOYEE"
         /\ x.status = task[t].status /\ x.owner = task[t].owner
         /\ DOMAIN x = DOMAIN task[t]
BY DEF Routed, TaskRow

LEMMA ReassignMoves ==
  ASSUME Peopled, NEW a, NEW s, NEW t \in Task, NEW v \in Someone,
         NEW audience \in Audience \cup {SameAudience}, Reassign(a, s, t, v, audience)
  PROVE  \E aud \in Audience : Rerouted(t, aud, v)
<1> DEFINE aud == IF task[t].audience = "PRIVATE" /\ audience = SameAudience
                  THEN "PRIVATE" ELSE Derived(audience, v, task[t].audience)
<1>1. task[t] \in TaskRow /\ TypeOK /\ OfferIsFree(t)
  BY DEF Peopled, TypeOK, Routes
<1>2. aud \in Audience
  BY <1>1 DEF Derived, Audience, TaskRow
<1>3. /\ task[t].status = "OPEN" /\ MayRoute(aud, v) /\ (v # NoUser => HasCapacityFor(v, aud))
      /\ task' = [task EXCEPT ![t] = Routed(t, aud, v)]
  BY DEF Reassign
<1> HIDE DEF aud
<1>4. PICK x : x = Routed(t, aud, v)
  OBVIOUS
<1>5. task'[t] = x
  BY <1>1, <1>3, <1>4 DEF TypeOK
<1>6. /\ x.audience = aud /\ x.assignee = v /\ x.exposed = Broadens(t, aud, v)
      /\ v # NoUser => x.mode = "SPECIFIC_EMPLOYEE"
      /\ x.status = "OPEN" /\ x.owner = NoUser
  BY <1>1, <1>3, <1>4, RoutedRow DEF OfferIsFree
<1> QED
  BY <1>2, <1>3, <1>5, <1>6 DEF Rerouted

LEMMA NewCycleMoves ==
  ASSUME TypeOK, NEW a, NEW s, NEW t \in Task, NEW closed \in Terminal, NEW v \in Someone,
         NEW audience \in Audience \cup {SameAudience}, NewCycle(a, s, t, closed, v, audience)
  PROVE  \E aud \in Audience : Rerouted(t, aud, v)
<1> DEFINE aud == IF audience = SameAudience THEN task[t].audience ELSE audience
<1>1. task[t] \in TaskRow
  BY DEF TypeOK
<1>2. aud \in Audience
  BY <1>1 DEF Audience, TaskRow
<1>3. /\ task[t].status # "ABSENT"
      /\ MayRoute(aud, v) /\ (v # NoUser => HasCapacityFor(v, aud))
      /\ task' = [task EXCEPT ![t] =
           [Routed(t, aud, v) EXCEPT
              !.status = "OPEN", !.owner = NoUser, !.reported = 0, !.submitted = FALSE]]
  BY DEF NewCycle, Terminal
<1> HIDE DEF aud
<1>4. PICK x : x = Routed(t, aud, v)
  OBVIOUS
<1>5. /\ x.audience = aud /\ x.assignee = v /\ x.exposed = Broadens(t, aud, v)
      /\ v # NoUser => x.mode = "SPECIFIC_EMPLOYEE"
      /\ DOMAIN x = DOMAIN task[t]
  BY <1>1, <1>4, RoutedRow
<1>6. task'[t] = [x EXCEPT !.status = "OPEN", !.owner = NoUser, !.reported = 0, !.submitted = FALSE]
  BY <1>3, <1>4 DEF TypeOK
<1>7. {"status", "owner"} \subseteq DOMAIN x
  BY <1>1, <1>5 DEF TaskRow
<1>8. /\ task'[t].audience = aud /\ task'[t].assignee = v
      /\ task'[t].exposed = x.exposed /\ task'[t].mode = x.mode
      /\ task'[t].status = "OPEN" /\ task'[t].owner = NoUser
  BY <1>1, <1>5, <1>6, <1>7 DEF TaskRow
<1> QED
  BY <1>2, <1>3, <1>5, <1>8 DEF Rerouted

LEMMA HandoffMoves ==
  ASSUME TypeOK, NEW a, NEW s, NEW t \in Task, NEW pct0, NEW v \in Someone, NEW left,
         NEW audience \in Audience \cup {SameAudience}, Handoff(a, s, t, pct0, v, audience, left)
  PROVE  \E aud \in Audience : Rerouted(t, aud, v)
<1> DEFINE aud == Derived(audience, v, task[t].audience)
<1>1. task[t] \in TaskRow
  BY DEF TypeOK
<1>2. aud \in Audience
  BY <1>1 DEF Derived, Audience, TaskRow
<1>3. /\ task[t].status # "ABSENT"
      /\ MayRoute(aud, v) /\ (v # NoUser => HasCapacityFor(v, aud))
      /\ task' = [task EXCEPT ![t] =
           [Routed(t, aud, v) EXCEPT
              !.status = "OPEN", !.owner = NoUser, !.reported = 0,
              !.pending = ClosePending(@)]]
  BY DEF Handoff
<1> HIDE DEF aud
<1>4. PICK x : x = Routed(t, aud, v)
  OBVIOUS
<1>5. /\ x.audience = aud /\ x.assignee = v /\ x.exposed = Broadens(t, aud, v)
      /\ v # NoUser => x.mode = "SPECIFIC_EMPLOYEE"
      /\ DOMAIN x = DOMAIN task[t]
  BY <1>1, <1>4, RoutedRow
<1>6. task'[t] = [x EXCEPT !.status = "OPEN", !.owner = NoUser, !.reported = 0,
                           !.pending = ClosePending(@)]
  BY <1>3, <1>4 DEF TypeOK
<1>7. {"status", "owner"} \subseteq DOMAIN x
  BY <1>1, <1>5 DEF TaskRow
<1>8. /\ task'[t].audience = aud /\ task'[t].assignee = v
      /\ task'[t].exposed = x.exposed /\ task'[t].mode = x.mode
      /\ task'[t].status = "OPEN" /\ task'[t].owner = NoUser
  BY <1>1, <1>5, <1>6, <1>7 DEF TaskRow
<1> QED
  BY <1>2, <1>3, <1>5, <1>8 DEF Rerouted

\* The commands that do not route.
LEMMA WorkMoves ==
  ASSUME TypeOK, NEW a \in User, NEW s, NEW t \in Task, WorkStep(a, s, t)
  PROVE  Moves(t)
<1>1. task \in [Task -> TaskRow] /\ task[t] \in TaskRow /\ task[t].status # "ABSENT"
  BY WorkFrame, SeenIsPresent DEF TypeOK
<1>2. CASE ClaimTask(a, s, t)
  <2>1. Taken(t, a)
    BY <1>1, <1>2 DEF ClaimTask, Taken, TaskRow
  <2> QED
    BY <2>1 DEF Moves
<1>3. CASE ResumeWork(a, s, t)
  <2>1. Resumed(t)
    BY <1>1, <1>3 DEF ResumeWork, Resumed, TaskRow
  <2> QED
    BY <2>1 DEF Moves
<1>4. CASE DeclineAssignment(a, s, t)
  <2>1. Kept(t)
    BY <1>1, <1>4 DEF DeclineAssignment, Kept, TaskRow, ActiveStatuses, Terminal
  <2> QED
    BY <2>1 DEF Moves
<1>5. ASSUME NEW p, ReturnClaim(a, s, t, p)
      PROVE  Moves(t)
  <2>1. Kept(t)
    BY <1>1, <1>5 DEF ReturnClaim, Kept, TaskRow, ActiveStatuses, Terminal
  <2> QED
    BY <2>1 DEF Moves
<1>6. ASSUME NEW pct, ReportProgress(a, s, t, pct)
      PROVE  Moves(t)
  <2>1. Kept(t)
    BY <1>1, <1>6 DEF ReportProgress, Kept, TaskRow
  <2> QED
    BY <2>1 DEF Moves
<1>7. CASE SubmitWork(a, s, t)
  <2>1. Kept(t)
    BY <1>1, <1>7 DEF SubmitWork, Kept, TaskRow, ActiveStatuses, Terminal
  <2> QED
    BY <2>1 DEF Moves
<1> QED
  BY <1>2, <1>3, <1>4, <1>5, <1>6, <1>7 DEF WorkStep

LEMMA ManageMoves ==
  ASSUME Peopled, NEW a \in User, NEW s, NEW t \in Task, ManageStep(a, s, t)
  PROVE  Moves(t)
<1>1. /\ TypeOK /\ task \in [Task -> TaskRow] /\ task[t] \in TaskRow
      /\ Audiences \cup {SameAudience} \subseteq Audience \cup {SameAudience}
  BY InputsAssumption DEF Peopled, TypeOK
<1>2. ASSUME NEW scope, NEW aud, NEW mode, NEW v, NEW w, CreateTask(a, s, t, scope, aud, mode, v, w)
      PROVE  Moves(t)
  BY <1>1, <1>2, CreateMoves DEF Moves
<1>3. ASSUME NEW w, EditReward(a, s, t, w)
      PROVE  Moves(t)
  <2>1. task' = task /\ task[t].status # "ABSENT"
    BY <1>3, SeenIsPresent DEF EditReward
  <2> QED
    BY <2>1 DEF Kept, Moves
<1>4. ASSUME NEW pct, CancelTask(a, s, t, pct)
      PROVE  Moves(t)
  <2>1. task[t].status # "ABSENT"
    BY <1>4, SeenIsPresent DEF CancelTask
  <2>2. task' = [task EXCEPT ![t].status = "CANCELLED", ![t].pending = ClosePending(@)]
    BY <1>4 DEF CancelTask
  <2>3. Kept(t)
    BY <1>1, <2>1, <2>2 DEF Kept, TaskRow, ActiveStatuses, Terminal
  <2> QED
    BY <2>3 DEF Moves
<1>5. ASSUME NEW p, SetAccess(a, s, t, p[1], p[2])
      PROVE  Moves(t)
  <2>1. Kept(t)
    BY <1>1, <1>5 DEF SetAccess, Kept, TaskRow
  <2> QED
    BY <2>1 DEF Moves
<1>6. ASSUME NEW v \in Someone, NEW aud \in Audiences \cup {SameAudience}, Reassign(a, s, t, v, aud)
      PROVE  Moves(t)
  BY <1>1, <1>6, ReassignMoves DEF Moves
<1>7. ASSUME NEW v \in Someone, NEW aud \in Audiences \cup {SameAudience},
             ReopenTask(a, s, t, v, aud) \/ ReactivateTask(a, s, t, v, aud)
      PROVE  Moves(t)
  BY <1>1, <1>7, NewCycleMoves DEF Moves, ReopenTask, ReactivateTask, Terminal
<1> QED
  BY <1>2, <1>3, <1>4, <1>5, <1>6, <1>7 DEF ManageStep

LEMMA ReviewMoves ==
  ASSUME TypeOK, NEW a \in User, NEW s, NEW t \in Task, ReviewStep(a, s, t)
  PROVE  Moves(t)
<1>1. /\ task \in [Task -> TaskRow] /\ task[t] \in TaskRow
      /\ Audiences \cup {SameAudience} \subseteq Audience \cup {SameAudience}
  BY InputsAssumption DEF TypeOK
<1>2. CASE ApproveWork(a, s, t)
  <2>1. task' = [task EXCEPT ![t].status = "APPROVED", ![t].pending = ClosePending(@)]
    BY <1>2 DEF ApproveWork
  <2>2. task[t].status = "SUBMITTED"
    BY <1>2 DEF ApproveWork
  <2>3. Kept(t)
    BY <1>1, <2>1, <2>2 DEF Kept, TaskRow, ActiveStatuses, Terminal
  <2> QED
    BY <2>3 DEF Moves
<1>3. CASE RejectWork(a, s, t)
  <2>1. Kept(t)
    BY <1>1, <1>3 DEF RejectWork, Kept, TaskRow, ActiveStatuses, Terminal
  <2> QED
    BY <2>1 DEF Moves
<1>4. ASSUME NEW pct0, NEW v \in Someone, NEW aud \in Audiences \cup {SameAudience}, NEW left,
             Handoff(a, s, t, pct0, v, aud, left)
      PROVE  Moves(t)
  BY <1>1, <1>4, HandoffMoves DEF Moves
<1> QED
  BY <1>2, <1>3, <1>4 DEF ReviewStep

\* No command on a task edits an account.
LEMMA CommandKeepsAccounts ==
  ASSUME NEW a \in User, NEW s \in Role, NEW t \in Task,
         WorkStep(a, s, t) \/ ManageStep(a, s, t) \/ ReviewStep(a, s, t)
  PROVE  UNCHANGED userVars
<1>1. CASE WorkStep(a, s, t)
  BY <1>1, Zenon DEF WorkStep, ClaimTask, DeclineAssignment, ReturnClaim, ReportProgress,
     SubmitWork, ResumeWork
<1>2. ASSUME NEW scope, NEW aud, NEW mode, NEW v, NEW w, CreateTask(a, s, t, scope, aud, mode, v, w)
      PROVE  UNCHANGED userVars
  BY <1>2, Zenon DEF CreateTask
<1>3. ASSUME NEW w, EditReward(a, s, t, w)
      PROVE  UNCHANGED userVars
  BY <1>3, Zenon DEF EditReward
<1>4. ASSUME NEW pct, CancelTask(a, s, t, pct)
      PROVE  UNCHANGED userVars
  BY <1>4, Zenon DEF CancelTask
<1>5. ASSUME NEW p, SetAccess(a, s, t, p[1], p[2])
      PROVE  UNCHANGED userVars
  BY <1>5, Zenon DEF SetAccess
<1>6. ASSUME NEW v, NEW aud, Reassign(a, s, t, v, aud)
      PROVE  UNCHANGED userVars
  BY <1>6, Zenon DEF Reassign
<1>7. ASSUME NEW closed, NEW v, NEW aud, NewCycle(a, s, t, closed, v, aud)
      PROVE  UNCHANGED userVars
  BY <1>7, Zenon DEF NewCycle
<1>8. CASE ApproveWork(a, s, t) \/ RejectWork(a, s, t)
  BY <1>8, Zenon DEF ApproveWork, RejectWork
<1>9. ASSUME NEW pct0, NEW v, NEW aud, NEW left, Handoff(a, s, t, pct0, v, aud, left)
      PROVE  UNCHANGED userVars
  BY <1>9, Zenon DEF Handoff
<1>10. CASE ManageStep(a, s, t)
  BY <1>2, <1>3, <1>4, <1>5, <1>6, <1>7, <1>10, Zenon DEF ManageStep, ReopenTask, ReactivateTask
<1>11. CASE ReviewStep(a, s, t)
  BY <1>8, <1>9, <1>11, Zenon DEF ReviewStep
<1> QED
  BY <1>1, <1>10, <1>11

\* A command moves one task and no account.
OneTask(t) ==
  /\ Moves(t) /\ \A o \in Task \ {t} : task'[o] = task[o]
  /\ UNCHANGED <<role, active, limit>>

LEMMA CommandMoves ==
  ASSUME Peopled, Books, NEW a \in User, NEW s \in Role, NEW t \in Task,
         WorkStep(a, s, t) \/ ManageStep(a, s, t) \/ ReviewStep(a, s, t)
  PROVE  OneTask(t)
<1>1. Moves(t)
  BY WorkMoves, ManageMoves, ReviewMoves DEF Peopled
<1>2. \A o \in Task \ {t} : task'[o] = task[o]
  BY OthersSame DEF Same
<1>3. UNCHANGED userVars
  BY CommandKeepsAccounts
<1> QED
  BY <1>1, <1>2, <1>3 DEF OneTask, userVars

\* An edit of an account moves no task, and whoever holds or is offered live
\* work keeps role and account.
AccountsOnly ==
  /\ UNCHANGED task
  /\ \A u \in User : \/ role'[u] = role[u] /\ (active[u] => active'[u])
                     \/ NoResponsibilities(u)

LEMMA StepMoves ==
  ASSUME Peopled, Books, [Next]_vars
  PROVE  (\E t \in Task : OneTask(t)) \/ AccountsOnly
<1>1. CASE Next
  <2>1. PICK a \in User : \E s \in held[a] :
          \/ \E t \in Task : WorkStep(a, s, t) \/ ManageStep(a, s, t) \/ ReviewStep(a, s, t)
          \/ AccountStep(a, s)
    BY <1>1 DEF Next
  <2>2. PICK s \in held[a] :
          \/ \E t \in Task : WorkStep(a, s, t) \/ ManageStep(a, s, t) \/ ReviewStep(a, s, t)
          \/ AccountStep(a, s)
    BY <2>1
  <2>3. s \in Role /\ role \in [User -> Role] /\ active \in [User -> BOOLEAN]
    BY DEF Books, TypeOK
  <2>4. ASSUME NEW u, NEW l, UpdateCapacity(a, s, u, l) PROVE AccountsOnly
    BY <2>4 DEF UpdateCapacity, AccountsOnly
  <2>5. ASSUME NEW u \in Editable, NEW r \in Role, NEW act \in BOOLEAN, NEW l,
               UpdateUser(a, s, u, r, act, l)
        PROVE  AccountsOnly
    BY <2>3, <2>5, InputsAssumption DEF UpdateUser, AccountsOnly
  <2>6. AccountStep(a, s) => AccountsOnly
    BY <2>4, <2>5 DEF AccountStep
  <2> QED
    BY <2>2, <2>3, <2>6, CommandMoves
<1>2. CASE UNCHANGED vars
  BY <1>2 DEF vars, userVars, AccountsOnly
<1> QED
  BY <1>1, <1>2

\* A command keeps the routing of its task and of every other in order.
LEMMA MoveKeepsRoutes ==
  ASSUME Peopled, NEW t \in Task, OneTask(t)
  PROVE  Routes(t)'
<1>1. /\ task[t] \in TaskRow /\ Routes(t) /\ role' = role /\ active' = active
      /\ NoUser \notin User
  BY UsersAssumption DEF Peopled, TypeOK, OneTask
<1>2. CASE Created(t)
  BY <1>1, <1>2 DEF Created, HasCapacityFor, HasCapacity, Routes, OfferIsFree, AbsentIsFree,
     PrivateIsSpecific, HoldersFit
<1>3. ASSUME NEW aud \in Audience, NEW v \in Someone, Rerouted(t, aud, v)
      PROVE  Routes(t)'
  BY <1>1, <1>3 DEF Rerouted, MayRoute, HasCapacityFor, HasCapacity, Routes, OfferIsFree,
     AbsentIsFree, PrivateIsSpecific, HoldersFit
<1>4. ASSUME NEW a \in User, Taken(t, a)
      PROVE  Routes(t)'
  BY <1>1, <1>4 DEF Taken, HasCapacityFor, HasCapacity, Routes, OfferIsFree, AbsentIsFree,
     PrivateIsSpecific, HoldersFit
<1>5. CASE Resumed(t)
  BY <1>1, <1>5 DEF Resumed, Routes, OfferIsFree, AbsentIsFree, PrivateIsSpecific, HoldersFit,
     Terminal
<1>6. CASE Kept(t)
  BY <1>1, <1>6 DEF Kept, Routes, OfferIsFree, AbsentIsFree, PrivateIsSpecific, HoldersFit
<1> QED
  BY <1>2, <1>3, <1>4, <1>5, <1>6 DEF OneTask, Moves

LEMMA NextPeopled ==
  ASSUME Peopled, Books, [Next]_vars
  PROVE  Peopled'
<1>1. TypeOK'
  BY NextType DEF Peopled
<1>2. ASSUME NEW o \in Task
      PROVE  Routes(o)'
  <2>1. ASSUME NEW t \in Task, OneTask(t)
        PROVE  Routes(o)'
    <3>1. CASE o = t
      BY <2>1, <3>1, MoveKeepsRoutes
    <3>2. CASE o # t
      <4>1. task'[o] = task[o] /\ role' = role /\ active' = active /\ Routes(o)
        BY <2>1, <3>2 DEF OneTask, Peopled
      <4> QED
        BY <4>1 DEF Routes, OfferIsFree, AbsentIsFree, PrivateIsSpecific, HoldersFit
    <3> QED
      BY <3>1, <3>2
  <2>2. CASE AccountsOnly
    <3>1. task' = task /\ Routes(o) /\ NoUser \notin User
      BY <2>2, UsersAssumption DEF AccountsOnly, Peopled
    <3>2. ASSUME NEW u \in User, task[o].status \notin Terminal, u \in {task[o].owner, task[o].assignee}
          PROVE  active'[u] /\ RoleFits(task[o].audience, role'[u])
      <4>1. active[u] /\ RoleFits(task[o].audience, role[u]) /\ task[o].status # "ABSENT"
        BY <3>1, <3>2 DEF Routes, HoldersFit, OfferIsFree, AbsentIsFree
      <4>2. ~NoResponsibilities(u)
        BY <3>2, <4>1 DEF NoResponsibilities
      <4>3. role'[u] = role[u] /\ active'[u]
        BY <2>2, <4>1, <4>2 DEF AccountsOnly
      <4> QED
        BY <4>1, <4>3
    <3>3. HoldersFit(o)'
      BY <3>1, <3>2 DEF HoldersFit
    <3> QED
      BY <3>1, <3>3 DEF Routes, OfferIsFree, AbsentIsFree, PrivateIsSpecific
  <2> QED
    BY <2>1, <2>2, StepMoves
<1> QED
  BY <1>1, <1>2 DEF Peopled

LEMMA InitPeopled == Init => Peopled
<1> SUFFICES ASSUME Init PROVE Peopled
  OBVIOUS
<1>1. \A t \in Task : task[t] = NoTask
  BY DEF Init
<1>2. \A t \in Task : Routes(t)
  BY <1>1, UsersAssumption DEF NoTask, Routes, OfferIsFree, AbsentIsFree, PrivateIsSpecific, HoldersFit
<1> QED
  BY <1>2, InitType DEF Peopled

\* Whoever holds live work, or is offered it, is active and of a role that its
\* audience admits, in every company and however accounts are edited meanwhile.
THEOREM HoldersStayEligible == Spec => []HoldersEligible
<1>1. Init => Books /\ Peopled
  BY InitBooks, InitPeopled
<1>2. Books /\ Peopled /\ [Next]_vars => (Books /\ Peopled)'
  BY NextBooks, NextPeopled
<1>3. Peopled => HoldersEligible
  BY DEF Peopled, Routes, HoldersFit, HoldersEligible
<1> QED
  BY <1>1, <1>2, <1>3, PTL DEF Spec

\* Who comes to see a task that was restricted, without a confirmation?
LEMMA ShownByMove ==
  ASSUME Peopled, NEW t \in Task, OneTask(t), NEW u \in User,
         task[t].status # "ABSENT", History(t) # {}, role[u] # "ADMIN",
         ~ShownTo(t, u), ShownTo(t, u)'
  PROVE  task'[t].exposed
<1>1. /\ task[t] \in TaskRow /\ Routes(t) /\ role' = role /\ NoUser \notin User
      /\ role \in [User -> Role] /\ task[t].audience \in Audience
  BY UsersAssumption DEF Peopled, TypeOK, OneTask, TaskRow
<1>2. task[t].audience # "EMPLOYEES"
  BY DEF ShownTo
<1>3. \/ task[t].audience = "MANAGEMENT" /\ role[u] = "EMPLOYEE" /\ "MANAGEMENT" \in History(t)
      \/ task[t].audience = "PRIVATE" /\ u \notin {task[t].assignee, task[t].owner}
         /\ "PRIVATE" \in History(t)
  BY <1>1, <1>2 DEF ShownTo, Audience, History, Restricted
<1>4. CASE Created(t)
  BY <1>4 DEF Created
<1>5. ASSUME NEW aud \in Audience, NEW v \in Someone, Rerouted(t, aud, v)
      PROVE  task'[t].exposed
  <2>1. /\ task'[t].audience = aud /\ task'[t].assignee = v /\ task'[t].owner = NoUser
        /\ task'[t].exposed = Broadens(t, aud, v)
    BY <1>5 DEF Rerouted
  <2>2. \/ aud = "EMPLOYEES"
        \/ aud = "MANAGEMENT" /\ role[u] # "EMPLOYEE"
        \/ aud = "PRIVATE" /\ u = v
    BY <1>1, <2>1 DEF ShownTo, Audience
  <2>3. Broadens(t, aud, v)
    BY <1>1, <1>3, <2>2 DEF Broadens
  <2> QED
    BY <2>1, <2>3
<1>6. ASSUME NEW a \in User, Taken(t, a)
      PROVE  FALSE
  BY <1>1, <1>3, <1>6 DEF Taken, ShownTo, Routes, PrivateIsSpecific
<1>7. CASE Resumed(t) \/ Kept(t)
  BY <1>1, <1>3, <1>7 DEF Resumed, Kept, ShownTo
<1> QED
  BY <1>4, <1>5, <1>6, <1>7 DEF OneTask, Moves

\* What was ever restricted is shown to no further worker unless the request
\* confirmed it, in one step or in many.
THEOREM ExposureIsConfirmed == Spec => ExposureConfirmed
<1> DEFINE Confirmed ==
      \A t \in Task, u \in User :
       (/\ task[t].status # "ABSENT" /\ History(t) # {}
        /\ role'[u] = role[u] /\ role[u] # "ADMIN"
        /\ ~ShownTo(t, u) /\ ShownTo(t, u)')
       => task'[t].exposed
<1>1. Init => Books /\ Peopled
  BY InitBooks, InitPeopled
<1>2. Books /\ Peopled /\ [Next]_vars => (Books /\ Peopled)'
  BY NextBooks, NextPeopled
<1>3. Books /\ Peopled /\ [Next]_vars => Confirmed
  <2> SUFFICES ASSUME Books, Peopled, [Next]_vars, NEW t \in Task, NEW u \in User,
                      task[t].status # "ABSENT", History(t) # {},
                      role'[u] = role[u], role[u] # "ADMIN",
                      ~ShownTo(t, u), ShownTo(t, u)'
               PROVE  task'[t].exposed
    OBVIOUS
  <2>1. CASE AccountsOnly
    BY <2>1 DEF AccountsOnly, ShownTo
  <2>2. ASSUME NEW o \in Task, OneTask(o)
        PROVE  task'[t].exposed
    <3>1. CASE o = t
      BY <2>2, <3>1, ShownByMove
    <3>2. CASE o # t
      BY <2>2, <3>2 DEF OneTask, ShownTo
    <3> QED
      BY <3>1, <3>2
  <2> QED
    BY <2>1, <2>2, StepMoves
<1>4. [][Confirmed]_vars => ExposureConfirmed
  BY DEF ExposureConfirmed
<1> QED
  BY <1>1, <1>2, <1>3, <1>4, PTL DEF Spec

\* One more element counts for one at most.
LEMMA OneMore ==
  ASSUME NEW S, IsFiniteSet(S), NEW x, NEW T, T \subseteq S \cup {x}
  PROVE  /\ Cardinality(S) \in Nat /\ Cardinality(T) \in Nat
         /\ Cardinality(T) <= Cardinality(S) + 1
         /\ T \subseteq S => Cardinality(T) <= Cardinality(S)
<1>1. IsFiniteSet(S \cup {x}) /\ Cardinality(S) \in Nat
  BY FS_AddElement, FS_CardinalityType
<1>2. Cardinality(S \cup {x}) <= Cardinality(S) + 1
  BY <1>1, FS_AddElement
<1>3. IsFiniteSet(T) /\ Cardinality(T) <= Cardinality(S \cup {x})
  BY <1>1, FS_Subset
<1>4. Cardinality(T) \in Nat /\ Cardinality(S \cup {x}) \in Nat
  BY <1>1, <1>3, FS_CardinalityType
<1>5. T \subseteq S => Cardinality(T) <= Cardinality(S)
  BY FS_Subset
<1> QED
  BY <1>1, <1>2, <1>3, <1>4, <1>5

ActiveWork(u) == {t \in Task : task[t].owner = u /\ task[t].status \in ActiveStatuses}

\* Work becomes active by being taken or resumed, both within the limit.
LEMMA GrowsWithinLimit ==
  ASSUME Peopled, NEW t \in Task, OneTask(t), NEW u \in User, ActiveCount(u)' > ActiveCount(u)
  PROVE  ActiveCount(u)' <= limit'[u]
<1>1. limit' = limit /\ limit[u] \in Nat /\ NoUser # u
  <2>1. limit' = limit /\ NoUser # u
    BY UsersAssumption DEF OneTask
  <2>2. limit \in [User -> 1..100]
    BY DEF Peopled, TypeOK
  <2>3. limit[u] \in 1..100
    BY <2>2
  <2> QED
    BY <2>1, <2>3
<1>2. PICK S : S = ActiveWork(u)
  OBVIOUS
<1>3. PICK T : T = ActiveWork(u)'
  OBVIOUS
<1>4. ActiveCount(u) = Cardinality(S) /\ ActiveCount(u)' = Cardinality(T)
  BY <1>2, <1>3 DEF ActiveCount, ActiveWork
<1>5. T \subseteq S \cup {t}
  BY <1>2, <1>3 DEF ActiveWork, OneTask
<1>6. IsFiniteSet(S)
  BY <1>2, FiniteAssumption, FS_Subset DEF ActiveWork
<1>7. /\ Cardinality(S) \in Nat /\ Cardinality(T) \in Nat
      /\ Cardinality(T) <= Cardinality(S) + 1
      /\ T \subseteq S => Cardinality(T) <= Cardinality(S)
  BY <1>5, <1>6, OneMore
<1>8. t \in T /\ t \notin S
  BY <1>4, <1>5, <1>7
<1>9. /\ task'[t].owner = u /\ task'[t].status \in ActiveStatuses
      /\ ~(task[t].owner = u /\ task[t].status \in ActiveStatuses)
  BY <1>2, <1>3, <1>8 DEF ActiveWork
<1>10. HasCapacity(u)
  <2>1. ~Created(t)
    BY <1>9 DEF Created, ActiveStatuses
  <2>2. \A aud, v : ~Rerouted(t, aud, v)
    BY <1>9 DEF Rerouted, ActiveStatuses
  <2>3. \A a \in User : Taken(t, a) => HasCapacity(u)
    BY <1>9 DEF Taken, HasCapacityFor
  <2>4. Resumed(t) => HasCapacity(u)
    BY <1>9 DEF Resumed
  <2>5. ~Kept(t)
    BY <1>1, <1>9 DEF Kept
  <2> QED
    BY <2>1, <2>2, <2>3, <2>4, <2>5 DEF OneTask, Moves
<1>11. Cardinality(S) < limit[u]
  BY <1>4, <1>10 DEF HasCapacity
<1> QED
  BY <1>1, <1>4, <1>7, <1>11

\* No step takes anybody's active work beyond the limit, however many tasks
\* there are and however the limit is edited.
THEOREM CapacityIsKept == Spec => NoStepOverCapacity
<1> DEFINE Within == \A u \in User : ActiveCount(u)' > ActiveCount(u) => ActiveCount(u)' <= limit'[u]
<1>1. Init => Books /\ Peopled
  BY InitBooks, InitPeopled
<1>2. Books /\ Peopled /\ [Next]_vars => (Books /\ Peopled)'
  BY NextBooks, NextPeopled
<1>3. Books /\ Peopled /\ [Next]_vars => Within
  <2> SUFFICES ASSUME Books, Peopled, [Next]_vars, NEW u \in User, ActiveCount(u)' > ActiveCount(u)
               PROVE  ActiveCount(u)' <= limit'[u]
    OBVIOUS
  <2>1. CASE AccountsOnly
    <3>1. PICK n : n = ActiveCount(u)
      OBVIOUS
    <3>2. ActiveCount(u)' = n
      BY <2>1, <3>1 DEF AccountsOnly, ActiveCount
    <3>3. n \in Nat
      <4>1. IsFiniteSet(ActiveWork(u))
        BY FiniteAssumption, FS_Subset DEF ActiveWork
      <4> QED
        BY <3>1, <4>1, FS_CardinalityType DEF ActiveCount, ActiveWork
    <3> QED
      BY <3>1, <3>2, <3>3
  <2> QED
    BY <2>1, GrowsWithinLimit, StepMoves
<1>4. [][Within]_vars => NoStepOverCapacity
  BY DEF NoStepOverCapacity
<1> QED
  BY <1>1, <1>2, <1>3, <1>4, PTL DEF Spec

----------------------------------------------------------------------------
(* The payroll: every command, read by the accounts it leaves behind.       *)

\* What is said of a task in the payroll is said of its account.
LEMMA PayrollReads ==
  ASSUME NEW t \in Task
  PROVE  /\ Payroll!Running(t) <=> AccountOf(t).phase = "OPEN"
         /\ Payroll!Held(t) <=> AccountOf(t).phase = "OPEN" /\ AccountOf(t).holder # NoUser
         /\ Payroll!Free(t) <=> AccountOf(t).phase = "OPEN" /\ AccountOf(t).holder = NoUser
         /\ Payroll!Amount(t) = AccountOf(t)'.paid - AccountOf(t).paid
         /\ Payroll!PaysNobody <=> credited' = credited
<1> DEFINE b == [o \in Task |-> AccountOf(o)]
<1>1. b[t] = AccountOf(t) /\ b'[t] = AccountOf(t)'
  OBVIOUS
<1> HIDE DEF b
<1> QED
  BY <1>1 DEF Payroll!Running, Payroll!Held, Payroll!Free, Payroll!Amount, Payroll!PaysNobody, b

\* A task pays its holder n.
PaysHolder(t, n) ==
  credited' = [credited EXCEPT ![t][econ[t].cycle][task[t].owner] = @ + n]

LEMMA PayrollPays ==
  ASSUME NEW t \in Task, NEW n \in Nat, econ[t] \in EconRow, econ'[t].paid = econ[t].paid + n,
         econ'[t].paid <= econ[t].reward, PaysHolder(t, n)
  PROVE  Payroll!Pays(t)
<1> DEFINE b == [o \in Task |-> AccountOf(o)]
<1>1. b[t] = AccountOf(t) /\ b'[t] = AccountOf(t)'
  OBVIOUS
<1>2. Payroll!Amount(t) = n
  BY PayrollReads DEF AccountOf, EconRow
<1>3. /\ AccountOf(t).cycle = econ[t].cycle /\ AccountOf(t).holder = task[t].owner
      /\ AccountOf(t).promise = econ[t].reward /\ AccountOf(t)'.paid = econ'[t].paid
  BY DEF AccountOf
<1> DEFINE after(c, u, m) == [credited EXCEPT ![t][c][u] = @ + m]
<1>4. credited' = after(b[t].cycle, b[t].holder, Payroll!Amount(t))
  <2>1. credited' = after(econ[t].cycle, task[t].owner, n)
    BY DEF PaysHolder
  <2> HIDE DEF b, after
  <2> QED
    BY <1>1, <1>2, <1>3, <2>1
<1>5. Payroll!Amount(t) >= 0 /\ b'[t].paid <= b[t].promise
  <2> HIDE DEF b
  <2> QED
    BY <1>1, <1>2, <1>3
<1> QED
  BY <1>4, <1>5 DEF Payroll!Pays

\* How a payroll move reads on an account, move by move.
LEMMA ReadOpen ==
  ASSUME NEW t \in Task, AccountOf(t).phase = "NONE", AccountOf(t)'.promise >= 0,
         AccountOf(t)' = [AccountOf(t) EXCEPT !.phase = "OPEN", !.promise = AccountOf(t)'.promise],
         credited' = credited
  PROVE  Payroll!Open(t)
<1> DEFINE b == [o \in Task |-> AccountOf(o)]
<1>1. b[t] = AccountOf(t) /\ b'[t] = AccountOf(t)'
  OBVIOUS
<1>2. b[t].phase = "NONE" /\ b'[t].promise >= 0
  BY <1>1
<1>3. b'[t] = [b[t] EXCEPT !.phase = "OPEN", !.promise = b'[t].promise]
  BY <1>1
<1> QED
  BY <1>2, <1>3, PayrollReads DEF Payroll!Open

LEMMA ReadReprice ==
  ASSUME NEW t \in Task, AccountOf(t).phase = "OPEN", AccountOf(t).holder = NoUser,
         AccountOf(t).paid = 0, AccountOf(t)'.promise >= 0,
         AccountOf(t)' = [AccountOf(t) EXCEPT !.promise = AccountOf(t)'.promise],
         credited' = credited
  PROVE  Payroll!Reprice(t)
<1> DEFINE b == [o \in Task |-> AccountOf(o)]
<1>1. b[t] = AccountOf(t) /\ b'[t] = AccountOf(t)'
  OBVIOUS
<1>2. b[t].paid = 0 /\ b'[t].promise >= 0
  BY <1>1
<1>3. b'[t] = [b[t] EXCEPT !.promise = b'[t].promise]
  BY <1>1
<1> QED
  BY <1>2, <1>3, PayrollReads DEF Payroll!Reprice

LEMMA ReadTake ==
  ASSUME NEW t \in Task, NEW u \in User, AccountOf(t).phase = "OPEN", AccountOf(t).holder = NoUser,
         AccountOf(t)' = [AccountOf(t) EXCEPT !.holder = u], credited' = credited
  PROVE  Payroll!Take(t)
<1> DEFINE b == [o \in Task |-> AccountOf(o)]
<1>1. b[t] = AccountOf(t) /\ b'[t] = AccountOf(t)'
  OBVIOUS
<1>2. b'[t] = [b[t] EXCEPT !.holder = u]
  BY <1>1
<1> QED
  BY <1>2, PayrollReads DEF Payroll!Take

LEMMA ReadGiveBack ==
  ASSUME NEW t \in Task, AccountOf(t).phase = "OPEN", AccountOf(t).holder # NoUser,
         AccountOf(t)' = [AccountOf(t) EXCEPT !.holder = NoUser], credited' = credited
  PROVE  Payroll!GiveBack(t)
<1> DEFINE b == [o \in Task |-> AccountOf(o)]
<1>1. b[t] = AccountOf(t) /\ b'[t] = AccountOf(t)'
  OBVIOUS
<1>2. b'[t] = [b[t] EXCEPT !.holder = NoUser]
  BY <1>1
<1> QED
  BY <1>2, PayrollReads DEF Payroll!GiveBack

LEMMA ReadHandOn ==
  ASSUME NEW t \in Task, AccountOf(t).phase = "OPEN", AccountOf(t).holder # NoUser, Payroll!Pays(t),
         AccountOf(t)'.promise >= AccountOf(t)'.paid,
         AccountOf(t)' = [AccountOf(t) EXCEPT !.paid = AccountOf(t)'.paid,
                                              !.promise = AccountOf(t)'.promise, !.holder = NoUser]
  PROVE  Payroll!HandOn(t)
<1> DEFINE b == [o \in Task |-> AccountOf(o)]
<1>1. b[t] = AccountOf(t) /\ b'[t] = AccountOf(t)'
  OBVIOUS
<1>2. b'[t].promise >= b'[t].paid
  BY <1>1
<1>3. b'[t] = [b[t] EXCEPT !.paid = b'[t].paid, !.promise = b'[t].promise, !.holder = NoUser]
  BY <1>1
<1> QED
  BY <1>2, <1>3, PayrollReads DEF Payroll!HandOn

LEMMA ReadFinish ==
  ASSUME NEW t \in Task, AccountOf(t).phase = "OPEN", AccountOf(t).holder # NoUser, Payroll!Pays(t),
         AccountOf(t)' = [AccountOf(t) EXCEPT !.phase = "DONE", !.paid = AccountOf(t).promise]
  PROVE  Payroll!Finish(t)
<1> DEFINE b == [o \in Task |-> AccountOf(o)]
<1>1. b[t] = AccountOf(t) /\ b'[t] = AccountOf(t)'
  OBVIOUS
<1>2. b'[t] = [b[t] EXCEPT !.phase = "DONE", !.paid = b[t].promise]
  BY <1>1
<1> QED
  BY <1>2, PayrollReads DEF Payroll!Finish

LEMMA ReadStop ==
  ASSUME NEW t \in Task, AccountOf(t).phase = "OPEN",
         \/ AccountOf(t).holder # NoUser /\ Payroll!Pays(t)
         \/ AccountOf(t).holder = NoUser /\ Payroll!Amount(t) = 0 /\ credited' = credited,
         AccountOf(t)' = [AccountOf(t) EXCEPT !.phase = "STOPPED", !.paid = AccountOf(t)'.paid]
  PROVE  Payroll!Stop(t)
<1> DEFINE b == [o \in Task |-> AccountOf(o)]
<1>1. b[t] = AccountOf(t) /\ b'[t] = AccountOf(t)'
  OBVIOUS
<1>2. b'[t] = [b[t] EXCEPT !.phase = "STOPPED", !.paid = b'[t].paid]
  BY <1>1
<1> QED
  BY <1>2, PayrollReads DEF Payroll!Stop

LEMMA ReadRenew ==
  ASSUME NEW t \in Task, AccountOf(t).phase \in {"DONE", "STOPPED"},
         AccountOf(t)' = [AccountOf(t) EXCEPT !.phase = "OPEN", !.cycle = @ + 1, !.paid = 0,
                                              !.holder = NoUser],
         credited' = credited
  PROVE  Payroll!Renew(t)
<1> DEFINE b == [o \in Task |-> AccountOf(o)]
<1>1. b[t] = AccountOf(t) /\ b'[t] = AccountOf(t)'
  OBVIOUS
<1>2. b[t].phase \in {"DONE", "STOPPED"}
  BY <1>1
<1>3. b'[t] = [b[t] EXCEPT !.phase = "OPEN", !.cycle = @ + 1, !.paid = 0, !.holder = NoUser]
  BY <1>1
<1> QED
  BY <1>2, <1>3, PayrollReads DEF Payroll!Renew

\* The money of a task moves as the payroll lets it, or not at all.
OnPayroll(t) == Payroll!Move(t) \/ (AccountOf(t)' = AccountOf(t) /\ credited' = credited)

LEMMA CreateOnPayroll ==
  ASSUME TypeOK, NEW a, NEW s, NEW t \in Task, NEW scope, NEW aud, NEW mode, NEW v,
         NEW reward \in Rewards, Routes(t), CreateTask(a, s, t, scope, aud, mode, v, reward)
  PROVE  OnPayroll(t)
<1>1. /\ task[t].status = "ABSENT" /\ task'[t].status = "OPEN" /\ task'[t].owner = NoUser
      /\ task[t].owner = NoUser
  BY CreateMoves DEF Created, Routes, OfferIsFree
<1>2. /\ econ'[t].reward = reward /\ econ'[t].paid = econ[t].paid
      /\ econ'[t].cycle = econ[t].cycle /\ credited' = credited
  BY DEF CreateTask, TypeOK, EconRow
<1>3. reward >= 0
  BY InputsAssumption
<1>4. Payroll!Open(t)
  <2>1. AccountOf(t).phase = "NONE" /\ AccountOf(t)'.promise >= 0
    BY <1>1, <1>2, <1>3 DEF AccountOf
  <2>2. AccountOf(t)' = [AccountOf(t) EXCEPT !.phase = "OPEN", !.promise = AccountOf(t)'.promise]
    <3>1. AccountOf(t)' = [phase |-> "OPEN", cycle |-> econ[t].cycle, promise |-> reward,
                           paid |-> econ[t].paid, holder |-> NoUser]
      BY <1>1, <1>2 DEF AccountOf
    <3>2. AccountOf(t) = [phase |-> "NONE", cycle |-> econ[t].cycle, promise |-> econ[t].reward,
                          paid |-> econ[t].paid, holder |-> NoUser]
      BY <1>1 DEF AccountOf
    <3>3. AccountOf(t)'.promise = reward
      BY <3>1
    <3>4. PICK y : y = [AccountOf(t) EXCEPT !.phase = "OPEN"]
      OBVIOUS
    <3>5. y = [phase |-> "OPEN", cycle |-> econ[t].cycle, promise |-> econ[t].reward,
               paid |-> econ[t].paid, holder |-> NoUser]
      BY <3>2, <3>4
    <3>6. AccountOf(t)' = [y EXCEPT !.promise = reward]
      BY <3>1, <3>5
    <3> QED
      BY <3>3, <3>4, <3>6
  <2> QED
    BY <1>2, <2>1, <2>2, ReadOpen
<1> QED
  BY <1>4 DEF OnPayroll, Payroll!Move

LEMMA EditOnPayroll ==
  ASSUME TypeOK, NEW a, NEW s, NEW t \in Task, NEW reward \in Rewards, NothingForNothing(t),
         EditReward(a, s, t, reward)
  PROVE  OnPayroll(t)
<1>1. /\ task[t].status = "OPEN" /\ task[t].owner = NoUser /\ econ[t].verified = 0
      /\ task' = task /\ credited' = credited
  BY DEF EditReward, Started
<1>2. econ[t].paid = 0
  BY <1>1 DEF NothingForNothing
<1>3. /\ econ'[t].reward = reward /\ econ'[t].paid = econ[t].paid
      /\ econ'[t].cycle = econ[t].cycle
  BY DEF EditReward, TypeOK, EconRow
<1>4. reward >= 0
  BY InputsAssumption
<1>5. Payroll!Reprice(t)
  <2>1. /\ AccountOf(t).phase = "OPEN" /\ AccountOf(t).holder = NoUser
        /\ AccountOf(t).paid = 0 /\ AccountOf(t)'.promise >= 0
    BY <1>1, <1>2, <1>3, <1>4 DEF AccountOf
  <2>2. AccountOf(t)' = [AccountOf(t) EXCEPT !.promise = AccountOf(t)'.promise]
    BY <1>1, <1>3 DEF AccountOf
  <2> QED
    BY <1>1, <2>1, <2>2, ReadReprice
<1> QED
  BY <1>5 DEF OnPayroll, Payroll!Move

\* Work that its holder gives up.
LEMMA ReturnOnPayroll ==
  ASSUME NEW t \in Task, task[t].owner # NoUser, task[t].status \in {"IN_PROGRESS", "REJECTED"},
         task'[t].owner = NoUser, task'[t].status = "OPEN", econ' = econ, credited' = credited
  PROVE  OnPayroll(t)
<1>1. AccountOf(t).phase = "OPEN" /\ AccountOf(t).holder # NoUser
  BY DEF AccountOf
<1>2. AccountOf(t)' = [AccountOf(t) EXCEPT !.holder = NoUser]
  BY DEF AccountOf
<1>3. Payroll!GiveBack(t)
  BY <1>1, <1>2, ReadGiveBack
<1> QED
  BY <1>3 DEF OnPayroll, Payroll!Move

LEMMA WorkOnPayroll ==
  ASSUME TypeOK, NEW a \in User, NEW s, NEW t \in Task, Routes(t), WorkStep(a, s, t)
  PROVE  OnPayroll(t)
<1>1. /\ task \in [Task -> TaskRow] /\ task[t] \in TaskRow /\ task[t].status # "ABSENT"
      /\ econ' = econ /\ credited' = credited /\ a # NoUser
  BY WorkFrame, SeenIsPresent, UsersAssumption DEF TypeOK
<1>2. CASE ClaimTask(a, s, t)
  <2>1. /\ task[t].status = "OPEN" /\ task[t].owner = NoUser
        /\ task'[t].status = "IN_PROGRESS" /\ task'[t].owner = a
    BY <1>1, <1>2 DEF ClaimTask, TaskRow, Routes, OfferIsFree
  <2>2. AccountOf(t).phase = "OPEN" /\ AccountOf(t).holder = NoUser
    BY <2>1 DEF AccountOf
  <2>3. AccountOf(t)' = [AccountOf(t) EXCEPT !.holder = a]
    BY <1>1, <2>1 DEF AccountOf
  <2>4. Payroll!Take(t)
    BY <1>1, <2>2, <2>3, ReadTake
  <2> QED
    BY <2>4 DEF OnPayroll, Payroll!Move
<1>3. CASE DeclineAssignment(a, s, t)
  <2> DEFINE owned == /\ task[t].owner = a /\ task[t].status \in {"IN_PROGRESS", "REJECTED"}
                      /\ task[t].mode = "SPECIFIC_EMPLOYEE"
  <2>1. CASE owned
    <3>1. task[t].owner = a /\ task'[t].owner = NoUser /\ task'[t].status = "OPEN"
      BY <1>1, <1>3, <2>1 DEF DeclineAssignment, TaskRow
    <3>2. task[t].status \in {"IN_PROGRESS", "REJECTED"}
      BY <2>1
    <3> QED
      BY <1>1, <3>1, <3>2, ReturnOnPayroll
  <2>2. CASE ~owned
    <3>1. task'[t].owner = task[t].owner /\ task'[t].status = task[t].status
      BY <1>1, <1>3, <2>2 DEF DeclineAssignment, TaskRow
    <3> QED
      BY <1>1, <3>1 DEF OnPayroll, AccountOf
  <2> QED
    BY <2>1, <2>2
<1>4. ASSUME NEW p, ReturnClaim(a, s, t, p)
      PROVE  OnPayroll(t)
  <2>1. /\ task[t].owner = a /\ task[t].status \in {"IN_PROGRESS", "REJECTED"}
        /\ task'[t].owner = NoUser /\ task'[t].status = "OPEN"
    BY <1>1, <1>4 DEF ReturnClaim, TaskRow
  <2> QED
    BY <1>1, <2>1, ReturnOnPayroll
<1>5. ASSUME NEW pct, ReportProgress(a, s, t, pct)
      PROVE  OnPayroll(t)
  <2>1. task'[t].owner = task[t].owner /\ task'[t].status = task[t].status
    BY <1>1, <1>5 DEF ReportProgress, TaskRow
  <2> QED
    BY <1>1, <2>1 DEF OnPayroll, AccountOf
<1>6. CASE SubmitWork(a, s, t)
  <2>1. /\ task'[t].owner = task[t].owner /\ task[t].status = "IN_PROGRESS"
        /\ task'[t].status = "SUBMITTED"
    BY <1>1, <1>6 DEF SubmitWork, TaskRow
  <2> QED
    BY <1>1, <2>1 DEF OnPayroll, AccountOf
<1>7. CASE ResumeWork(a, s, t)
  <2>1. /\ task'[t].owner = task[t].owner /\ task[t].status = "REJECTED"
        /\ task'[t].status = "IN_PROGRESS"
    BY <1>1, <1>7 DEF ResumeWork, TaskRow
  <2> QED
    BY <1>1, <2>1 DEF OnPayroll, AccountOf
<1> QED
  BY <1>2, <1>3, <1>4, <1>5, <1>6, <1>7 DEF WorkStep

\* A decision that pays the holder out of the promise pays as the payroll does.
LEMMA DecisionPays ==
  ASSUME TypeOK, NEW t \in Task, NEW pct, NEW payout \in Nat, Pays(t, pct, payout),
         task[t].owner # NoUser, econ[t].paid + payout <= econ[t].reward
  PROVE  Payroll!Pays(t)
<1>1. /\ econ[t] \in EconRow /\ econ[t].cycle \in Cycle /\ task[t].owner \in User
      /\ credited \in [Task -> [Cycle -> [User -> Nat]]]
  BY DEF TypeOK, EconRow, TaskRow, Someone
<1>2. PaysHolder(t, payout)
  <2>1. CASE Settle(t, task[t].owner, pct, payout)
    BY <2>1 DEF Settle, PaysHolder
  <2>2. CASE payout = 0 /\ credited' = credited
    <3> DEFINE c == econ[t].cycle
               u == task[t].owner
    <3>1. credited[t][c][u] + 0 = credited[t][c][u]
      BY <1>1
    <3> HIDE DEF c, u
    <3>2. credited = [credited EXCEPT ![t][c][u] = credited[t][c][u]]
      BY <1>1
    <3>3. credited = [credited EXCEPT ![t][c][u] = @ + 0]
      BY <3>1, <3>2
    <3> QED
      BY <2>2, <3>3 DEF PaysHolder, c, u
  <2> QED
    BY <2>1, <2>2 DEF Pays
<1>3. econ'[t].paid = econ[t].paid + payout /\ econ'[t].paid <= econ[t].reward
  BY DEF Pays
<1> QED
  BY <1>1, <1>2, <1>3, PayrollPays

LEMMA ApproveOnPayroll ==
  ASSUME TypeOK, NEW a \in User, NEW s \in Role, NEW t \in Task, PaidFits(t), HeldHasOwner(t),
         ApproveWork(a, s, t)
  PROVE  OnPayroll(t)
<1>1. PICK pct \in Nat, payout \in Nat :
        /\ Pays(t, pct, payout)
        /\ econ'[t].paid = econ[t].reward /\ econ'[t].reward = econ[t].reward
  BY ApprovePays
<1>2. /\ task[t].status = "SUBMITTED" /\ task[t].owner # NoUser
      /\ task'[t].status = "APPROVED" /\ task'[t].owner = task[t].owner
  BY DEF ApproveWork, HeldHasOwner, TypeOK, TaskRow
<1>3. Payroll!Pays(t)
  BY <1>1, <1>2, DecisionPays DEF Pays, PaidFits, TypeOK, EconRow
<1>4. AccountOf(t).phase = "OPEN" /\ AccountOf(t).holder # NoUser
  BY <1>2 DEF AccountOf
<1>5. AccountOf(t)' = [AccountOf(t) EXCEPT !.phase = "DONE", !.paid = AccountOf(t).promise]
  <2>1. AccountOf(t)' = [phase |-> "DONE", cycle |-> econ[t].cycle, promise |-> econ[t].reward,
                         paid |-> econ[t].reward, holder |-> task[t].owner]
    BY <1>1, <1>2 DEF AccountOf, Pays
  <2>2. PICK y : y = [AccountOf(t) EXCEPT !.phase = "DONE"]
    OBVIOUS
  <2>3. y = [phase |-> "DONE", cycle |-> econ[t].cycle, promise |-> econ[t].reward,
             paid |-> econ[t].paid, holder |-> task[t].owner]
    BY <2>2 DEF AccountOf
  <2>4. AccountOf(t)' = [y EXCEPT !.paid = econ[t].reward]
    BY <2>1, <2>3
  <2>5. AccountOf(t).promise = econ[t].reward
    BY DEF AccountOf
  <2> QED
    BY <2>2, <2>4, <2>5
<1>6. Payroll!Finish(t)
  BY <1>3, <1>4, <1>5, ReadFinish
<1> QED
  BY <1>6 DEF OnPayroll, Payroll!Move

LEMMA CancelOnPayroll ==
  ASSUME TypeOK, NEW a \in User, NEW s \in Role, NEW t \in Task, NEW pct0 \in 0..100,
         PaidFits(t), CancelTask(a, s, t, pct0)
  PROVE  OnPayroll(t)
<1>1. PICK pct \in Nat, payout \in Nat : Pays(t, pct, payout) /\ econ'[t].reward = econ[t].reward
  BY CancelPays
<1>2. /\ task[t].status \notin Terminal \cup {"ABSENT"}
      /\ task'[t].status = "CANCELLED" /\ task'[t].owner = task[t].owner
  BY SeenIsPresent DEF CancelTask, TypeOK, TaskRow
<1>3. \/ AccountOf(t).holder # NoUser /\ Payroll!Pays(t)
      \/ AccountOf(t).holder = NoUser /\ Payroll!Amount(t) = 0 /\ credited' = credited
  <2>1. CASE task[t].owner # NoUser
    <3>1. Payroll!Pays(t)
      BY <1>1, <2>1, DecisionPays DEF Pays
    <3> QED
      BY <2>1, <3>1 DEF AccountOf
  <2>2. CASE task[t].owner = NoUser
    <3>1. payout = 0 /\ credited' = credited
      BY <1>1, <2>2 DEF Pays
    <3>2. econ'[t].paid = econ[t].paid /\ econ[t].paid \in Nat
      BY <1>1, <3>1 DEF Pays, TypeOK, EconRow
    <3>3. Payroll!Amount(t) = 0
      BY <3>2, PayrollReads DEF AccountOf
    <3> QED
      BY <2>2, <3>1, <3>3 DEF AccountOf
  <2> QED
    BY <2>1, <2>2
<1>4. AccountOf(t).phase = "OPEN"
  BY <1>2 DEF AccountOf, Terminal, TypeOK, TaskRow, Status
<1>5. AccountOf(t)' = [AccountOf(t) EXCEPT !.phase = "STOPPED", !.paid = AccountOf(t)'.paid]
  <2>1. AccountOf(t)' = [phase |-> "STOPPED", cycle |-> econ[t].cycle, promise |-> econ[t].reward,
                         paid |-> econ'[t].paid, holder |-> task[t].owner]
    BY <1>1, <1>2 DEF AccountOf, Pays
  <2>2. PICK y : y = [AccountOf(t) EXCEPT !.phase = "STOPPED"]
    OBVIOUS
  <2>3. y = [phase |-> "STOPPED", cycle |-> econ[t].cycle, promise |-> econ[t].reward,
             paid |-> econ[t].paid, holder |-> task[t].owner]
    BY <2>2 DEF AccountOf
  <2>4. AccountOf(t)' = [y EXCEPT !.paid = econ'[t].paid]
    BY <2>1, <2>3
  <2>5. AccountOf(t)'.paid = econ'[t].paid
    BY <2>1
  <2> QED
    BY <2>2, <2>4, <2>5
<1>6. Payroll!Stop(t)
  BY <1>3, <1>4, <1>5, ReadStop
<1> QED
  BY <1>6 DEF OnPayroll, Payroll!Move

LEMMA HandoffOnPayroll ==
  ASSUME TypeOK, NEW a \in User, NEW s \in Role, NEW t \in Task, NEW pct0 \in 0..100,
         NEW v \in Someone, NEW audience \in Audiences \cup {SameAudience},
         NEW left \in Leftovers \cup {Keep}, PaidFits(t), HeldHasOwner(t),
         Handoff(a, s, t, pct0, v, audience, left)
  PROVE  OnPayroll(t)
<1>1. PICK pct \in Nat, payout \in Nat :
        Pays(t, pct, payout) /\ econ[t].paid + payout <= econ[t].reward
  BY HandoffPays
<1>2. /\ task[t].status \in {"IN_PROGRESS", "SUBMITTED"} /\ task[t].owner # NoUser
      /\ task'[t].status = "OPEN" /\ task'[t].owner = NoUser
  <2>1. audience \in Audience \cup {SameAudience}
    BY InputsAssumption
  <2> QED
    BY <2>1, HandoffMoves DEF Handoff, HeldHasOwner, Rerouted
<1>3. Payroll!Pays(t)
  BY <1>1, <1>2, DecisionPays
<1>4. /\ AccountOf(t) = [phase |-> "OPEN", cycle |-> econ[t].cycle, promise |-> econ[t].reward,
                         paid |-> econ[t].paid, holder |-> task[t].owner]
      /\ AccountOf(t)' = [phase |-> "OPEN", cycle |-> econ[t].cycle, promise |-> econ'[t].reward,
                          paid |-> econ'[t].paid, holder |-> NoUser]
  BY <1>1, <1>2 DEF AccountOf, Pays
<1>5. /\ AccountOf(t).phase = "OPEN" /\ AccountOf(t).holder # NoUser
      /\ AccountOf(t)'.promise = econ'[t].reward /\ AccountOf(t)'.paid = econ'[t].paid
  BY <1>2, <1>4
<1>6. econ'[t].paid <= econ'[t].reward /\ econ'[t] \in EconRow
  <2>1. TypeOK'
    BY HandoffType
  <2> QED
    BY <1>1, <2>1 DEF Pays, TypeOK
<1>7. AccountOf(t)'.promise >= AccountOf(t)'.paid
  BY <1>5, <1>6 DEF EconRow
<1>8. AccountOf(t)' = [AccountOf(t) EXCEPT !.paid = AccountOf(t)'.paid,
                                           !.promise = AccountOf(t)'.promise, !.holder = NoUser]
  <2>1. PICK y : y = [AccountOf(t) EXCEPT !.paid = econ'[t].paid]
    OBVIOUS
  <2>2. y = [phase |-> "OPEN", cycle |-> econ[t].cycle, promise |-> econ[t].reward,
             paid |-> econ'[t].paid, holder |-> task[t].owner]
    BY <1>4, <2>1
  <2>3. PICK z : z = [y EXCEPT !.promise = econ'[t].reward]
    OBVIOUS
  <2>4. z = [phase |-> "OPEN", cycle |-> econ[t].cycle, promise |-> econ'[t].reward,
             paid |-> econ'[t].paid, holder |-> task[t].owner]
    BY <2>2, <2>3
  <2>5. AccountOf(t)' = [z EXCEPT !.holder = NoUser]
    BY <1>4, <2>4
  <2> QED
    BY <1>5, <2>1, <2>3, <2>5
<1>9. Payroll!HandOn(t)
  BY <1>3, <1>5, <1>7, <1>8, ReadHandOn
<1> QED
  BY <1>9 DEF OnPayroll, Payroll!Move

LEMMA NewCycleOnPayroll ==
  ASSUME TypeOK, NEW a, NEW s, NEW t \in Task, NEW closed \in Terminal, NEW v \in Someone,
         NEW audience \in Audience \cup {SameAudience}, NewCycle(a, s, t, closed, v, audience)
  PROVE  OnPayroll(t)
<1>1. /\ task[t].status \in Terminal /\ task'[t].status = "OPEN" /\ task'[t].owner = NoUser
  BY NewCycleMoves DEF NewCycle, Rerouted
<1>2. /\ econ'[t].cycle = econ[t].cycle + 1 /\ econ'[t].paid = 0
      /\ econ'[t].reward = econ[t].reward /\ credited' = credited
  BY DEF NewCycle, TypeOK, EconRow
<1>3. /\ AccountOf(t) = [phase |-> AccountOf(t).phase, cycle |-> econ[t].cycle, promise |-> econ[t].reward,
                         paid |-> econ[t].paid, holder |-> task[t].owner]
      /\ AccountOf(t)' = [phase |-> "OPEN", cycle |-> econ[t].cycle + 1, promise |-> econ[t].reward,
                          paid |-> 0, holder |-> NoUser]
  BY <1>1, <1>2 DEF AccountOf, Terminal
<1>4. AccountOf(t)' = [AccountOf(t) EXCEPT !.phase = "OPEN", !.cycle = @ + 1, !.paid = 0,
                                           !.holder = NoUser]
  <2>1. PICK y : y = [AccountOf(t) EXCEPT !.phase = "OPEN"]
    OBVIOUS
  <2>2. y = [phase |-> "OPEN", cycle |-> econ[t].cycle, promise |-> econ[t].reward,
             paid |-> econ[t].paid, holder |-> task[t].owner]
    BY <1>3, <2>1
  <2>3. PICK z : z = [y EXCEPT !.cycle = @ + 1]
    OBVIOUS
  <2>4. z = [phase |-> "OPEN", cycle |-> econ[t].cycle + 1, promise |-> econ[t].reward,
             paid |-> econ[t].paid, holder |-> task[t].owner]
    BY <2>2, <2>3
  <2>5. PICK x : x = [z EXCEPT !.paid = 0]
    OBVIOUS
  <2>6. x = [phase |-> "OPEN", cycle |-> econ[t].cycle + 1, promise |-> econ[t].reward,
             paid |-> 0, holder |-> task[t].owner]
    BY <2>4, <2>5
  <2>7. AccountOf(t)' = [x EXCEPT !.holder = NoUser]
    BY <1>3, <2>6
  <2> QED
    BY <2>1, <2>3, <2>5, <2>7
<1>5. AccountOf(t).phase \in {"DONE", "STOPPED"}
  BY <1>1 DEF AccountOf, Terminal
<1>6. Payroll!Renew(t)
  BY <1>2, <1>4, <1>5, ReadRenew
<1> QED
  BY <1>6 DEF OnPayroll, Payroll!Move

\* Every command moves the money of its own task as the payroll lets it.
LEMMA CommandOnPayroll ==
  ASSUME Books, Peopled, NEW a \in User, NEW s \in Role, NEW t \in Task,
         WorkStep(a, s, t) \/ ManageStep(a, s, t) \/ ReviewStep(a, s, t)
  PROVE  OnPayroll(t)
<1>1. /\ TypeOK /\ Routes(t) /\ PaidFits(t) /\ NothingForNothing(t) /\ HeldHasOwner(t)
      /\ Audiences \cup {SameAudience} \subseteq Audience \cup {SameAudience} /\ Pcts \subseteq 0..100
      /\ task \in [Task -> TaskRow] /\ task[t] \in TaskRow
  BY InputsAssumption DEF Books, TaskBooks, Peopled, TypeOK
<1>2. CASE WorkStep(a, s, t)
  BY <1>1, <1>2, WorkOnPayroll
<1>3. ASSUME NEW scope, NEW aud, NEW mode, NEW v, NEW w \in Rewards,
             CreateTask(a, s, t, scope, aud, mode, v, w)
      PROVE  OnPayroll(t)
  BY <1>1, <1>3, CreateOnPayroll
<1>4. ASSUME NEW w \in Rewards, EditReward(a, s, t, w)
      PROVE  OnPayroll(t)
  BY <1>1, <1>4, EditOnPayroll
<1>5. ASSUME NEW pct \in Pcts, CancelTask(a, s, t, pct)
      PROVE  OnPayroll(t)
  BY <1>1, <1>5, CancelOnPayroll
<1>6. ASSUME NEW p, SetAccess(a, s, t, p[1], p[2])
      PROVE  OnPayroll(t)
  <2>1. /\ task'[t].owner = task[t].owner /\ task'[t].status = task[t].status
        /\ econ' = econ /\ credited' = credited
    BY <1>1, <1>6 DEF SetAccess, bookVars, TaskRow
  <2> QED
    BY <2>1 DEF OnPayroll, AccountOf
<1>7. ASSUME NEW v \in Someone, NEW aud \in Audiences \cup {SameAudience}, Reassign(a, s, t, v, aud)
      PROVE  OnPayroll(t)
  <2>1. /\ task'[t].owner = NoUser /\ task[t].owner = NoUser
        /\ task'[t].status = "OPEN" /\ task[t].status = "OPEN"
        /\ econ' = econ /\ credited' = credited
    BY <1>1, <1>7, ReassignMoves DEF Reassign, bookVars, Rerouted, Routes, OfferIsFree
  <2> QED
    BY <2>1 DEF OnPayroll, AccountOf
<1>8. ASSUME NEW v \in Someone, NEW aud \in Audiences \cup {SameAudience},
             ReopenTask(a, s, t, v, aud) \/ ReactivateTask(a, s, t, v, aud)
      PROVE  OnPayroll(t)
  BY <1>1, <1>8, NewCycleOnPayroll DEF ReopenTask, ReactivateTask, Terminal
<1>9. CASE ApproveWork(a, s, t)
  BY <1>1, <1>9, ApproveOnPayroll
<1>10. CASE RejectWork(a, s, t)
  <2>1. /\ task'[t].owner = task[t].owner /\ task'[t].status = "REJECTED"
        /\ task[t].status = "SUBMITTED" /\ econ' = econ /\ credited' = credited
    BY <1>1, <1>10 DEF RejectWork, bookVars, TaskRow
  <2> QED
    BY <2>1 DEF OnPayroll, AccountOf
<1>11. ASSUME NEW pct \in Pcts, NEW v \in Someone, NEW aud \in Audiences \cup {SameAudience},
              NEW left \in Leftovers \cup {Keep}, Handoff(a, s, t, pct, v, aud, left)
       PROVE  OnPayroll(t)
  BY <1>1, <1>11, HandoffOnPayroll
<1> QED
  BY <1>2, <1>3, <1>4, <1>5, <1>6, <1>7, <1>8, <1>9, <1>10, <1>11 DEF ManageStep, ReviewStep

LEMMA InitPayroll == Init => Payroll!Init
<1> SUFFICES ASSUME Init PROVE Payroll!Init
  OBVIOUS
<1>1. \A t \in Task : /\ AccountOf(t).phase = "NONE" /\ AccountOf(t).cycle = 1
                      /\ AccountOf(t).paid = 0 /\ AccountOf(t).holder = NoUser
  BY DEF Init, NoTask, AccountOf
<1>2. credited = [t \in Task |-> [c \in Cycle |-> [u \in User |-> 0]]]
  BY DEF Init
<1> QED
  BY <1>1, <1>2 DEF Payroll!Init

\* What is the same for every task is the same for the payroll.
LEMMA QuietPayroll ==
  ASSUME \A t \in Task : AccountOf(t)' = AccountOf(t), credited' = credited
  PROVE  UNCHANGED Payroll!vars
<1>1. [t \in Task |-> AccountOf(t)]' = [t \in Task |-> AccountOf(t)]
  OBVIOUS
<1> QED
  BY <1>1 DEF Payroll!vars

LEMMA NextPayroll ==
  ASSUME Books, Peopled, [Next]_vars
  PROVE  [Payroll!Next]_(Payroll!vars)
<1>1. ASSUME NEW a \in User, NEW s \in Role, NEW t \in Task,
             WorkStep(a, s, t) \/ ManageStep(a, s, t) \/ ReviewStep(a, s, t)
      PROVE  [Payroll!Next]_(Payroll!vars)
  <2>1. OnPayroll(t)
    BY <1>1, CommandOnPayroll
  <2>2. \A o \in Task \ {t} : AccountOf(o)' = AccountOf(o)
    BY <1>1, OthersSame DEF Same, AccountOf
  <2>3. CASE Payroll!Move(t)
    <3> DEFINE b == [o \in Task |-> AccountOf(o)]
    <3>1. \A o \in Task \ {t} : b'[o] = b[o]
      BY <2>2
    <3> QED
      BY <2>3, <3>1 DEF Payroll!Next
  <2>4. CASE AccountOf(t)' = AccountOf(t) /\ credited' = credited
    BY <2>2, <2>4, QuietPayroll
  <2> QED
    BY <2>1, <2>3, <2>4 DEF OnPayroll
<1>2. CASE UNCHANGED <<task, bookVars>>
  <2>1. \A t \in Task : AccountOf(t)' = AccountOf(t)
    BY <1>2 DEF AccountOf, bookVars
  <2> QED
    BY <1>2, <2>1, QuietPayroll DEF bookVars
<1> QED
  BY <1>1, <1>2, StepCases

\* Every behaviour of the engine, read by its accounts, is one of the payroll:
\* the full set of commands, for every company, reward and percentage, moves
\* coins only as a cycle's payroll may.
THEOREM ImplementsPayroll == Spec => PaysAsPromised
<1>1. Init => Books /\ Peopled /\ Payroll!Init
  BY InitBooks, InitPeopled, InitPayroll
<1>2. Books /\ Peopled /\ [Next]_vars => Books' /\ Peopled'
  BY NextBooks, NextPeopled
<1>3. Books /\ Peopled /\ [Next]_vars => [Payroll!Next]_(Payroll!vars)
  BY NextPayroll
<1> QED
  BY <1>1, <1>2, <1>3, PTL DEF Spec, PaysAsPromised, Payroll!Spec
=============================================================================
