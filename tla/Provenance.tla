----------------------------- MODULE Provenance -----------------------------
(* What people are shown of incentive governance: provenance/service.py and  *)
(* the incentive half of attention/service.py.  The reads change nothing, so *)
(* they are operators of the state of Governance; where a query names no     *)
(* order, the operator is the set of the rows it may return.                 *)
EXTENDS Governance

\* The beneficiary's own items carry no governance identifiers.
Item(i, status) == [cand |-> i, status |-> status]

\* ._current_safety: nothing assessed yet counts as clear.
CurrentSafety(i) == IF head[i] = 0 THEN "CLEAR" ELSE Current(i).outcome

\* Mutant: approvals of an assessment are not looked for.
ApprovalOfPolicy(d, s) ==
    LET decided == {verdicts[q].verdict : q \in {p \in DOMAIN verdicts : p.decision = d /\ p.safety = 0}}
    IN  CASE decided = {} -> "PENDING_REVIEW"
          [] decided = {"REJECTED"} -> "NOT_APPROVED"
          [] OTHER -> "AUTHORIZED_PENDING"

\* Only the request bound to this decision and this assessment decides; while
\* it is undecided, or not even asked for, somebody is waiting.
ApprovalOutcome(d, s) ==
    LET decided == {verdicts[q].verdict : q \in {p \in DOMAIN verdicts : p.decision = d /\ p.safety = s}}
    IN  CASE decided = {} -> "PENDING_REVIEW"
          [] decided = {"REJECTED"} -> "NOT_APPROVED"
          [] OTHER -> "AUTHORIZED_PENDING"

\* Mutant: an approval is looked for before safety is.
NonPayoutOutcomeLate(d) ==
    CASE d.result = "SHADOW_ONLY" -> "HIDDEN"
      [] d.result = "BLOCK" -> "NOT_AUTHORIZED"
      [] d.result = "REQUIRE_APPROVAL" -> ApprovalOutcome(d, 0)
      [] OTHER -> IF CurrentSafety(d.cand) = "REQUIRE_REVIEW" THEN ApprovalOutcome(d, head[d.cand])
                  ELSE IF CurrentSafety(d.cand) = "SUPPRESS_INCENTIVE" THEN "SAFEGUARDED" ELSE "AUTHORIZED_PENDING"

\* ._non_payout_outcome of decision d: HIDDEN is the None of the code.
NonPayoutOutcome(d) ==
    LET safety == CurrentSafety(d.cand) IN
    CASE d.result = "SHADOW_ONLY" -> "HIDDEN"
      [] d.result # "SHADOW_ONLY" /\ safety = "SUPPRESS_INCENTIVE" -> "SAFEGUARDED"
      [] d.result = "BLOCK" /\ safety # "SUPPRESS_INCENTIVE" -> "NOT_AUTHORIZED"
      [] d.result = "REQUIRE_APPROVAL" /\ safety # "SUPPRESS_INCENTIVE" -> ApprovalOutcome(d, 0)
      [] d.result = "ALLOW" /\ safety = "REQUIRE_REVIEW" -> ApprovalOutcome(d, head[d.cand])
      [] OTHER -> "AUTHORIZED_PENDING"

\* The query for "the" decision of a candidate: there is one per set of
\* policies it was ever evaluated against, and the query names none.
DecisionRows(i) == {d \in decisions : d.cand = i}

Paid == {f.cand : f \in effects}

\* Candidates about u that were decided and not paid.
OutcomeStream(u) == {i \in Known \ Paid : Concerns(i) = u /\ DecisionRows(i) # {}}

\* What u may be told of them; a decision that only observes is told to nobody.
MyOutcomes(u) ==
    LET rows == {x \in OutcomeStream(u) \X decisions : x[2] \in DecisionRows(x[1])} IN
    {Item(x[1], NonPayoutOutcome(x[2])) : x \in {y \in rows : NonPayoutOutcome(y[2]) # "HIDDEN"}}

\* Mutant: the row of an effect never changes, so it says nothing of a reversal.
EffectStatusOfRow(f) == "ISSUED"

EffectStatus(f) == IF f.cand \in DOMAIN reversals THEN "REVERSED" ELSE "ISSUED"

\* What u was credited.
PayoutStream(u) == {[effect |-> f, status |-> EffectStatus(f)] : f \in {g \in effects : g.to = u}}

\* The wallet page of u: both families, each candidate once.
MyIncentives(u) == {Item(x.effect.cand, x.status) : x \in PayoutStream(u)} \cup MyOutcomes(u)

-----------------------------------------------------------------------------
(* Who is asked to decide.  The authority is looked up in five places. *)

\* Whom the push of a request reaches, created in this state.
Told(q) ==
    {u \in User : /\ role[u] \in (IF q.authority = "ADMIN" THEN {"ADMIN"} ELSE {"ADMIN", "MANAGER"})
                  /\ u # Concerns(q.decision.cand)
                  /\ role[u] = "MANAGER" => u \in Leads}

\* The list of requests u opens, by status.
Listed(u, status) ==
    {q \in requests :
        /\ IF status = "PENDING" THEN q \notin DOMAIN verdicts
           ELSE q \in DOMAIN verdicts /\ verdicts[q].verdict = status
        /\ MayDecide(u, q)}

\* What is on record of a candidate.  One decision and one assessment of it are
\* taken, whichever the query finds first.
OneOf(S) == IF S = {} THEN {"none"} ELSE S
Loaded(i) ==
    {[cand |-> i, decision |-> d, assessed |-> a,
      asked |-> {q \in requests : q.decision.cand = i}, paid |-> {f \in effects : f.cand = i}] :
        d \in OneOf(DecisionRows(i)), a \in OneOf(Range(evals[i]))}

\* What u is shown of a request they may decide.
ApprovalContext(u, q) == IF MayDecide(u, q) THEN Loaded(q.decision.cand) ELSE {}

\* Undecided requests u holds authority over.
PendingScoped(u) == {q \in requests \ DOMAIN verdicts : MayDecide(u, q)}

Deciding(q) == [request |-> q, category |-> "ACTION_REQUIRED", next |-> "decide"]
PendingDecisions(u) == {Deciding(q) : q \in PendingScoped(u)}

\* What u's own outcomes ask of their attention: whoever waits sees it as long
\* as they wait, a final outcome for a while.
OutcomePersonal(u) ==
    {[cand |-> x.cand, category |-> IF x.status \in {"PENDING_REVIEW", "AUTHORIZED_PENDING"}
                                    THEN "WAITING" ELSE "RESOLVED_RECENTLY", next |-> "none"] : x \in MyOutcomes(u)}

Personal(u) == OutcomePersonal(u) \cup PendingDecisions(u)

\* Who leads the scope the events belong to, or the company.
Manages(u) == Admin(u) \/ (role[u] = "MANAGER" /\ u \in Leads)
CountScoped(u, rows) == Cardinality({i \in rows : Manages(u)})

\* Of the team's incentives: what waits for u, what of it safety holds back,
\* what safety suppresses at present, and what was issued or rejected.
FlowIncentives(u) ==
    [pending     |-> Cardinality(PendingScoped(u)),
     held        |-> Cardinality({q \in PendingScoped(u) : q.safety # 0}),
     safeguarded |-> CountScoped(u, {i \in Known : CurrentSafety(i) = "SUPPRESS_INCENTIVE"}),
     issued      |-> CountScoped(u, Paid),
     rejected    |-> Cardinality(Listed(u, "REJECTED"))]

\* The team's flow is for managers and admins.
Flow(u) == [waiting |-> PendingDecisions(u), incentives |-> FlowIncentives(u)]

-----------------------------------------------------------------------------
(* Properties *)

\* What the gate refuses of i whatever was decided about it.
Unpayable(i) ==
    LET e == EventOf[i.event] IN
    ~e.trusted \/ e.subject \notin User \/ Admin(e.subject) \/ ~(CandidateOf(i).data.amount > 0)

\* The gate assesses what nobody assessed yet, and that holds decision d back.
HeldAtGate(d) ==
    /\ head[d.cand] = 0
    /\ \/ AtGate(d.cand).assessed.outcome = "SUPPRESS_INCENTIVE"
       \/ AtGate(d.cand).assessed.outcome = "REQUIRE_REVIEW" /\ d.result = "ALLOW"

\* Decisions, assessments and approvals are read twice, by the gate of issuing
\* and for the employee's page, which must not part: whatever the gate would
\* issue is "authorized" on the page, and whatever is authorized there the gate
\* would issue - except for what the page does not look at, and those are all:
\* who is to be paid how much, and an assessment the gate is the first to make.
ProjectionMirrorsGate ==
    \A d \in decisions :
        d.cand \notin Paid =>
            /\ Eligibility(d) # {} => NonPayoutOutcome(d) = "AUTHORIZED_PENDING"
            /\ NonPayoutOutcome(d) = "AUTHORIZED_PENDING" =>
                  Eligibility(d) # {} \/ Unpayable(d.cand) \/ HeldAtGate(d)

\* Nobody is paid out of the blue: between the gate and the commit assessments,
\* approvals, policies and roles may move, and still the page said "authorized"
\* of the decision an effect is issued under to the very moment it was.
PaidAsAnnounced ==
    [][\A f \in effects' \ effects : NonPayoutOutcome(f.decision) = "AUTHORIZED_PENDING"]_vars

\* What a person is shown as paid and not taken back adds up to what the
\* ledger holds for that person's candidates, and the wallet page calls those
\* and no others issued, whatever was reversed or decided again.
PayoutsExplainLedger ==
    \A u \in User :
        LET shown == {x.effect : x \in {y \in PayoutStream(u) : y.status = "ISSUED"}}
            credited == {i \in Known : Concerns(i) = u /\ coins[i] # 0}
        IN  /\ MapThenSumSet(LAMBDA f : f.amount, shown) = MapThenSumSet(LAMBDA i : coins[i], credited)
            /\ credited = {x.cand : x \in {y \in MyIncentives(u) : y.status = "ISSUED"}}
=============================================================================
