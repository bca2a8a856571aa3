----------------------------- MODULE Governance -----------------------------
(* From a recorded event to coins: rules turn events into candidates,       *)
(* policies decide about candidates, incentive safety assesses them, people *)
(* approve, and an admin has the incentive issued or reversed.              *)
(*                                                                          *)
(* Issuing and reversing run in transactions of several steps (`txn`): the  *)
(* safety lock of the candidate, the lock of its economic identity, then    *)
(* the wallet rows and the commit.  Every other command is one transaction  *)
(* whose row locks make it one step.  Amounts are in half coins.            *)
EXTENDS Predicates, FiniteSets, FiniteSetsExt, Functions

CONSTANTS User, Event, Rule, Policy, Worker,
          EventOf,        \* the recorded events: type, actor, subject, at, payload, trusted
          RuleForms,      \* what an admin may save as a rule: active, type, conditions, data
          PolicyForms,    \* what an admin may save as a policy
          SafetyForms,    \* what an admin may save as detector settings
          Defaults,       \* the detector settings before any is saved
          InitRole,       \* the role each account starts with
          Editable,       \* accounts whose role may change
          NewRoles,       \* the roles they may be given
          Leads,          \* managers who lead the scope the events belong to
          Bound,          \* bounds: versions of a rule, a policy and the settings,
                          \* candidates, decisions, requests, and assessments of a candidate
          Executors,      \* bound: the admins who issue and reverse
          MaxRules,       \* active rules of one event type an evaluation accepts
          MaxPolicies,    \* applicable active policies an evaluation accepts
          Shadowing       \* whether the company has the shadow capability

Nobody == "nobody"
NoRequest == [safety |-> -1]

ASSUME BoundsAssumption ==
    /\ \A k \in {"rule", "policy", "settings", "candidates", "decisions", "requests", "assessments"} : Bound[k] \in Nat
    /\ Bound.rule > 0
    /\ MaxRules \in Nat /\ MaxPolicies \in Nat
    /\ Nobody \notin User
    /\ Leads \subseteq User /\ Executors \subseteq User

VARIABLES rules,       \* saved rules, by rule
          policies,    \* saved policies, by policy
          settings,    \* version and detectors
          candidates,  \* proposed incentives
          decisions,   \* policy decisions, immutable
          evals,       \* assessments of each candidate, oldest first
          head,        \* the assessment in force, 0 for none
          requests,    \* approval requests, immutable
          verdicts,    \* the decision on a request
          effects,     \* issued credits
          reversals,   \* who reversed the effect of a candidate
          coins,       \* ledger total by candidate
          shadows,     \* frozen observations, by policy decision
          role,
          txn

vars == <<rules, policies, settings, candidates, decisions, evals, head, requests,
          verdicts, effects, reversals, coins, shadows, role, txn>>
book == <<effects, reversals, coins>>
definitions == <<rules, policies, settings>>
assessed == <<evals, head>>
asked == <<requests, verdicts>>

Roles == {"ADMIN", "MANAGER", "EMPLOYEE"}
Verdicts == {"APPROVED", "REJECTED"}
Detectors == {"RECIPROCAL_PAIR_BURST", "REPEAT_PAIR_CONCENTRATION", "ACTOR_VELOCITY",
              "RECIPIENT_VELOCITY", "REPEATED_EQUIVALENT_INCENTIVE", "SELF_BENEFIT"}

\* Ranks, least severe first.
PolicyRank == [d \in {"ALLOW", "REQUIRE_APPROVAL", "SHADOW_ONLY", "BLOCK"} |->
    CASE d = "ALLOW" -> 0 [] d = "REQUIRE_APPROVAL" -> 1 [] d = "SHADOW_ONLY" -> 2 [] OTHER -> 3]
SafetyRank == [o \in {"CLEAR", "OBSERVE", "REQUIRE_REVIEW", "SUPPRESS_INCENTIVE"} |->
    CASE o = "CLEAR" -> 0 [] o = "OBSERVE" -> 1 [] o = "REQUIRE_REVIEW" -> 2 [] OTHER -> 3]

MostSevere(S, rank, default) ==
    IF S = {} THEN default ELSE CHOOSE x \in S : \A y \in S : rank[y] <= rank[x]

Admin(u) == role[u] = "ADMIN"

\* Distinct identities of what may be proposed; the terms are data.
Identity == [event : Event, rule : Rule, version : 1..Bound.rule]
CandidateOf(i) == CHOOSE c \in candidates : c.id = i
Known == {c.id : c \in candidates}

-----------------------------------------------------------------------------
(* Rules *)

EventFields(e) ==
    Dict([type |-> Str(EventOf[e].type), actorId |-> Optional(EventOf[e].actor, Nobody),
          subjectId |-> Optional(EventOf[e].subject, Nobody), payload |-> Dict(EventOf[e].payload)])

Matches(form, e) ==
    /\ form.active
    /\ form.type = EventOf[e].type
    /\ Holds(form.conditions, EventFields(e))

\* Whole or half coins up to 10 000.
MaxReward == 20000
ValidRule(form) ==
    /\ form.data.amount \in 0..MaxReward
    /\ form.data.hint \in {"ADMIN", "MANAGER", "NONE"}
    /\ \A c \in form.conditions :
          /\ ValidCondition(c)
          /\ c.field \in {<<"type">>, <<"actorId">>, <<"subjectId">>} \/ (Len(c.field) \in 2..5 /\ c.field[1] = "payload")

\* A changed definition is a new version; saving the same one changes nothing.
Revised(row, form) ==
    IF row.form = form THEN row ELSE [version |-> row.version + 1, form |-> form]

\* A table with rows inserted.
Inserted(table, keys, row) ==
    [k \in DOMAIN table \cup keys |-> IF k \in DOMAIN table THEN table[k] ELSE row]

CreateRule(u, r, form) ==
    /\ Admin(u)
    /\ r \notin DOMAIN rules
    /\ ValidRule(form)
    /\ rules' = Inserted(rules, {r}, [version |-> 1, form |-> form])
    /\ UNCHANGED <<policies, settings, candidates, decisions, assessed, asked, book, shadows, role, txn>>

UpdateRule(u, r, form) ==
    /\ Admin(u)
    /\ r \in DOMAIN rules
    /\ rules[r].form = form \/ rules[r].version < Bound.rule
    /\ ValidRule(form)
    /\ rules' = [rules EXCEPT ![r] = Revised(@, form)]
    /\ UNCHANGED <<policies, settings, candidates, decisions, assessed, asked, book, shadows, role, txn>>

\* One candidate per event, rule and version, with the terms of that version.
EvaluateEvent(u, e) ==
    LET typed == {r \in DOMAIN rules : rules[r].form.active /\ rules[r].form.type = EventOf[e].type}
        proposed == {[id |-> [event |-> e, rule |-> r, version |-> rules[r].version],
                      data |-> rules[r].form.data] : r \in {q \in typed : Matches(rules[q].form, e)}}
        new == {c \in proposed : c.id \notin Known}
    IN  /\ Admin(u)
        /\ Cardinality(typed) <= MaxRules
        /\ new # {}
        /\ Cardinality(candidates \cup new) <= Bound.candidates
        /\ candidates' = candidates \cup new
        /\ evals' = Inserted(evals, {c.id : c \in new}, <<>>)
        /\ head' = Inserted(head, {c.id : c \in new}, 0)
        /\ coins' = Inserted(coins, {c.id : c \in new}, 0)
        /\ UNCHANGED <<definitions, decisions, asked, effects, reversals, shadows, role, txn>>

-----------------------------------------------------------------------------
(* Policies *)

PolicyFields(i) ==
    LET c == CandidateOf(i) IN
    Dict([candidate |-> Dict([ruleId |-> Str(i.rule), ruleVersion |-> Num(i.version),
                              data |-> Dict([proposedReward |-> Num(c.data.amount)])]),
          event |-> EventFields(i.event)])

Applies(form, i) == form.active /\ form.type \in {"*", EventOf[i.event].type}

ValidPolicy(form) ==
    /\ form.decision \in DOMAIN PolicyRank
    /\ \A c \in form.conditions :
          ValidCondition(c) /\ Len(c.field) \in 2..5 /\ c.field[1] \in {"candidate", "event"}

\* The winner is the most severe match; with no match approval is required.
Verdict(evaluated) ==
    MostSevere({p.form.decision : p \in {q \in evaluated : q.matched}}, PolicyRank, "REQUIRE_APPROVAL")

CreatePolicy(u, p, form) ==
    /\ Admin(u)
    /\ p \notin DOMAIN policies
    /\ ValidPolicy(form)
    /\ policies' = Inserted(policies, {p}, [version |-> 1, form |-> form])
    /\ UNCHANGED <<rules, settings, candidates, decisions, assessed, asked, book, shadows, role, txn>>

UpdatePolicy(u, p, form) ==
    /\ Admin(u)
    /\ p \in DOMAIN policies
    /\ policies[p].form = form \/ policies[p].version < Bound.policy
    /\ ValidPolicy(form)
    /\ policies' = [policies EXCEPT ![p] = Revised(@, form)]
    /\ UNCHANGED <<rules, settings, candidates, decisions, assessed, asked, book, shadows, role, txn>>

\* What the policies in force say of candidate i, and on which evidence.
Decision(i) ==
    LET rows == {p \in DOMAIN policies : Applies(policies[p].form, i)}
        evaluated == {[policy |-> p, version |-> policies[p].version, form |-> policies[p].form,
                       matched |-> Holds(policies[p].form.conditions, PolicyFields(i))] : p \in rows}
    IN  [cand |-> i, basis |-> evaluated, result |-> Verdict(evaluated)]

-----------------------------------------------------------------------------
(* Shadow: what would be paid, frozen at the first observation.  A decision  *)
(* of SHADOW_ONLY is projected from its own evidence without the shadow      *)
(* policies, never from the policies of today.                               *)

Projection(d) ==
    LET c == CandidateOf(d.cand)
        e == EventOf[d.cand.event]
        governance == IF d.result = "SHADOW_ONLY"
                      THEN Verdict({p \in d.basis : p.form.decision # "SHADOW_ONLY"}) ELSE d.result
        payable == /\ c.data.amount > 0
                   /\ e.subject \in User
                   /\ role[e.subject] # "ADMIN"
                   /\ e.trusted
    IN  CASE governance = "BLOCK" -> "BLOCKED"
          [] governance # "BLOCK" /\ ~payable -> "INELIGIBLE"
          [] governance = "REQUIRE_APPROVAL" /\ payable -> "PENDING_APPROVAL"
          [] OTHER -> "AUTHORIZED"

Observed(ds) ==
    [d \in DOMAIN shadows \cup ds |-> IF d \in DOMAIN shadows THEN shadows[d] ELSE Projection(d)]

\* Evaluating a candidate observes a SHADOW_ONLY decision in the same commit.
EvaluateCandidate(u, i) ==
    LET d == Decision(i) IN
    /\ Admin(u)
    /\ i \in Known
    /\ Cardinality(d.basis) <= MaxPolicies
    /\ d \notin decisions
    /\ Cardinality(decisions) < Bound.decisions
    /\ decisions' = decisions \cup {d}
    /\ shadows' = Observed({x \in {d} : Shadowing /\ x.result = "SHADOW_ONLY"})
    /\ UNCHANGED <<definitions, candidates, assessed, asked, book, role, txn>>

\* The explicit observation of a recorded decision.
ObserveDecision(u, d) ==
    /\ Admin(u)
    /\ Shadowing
    /\ d \in decisions \ DOMAIN shadows
    /\ shadows' = Observed({d})
    /\ UNCHANGED <<definitions, candidates, decisions, assessed, asked, book, role, txn>>

-----------------------------------------------------------------------------
(* Incentive safety *)

HoldsSafety(w, i) ==
    /\ txn[w].pc \in {"gated", "owned"}
    /\ txn[w].kind = "ISSUE"
    /\ txn[w].cand = i
SafetyFree(i) == \A w \in Worker : ~HoldsSafety(w, i)

\* Events of e's type that have a candidate and happened in the window that
\* ends with e; Nobody as actor or subject stands for any.
History(e, window, actor, subject) ==
    LET at == EventOf[e].at IN
    {f \in Event : /\ EventOf[f].type = EventOf[e].type
                   /\ EventOf[f].at \in (IF at > window THEN at - window ELSE 0)..at
                   /\ \E c \in candidates : c.id.event = f
                   /\ actor = Nobody \/ EventOf[f].actor = actor
                   /\ subject = Nobody \/ EventOf[f].subject = subject}

Equivalents(i) == {c \in candidates : c.id.event = i.event /\ c.data = CandidateOf(i).data}

\* How often detector n counts candidate i, or -1 where it does not apply.
Count(n, i, window) ==
    LET e == i.event
        a == EventOf[e].actor
        s == EventOf[e].subject
        Seen(x, y) == Cardinality(History(e, window, x, y))
        AtMost(x, y) == IF x < y THEN x ELSE y
    IN  CASE n = "SELF_BENEFIT" -> IF a # Nobody /\ a = s THEN 1 ELSE 0
          [] n = "REPEATED_EQUIVALENT_INCENTIVE" -> Cardinality(Equivalents(i))
          [] n = "RECIPROCAL_PAIR_BURST" /\ Nobody \notin {a, s} /\ a # s -> AtMost(Seen(a, s), Seen(s, a))
          [] n = "REPEAT_PAIR_CONCENTRATION" /\ Nobody \notin {a, s} -> Seen(a, s)
          [] n = "ACTOR_VELOCITY" /\ a # Nobody -> Seen(a, Nobody)
          [] n = "RECIPIENT_VELOCITY" /\ s # Nobody -> Seen(Nobody, s)
          [] OTHER -> -1

Findings(i) ==
    {n \in DOMAIN settings.detectors :
        LET d == settings.detectors[n] IN
        /\ n = "SELF_BENEFIT" => d.prohibited
        /\ Count(n, i, d.window) >= d.threshold}

\* The assessment of today, with the facts its fingerprint is taken of.  The code
\* also hashes the history it read and names sample events: history that grew and
\* still gives the same counts is a new assessment there and a known one here.
Assessment(i) ==
    LET found == Findings(i) IN
    [outcome |-> MostSevere({settings.detectors[n].outcome : n \in found}, SafetyRank, "CLEAR"),
     version |-> settings.version,
     findings |-> [n \in found |-> Count(n, i, settings.detectors[n].window)]]

Current(i) == evals[i][head[i]]

\* A fingerprint known already is not recorded again, and the head only moves
\* to a later assessment.
Recorded(i, a) ==
    LET known == {k \in DOMAIN evals[i] : evals[i][k] = a}
        list == IF known = {} THEN Append(evals[i], a) ELSE evals[i]
        k == IF known = {} THEN Len(list) ELSE CHOOSE x \in known : TRUE
    IN  /\ evals' = [evals EXCEPT ![i] = list]
        /\ head' = [head EXCEPT ![i] = IF k > @ THEN k ELSE @]

ValidSettings(detectors) ==
    /\ DOMAIN detectors = Detectors
    /\ \A n \in Detectors : /\ detectors[n].threshold \in 1..10000
                            /\ detectors[n].window \in 1..604800000
                            /\ detectors[n].outcome \in DOMAIN SafetyRank \ {"CLEAR"}
    /\ detectors["RECIPROCAL_PAIR_BURST"].threshold >= 2
    /\ detectors["SELF_BENEFIT"].threshold = 1 /\ detectors["SELF_BENEFIT"].window = 1

UpdateSettings(u, detectors) ==
    /\ Admin(u)
    /\ ValidSettings(detectors)
    /\ settings.detectors # detectors \/ settings.version = 0
    /\ settings.version < Bound.settings
    /\ settings' = [version |-> settings.version + 1, detectors |-> detectors]
    /\ UNCHANGED <<rules, policies, candidates, decisions, assessed, asked, book, shadows, role, txn>>

\* The first assessment stays until an admin asks for a new one.
Assess(u, i, refresh) ==
    /\ Admin(u)
    /\ i \in Known
    /\ SafetyFree(i)
    /\ head[i] = 0 \/ refresh
    /\ Len(evals[i]) < Bound.assessments
    /\ Recorded(i, Assessment(i))
    /\ UNCHANGED <<definitions, candidates, decisions, asked, book, shadows, role, txn>>

\* Observing a decision together with its safety assesses it if need be.
ObserveSafety(u, d) ==
    /\ Admin(u)
    /\ Shadowing
    /\ d \in decisions
    /\ SafetyFree(d.cand)
    /\ head[d.cand] = 0
    /\ Recorded(d.cand, Assessment(d.cand))
    /\ shadows' = Observed({d})
    /\ UNCHANGED <<definitions, candidates, decisions, asked, book, role, txn>>

-----------------------------------------------------------------------------
(* Approvals.  A request is about a decision and, when safety asks for it,   *)
(* about one assessment: safety is its number, 0 for a policy request.       *)

Authority(i) == IF CandidateOf(i).data.hint = "MANAGER" THEN "MANAGER_OR_ADMIN" ELSE "ADMIN"

CreateRequest(u, d, s) ==
    LET q == [decision |-> d, safety |-> s, authority |-> Authority(d.cand)] IN
    /\ Admin(u)
    /\ d \in decisions
    /\ SafetyFree(d.cand)
    /\ \/ s = 0 /\ d.result = "REQUIRE_APPROVAL"
       \/ /\ s # 0 /\ d.result = "ALLOW"
          /\ s = head[d.cand] /\ Current(d.cand).outcome = "REQUIRE_REVIEW"
    /\ q \notin requests
    /\ Cardinality(requests) < Bound.requests
    /\ requests' = requests \cup {q}
    /\ UNCHANGED <<definitions, candidates, decisions, assessed, verdicts, book, shadows, role, txn>>

MayDecide(u, q) ==
    \/ Admin(u)
    \/ role[u] = "MANAGER" /\ q.authority = "MANAGER_OR_ADMIN" /\ u \in Leads

\* Mutant: the actor of an event is excluded, not its subject.
ConcernsActor(i) == EventOf[i.event].actor

\* The subject of an event decides nothing about it; without one, its actor.
Concerns(i) == IF EventOf[i.event].subject # Nobody THEN EventOf[i.event].subject ELSE EventOf[i.event].actor

\* Mutant: a decision already made is not looked for.
DecideAgain(u, q, v) ==
    /\ q \in requests
    /\ MayDecide(u, q)
    /\ u # Concerns(q.decision.cand)
    /\ verdicts' = (q :> [by |-> u, verdict |-> v]) @@ verdicts
    /\ UNCHANGED <<definitions, candidates, decisions, assessed, requests, book, shadows, role, txn>>

\* The request row is locked before an earlier decision is looked up; repeating
\* one's own decision changes nothing, any other is refused.
Decide(u, q, v) ==
    /\ q \in requests
    /\ MayDecide(u, q)
    /\ u # Concerns(q.decision.cand)
    /\ q \notin DOMAIN verdicts
    /\ verdicts' = Inserted(verdicts, {q}, [by |-> u, verdict |-> v])
    /\ UNCHANGED <<definitions, candidates, decisions, assessed, requests, book, shadows, role, txn>>

-----------------------------------------------------------------------------
(* Economic effects *)

Idle == [pc |-> "idle"]

\* The gate's reading of what a decision and an assessment need: the approval
\* to issue under, NoRequest when none is needed, nothing when it is missing.
Approvals(d, safety, outcome) ==
    LET review == d.result = "ALLOW" /\ outcome = "REQUIRE_REVIEW" IN
    IF d.result = "REQUIRE_APPROVAL" \/ review
    THEN {q \in requests : /\ q.decision = d
                           /\ q.safety = (IF review THEN safety ELSE 0)
                           /\ q \in DOMAIN verdicts /\ verdicts[q].verdict = "APPROVED"}
    ELSE IF d.result = "ALLOW" THEN {NoRequest} ELSE {}

\* The database's own reading at commit, from the rows the effect names.
Guarded(d, safety, outcome, approval) ==
    /\ outcome # "SUPPRESS_INCENTIVE"
    /\ \/ d.result = "ALLOW" /\ outcome # "REQUIRE_REVIEW" /\ approval = NoRequest
       \/ /\ d.result = "ALLOW" /\ outcome = "REQUIRE_REVIEW" /\ approval # NoRequest
          /\ approval.safety = safety
       \/ d.result = "REQUIRE_APPROVAL" /\ approval # NoRequest /\ approval.safety = 0

\* Safety as the gate reads it: assessed now if never before, which stays only
\* if an effect is written with it.
AtGate(i) ==
    IF head[i] = 0 THEN [safety |-> Len(evals[i]) + 1, assessed |-> Assessment(i)]
    ELSE [safety |-> head[i], assessed |-> Current(i)]

\* What issuing would be eligible under: source authority, safety, approval, a
\* participant to pay, an amount.  Nothing, when the gate refuses.
Eligibility(d) ==
    LET g == AtGate(d.cand)
        e == EventOf[d.cand.event]
    IN  {[approval |-> a, safety |-> g.safety, assessed |-> g.assessed] :
            a \in {q \in Approvals(d, g.safety, g.assessed.outcome) :
                     /\ e.trusted
                     /\ g.assessed.outcome # "SUPPRESS_INCENTIVE"
                     /\ e.subject \in User /\ ~Admin(e.subject)
                     /\ CandidateOf(d.cand).data.amount > 0}}

\* The account is read without a lock here and again under one before anything
\* is written.
Gate(w, u, d) ==
    /\ txn[w] = Idle
    /\ Admin(u)
    /\ d \in decisions
    /\ SafetyFree(d.cand)
    /\ \E x \in Eligibility(d) :
          txn' = [txn EXCEPT ![w] = [pc |-> "gated", kind |-> "ISSUE", by |-> u, cand |-> d.cand, decision |-> d,
                                    approval |-> x.approval, safety |-> x.safety, assessed |-> x.assessed]]
    /\ UNCHANGED <<definitions, candidates, decisions, assessed, asked, book, shadows, role>>

OwnerFree(i) == \A w \in Worker : ~(txn[w].pc = "owned" /\ txn[w].cand = i)

\* The lock of the candidate's economic identity, for issuers and reversers.
OwnIssue(w) ==
    /\ txn[w].pc = "gated"
    /\ OwnerFree(txn[w].cand)
    /\ txn' = [txn EXCEPT ![w].pc = "owned"]
    /\ UNCHANGED <<definitions, candidates, decisions, assessed, asked, book, shadows, role>>

OwnReverse(w, u, f) ==
    /\ txn[w] = Idle
    /\ Admin(u)
    /\ f \in effects
    /\ OwnerFree(f.cand)
    /\ txn' = [txn EXCEPT ![w] = [pc |-> "owned", kind |-> "REVERSE", by |-> u, cand |-> f.cand, effect |-> f]]
    /\ UNCHANGED <<definitions, candidates, decisions, assessed, asked, book, shadows, role>>

\* Only participants are credited; a correction may reach any account.
MayReceive(u, participantOnly) == ~participantOnly \/ ~Admin(u)

\* Under both locks and the wallet rows: the admin is still one, nothing was
\* issued for the candidate before, and the commit passes the guards.
IssueEffect(w) ==
    LET t == txn[w]
        to == EventOf[t.cand.event].subject
        amount == CandidateOf(t.cand).data.amount
    IN  /\ t.pc = "owned" /\ t.kind = "ISSUE"
        /\ Admin(t.by)
        /\ \A f \in effects : f.cand # t.cand
        /\ MayReceive(to, TRUE)
        /\ IF head[t.cand] = 0 THEN Recorded(t.cand, t.assessed) ELSE UNCHANGED assessed
        /\ head'[t.cand] = t.safety
        /\ Guarded(t.decision, t.safety, evals'[t.cand][t.safety].outcome, t.approval)
        /\ effects' = effects \cup {[cand |-> t.cand, decision |-> t.decision, approval |-> t.approval,
                                    safety |-> t.safety, to |-> to, amount |-> amount]}
        /\ coins' = [coins EXCEPT ![t.cand] = @ + amount]
        /\ txn' = [txn EXCEPT ![w] = Idle]
        /\ UNCHANGED <<definitions, candidates, decisions, asked, reversals, shadows, role>>

\* Mutant: the reward the rule offers today.
RefundAtTodaysTerms(f) == rules[f.cand.rule].form.data.amount

\* A reversal takes back what the effect gave.
Refund(f) == f.amount

ReverseEffect(w) ==
    LET t == txn[w] IN
    /\ t.pc = "owned" /\ t.kind = "REVERSE"
    /\ Admin(t.by)
    /\ t.cand \notin DOMAIN reversals
    /\ MayReceive(t.effect.to, FALSE)
    /\ reversals' = Inserted(reversals, {t.cand}, t.by)
    /\ coins' = [coins EXCEPT ![t.cand] = @ - Refund(t.effect)]
    /\ txn' = [txn EXCEPT ![w] = Idle]
    /\ UNCHANGED <<definitions, candidates, decisions, assessed, asked, effects, shadows, role>>

\* An earlier effect or reversal is answered with what it was, a refusal, an
\* error or a crash rolls back: nothing is written and the locks are freed.
Leave(w) ==
    /\ txn[w] # Idle
    /\ txn' = [txn EXCEPT ![w] = Idle]
    /\ UNCHANGED <<definitions, candidates, decisions, assessed, asked, book, shadows, role>>

\* An admin changes the role of an account.
ChangeRole(u, r) ==
    /\ role[u] # r
    /\ role' = [role EXCEPT ![u] = r]
    /\ UNCHANGED <<definitions, candidates, decisions, assessed, asked, book, shadows, txn>>

-----------------------------------------------------------------------------
Empty == [x \in {} |-> x]

Init ==
    /\ rules = Empty /\ policies = Empty
    /\ settings = [version |-> 0, detectors |-> Defaults]
    /\ candidates = {} /\ decisions = {}
    /\ evals = Empty /\ head = Empty
    /\ requests = {} /\ verdicts = Empty
    /\ effects = {} /\ reversals = Empty /\ coins = Empty
    /\ shadows = Empty
    /\ role = InitRole
    /\ txn = [w \in Worker |-> Idle]

Manage(u) ==
    \/ \E r \in Rule, f \in RuleForms : CreateRule(u, r, f) \/ UpdateRule(u, r, f)
    \/ \E p \in Policy, f \in PolicyForms : CreatePolicy(u, p, f) \/ UpdatePolicy(u, p, f)
    \/ \E d \in SafetyForms : UpdateSettings(u, d)
    \/ \E e \in Event : EvaluateEvent(u, e)
    \/ \E i \in Known : EvaluateCandidate(u, i) \/ \E b \in BOOLEAN : Assess(u, i, b)
    \/ \E d \in decisions : \/ ObserveDecision(u, d)
                            \/ ObserveSafety(u, d)
                            \/ \E s \in {0, head[d.cand]} : CreateRequest(u, d, s)

Execute(w) ==
    \/ \E u \in Executors, d \in decisions : Gate(w, u, d)
    \/ \E u \in Executors, f \in effects : OwnReverse(w, u, f)
    \/ OwnIssue(w) \/ IssueEffect(w) \/ ReverseEffect(w) \/ Leave(w)

Next ==
    \/ \E u \in User : Manage(u)
    \/ \E u \in User, q \in requests, v \in Verdicts : Decide(u, q, v)
    \/ \E w \in Worker : Execute(w)
    \/ \E u \in Editable, r \in NewRoles : ChangeRole(u, r)

Spec == Init /\ [][Next]_vars

-----------------------------------------------------------------------------
(* Properties *)

\* Authorized now: an unassessed candidate counts as clear.
Outcome(i) == IF head[i] = 0 THEN "CLEAR" ELSE evals[i][head[i]].outcome

Cleared ==
    {i \in Known : /\ Outcome(i) # "SUPPRESS_INCENTIVE"
                   /\ \E d \in decisions :
                        /\ d.cand = i
                        /\ \/ d.result = "ALLOW" /\ Outcome(i) # "REQUIRE_REVIEW"
                           \/ \E q \in DOMAIN verdicts :
                                 /\ q.decision = d /\ verdicts[q].verdict = "APPROVED"
                                 /\ \/ d.result = "REQUIRE_APPROVAL" /\ q.safety = 0
                                    \/ d.result = "ALLOW" /\ q.safety = head[i]}

Credit == INSTANCE CreditOnce WITH
    Candidate <- Identity,
    net <- [i \in Identity |-> IF i \in Known THEN coins[i] ELSE 0],
    used <- {f.cand : f \in effects},
    cleared <- Cleared

\* Whatever interleaves with issuing and reversing - retries, a second worker,
\* newer assessments, edits of rules and policies - a candidate is credited
\* once, when governance clears it, and a reversal leaves exactly nothing.
PaidOnce == Credit!Spec

\* An effect under an approval had its own decision approved, for the very
\* assessment it was issued under if safety asked, by somebody it does not pay.
ApprovedByAnother ==
    \A f \in effects :
        /\ evals[f.cand][f.safety].outcome = "REQUIRE_REVIEW" => f.approval # NoRequest
        /\ f.approval # NoRequest =>
              /\ f.approval.decision = f.decision
              /\ f.approval.safety \in {0, f.safety}
              /\ verdicts[f.approval].verdict = "APPROVED"
              /\ verdicts[f.approval].by # f.to

\* What was decided or observed is never decided or observed anew, and the
\* assessment in force is never an older one.
HistoryStands ==
    [][/\ \A q \in DOMAIN verdicts : q \in DOMAIN verdicts' /\ verdicts'[q] = verdicts[q]
       /\ \A d \in DOMAIN shadows : d \in DOMAIN shadows' /\ shadows'[d] = shadows[d]
       /\ \A i \in Known : head'[i] >= head[i] /\ IsPrefix(evals[i], evals'[i])]_vars
=============================================================================
