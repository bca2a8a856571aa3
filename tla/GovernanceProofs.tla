-------------------------- MODULE GovernanceProofs --------------------------
(* Governance implements CreditOnce, for every company, set of definitions,  *)
(* events and number of workers; and what people are shown of it is true.    *)
EXTENDS Provenance, Sums, SequenceTheorems

-----------------------------------------------------------------------------
(* The inductive invariant *)

\* Saved rules are in range, so the terms of what they propose are.
RulesFit ==
    \A r \in DOMAIN rules :
        /\ r \in Rule
        /\ rules[r].version \in 1..Bound.rule
        /\ rules[r].form.data.amount \in Nat

\* A candidate is known by its identity.
CandidatesFit ==
    /\ \A c \in candidates : c.id \in Identity /\ c.data.amount \in Nat
    /\ \A c, d \in candidates : c.id = d.id => c = d
    /\ \A d \in decisions : d.cand \in Known

\* An effect is the only one of its candidate and paid what the ledger has,
\* until it is reversed.
BooksFit ==
    /\ DOMAIN coins = Known
    /\ \A f \in effects : f.cand \in Known /\ f.amount \in Nat \ {0}
    /\ \A f, g \in effects : f.cand = g.cand => f = g
    /\ \A i \in DOMAIN reversals : \E f \in effects : f.cand = i
    /\ \A f \in effects : coins[f.cand] = IF f.cand \in DOMAIN reversals THEN 0 ELSE f.amount
    /\ \A i \in Known : (\A f \in effects : f.cand # i) => coins[i] = 0

\* An approval of decision d, if one is needed.
Approved(d, q) ==
    q # NoRequest =>
        /\ q \in DOMAIN verdicts
        /\ verdicts[q].verdict = "APPROVED"
        /\ q.decision = d

\* What a worker read still stands when it commits.
IssueFits(t) ==
    /\ DOMAIN t = {"pc", "kind", "by", "cand", "decision", "approval", "safety", "assessed"}
    /\ t.decision \in decisions
    /\ t.decision.cand = t.cand
    /\ t.cand \in Known
    /\ CandidateOf(t.cand).data.amount > 0
    /\ EventOf[t.cand.event].subject \in User
    /\ Approved(t.decision, t.approval)

ReverseFits(t) == t.effect \in effects /\ t.effect.cand = t.cand

Working(t) ==
    \/ t.pc = "idle"
    \/ t.pc \in {"gated", "owned"} /\ t.kind = "ISSUE" /\ IssueFits(t)
    \/ t.pc = "owned" /\ t.kind = "REVERSE" /\ ReverseFits(t)

WorkFits ==
    /\ DOMAIN txn = Worker
    /\ \A w \in Worker : Working(txn[w])

Sound == RulesFit /\ CandidatesFit /\ BooksFit /\ WorkFits

-----------------------------------------------------------------------------
\* The candidate of an identity is the one that bears it.
LEMMA TheCandidate ==
  ASSUME CandidatesFit, NEW i \in Known
  PROVE  /\ CandidateOf(i) \in candidates /\ CandidateOf(i).id = i
         /\ \A c \in candidates : c.id = i => CandidateOf(i) = c
<1>1. PICK c \in candidates : c.id = i
  BY DEF Known
<1>2. CandidateOf(i) \in candidates /\ CandidateOf(i).id = i
  BY <1>1 DEF CandidateOf
<1> QED
  BY <1>2 DEF CandidatesFit

\* Approvals given stay given, decisions made stay made.
Grows ==
    /\ decisions \subseteq decisions'
    /\ \A d \in decisions' \ decisions : d.cand \in Known
    /\ \A q \in DOMAIN verdicts : q \in DOMAIN verdicts' /\ verdicts'[q] = verdicts[q]

LEMMA InitSound == ASSUME Init PROVE Sound
BY DEF Init, Sound, RulesFit, CandidatesFit, BooksFit, WorkFits, Working, Known, Empty, Idle

\* Commands that touch neither rules, candidates, money nor work.
LEMMA QuietSound ==
  ASSUME Sound, UNCHANGED <<rules, candidates, effects, reversals, coins, txn>>, Grows
  PROVE  Sound'
<1>1. RulesFit' /\ CandidatesFit' /\ BooksFit'
  BY DEF Sound, RulesFit, CandidatesFit, BooksFit, Known, Grows
<1>2. ASSUME NEW t, IssueFits(t) PROVE IssueFits(t)'
  BY <1>2 DEF IssueFits, Approved, Grows, CandidateOf, Known
<1>3. ASSUME NEW t, ReverseFits(t) PROVE ReverseFits(t)'
  BY <1>3 DEF ReverseFits
<1>4. ASSUME NEW w \in Worker PROVE Working(txn[w])'
  BY <1>2, <1>3 DEF Sound, WorkFits, Working
<1>5. WorkFits'
  BY <1>4 DEF Sound, WorkFits
<1> QED
  BY <1>1, <1>5 DEF Sound

\* Saving a rule, new or as a further version.
LEMMA RuleSound ==
  ASSUME BoundsAssumption, Sound, NEW u, NEW r \in Rule, NEW f,
         CreateRule(u, r, f) \/ UpdateRule(u, r, f)
  PROVE  Sound'
<1>1. f.data.amount \in Nat
  <2>1. ValidRule(f)
    BY DEF CreateRule, UpdateRule
  <2>2. f.data.amount \in 0..MaxReward
    BY <2>1 DEF ValidRule
  <2> QED
    BY <2>2
<1>2. RulesFit'
  <2>1. CASE CreateRule(u, r, f)
    <3>1. /\ DOMAIN rules' = DOMAIN rules \cup {r}
          /\ \A x \in DOMAIN rules : rules'[x] = rules[x]
          /\ rules'[r] = [version |-> 1, form |-> f]
      BY <2>1 DEF CreateRule, Inserted
    <3>2. 1 \in 1..Bound.rule
      BY DEF BoundsAssumption
    <3> QED
      BY <1>1, <3>1, <3>2 DEF Sound, RulesFit
  <2>2. CASE UpdateRule(u, r, f)
    <3>1. /\ r \in DOMAIN rules /\ rules' = [rules EXCEPT ![r] = Revised(rules[r], f)]
          /\ rules[r].form = f \/ rules[r].version < Bound.rule
      BY <2>2 DEF UpdateRule
    <3>2. /\ Revised(rules[r], f).version \in 1..Bound.rule
          /\ Revised(rules[r], f).form.data.amount \in Nat
      BY <1>1, <3>1 DEF Revised, Sound, RulesFit, BoundsAssumption
    <3> QED
      BY <3>1, <3>2 DEF Sound, RulesFit
  <2> QED
    BY <2>1, <2>2
<1>3. UNCHANGED <<candidates, decisions, verdicts, effects, reversals, coins, txn>>
  BY DEF CreateRule, UpdateRule, asked, book
<1>4. CandidatesFit' /\ BooksFit'
  BY <1>3 DEF Sound, CandidatesFit, BooksFit, Known
<1>5. ASSUME NEW t, IssueFits(t) PROVE IssueFits(t)'
  BY <1>3, <1>5 DEF IssueFits, Approved, CandidateOf, Known
<1>6. ASSUME NEW t, ReverseFits(t) PROVE ReverseFits(t)'
  BY <1>3, <1>6 DEF ReverseFits
<1>7. ASSUME NEW w \in Worker PROVE Working(txn[w])'
  BY <1>3, <1>5, <1>6 DEF Sound, WorkFits, Working
<1>8. WorkFits'
  BY <1>3, <1>7 DEF Sound, WorkFits
<1> QED
  BY <1>2, <1>4, <1>8 DEF Sound

\* What an event newly proposes, in terms of the rules that match it.
LEMMA Proposed ==
  ASSUME Sound, NEW u, NEW e \in Event, EvaluateEvent(u, e)
  PROVE  \E new :
           /\ candidates' = candidates \cup new
           /\ \A c \in new : c.id \in Identity \ Known /\ c.data.amount \in Nat
           /\ \A c, d \in new : c.id = d.id => c = d
           /\ coins' = Inserted(coins, {c.id : c \in new}, 0)
           /\ head' = Inserted(head, {c.id : c \in new}, 0)
           /\ evals' = Inserted(evals, {c.id : c \in new}, <<>>)
           /\ UNCHANGED <<rules, decisions, verdicts, effects, reversals, shadows, txn>>
<1> DEFINE typed == {r \in DOMAIN rules : rules[r].form.active /\ rules[r].form.type = EventOf[e].type}
           Cand(r) == [id |-> [event |-> e, rule |-> r, version |-> rules[r].version],
                       data |-> rules[r].form.data]
           proposed == {Cand(r) : r \in {q \in typed : Matches(rules[q].form, e)}}
           new == {c \in proposed : c.id \notin Known}
<1>1. /\ candidates' = candidates \cup new
      /\ coins' = Inserted(coins, {c.id : c \in new}, 0)
      /\ head' = Inserted(head, {c.id : c \in new}, 0)
      /\ evals' = Inserted(evals, {c.id : c \in new}, <<>>)
      /\ UNCHANGED <<rules, decisions, verdicts, effects, reversals, shadows, txn>>
  BY DEF EvaluateEvent, definitions, asked
<1>2. ASSUME NEW c \in new
      PROVE  \E r \in DOMAIN rules : c = Cand(r)
  OBVIOUS
<1>3. ASSUME NEW r \in DOMAIN rules
      PROVE  Cand(r).id \in Identity /\ Cand(r).data.amount \in Nat /\ Cand(r).id.rule = r
  BY DEF Sound, RulesFit, Identity
<1>4. \A c \in new : c.id \in Identity \ Known /\ c.data.amount \in Nat
  BY <1>2, <1>3
<1>5. ASSUME NEW c \in new, NEW d \in new, c.id = d.id PROVE c = d
  <2>1. PICK q, r \in DOMAIN rules : c = Cand(q) /\ d = Cand(r)
    BY <1>2
  <2> QED
    BY <1>3, <1>5, <2>1
<1> HIDE DEF new
<1> QED
  BY <1>1, <1>4, <1>5

\* What was proposed once is found under its identity as more is proposed.
LEMMA Stable ==
  ASSUME CandidatesFit, CandidatesFit', candidates \subseteq candidates', NEW i \in Known
  PROVE  i \in Known' /\ CandidateOf(i)' = CandidateOf(i)
<1>1. CandidateOf(i) \in candidates' /\ CandidateOf(i).id = i
  BY TheCandidate
<1>2. CandidateOf(i)' \in candidates' /\ CandidateOf(i)'.id = i
  BY <1>1 DEF CandidateOf
<1>3. i \in Known'
  BY <1>1 DEF Known
<1> QED
  BY <1>1, <1>2, <1>3 DEF CandidatesFit

\* New candidates are nobody's yet and have cost nothing.
LEMMA EvaluateSound ==
  ASSUME Sound, NEW u, NEW e \in Event, EvaluateEvent(u, e)
  PROVE  Sound'
<1>1. PICK new :
        /\ candidates' = candidates \cup new
        /\ \A c \in new : c.id \in Identity \ Known /\ c.data.amount \in Nat
        /\ \A c, d \in new : c.id = d.id => c = d
        /\ coins' = Inserted(coins, {c.id : c \in new}, 0)
        /\ UNCHANGED <<rules, decisions, verdicts, effects, reversals, txn>>
  BY Proposed
<1>2. Known' = Known \cup {c.id : c \in new}
  BY <1>1 DEF Known
<1>3. CandidatesFit'
  <2>1. \A c \in candidates : c.id \in Known
    BY DEF Known
  <2> QED
    BY <1>1, <1>2, <2>1 DEF Sound, CandidatesFit
<1>4. BooksFit'
  <2>1. /\ DOMAIN coins' = Known'
        /\ \A i \in Known : coins'[i] = coins[i]
        /\ \A i \in Known' \ Known : coins'[i] = 0
    BY <1>1, <1>2 DEF Inserted, Sound, BooksFit
  <2> QED
    BY <1>1, <1>2, <2>1 DEF Sound, BooksFit
<1>5. ASSUME NEW t, IssueFits(t) PROVE IssueFits(t)'
  <2>1. t.cand \in Known' /\ CandidateOf(t.cand)' = CandidateOf(t.cand)
    BY <1>1, <1>3, <1>5, Stable DEF IssueFits, Sound
  <2> QED
    BY <1>1, <1>5, <2>1 DEF IssueFits, Approved
<1>6. ASSUME NEW t, ReverseFits(t) PROVE ReverseFits(t)'
  BY <1>1, <1>6 DEF ReverseFits
<1>7. ASSUME NEW w \in Worker PROVE Working(txn[w])'
  BY <1>1, <1>5, <1>6 DEF Sound, WorkFits, Working
<1>8. RulesFit' /\ WorkFits'
  BY <1>1, <1>7 DEF Sound, RulesFit, WorkFits
<1> QED
  BY <1>3, <1>4, <1>8 DEF Sound

\* Commands about definitions, assessments, approvals and roles leave the
\* money, what is proposed and the work of others alone.
Quiet ==
    /\ UNCHANGED <<rules, candidates, effects, reversals, coins, txn>>
    /\ Grows

LEMMA QuietCommands ==
  ASSUME NEW u
  PROVE  /\ \A p, f : CreatePolicy(u, p, f) \/ UpdatePolicy(u, p, f) => Quiet
         /\ \A f : UpdateSettings(u, f) => Quiet
         /\ \A i : EvaluateCandidate(u, i) => Quiet
         /\ \A i, b : Assess(u, i, b) => Quiet
         /\ \A d : ObserveDecision(u, d) \/ ObserveSafety(u, d) => Quiet
         /\ \A d, s : CreateRequest(u, d, s) => Quiet
         /\ \A q, v : Decide(u, q, v) => Quiet
         /\ \A r : ChangeRole(u, r) => Quiet
<1> USE DEF Quiet, Grows, definitions, assessed, asked, book
<1>1. \A p, f : CreatePolicy(u, p, f) \/ UpdatePolicy(u, p, f) => Quiet
  BY DEF CreatePolicy, UpdatePolicy
<1>2. \A f : UpdateSettings(u, f) => Quiet
  BY DEF UpdateSettings
<1>3. ASSUME NEW i, EvaluateCandidate(u, i) PROVE Quiet
  <2>1. Decision(i).cand = i
    BY DEF Decision
  <2> QED
    BY <1>3, <2>1 DEF EvaluateCandidate
<1>4. \A i, b : Assess(u, i, b) => Quiet
  BY DEF Assess
<1>5. \A d : ObserveDecision(u, d) \/ ObserveSafety(u, d) => Quiet
  BY DEF ObserveDecision, ObserveSafety
<1>6. \A d, s : CreateRequest(u, d, s) => Quiet
  BY DEF CreateRequest
<1>7. \A q, v : Decide(u, q, v) => Quiet
  BY DEF Decide, Inserted
<1>8. \A r : ChangeRole(u, r) => Quiet
  BY DEF ChangeRole
<1> QED
  BY <1>1, <1>2, <1>3, <1>4, <1>5, <1>6, <1>7, <1>8

-----------------------------------------------------------------------------
(* The steps of the executors *)

\* A step that only moves one worker, to work that fits.
LEMMA WorkSound ==
  ASSUME Sound, NEW w \in Worker, NEW t, txn' = [txn EXCEPT ![w] = t], Working(t),
         UNCHANGED <<rules, candidates, decisions, verdicts, effects, reversals, coins>>
  PROVE  Sound'
<1>1. RulesFit' /\ CandidatesFit' /\ BooksFit'
  BY DEF Sound, RulesFit, CandidatesFit, BooksFit, Known
<1>2. ASSUME NEW x, Working(x) PROVE Working(x)'
  BY <1>2 DEF Working, IssueFits, ReverseFits, Approved, CandidateOf, Known
<1>3. ASSUME NEW v \in Worker PROVE Working(txn[v])'
  <2>1. Working(txn'[v])
    BY DEF Sound, WorkFits
  <2> QED
    BY <1>2, <2>1
<1>4. WorkFits'
  BY <1>3 DEF Sound, WorkFits
<1> QED
  BY <1>1, <1>4 DEF Sound

LEMMA IdleFits == Working(Idle)
BY DEF Working, Idle

\* The gate reads an approval that was given and a positive amount.
LEMMA GateSound ==
  ASSUME Sound, NEW w \in Worker, NEW u, NEW d, Gate(w, u, d)
  PROVE  Sound'
<1>1. PICK a, s, n :
        txn' = [txn EXCEPT ![w] = [pc |-> "gated", kind |-> "ISSUE", by |-> u, cand |-> d.cand, decision |-> d,
                                   approval |-> a, safety |-> s, assessed |-> n]]
        /\ \E y, o : a \in Approvals(d, y, o)
  <2>1. PICK x \in Eligibility(d) :
          txn' = [txn EXCEPT ![w] = [pc |-> "gated", kind |-> "ISSUE", by |-> u, cand |-> d.cand, decision |-> d,
                                     approval |-> x.approval, safety |-> x.safety, assessed |-> x.assessed]]
    BY DEF Gate
  <2>2. \E y, z : x.approval \in Approvals(d, y, z)
    BY DEF Eligibility
  <2> QED
    BY <2>1, <2>2
<1> DEFINE t == [pc |-> "gated", kind |-> "ISSUE", by |-> u, cand |-> d.cand, decision |-> d,
                 approval |-> a, safety |-> s, assessed |-> n]
<1>2. /\ d \in decisions /\ CandidateOf(d.cand).data.amount > 0
      /\ EventOf[d.cand.event].subject \in User
  BY DEF Gate, Eligibility
<1>3. Approved(d, a)
  BY <1>1 DEF Approvals, Approved
<1>4. Working(t)
  BY <1>2, <1>3 DEF Working, IssueFits, Sound, CandidatesFit
<1>5. UNCHANGED <<rules, candidates, decisions, verdicts, effects, reversals, coins>>
  BY DEF Gate, definitions, asked, book
<1> HIDE DEF t
<1>6. txn' = [txn EXCEPT ![w] = t]
  BY <1>1 DEF t
<1> QED
  BY <1>4, <1>5, <1>6, WorkSound

LEMMA LockSound ==
  ASSUME Sound, NEW w \in Worker
  PROVE  /\ OwnIssue(w) => Sound'
         /\ \A u, f : OwnReverse(w, u, f) => Sound'
         /\ Leave(w) => Sound'
<1> USE DEF definitions, asked, book
<1>1. ASSUME OwnIssue(w) PROVE Sound'
  <2> DEFINE t == [txn[w] EXCEPT !.pc = "owned"]
  <2>1. txn[w].pc = "gated" /\ IssueFits(txn[w])  /\ txn[w].kind = "ISSUE"
    BY <1>1 DEF OwnIssue, Sound, WorkFits, Working
  <2>2. /\ t.pc = "owned" /\ t.kind = "ISSUE"
        /\ DOMAIN t = DOMAIN txn[w] /\ t.cand = txn[w].cand
        /\ t.decision = txn[w].decision /\ t.approval = txn[w].approval
    BY <2>1 DEF IssueFits
  <2> HIDE DEF t
  <2>3. Working(t)
    BY <2>1, <2>2 DEF Working, IssueFits
  <2>4. txn' = [txn EXCEPT ![w] = t]
    BY <1>1 DEF OwnIssue, t
  <2>5. UNCHANGED <<rules, candidates, decisions, verdicts, effects, reversals, coins>>
    BY <1>1 DEF OwnIssue
  <2> QED
    BY <2>3, <2>4, <2>5, WorkSound
<1>2. ASSUME NEW u, NEW f, OwnReverse(w, u, f) PROVE Sound'
  <2> DEFINE t == [pc |-> "owned", kind |-> "REVERSE", by |-> u, cand |-> f.cand, effect |-> f]
  <2>1. Working(t)
    BY <1>2 DEF OwnReverse, Working, ReverseFits
  <2>2. txn' = [txn EXCEPT ![w] = t]
    BY <1>2 DEF OwnReverse
  <2>3. UNCHANGED <<rules, candidates, decisions, verdicts, effects, reversals, coins>>
    BY <1>2 DEF OwnReverse
  <2> HIDE DEF t
  <2> QED
    BY <2>1, <2>2, <2>3, WorkSound
<1>3. ASSUME Leave(w) PROVE Sound'
  BY <1>3, IdleFits, WorkSound DEF Leave
<1> QED
  BY <1>1, <1>2, <1>3

\* What issuing does to the books: the candidate had no effect, so nothing of
\* it was reversed and the ledger had nothing.
LEMMA Issued ==
  ASSUME Sound, NEW w \in Worker, IssueEffect(w)
  PROVE  LET c == txn[w].cand
             a == CandidateOf(c).data.amount
         IN  /\ txn[w].pc = "owned" /\ IssueFits(txn[w])
             /\ c \in Known /\ a \in Nat \ {0}
             /\ \A f \in effects : f.cand # c
             /\ c \notin DOMAIN reversals /\ coins[c] = 0
             /\ \E g : /\ g.cand = c /\ g.amount = a
                       /\ effects' = effects \cup {g}
             /\ coins' = [coins EXCEPT ![c] = a]
<1> DEFINE c == txn[w].cand
           a == CandidateOf(c).data.amount
<1>1. txn[w].pc = "owned" /\ IssueFits(txn[w])
  BY DEF IssueEffect, Sound, WorkFits, Working
<1>2. c \in Known /\ a > 0
  BY <1>1 DEF IssueFits
<1>3. a \in Nat
  <2>1. CandidateOf(c) \in candidates
    BY <1>2, TheCandidate DEF Sound
  <2> QED
    BY <2>1 DEF Sound, CandidatesFit
<1>4. \A f \in effects : f.cand # c
  BY DEF IssueEffect
<1>5. c \notin DOMAIN reversals /\ coins[c] = 0
  BY <1>2, <1>4 DEF Sound, BooksFit
<1>6. coins' = [coins EXCEPT ![c] = coins[c] + a]
  BY DEF IssueEffect
<1>7. \E g : g.cand = c /\ g.amount = a /\ effects' = effects \cup {g}
  <2> DEFINE g == [cand |-> txn[w].cand, decision |-> txn[w].decision, approval |-> txn[w].approval,
                   safety |-> txn[w].safety, to |-> EventOf[txn[w].cand.event].subject,
                   amount |-> CandidateOf(txn[w].cand).data.amount]
  <2>1. effects' = effects \cup {g}
    BY DEF IssueEffect
  <2>2. g.cand = c /\ g.amount = a
    OBVIOUS
  <2> QED
    BY <2>1, <2>2
<1> HIDE DEF a, c
<1>8. coins[c] + a = a /\ a \in Nat \ {0}
  BY <1>2, <1>3, <1>5
<1>9. coins' = [coins EXCEPT ![c] = a]
  BY <1>6, <1>8
<1> QED
  BY <1>1, <1>2, <1>4, <1>5, <1>7, <1>8, <1>9 DEF a, c

\* What reversing does: the effect is the only one of its candidate and was
\* not reversed before, so the ledger has its amount.
LEMMA Reversed ==
  ASSUME Sound, NEW w \in Worker, ReverseEffect(w)
  PROVE  LET c == txn[w].cand
         IN  /\ c \in Known /\ \E f \in effects : f.cand = c
             /\ coins[c] \in Nat \ {0}
             /\ DOMAIN reversals' = DOMAIN reversals \cup {c}
             /\ coins' = [coins EXCEPT ![c] = 0]
<1> DEFINE c == txn[w].cand
           f == txn[w].effect
<1>1. f \in effects /\ f.cand = c
  BY DEF ReverseEffect, Sound, WorkFits, Working, ReverseFits
<1>2. c \notin DOMAIN reversals
  BY DEF ReverseEffect
<1>3. c \in Known /\ coins[c] = f.amount /\ f.amount \in Nat \ {0}
  BY <1>1, <1>2 DEF Sound, BooksFit
<1>4. coins' = [coins EXCEPT ![c] = coins[c] - f.amount]
  BY DEF ReverseEffect, Refund
<1>5. DOMAIN reversals' = DOMAIN reversals \cup {c}
  BY DEF ReverseEffect, Inserted
<1> HIDE DEF c, f
<1>6. coins[c] - f.amount = 0
  BY <1>3
<1> QED
  BY <1>1, <1>3, <1>4, <1>5, <1>6 DEF c

LEMMA IssueSound ==
  ASSUME Sound, NEW w \in Worker, IssueEffect(w)
  PROVE  Sound'
<1> DEFINE c == txn[w].cand
           a == CandidateOf(c).data.amount
<1>1. /\ c \in Known /\ a \in Nat \ {0}
      /\ \A f \in effects : f.cand # c
      /\ c \notin DOMAIN reversals
      /\ \E g : g.cand = c /\ g.amount = a /\ effects' = effects \cup {g}
      /\ coins' = [coins EXCEPT ![c] = a]
  BY Issued
<1> HIDE DEF a, c
<1>2. PICK g : g.cand = c /\ g.amount = a /\ effects' = effects \cup {g}
  BY <1>1
<1>3. UNCHANGED <<rules, candidates, decisions, verdicts, reversals>> /\ txn' = [txn EXCEPT ![w] = Idle]
  BY DEF IssueEffect, definitions, asked
<1>4. RulesFit' /\ CandidatesFit'
  BY <1>3 DEF Sound, RulesFit, CandidatesFit, Known
<1>5. Known' = Known
  BY <1>3 DEF Known
<1>6. BooksFit'
  <2>1. DOMAIN coins' = Known /\ coins'[c] = a /\ \A i \in Known \ {c} : coins'[i] = coins[i]
    BY <1>1 DEF Sound, BooksFit
  <2>2. \A f \in effects' : f.cand \in Known' /\ f.amount \in Nat \ {0}
    BY <1>1, <1>2, <1>5 DEF Sound, BooksFit
  <2>3. \A f, h \in effects' : f.cand = h.cand => f = h
    BY <1>1, <1>2 DEF Sound, BooksFit
  <2>4. \A i \in DOMAIN reversals' : \E f \in effects' : f.cand = i
    BY <1>2, <1>3 DEF Sound, BooksFit
  <2>5. \A f \in effects' : coins'[f.cand] = IF f.cand \in DOMAIN reversals' THEN 0 ELSE f.amount
    BY <1>1, <1>2, <1>3, <2>1 DEF Sound, BooksFit
  <2>6. \A i \in Known' : (\A f \in effects' : f.cand # i) => coins'[i] = 0
    BY <1>1, <1>2, <1>5, <2>1 DEF Sound, BooksFit
  <2> QED
    BY <1>5, <2>1, <2>2, <2>3, <2>4, <2>5, <2>6 DEF BooksFit
<1>7. ASSUME NEW x, Working(x) PROVE Working(x)'
  BY <1>2, <1>3, <1>7 DEF Working, IssueFits, ReverseFits, Approved, CandidateOf, Known
<1>8. ASSUME NEW v \in Worker PROVE Working(txn[v])'
  <2>1. Working(txn'[v])
    BY <1>3, IdleFits DEF Sound, WorkFits
  <2> QED
    BY <1>7, <2>1
<1>9. WorkFits'
  BY <1>3, <1>8 DEF Sound, WorkFits
<1> QED
  BY <1>4, <1>6, <1>9 DEF Sound

LEMMA ReverseSound ==
  ASSUME Sound, NEW w \in Worker, ReverseEffect(w)
  PROVE  Sound'
<1> DEFINE c == txn[w].cand
<1>1. /\ c \in Known /\ \E f \in effects : f.cand = c
      /\ DOMAIN reversals' = DOMAIN reversals \cup {c}
      /\ coins' = [coins EXCEPT ![c] = 0]
  BY Reversed
<1> HIDE DEF c
<1>2. UNCHANGED <<rules, candidates, decisions, verdicts, effects>> /\ txn' = [txn EXCEPT ![w] = Idle]
  BY DEF ReverseEffect, definitions, asked
<1>3. RulesFit' /\ CandidatesFit'
  BY <1>2 DEF Sound, RulesFit, CandidatesFit, Known
<1>4. BooksFit'
  <2>1. Known' = Known
    BY <1>2 DEF Known
  <2>2. DOMAIN coins' = Known /\ coins'[c] = 0 /\ \A i \in Known \ {c} : coins'[i] = coins[i]
    BY <1>1 DEF Sound, BooksFit
  <2> QED
    BY <1>1, <1>2, <2>1, <2>2 DEF Sound, BooksFit
<1>5. ASSUME NEW x, Working(x) PROVE Working(x)'
  BY <1>2, <1>5 DEF Working, IssueFits, ReverseFits, Approved, CandidateOf, Known
<1>6. ASSUME NEW v \in Worker PROVE Working(txn[v])'
  <2>1. Working(txn'[v])
    BY <1>2, IdleFits DEF Sound, WorkFits
  <2> QED
    BY <1>5, <2>1
<1>7. WorkFits'
  BY <1>2, <1>6 DEF Sound, WorkFits
<1> QED
  BY <1>3, <1>4, <1>7 DEF Sound

\* Every step of the specification is one of these.
LEMMA Steps ==
  ASSUME Next
  PROVE  \/ \E u \in User, r \in Rule : \E f : CreateRule(u, r, f) \/ UpdateRule(u, r, f)
         \/ \E u \in User, e \in Event : EvaluateEvent(u, e)
         \/ Quiet
         \/ \E w \in Worker : \/ \E u, d : Gate(w, u, d)
                             \/ \E u, f : OwnReverse(w, u, f)
                             \/ OwnIssue(w) \/ IssueEffect(w) \/ ReverseEffect(w) \/ Leave(w)
<1>1. ASSUME NEW u \in User, Manage(u)
      PROVE  \/ \E r \in Rule : \E f : CreateRule(u, r, f) \/ UpdateRule(u, r, f)
             \/ \E e \in Event : EvaluateEvent(u, e)
             \/ Quiet
  BY <1>1, QuietCommands DEF Manage
<1>2. ASSUME NEW u \in User, NEW q \in requests, NEW v \in Verdicts, Decide(u, q, v) PROVE Quiet
  BY <1>2, QuietCommands
<1>3. ASSUME NEW u \in Editable, NEW r \in NewRoles, ChangeRole(u, r) PROVE Quiet
  BY <1>3, QuietCommands
<1>4. ASSUME NEW w \in Worker, Execute(w)
      PROVE  \/ \E u, d : Gate(w, u, d)
             \/ \E u, f : OwnReverse(w, u, f)
             \/ OwnIssue(w) \/ IssueEffect(w) \/ ReverseEffect(w) \/ Leave(w)
  BY <1>4 DEF Execute
<1> QED
  BY <1>1, <1>2, <1>3, <1>4 DEF Next

LEMMA NextSound == ASSUME BoundsAssumption, Sound, [Next]_vars PROVE Sound'
<1>1. CASE UNCHANGED vars
  <2>1. Quiet
    BY <1>1 DEF vars, Quiet, Grows
  <2> QED
    BY <2>1, QuietSound DEF Quiet
<1>2. CASE Next
  <2>1. CASE \E u \in User, r \in Rule : \E f : CreateRule(u, r, f) \/ UpdateRule(u, r, f)
    BY <2>1, RuleSound
  <2>2. CASE \E u \in User, e \in Event : EvaluateEvent(u, e)
    BY <2>2, EvaluateSound
  <2>3. CASE Quiet
    BY <2>3, QuietSound DEF Quiet
  <2>4. CASE \E w \in Worker : \E u, d : Gate(w, u, d)
    BY <2>4, GateSound
  <2>5. CASE \E w \in Worker : (\E u, f : OwnReverse(w, u, f)) \/ OwnIssue(w) \/ Leave(w)
    BY <2>5, LockSound
  <2>6. CASE \E w \in Worker : IssueEffect(w)
    BY <2>6, IssueSound
  <2>7. CASE \E w \in Worker : ReverseEffect(w)
    BY <2>7, ReverseSound
  <2> QED
    BY <1>2, <2>1, <2>2, <2>3, <2>4, <2>5, <2>6, <2>7, Steps
<1> QED
  BY <1>1, <1>2

\* The books and the work in progress agree in every state.
THEOREM AlwaysSound == Spec => []Sound
<1>1. Init => Sound
  BY InitSound
<1>2. Sound /\ [Next]_vars => Sound'
  BY NextSound, BoundsAssumption
<1> QED
  BY <1>1, <1>2, PTL DEF Spec

-----------------------------------------------------------------------------
(* The refinement *)

Net == [i \in Identity |-> IF i \in Known THEN coins[i] ELSE 0]
Used == {f.cand : f \in effects}

\* Governance moves, the money does not.
LEMMA MoneyStands ==
  ASSUME UNCHANGED <<candidates, effects, coins>>
  PROVE  UNCHANGED <<Net, Used>>
BY DEF Net, Used, Known

LEMMA EvaluateGoverns ==
  ASSUME Sound, NEW u, NEW e \in Event, EvaluateEvent(u, e)
  PROVE  UNCHANGED <<Net, Used>>
<1>1. PICK new :
        /\ candidates' = candidates \cup new
        /\ coins' = Inserted(coins, {c.id : c \in new}, 0)
        /\ UNCHANGED effects
  BY Proposed
<1>2. Known' = Known \cup {c.id : c \in new}
  BY <1>1 DEF Known
<1>3. /\ \A i \in Known : i \in Known' /\ coins'[i] = coins[i]
      /\ \A i \in Known' \ Known : coins'[i] = 0
  BY <1>1, <1>2 DEF Inserted, Sound, BooksFit
<1> QED
  BY <1>1, <1>3 DEF Net, Used

\* The commit passes the guards only for a candidate that governance clears:
\* an assessment written with the effect was not in force before.
LEMMA IssueCleared ==
  ASSUME Sound, NEW w \in Worker, IssueEffect(w)
  PROVE  txn[w].cand \in Cleared
<1> DEFINE t == txn[w]
           i == t.cand
<1>1. IssueFits(t)
  BY Issued
<1>2. i \in Known /\ t.decision \in decisions /\ t.decision.cand = i
  BY <1>1 DEF IssueFits
<1>3. t.approval # NoRequest =>
        /\ t.approval \in DOMAIN verdicts
        /\ verdicts[t.approval].verdict = "APPROVED"
        /\ t.approval.decision = t.decision
  BY <1>1 DEF IssueFits, Approved
<1>4. PICK o : Guarded(t.decision, t.safety, o, t.approval) /\ (head[i] # 0 => t.safety = head[i] /\ o = Outcome(i))
  <2>1. CASE head[i] = 0
    BY <2>1 DEF IssueEffect
  <2>2. CASE head[i] # 0
    <3>1. t.safety = head[i] /\ evals' = evals
      BY <2>2 DEF IssueEffect, assessed
    <3>2. Guarded(t.decision, t.safety, evals[i][t.safety].outcome, t.approval)
      BY <3>1 DEF IssueEffect
    <3> QED
      BY <2>2, <3>1, <3>2 DEF Outcome
  <2> QED
    BY <2>1, <2>2
<1> HIDE DEF t, i
<1>5. Outcome(i) # "SUPPRESS_INCENTIVE"
  BY <1>4 DEF Guarded, Outcome
<1>6. \/ t.decision.result = "ALLOW" /\ Outcome(i) # "REQUIRE_REVIEW"
      \/ /\ t.approval # NoRequest
         /\ \/ t.decision.result = "REQUIRE_APPROVAL" /\ t.approval.safety = 0
            \/ t.decision.result = "ALLOW" /\ t.approval.safety = head[i]
  <2>1. CASE head[i] = 0
    BY <1>4, <2>1 DEF Guarded, Outcome
  <2>2. CASE head[i] # 0
    BY <1>4, <2>2 DEF Guarded
  <2> QED
    BY <2>1, <2>2
<1>7. i \in Cleared
  BY <1>2, <1>3, <1>5, <1>6 DEF Cleared
<1> QED
  BY <1>7 DEF i, t

LEMMA IssueCredits ==
  ASSUME Sound, NEW w \in Worker, IssueEffect(w)
  PROVE  \E c \in Identity : Credit!Credit(c)
<1>1. PICK c \in Known, a \in Nat \ {0} :
        /\ c = txn[w].cand
        /\ \A f \in effects : f.cand # c
        /\ \E g : g.cand = c /\ g.amount = a /\ effects' = effects \cup {g}
        /\ coins' = [coins EXCEPT ![c] = a]
  BY Issued
<1>2. c \in Cleared
  BY <1>1, IssueCleared
<1>3. UNCHANGED candidates
  BY DEF IssueEffect
<1>4. Known' = Known /\ Known \subseteq Identity /\ DOMAIN coins = Known
  BY <1>3 DEF Known, Sound, CandidatesFit, BooksFit
<1>5. Used' = Used \cup {c} /\ c \notin Used
  BY <1>1 DEF Used
<1>6. Net'[c] = a /\ \A i \in Identity \ {c} : Net'[i] = Net[i]
  BY <1>1, <1>4 DEF Net
<1>7. Net'[c] > 0 /\ Net' = [Net EXCEPT ![c] = Net'[c]]
  <2>1. a > 0
    BY <1>1
  <2>2. Net' = [i \in Identity |-> Net'[i]] /\ Net = [i \in Identity |-> Net[i]]
    BY DEF Net
  <2> QED
    BY <1>1, <1>4, <1>6, <2>1, <2>2
<1>8. Credit!Credit(c)
  BY <1>2, <1>5, <1>7 DEF Credit!Credit, Net, Used
<1> QED
  BY <1>1, <1>4, <1>8

LEMMA ReverseReverses ==
  ASSUME Sound, NEW w \in Worker, ReverseEffect(w)
  PROVE  \E c \in Identity : Credit!Reverse(c)
<1>1. PICK c \in Known :
        /\ \E f \in effects : f.cand = c
        /\ coins[c] \in Nat \ {0}
        /\ coins' = [coins EXCEPT ![c] = 0]
  BY Reversed
<1>2. UNCHANGED <<candidates, effects>>
  BY DEF ReverseEffect
<1>3. Known' = Known /\ Known \subseteq Identity /\ DOMAIN coins = Known
  BY <1>2 DEF Known, Sound, CandidatesFit, BooksFit
<1>4. c \in Used /\ UNCHANGED Used
  BY <1>1, <1>2 DEF Used
<1>5. Net[c] # 0 /\ Net' = [Net EXCEPT ![c] = 0]
  BY <1>1, <1>3 DEF Net
<1>6. Credit!Reverse(c)
  BY <1>4, <1>5 DEF Credit!Reverse, Net, Used
<1> QED
  BY <1>1, <1>3, <1>6

LEMMA InitCredits == ASSUME Init PROVE Credit!Init
<1>1. candidates = {} /\ effects = {}
  BY DEF Init
<1>2. Known = {} /\ Cleared = {} /\ Used = {}
  BY <1>1 DEF Known, Cleared, Used
<1>3. Net = [i \in Identity |-> 0]
  BY <1>2 DEF Net
<1> QED
  BY <1>2, <1>3 DEF Credit!Init, Net, Used

LEMMA NextCredits == ASSUME Sound, Next PROVE Credit!Next
<1> DEFINE Govern == UNCHANGED <<Net, Used>>
<1>1. CASE \E u \in User, r \in Rule : \E f : CreateRule(u, r, f) \/ UpdateRule(u, r, f)
  <2>1. Govern
    BY <1>1, MoneyStands DEF CreateRule, UpdateRule, book
  <2> QED
    BY <2>1 DEF Credit!Next, Credit!Govern, Net, Used
<1>2. CASE \E u \in User, e \in Event : EvaluateEvent(u, e)
  <2>1. Govern
    BY <1>2, EvaluateGoverns
  <2> QED
    BY <2>1 DEF Credit!Next, Credit!Govern, Net, Used
<1>3. CASE Quiet
  <2>1. Govern
    BY <1>3, MoneyStands DEF Quiet
  <2> QED
    BY <2>1 DEF Credit!Next, Credit!Govern, Net, Used
<1>4. CASE \E w \in Worker : (\E u, d : Gate(w, u, d)) \/ (\E u, f : OwnReverse(w, u, f)) \/ OwnIssue(w) \/ Leave(w)
  <2>1. Govern
    BY <1>4, MoneyStands DEF Gate, OwnReverse, OwnIssue, Leave, book
  <2> QED
    BY <2>1 DEF Credit!Next, Credit!Govern, Net, Used
<1>5. CASE \E w \in Worker : IssueEffect(w)
  BY <1>5, IssueCredits DEF Credit!Next
<1>6. CASE \E w \in Worker : ReverseEffect(w)
  BY <1>6, ReverseReverses DEF Credit!Next
<1> QED
  BY <1>1, <1>2, <1>3, <1>4, <1>5, <1>6, Steps

\* Stuttering steps of the specification stutter on the coins.
LEMMA StutterCredits == ASSUME UNCHANGED vars PROVE UNCHANGED Credit!vars
BY DEF vars, book, asked, assessed, definitions, Credit!vars, Known, Cleared, Outcome

\* Whatever the company, its rules, policies, approvals and detectors, and
\* however many workers issue and reverse at once: a candidate is credited at
\* most once, only while it is cleared, and its reversal leaves nothing.
THEOREM ImplementsCreditOnce == Spec => PaidOnce
<1>1. Init => Credit!Init
  BY InitCredits
<1>2. Sound /\ [Next]_vars => [Credit!Next]_(Credit!vars)
  BY NextCredits, StutterCredits
<1> QED
  BY <1>1, <1>2, AlwaysSound, PTL DEF Spec, PaidOnce, Credit!Spec

-----------------------------------------------------------------------------
(* History: what is kept as assessments, approvals and observations grow.    *)

IsList(s) == s \in Seq(Range(s))

AssessedFit ==
    /\ DOMAIN evals = Known /\ DOMAIN head = Known
    /\ \A i \in Known : IsList(evals[i]) /\ head[i] \in 0..Len(evals[i])

\* What a step adds to the assessments comes after those there were.
LaterAssessed ==
    \A i \in Known :
        /\ i \in Known' /\ head'[i] >= head[i]
        /\ Len(evals'[i]) >= Len(evals[i])
        /\ \A k \in 1..Len(evals[i]) : evals'[i][k] = evals[i][k]

Kept ==
    /\ \A q \in DOMAIN verdicts : q \in DOMAIN verdicts' /\ verdicts'[q] = verdicts[q]
    /\ \A d \in DOMAIN shadows : d \in DOMAIN shadows' /\ shadows'[d] = shadows[d]

LEMMA ListLength == ASSUME NEW s, IsList(s) PROVE Len(s) \in Nat /\ DOMAIN s = 1..Len(s)
BY LenProperties DEF IsList

LEMMA LongerList ==
  ASSUME NEW s, IsList(s), NEW a
  PROVE  /\ IsList(Append(s, a)) /\ Len(Append(s, a)) = Len(s) + 1
         /\ \A k \in 1..Len(s) : Append(s, a)[k] = s[k]
<1> DEFINE S == Range(s) \cup {a}
           t == Append(s, a)
<1>1. s \in Seq(S)
  BY SeqMonotonic DEF IsList
<1>2. t \in Seq(S) /\ Len(t) = Len(s) + 1 /\ t[Len(s) + 1] = a
  BY <1>1
<1>3. \A k \in 1..Len(s) : t[k] = s[k]
  BY <1>1
<1>4. Range(t) = S
  <2>1. Len(s) \in Nat /\ DOMAIN s = 1..Len(s) /\ DOMAIN t = 1..Len(s) + 1
    BY <1>2, ListLength, LenProperties
  <2> HIDE DEF t
  <2>2. \A x \in S : x \in Range(t)
    BY <1>2, <1>3, <2>1 DEF Range
  <2>3. \A x \in Range(t) : x \in S
    BY <1>2, <1>3, <2>1 DEF Range
  <2> QED
    BY <2>2, <2>3
<1> QED
  BY <1>2, <1>3, <1>4 DEF IsList

LEMMA PrefixOf ==
  ASSUME NEW s, NEW t, IsList(s), IsList(t), Len(s) <= Len(t),
         \A k \in 1..Len(s) : t[k] = s[k]
  PROVE  IsPrefix(s, t)
<1> DEFINE n == Len(s)
           S == Range(s) \cup Range(t)
<1>1. s \in Seq(S) /\ t \in Seq(S)
  BY SeqMonotonic DEF IsList
<1>2. n \in Nat /\ Len(t) \in Nat
  BY ListLength
<1>3. \A i \in 1..n : s[i] \in S /\ t[i] \in S
  BY <1>1, <1>2, ElementOfSeq
<1> HIDE DEF S
<1>4. /\ SubSeq(s, 1, n) \in Seq(S) /\ Len(SubSeq(s, 1, n)) = n
      /\ \A i \in 1..n : SubSeq(s, 1, n)[i] = s[i]
  BY <1>1, <1>2, <1>3, SubSeqProperties
<1>5. /\ SubSeq(t, 1, n) \in Seq(S) /\ Len(SubSeq(t, 1, n)) = n
      /\ \A i \in 1..n : SubSeq(t, 1, n)[i] = t[i]
  BY <1>1, <1>2, <1>3, SubSeqProperties
<1>6. SubSeq(s, 1, n) = SubSeq(t, 1, n)
  BY <1>4, <1>5, SeqEqual
<1> QED
  BY <1>6 DEF IsPrefix

\* Recording an assessment, new or known, leaves one in force.
LEMMA RecordedFits ==
  ASSUME AssessedFit, NEW i \in Known, NEW a, Recorded(i, a), UNCHANGED candidates
  PROVE  AssessedFit' /\ LaterAssessed /\ head'[i] # 0
<1> DEFINE known == {k \in DOMAIN evals[i] : evals[i][k] = a}
           list == IF known = {} THEN Append(evals[i], a) ELSE evals[i]
           n == IF known = {} THEN Len(list) ELSE CHOOSE x \in known : TRUE
<1>1. /\ evals' = [evals EXCEPT ![i] = list]
      /\ head' = [head EXCEPT ![i] = IF n > head[i] THEN n ELSE head[i]]
  BY DEF Recorded
<1>2. Known' = Known
  BY DEF Known
<1>3. IsList(evals[i]) /\ head[i] \in 0..Len(evals[i]) /\ Len(evals[i]) \in Nat
  BY ListLength DEF AssessedFit
<1>4. /\ IsList(list) /\ Len(list) \in Nat /\ Len(list) >= Len(evals[i])
      /\ \A k \in 1..Len(evals[i]) : list[k] = evals[i][k]
      /\ n \in 1..Len(list)
  <2>1. CASE known = {}
    BY <1>3, <2>1, LongerList
  <2>2. CASE known # {}
    <3>1. n \in 1..Len(evals[i])
      BY <1>3, <2>2, ListLength
    <3> QED
      BY <1>3, <2>2, <3>1
  <2> QED
    BY <2>1, <2>2
<1> HIDE DEF n, list
<1>5. /\ evals'[i] = list /\ DOMAIN evals' = Known /\ DOMAIN head' = Known
      /\ head'[i] \in 1..Len(list) /\ head'[i] >= head[i]
      /\ \A j \in Known \ {i} : evals'[j] = evals[j] /\ head'[j] = head[j]
  BY <1>1, <1>3, <1>4 DEF AssessedFit
<1>6. AssessedFit'
  BY <1>2, <1>4, <1>5 DEF AssessedFit
<1>7. LaterAssessed
  <2>1. ASSUME NEW j \in Known \ {i}
        PROVE  head'[j] >= head[j] /\ Len(evals'[j]) >= Len(evals[j])
               /\ \A k \in 1..Len(evals[j]) : evals'[j][k] = evals[j][k]
    BY <1>5, ListLength DEF AssessedFit
  <2> QED
    BY <1>2, <1>4, <1>5, <2>1 DEF LaterAssessed
<1> QED
  BY <1>5, <1>6, <1>7

\* A step that assesses nothing.
Calm == UNCHANGED <<candidates, evals, head>>

LEMMA CalmFits ==
  ASSUME AssessedFit, Calm
  PROVE  AssessedFit' /\ LaterAssessed
<1>1. Known' = Known
  BY DEF Calm, Known
<1>2. AssessedFit'
  BY <1>1 DEF Calm, AssessedFit
<1>3. LaterAssessed
  BY <1>1, ListLength DEF Calm, AssessedFit, LaterAssessed
<1> QED
  BY <1>2, <1>3

LEMMA EvaluateFits ==
  ASSUME Sound, AssessedFit, NEW u, NEW e \in Event, EvaluateEvent(u, e)
  PROVE  AssessedFit' /\ LaterAssessed /\ Kept
<1>1. PICK new :
        /\ candidates' = candidates \cup new
        /\ head' = Inserted(head, {c.id : c \in new}, 0)
        /\ evals' = Inserted(evals, {c.id : c \in new}, <<>>)
        /\ UNCHANGED <<verdicts, shadows>>
  BY Proposed
<1>2. Known' = Known \cup {c.id : c \in new}
  BY <1>1 DEF Known
<1>3. /\ DOMAIN head' = Known' /\ DOMAIN evals' = Known'
      /\ \A i \in Known : head'[i] = head[i] /\ evals'[i] = evals[i]
      /\ \A i \in Known' \ Known : head'[i] = 0 /\ evals'[i] = <<>>
  BY <1>1, <1>2 DEF Inserted, AssessedFit
<1>4. IsList(<<>>) /\ Len(<<>>) = 0
  BY EmptySeq DEF IsList
<1>5. AssessedFit'
  BY <1>3, <1>4 DEF AssessedFit
<1>6. LaterAssessed
  BY <1>2, <1>3, ListLength DEF AssessedFit, LaterAssessed
<1> QED
  BY <1>1, <1>5, <1>6 DEF Kept

LEMMA IssueFitsAssessed ==
  ASSUME Sound, AssessedFit, NEW w \in Worker, IssueEffect(w)
  PROVE  /\ AssessedFit' /\ LaterAssessed /\ Kept
         /\ txn[w].safety \in 1..Len(evals'[txn[w].cand])
<1>1. PICK i \in Known : i = txn[w].cand
  BY Issued
<1>2. /\ UNCHANGED <<candidates, verdicts, shadows>> /\ head'[i] = txn[w].safety
      /\ IF head[i] = 0 THEN Recorded(i, txn[w].assessed) ELSE UNCHANGED assessed
  BY <1>1 DEF IssueEffect, asked
<1>3. AssessedFit' /\ LaterAssessed /\ head'[i] # 0
  <2>1. CASE head[i] = 0
    BY <1>2, <2>1, RecordedFits
  <2>2. CASE head[i] # 0
    BY <1>2, <2>2, CalmFits DEF Calm, assessed
  <2> QED
    BY <2>1, <2>2
<1>4. i \in Known' /\ IsList(evals'[i])
  BY <1>2, <1>3 DEF Known, AssessedFit
<1>5. head'[i] \in 1..Len(evals'[i])
  BY <1>3, <1>4, ListLength DEF AssessedFit
<1> QED
  BY <1>1, <1>2, <1>3, <1>5 DEF Kept

\* The other commands: each assesses one candidate, or nothing.
LEMMA CommandsFit ==
  ASSUME AssessedFit, NEW u
  PROVE  /\ \A r, f : CreateRule(u, r, f) \/ UpdateRule(u, r, f) => Calm /\ Kept
         /\ \A p, f : CreatePolicy(u, p, f) \/ UpdatePolicy(u, p, f) => Calm /\ Kept
         /\ \A f : UpdateSettings(u, f) => Calm /\ Kept
         /\ \A i : EvaluateCandidate(u, i) => Calm /\ Kept
         /\ \A i \in Known : \A b : Assess(u, i, b) => AssessedFit' /\ LaterAssessed /\ Kept
         /\ \A d : ObserveDecision(u, d) => Calm /\ Kept
         /\ \A d : d.cand \in Known /\ ObserveSafety(u, d) => AssessedFit' /\ LaterAssessed /\ Kept
         /\ \A d, s : CreateRequest(u, d, s) => Calm /\ Kept
         /\ \A q, v : Decide(u, q, v) => Calm /\ Kept
         /\ \A r : ChangeRole(u, r) => Calm /\ Kept
<1> USE DEF Calm, Kept, assessed, asked
<1>1. \A r, f : CreateRule(u, r, f) \/ UpdateRule(u, r, f) => Calm /\ Kept
  BY DEF CreateRule, UpdateRule
<1>2. \A p, f : CreatePolicy(u, p, f) \/ UpdatePolicy(u, p, f) => Calm /\ Kept
  BY DEF CreatePolicy, UpdatePolicy
<1>3. \A f : UpdateSettings(u, f) => Calm /\ Kept
  BY DEF UpdateSettings
<1>4. ASSUME NEW i, EvaluateCandidate(u, i) PROVE Calm /\ Kept
  BY <1>4 DEF EvaluateCandidate, Observed
<1>5. ASSUME NEW i \in Known, NEW b, Assess(u, i, b) PROVE AssessedFit' /\ LaterAssessed /\ Kept
  <2>1. Recorded(i, Assessment(i)) /\ UNCHANGED <<candidates, verdicts, shadows>>
    BY <1>5 DEF Assess
  <2> QED
    BY <2>1, RecordedFits
<1>6. ASSUME NEW d, ObserveDecision(u, d) PROVE Calm /\ Kept
  BY <1>6 DEF ObserveDecision, Observed
<1>7. ASSUME NEW d, d.cand \in Known, ObserveSafety(u, d) PROVE AssessedFit' /\ LaterAssessed /\ Kept
  <2>1. Recorded(d.cand, Assessment(d.cand)) /\ UNCHANGED <<candidates, verdicts>> /\ shadows' = Observed({d})
    BY <1>7 DEF ObserveSafety
  <2>2. AssessedFit' /\ LaterAssessed
    BY <1>7, <2>1, RecordedFits
  <2>3. Kept
    BY <2>1 DEF Observed
  <2> QED
    BY <2>2, <2>3
<1>8. \A d, s : CreateRequest(u, d, s) => Calm /\ Kept
  BY DEF CreateRequest
<1>9. \A q, v : Decide(u, q, v) => Calm /\ Kept
  BY DEF Decide, Inserted
<1>10. \A r : ChangeRole(u, r) => Calm /\ Kept
  BY DEF ChangeRole
<1> QED
  BY <1>1, <1>2, <1>3, <1>4, <1>5, <1>6, <1>7, <1>8, <1>9, <1>10

LEMMA NextAssessed ==
  ASSUME Sound, AssessedFit, [Next]_vars
  PROVE  AssessedFit' /\ LaterAssessed /\ Kept
<1>1. CASE UNCHANGED vars
  BY <1>1, CalmFits DEF vars, Calm, Kept
<1>2. ASSUME NEW u \in User, Manage(u) PROVE AssessedFit' /\ LaterAssessed /\ Kept
  <2>1. \A d \in decisions : d.cand \in Known
    BY DEF Sound, CandidatesFit
  <2>2. CASE \E e \in Event : EvaluateEvent(u, e)
    BY <2>2, EvaluateFits
  <2>3. CASE ~\E e \in Event : EvaluateEvent(u, e)
    BY <1>2, <2>1, <2>3, CommandsFit, CalmFits DEF Manage
  <2> QED
    BY <2>2, <2>3
<1>3. ASSUME NEW u \in User, NEW q \in requests, NEW v \in Verdicts, Decide(u, q, v)
      PROVE  AssessedFit' /\ LaterAssessed /\ Kept
  BY <1>3, CommandsFit, CalmFits
<1>4. ASSUME NEW u \in Editable, NEW r \in NewRoles, ChangeRole(u, r)
      PROVE  AssessedFit' /\ LaterAssessed /\ Kept
  BY <1>4, CommandsFit, CalmFits
<1>5. ASSUME NEW w \in Worker, Execute(w) PROVE AssessedFit' /\ LaterAssessed /\ Kept
  <2>1. CASE IssueEffect(w)
    BY <2>1, IssueFitsAssessed
  <2>2. CASE ~IssueEffect(w)
    <3>1. Calm /\ Kept
      BY <1>5, <2>2 DEF Execute, Gate, OwnReverse, OwnIssue, ReverseEffect, Leave, Calm, Kept, assessed, asked
    <3> QED
      BY <3>1, CalmFits
  <2> QED
    BY <2>1, <2>2
<1> QED
  BY <1>1, <1>2, <1>3, <1>4, <1>5 DEF Next

LEMMA InitAssessed == ASSUME Init PROVE AssessedFit
BY DEF Init, AssessedFit, Known, Empty

\* Nothing decided or observed is lost or changed by any step, and the
\* assessment in force is never an older one.
THEOREM AlwaysHistory == Spec => HistoryStands
<1> DEFINE Stands == /\ \A q \in DOMAIN verdicts : q \in DOMAIN verdicts' /\ verdicts'[q] = verdicts[q]
                     /\ \A d \in DOMAIN shadows : d \in DOMAIN shadows' /\ shadows'[d] = shadows[d]
                     /\ \A i \in Known : head'[i] >= head[i] /\ IsPrefix(evals[i], evals'[i])
<1>1. Init => AssessedFit
  BY InitAssessed
<1>2. Sound /\ AssessedFit /\ [Next]_vars => AssessedFit' /\ LaterAssessed /\ Kept
  BY NextAssessed
<1>3. ASSUME AssessedFit, AssessedFit', LaterAssessed, Kept PROVE Stands
  <2>1. ASSUME NEW i \in Known PROVE head'[i] >= head[i] /\ IsPrefix(evals[i], evals'[i])
    <3>1. i \in Known' /\ IsList(evals[i]) /\ IsList(evals'[i])
      BY <1>3 DEF AssessedFit, LaterAssessed
    <3>2. /\ head'[i] >= head[i] /\ Len(evals'[i]) >= Len(evals[i])
          /\ \A k \in 1..Len(evals[i]) : evals'[i][k] = evals[i][k]
      BY <1>3 DEF LaterAssessed
    <3>3. Len(evals[i]) <= Len(evals'[i])
      BY <3>1, <3>2, ListLength
    <3> QED
      BY <3>1, <3>2, <3>3, PrefixOf
  <2> QED
    BY <1>3, <2>1 DEF Kept
<1>4. Sound /\ AssessedFit /\ [Next]_vars => [Stands]_vars
  BY <1>2, <1>3
<1> QED
  BY <1>1, <1>2, <1>4, AlwaysSound, PTL DEF Spec, HistoryStands

-----------------------------------------------------------------------------
(* Separation of duties *)

\* An effect names an assessment that exists and an approval that was given;
\* whoever decided on a request is not the one its event concerns.
Agreed ==
    /\ ApprovedByAnother
    /\ \A f \in effects :
          /\ f.safety \in 1..Len(evals[f.cand])
          /\ f.approval # NoRequest => f.approval \in DOMAIN verdicts
    /\ \A q \in DOMAIN verdicts : verdicts[q].by # Concerns(q.decision.cand)

\* Verdicts are only added by Decide, effects only by IssueEffect.
LEMMA Additions ==
  ASSUME [Next]_vars
  PROVE  /\ UNCHANGED verdicts \/ \E u, q, v : Decide(u, q, v)
         /\ UNCHANGED effects \/ \E w \in Worker : IssueEffect(w)
<1> USE DEF asked, book
<1>1. CASE UNCHANGED vars
  BY <1>1 DEF vars
<1>2. ASSUME NEW u \in User, Manage(u) PROVE UNCHANGED <<verdicts, effects>>
  BY <1>2 DEF Manage, CreateRule, UpdateRule, CreatePolicy, UpdatePolicy, UpdateSettings, EvaluateEvent,
     EvaluateCandidate, Assess, ObserveDecision, ObserveSafety, CreateRequest
<1>3. ASSUME NEW u, NEW q, NEW v, Decide(u, q, v) PROVE UNCHANGED effects
  BY <1>3 DEF Decide
<1>4. ASSUME NEW u, NEW r, ChangeRole(u, r) PROVE UNCHANGED <<verdicts, effects>>
  BY <1>4 DEF ChangeRole
<1>5. ASSUME NEW w \in Worker, Execute(w)
      PROVE  UNCHANGED verdicts /\ (UNCHANGED effects \/ IssueEffect(w))
  BY <1>5 DEF Execute, Gate, OwnReverse, OwnIssue, IssueEffect, ReverseEffect, Leave
<1> QED
  BY <1>1, <1>2, <1>3, <1>4, <1>5 DEF Next

\* The effects there were keep their assessment and their approval.
LEMMA OldEffects ==
  ASSUME Sound, AssessedFit, Agreed, LaterAssessed, Kept, NEW f \in effects
  PROVE  /\ evals'[f.cand][f.safety] = evals[f.cand][f.safety]
         /\ f.safety \in 1..Len(evals'[f.cand])
         /\ f.approval # NoRequest =>
               /\ f.approval \in DOMAIN verdicts'
               /\ verdicts'[f.approval] = verdicts[f.approval]
<1>1. f.cand \in Known /\ f.safety \in 1..Len(evals[f.cand])
  BY DEF Sound, BooksFit, Agreed
<1>2. IsList(evals[f.cand]) /\ Len(evals[f.cand]) \in Nat
  BY <1>1, ListLength DEF AssessedFit
<1>3. Len(evals'[f.cand]) >= Len(evals[f.cand]) /\ evals'[f.cand][f.safety] = evals[f.cand][f.safety]
  BY <1>1 DEF LaterAssessed
<1>4. f.approval # NoRequest => f.approval \in DOMAIN verdicts
  BY DEF Agreed
<1>5. f.approval # NoRequest =>
        /\ f.approval \in DOMAIN verdicts'
        /\ verdicts'[f.approval] = verdicts[f.approval]
  BY <1>4 DEF Kept
<1> QED
  BY <1>1, <1>2, <1>3, <1>5

\* The new effect: the commit compared its approval and its assessment.
LEMMA NewEffect ==
  ASSUME BoundsAssumption, Sound, AssessedFit, Agreed, NEW w \in Worker, IssueEffect(w)
  PROVE  \A f \in effects' \ effects :
           /\ f.safety \in 1..Len(evals'[f.cand])
           /\ evals'[f.cand][f.safety].outcome = "REQUIRE_REVIEW" => f.approval # NoRequest
           /\ f.approval # NoRequest =>
                 /\ f.approval \in DOMAIN verdicts'
                 /\ f.approval.decision = f.decision
                 /\ f.approval.safety \in {0, f.safety}
                 /\ verdicts'[f.approval].verdict = "APPROVED"
                 /\ verdicts'[f.approval].by # f.to
<1> DEFINE t == txn[w]
<1>1. /\ t.decision.cand = t.cand
      /\ EventOf[t.cand.event].subject \in User
      /\ Approved(t.decision, t.approval)
  BY Issued DEF IssueFits
<1>2. t.safety \in 1..Len(evals'[t.cand])
  BY IssueFitsAssessed
<1>3. UNCHANGED verdicts /\ Guarded(t.decision, t.safety, evals'[t.cand][t.safety].outcome, t.approval)
  BY DEF IssueEffect, asked
<1>4. ASSUME NEW f \in effects' \ effects
      PROVE  /\ f.cand = t.cand /\ f.decision = t.decision /\ f.approval = t.approval
             /\ f.safety = t.safety /\ f.to = EventOf[t.cand.event].subject
  <2> DEFINE g == [cand |-> t.cand, decision |-> t.decision, approval |-> t.approval, safety |-> t.safety,
                   to |-> EventOf[t.cand.event].subject, amount |-> CandidateOf(t.cand).data.amount]
  <2>1. effects' = effects \cup {g}
    BY DEF IssueEffect
  <2>2. f = g
    BY <1>4, <2>1
  <2> QED
    BY <2>2
<1> HIDE DEF t
<1>5. /\ evals'[t.cand][t.safety].outcome = "REQUIRE_REVIEW" => t.approval # NoRequest
      /\ t.approval # NoRequest => t.approval.safety \in {0, t.safety}
  BY <1>3 DEF Guarded
<1>6. t.approval # NoRequest =>
        /\ t.approval \in DOMAIN verdicts'
        /\ t.approval.decision = t.decision
        /\ verdicts'[t.approval].verdict = "APPROVED"
        /\ verdicts'[t.approval].by # EventOf[t.cand.event].subject
  <2>1. Nobody \notin User
    BY DEF BoundsAssumption
  <2>2. Concerns(t.cand) = EventOf[t.cand.event].subject
    BY <1>1, <2>1 DEF Concerns
  <2> QED
    BY <1>1, <1>3, <2>2 DEF Approved, Agreed
<1> QED
  BY <1>2, <1>4, <1>5, <1>6

LEMMA NextAgreed ==
  ASSUME BoundsAssumption, Sound, AssessedFit, Agreed, [Next]_vars
  PROVE  Agreed'
<1>1. AssessedFit' /\ LaterAssessed /\ Kept
  BY NextAssessed
<1>2. ASSUME NEW f \in effects'
      PROVE  /\ f.safety \in 1..Len(evals'[f.cand])
             /\ evals'[f.cand][f.safety].outcome = "REQUIRE_REVIEW" => f.approval # NoRequest
             /\ f.approval # NoRequest =>
                   /\ f.approval \in DOMAIN verdicts'
                   /\ f.approval.decision = f.decision
                   /\ f.approval.safety \in {0, f.safety}
                   /\ verdicts'[f.approval].verdict = "APPROVED"
                   /\ verdicts'[f.approval].by # f.to
  <2>1. CASE f \in effects
    BY <1>1, <2>1, OldEffects DEF Agreed, ApprovedByAnother
  <2>2. CASE f \notin effects
    BY <1>2, <2>2, Additions, NewEffect
  <2> QED
    BY <2>1, <2>2
<1>3. ASSUME NEW q \in DOMAIN verdicts' PROVE verdicts'[q].by # Concerns(q.decision.cand)
  <2>1. CASE UNCHANGED verdicts
    BY <1>3, <2>1 DEF Agreed
  <2>2. CASE \E u, p, v : Decide(u, p, v)
    BY <1>3, <2>2 DEF Agreed, Decide, Inserted
  <2> QED
    BY <2>1, <2>2, Additions
<1>4. ApprovedByAnother'
  BY <1>2 DEF ApprovedByAnother
<1> QED
  BY <1>2, <1>3, <1>4 DEF Agreed, Concerns

LEMMA InitAgreed == ASSUME Init PROVE Agreed
BY DEF Init, Agreed, ApprovedByAnother, Empty

\* Whoever asks, however assessments and roles change meanwhile: what was
\* issued under an approval was approved, for its own decision and
\* assessment, by somebody else than the person it paid.
THEOREM AlwaysApprovedByAnother == Spec => []ApprovedByAnother
<1>1. Init => AssessedFit /\ Agreed
  BY InitAssessed, InitAgreed
<1>2. Sound /\ AssessedFit /\ Agreed /\ [Next]_vars => AssessedFit' /\ Agreed'
  BY NextAssessed, NextAgreed, BoundsAssumption
<1>3. Agreed => ApprovedByAnother
  BY DEF Agreed
<1> QED
  BY <1>1, <1>2, <1>3, AlwaysSound, PTL DEF Spec
-----------------------------------------------------------------------------
(* What the pages of Provenance read                                         *)

\* Policies and decisions know four results; a request has one of two
\* authorities and a verdict is about a request; an effect paid the one its
\* event concerns.
PoliciesFit == \A p \in DOMAIN policies : policies[p].form.decision \in DOMAIN PolicyRank

DecisionsFit == \A d \in decisions : d.result \in DOMAIN PolicyRank

RequestsFit ==
    /\ IsFiniteSet(requests)
    /\ \A q \in requests : q.authority \in {"ADMIN", "MANAGER_OR_ADMIN"}

VerdictsFit == \A q \in DOMAIN verdicts : q \in requests /\ verdicts[q].verdict \in Verdicts

EffectsFit ==
    /\ IsFiniteSet(effects)
    /\ \A f \in effects : f.to = Concerns(f.cand)

Legible == PoliciesFit /\ DecisionsFit /\ RequestsFit /\ VerdictsFit /\ EffectsFit

\* Policies are saved by two commands; decisions and requests are added by one
\* each.
LEMMA Changes ==
  ASSUME [Next]_vars
  PROVE  /\ UNCHANGED policies \/ \E u, p, f : CreatePolicy(u, p, f) \/ UpdatePolicy(u, p, f)
         /\ UNCHANGED decisions \/ \E u, i : EvaluateCandidate(u, i)
         /\ UNCHANGED requests \/ \E u, d, s : CreateRequest(u, d, s)
         /\ UNCHANGED verdicts \/ \E u : \E q \in requests, v \in Verdicts : Decide(u, q, v)
<1> USE DEF definitions, asked
<1>1. CASE UNCHANGED vars
  BY <1>1 DEF vars
<1>2. ASSUME NEW u \in User, Manage(u)
      PROVE  /\ UNCHANGED policies \/ \E p, f : CreatePolicy(u, p, f) \/ UpdatePolicy(u, p, f)
             /\ UNCHANGED decisions \/ \E i : EvaluateCandidate(u, i)
             /\ UNCHANGED requests \/ \E d, s : CreateRequest(u, d, s)
             /\ UNCHANGED verdicts
  BY <1>2 DEF Manage, CreateRule, UpdateRule, CreatePolicy, UpdatePolicy, UpdateSettings, EvaluateEvent,
     EvaluateCandidate, Assess, ObserveDecision, ObserveSafety, CreateRequest
<1>3. ASSUME NEW u, NEW q, NEW v, Decide(u, q, v) PROVE UNCHANGED <<policies, decisions, requests>>
  BY <1>3 DEF Decide
<1>4. ASSUME NEW u, NEW r, ChangeRole(u, r) PROVE UNCHANGED <<policies, decisions, requests, verdicts>>
  BY <1>4 DEF ChangeRole
<1>5. ASSUME NEW w \in Worker, Execute(w) PROVE UNCHANGED <<policies, decisions, requests, verdicts>>
  BY <1>5 DEF Execute, Gate, OwnReverse, OwnIssue, IssueEffect, ReverseEffect, Leave
<1> QED
  BY <1>1, <1>2, <1>3, <1>4, <1>5 DEF Next

\* Of some of the four results one is most severe.
LEMMA SevereOfFour ==
  ASSUME NEW S, S \subseteq DOMAIN PolicyRank
  PROVE  MostSevere(S, PolicyRank, "REQUIRE_APPROVAL") \in DOMAIN PolicyRank
<1>1. /\ DOMAIN PolicyRank = {"ALLOW", "REQUIRE_APPROVAL", "SHADOW_ONLY", "BLOCK"}
      /\ PolicyRank["ALLOW"] = 0 /\ PolicyRank["REQUIRE_APPROVAL"] = 1
      /\ PolicyRank["SHADOW_ONLY"] = 2 /\ PolicyRank["BLOCK"] = 3
  BY DEF PolicyRank
<1>2. S # {} => \E x \in S : \A y \in S : PolicyRank[y] <= PolicyRank[x]
  <2>1. CASE "BLOCK" \in S
    BY <1>1, <2>1
  <2>2. CASE "BLOCK" \notin S /\ "SHADOW_ONLY" \in S
    BY <1>1, <2>2
  <2>3. CASE "BLOCK" \notin S /\ "SHADOW_ONLY" \notin S /\ "REQUIRE_APPROVAL" \in S
    BY <1>1, <2>3
  <2>4. CASE S \subseteq {"ALLOW"}
    BY <1>1, <2>4
  <2> QED
    BY <1>1, <2>1, <2>2, <2>3, <2>4
<1> QED
  BY <1>1, <1>2 DEF MostSevere

\* So the verdict of any set of policies is one of the four.
LEMMA VerdictFits ==
  ASSUME NEW E, \A p \in E : p.form.decision \in DOMAIN PolicyRank
  PROVE  Verdict(E) \in DOMAIN PolicyRank
<1> DEFINE S == {p.form.decision : p \in {q \in E : q.matched}}
<1>1. S \subseteq DOMAIN PolicyRank
  OBVIOUS
<1>2. Verdict(E) = MostSevere(S, PolicyRank, "REQUIRE_APPROVAL")
  BY DEF Verdict
<1> HIDE DEF S
<1> QED
  BY <1>1, <1>2, SevereOfFour

LEMMA DecisionFits ==
  ASSUME PoliciesFit, NEW i
  PROVE  Decision(i).result \in DOMAIN PolicyRank
<1> DEFINE rows == {p \in DOMAIN policies : Applies(policies[p].form, i)}
           Row(p) == [policy |-> p, version |-> policies[p].version, form |-> policies[p].form,
                      matched |-> Holds(policies[p].form.conditions, PolicyFields(i))]
           E == {Row(p) : p \in rows}
<1>1. ASSUME NEW r \in E PROVE r.form.decision \in DOMAIN PolicyRank
  <2>1. PICK p \in DOMAIN policies : r = Row(p)
    BY <1>1
  <2>2. r.form = policies[p].form
    BY <2>1
  <2> QED
    BY <2>2 DEF PoliciesFit
<1>2. Decision(i).result = Verdict(E)
  BY DEF Decision
<1> HIDE DEF E
<1> QED
  BY <1>1, <1>2, VerdictFits

LEMMA PoliciesStayFit ==
  ASSUME PoliciesFit, NEW u, NEW p, NEW f, CreatePolicy(u, p, f) \/ UpdatePolicy(u, p, f)
  PROVE  PoliciesFit'
<1>1. f.decision \in DOMAIN PolicyRank
  BY DEF CreatePolicy, UpdatePolicy, ValidPolicy
<1>2. CASE CreatePolicy(u, p, f)
  <2>1. /\ DOMAIN policies' = DOMAIN policies \cup {p}
        /\ \A x \in DOMAIN policies : policies'[x] = policies[x]
        /\ p \notin DOMAIN policies => policies'[p] = [version |-> 1, form |-> f]
    BY <1>2 DEF CreatePolicy, Inserted
  <2> QED
    BY <1>1, <2>1 DEF PoliciesFit
<1>3. CASE UpdatePolicy(u, p, f)
  <2>1. p \in DOMAIN policies /\ policies' = [policies EXCEPT ![p] = Revised(policies[p], f)]
    BY <1>3 DEF UpdatePolicy
  <2>2. Revised(policies[p], f).form = f
    BY DEF Revised
  <2> QED
    BY <1>1, <2>1, <2>2 DEF PoliciesFit
<1> QED
  BY <1>2, <1>3

LEMMA RequestsStayFit ==
  ASSUME RequestsFit, NEW u, NEW d, NEW s, CreateRequest(u, d, s)
  PROVE  RequestsFit' /\ requests \subseteq requests'
<1> DEFINE q == [decision |-> d, safety |-> s, authority |-> Authority(d.cand)]
<1>1. requests' = requests \cup {q}
  BY DEF CreateRequest
<1>2. q.authority \in {"ADMIN", "MANAGER_OR_ADMIN"}
  BY DEF Authority
<1> HIDE DEF q
<1>3. IsFiniteSet(requests')
  BY <1>1, FS_AddElement DEF RequestsFit
<1> QED
  BY <1>1, <1>2, <1>3 DEF RequestsFit

LEMMA EffectsStayFit ==
  ASSUME BoundsAssumption, Sound, EffectsFit, NEW w \in Worker, IssueEffect(w)
  PROVE  EffectsFit'
<1> DEFINE c == txn[w].cand
           g == [cand |-> c, decision |-> txn[w].decision, approval |-> txn[w].approval,
                 safety |-> txn[w].safety, to |-> EventOf[c.event].subject, amount |-> CandidateOf(c).data.amount]
<1>1. effects' = effects \cup {g}
  BY DEF IssueEffect
<1>2. EventOf[c.event].subject \in User
  BY Issued DEF IssueFits
<1>3. g.to = Concerns(g.cand)
  <2>1. Nobody \notin User
    BY DEF BoundsAssumption
  <2>2. Concerns(c) = EventOf[c.event].subject
    BY <1>2, <2>1 DEF Concerns
  <2> QED
    BY <2>2
<1> HIDE DEF g, c
<1>4. IsFiniteSet(effects')
  BY <1>1, FS_AddElement DEF EffectsFit
<1> QED
  BY <1>1, <1>3, <1>4 DEF EffectsFit, Concerns

LEMMA NextLegible ==
  ASSUME BoundsAssumption, Sound, Legible, [Next]_vars
  PROVE  Legible'
<1> USE DEF Legible
<1>1. PoliciesFit'
  BY Changes, PoliciesStayFit DEF PoliciesFit
<1>2. DecisionsFit'
  <2>1. CASE UNCHANGED decisions
    BY <2>1 DEF DecisionsFit
  <2>2. ASSUME NEW u, NEW i, EvaluateCandidate(u, i) PROVE DecisionsFit'
    <3>1. decisions' = decisions \cup {Decision(i)}
      BY <2>2 DEF EvaluateCandidate
    <3> QED
      BY <3>1, DecisionFits DEF DecisionsFit
  <2> QED
    BY <2>1, <2>2, Changes
<1>3. RequestsFit' /\ requests \subseteq requests'
  BY Changes, RequestsStayFit DEF RequestsFit
<1>4. VerdictsFit'
  <2>1. CASE UNCHANGED verdicts
    BY <1>3, <2>1 DEF VerdictsFit
  <2>2. ASSUME NEW u, NEW v \in Verdicts, NEW q \in requests, Decide(u, q, v) PROVE VerdictsFit'
    BY <2>2 DEF VerdictsFit, Decide, Inserted
  <2> QED
    BY <2>1, <2>2, Changes
<1>5. EffectsFit'
  <2>1. CASE UNCHANGED effects
    BY <2>1 DEF EffectsFit, Concerns
  <2>2. CASE \E w \in Worker : IssueEffect(w)
    BY <2>2, EffectsStayFit
  <2> QED
    BY <2>1, <2>2, Additions
<1> QED
  BY <1>1, <1>2, <1>3, <1>4, <1>5

LEMMA InitLegible == ASSUME Init PROVE Legible
<1>1. /\ policies = Empty /\ decisions = {} /\ requests = {} /\ verdicts = Empty /\ effects = {}
      /\ DOMAIN Empty = {}
  BY DEF Init, Empty
<1> QED
  BY <1>1, FS_EmptySet DEF Legible, PoliciesFit, DecisionsFit, RequestsFit, VerdictsFit, EffectsFit

\* What is on record can be read back, in every state.
THEOREM AlwaysLegible == Spec => [](Sound /\ Legible)
<1>1. Init => Legible
  BY InitLegible
<1>2. Sound /\ Legible /\ [Next]_vars => Legible'
  BY NextLegible, BoundsAssumption
<1> QED
  BY <1>1, <1>2, AlwaysSound, PTL DEF Spec
-----------------------------------------------------------------------------
(* What the employee is told is what the gate would say *)

\* An approval of decision d for assessment s that was decided in its favour.
InFavour(d, s) == {q \in DOMAIN verdicts : q.decision = d /\ q.safety = s /\ verdicts[q].verdict = "APPROVED"}

LEMMA OutcomeOfApproval ==
  ASSUME VerdictsFit, NEW d, NEW s
  PROVE  ApprovalOutcome(d, s) = "AUTHORIZED_PENDING" <=> InFavour(d, s) # {}
<1> DEFINE about == {p \in DOMAIN verdicts : p.decision = d /\ p.safety = s}
           decided == {verdicts[q].verdict : q \in about}
<1>1. decided \subseteq {"APPROVED", "REJECTED"}
  BY DEF VerdictsFit, Verdicts
<1>2. "APPROVED" \in decided <=> InFavour(d, s) # {}
  BY DEF InFavour
<1>3. ApprovalOutcome(d, s) =
        CASE decided = {} -> "PENDING_REVIEW" [] decided = {"REJECTED"} -> "NOT_APPROVED" [] OTHER -> "AUTHORIZED_PENDING"
  BY DEF ApprovalOutcome
<1> HIDE DEF decided
<1>4. CASE decided = {}
  BY <1>2, <1>3, <1>4
<1>5. CASE decided = {"REJECTED"}
  BY <1>2, <1>3, <1>5
<1>6. CASE decided # {} /\ decided # {"REJECTED"}
  <2>1. "APPROVED" \in decided
    BY <1>1, <1>6
  <2>2. ApprovalOutcome(d, s) = "AUTHORIZED_PENDING"
    BY <1>3, <1>6
  <2> QED
    BY <1>2, <2>1, <2>2
<1> QED
  BY <1>4, <1>5, <1>6

\* The gate takes what was decided in favour of the decision, for the policy or
\* for the assessment in force.
LEMMA GateReads ==
  ASSUME VerdictsFit, NEW d, NEW s, NEW o
  PROVE  /\ d.result = "REQUIRE_APPROVAL" => Approvals(d, s, o) = InFavour(d, 0)
         /\ d.result = "ALLOW" /\ o = "REQUIRE_REVIEW" => Approvals(d, s, o) = InFavour(d, s)
         /\ d.result = "ALLOW" /\ o # "REQUIRE_REVIEW" => Approvals(d, s, o) = {NoRequest}
         /\ d.result \notin {"ALLOW", "REQUIRE_APPROVAL"} => Approvals(d, s, o) = {}
<1>1. \A q \in DOMAIN verdicts : q \in requests
  BY DEF VerdictsFit
<1>2. d.result = "REQUIRE_APPROVAL" => Approvals(d, s, o) = InFavour(d, 0)
  BY <1>1 DEF Approvals, InFavour
<1>3. d.result = "ALLOW" /\ o = "REQUIRE_REVIEW" => Approvals(d, s, o) = InFavour(d, s)
  BY <1>1 DEF Approvals, InFavour
<1>4. d.result = "ALLOW" /\ o # "REQUIRE_REVIEW" => Approvals(d, s, o) = {NoRequest}
  BY DEF Approvals
<1>5. d.result \notin {"ALLOW", "REQUIRE_APPROVAL"} => Approvals(d, s, o) = {}
  BY DEF Approvals
<1> QED
  BY <1>2, <1>3, <1>4, <1>5

\* What is eligible is what has an approval and a payment, and is not suppressed.
LEMMA EligibleWhen ==
  ASSUME NEW d
  PROVE  Eligibility(d) # {} <=>
           /\ Approvals(d, AtGate(d.cand).safety, AtGate(d.cand).assessed.outcome) # {}
           /\ AtGate(d.cand).assessed.outcome # "SUPPRESS_INCENTIVE"
           /\ ~Unpayable(d.cand)
BY DEF Eligibility, Unpayable

LEMMA LegibleMirrors == ASSUME Legible PROVE ProjectionMirrorsGate
<1> SUFFICES ASSUME NEW d \in decisions
             PROVE  /\ Eligibility(d) # {} => NonPayoutOutcome(d) = "AUTHORIZED_PENDING"
                    /\ NonPayoutOutcome(d) = "AUTHORIZED_PENDING" =>
                          Eligibility(d) # {} \/ Unpayable(d.cand) \/ HeldAtGate(d)
  BY DEF ProjectionMirrorsGate
<1> DEFINE shown == CurrentSafety(d.cand)
           o == AtGate(d.cand).assessed.outcome
           s == AtGate(d.cand).safety
           h == head[d.cand]
           found == Approvals(d, s, o) # {}
           authorized == NonPayoutOutcome(d) = "AUTHORIZED_PENDING"
<1>1. VerdictsFit /\ d.result \in {"ALLOW", "REQUIRE_APPROVAL", "SHADOW_ONLY", "BLOCK"}
  BY DEF Legible, DecisionsFit, PolicyRank
<1>2. /\ h = 0 => shown = "CLEAR"
      /\ h # 0 => shown = o /\ s = h
  BY DEF CurrentSafety, AtGate
<1>3. HeldAtGate(d) <=> h = 0 /\ (o = "SUPPRESS_INCENTIVE" \/ (o = "REQUIRE_REVIEW" /\ d.result = "ALLOW"))
  BY DEF HeldAtGate
<1>4. Eligibility(d) # {} <=> found /\ o # "SUPPRESS_INCENTIVE" /\ ~Unpayable(d.cand)
  BY EligibleWhen
<1>5. CASE d.result \in {"SHADOW_ONLY", "BLOCK"}
  <2>1. ~authorized
    BY <1>5 DEF NonPayoutOutcome
  <2>2. ~found
    BY <1>1, <1>5, GateReads
  <2> QED
    BY <1>4, <2>1, <2>2
<1>6. CASE shown = "SUPPRESS_INCENTIVE"
  <2>1. ~authorized
    BY <1>1, <1>6 DEF NonPayoutOutcome
  <2>2. o = "SUPPRESS_INCENTIVE"
    BY <1>2, <1>6
  <2> QED
    BY <1>4, <2>1, <2>2
<1>7. CASE d.result = "REQUIRE_APPROVAL" /\ shown # "SUPPRESS_INCENTIVE"
  <2>1. NonPayoutOutcome(d) = ApprovalOutcome(d, 0)
    BY <1>7 DEF NonPayoutOutcome
  <2>2. authorized <=> found
    <3>1. Approvals(d, s, o) = InFavour(d, 0)
      BY <1>1, <1>7, GateReads
    <3> QED
      BY <1>1, <2>1, <3>1, OutcomeOfApproval
  <2>3. o = "SUPPRESS_INCENTIVE" => HeldAtGate(d)
    BY <1>2, <1>3, <1>7
  <2> QED
    BY <1>4, <2>2, <2>3
<1>8. CASE d.result = "ALLOW" /\ shown = "REQUIRE_REVIEW"
  <2>1. NonPayoutOutcome(d) = ApprovalOutcome(d, h)
    BY <1>8 DEF NonPayoutOutcome
  <2>2. shown = o /\ s = h
    BY <1>2, <1>8
  <2>3. authorized <=> found
    <3>1. Approvals(d, s, o) = InFavour(d, h)
      BY <1>1, <1>8, <2>2, GateReads
    <3> QED
      BY <1>1, <2>1, <3>1, OutcomeOfApproval
  <2> QED
    BY <1>4, <1>8, <2>2, <2>3
<1>9. CASE d.result = "ALLOW" /\ shown # "REQUIRE_REVIEW" /\ shown # "SUPPRESS_INCENTIVE"
  <2>1. authorized
    BY <1>9 DEF NonPayoutOutcome
  <2>2. o # "REQUIRE_REVIEW" => found
    BY <1>1, <1>9, GateReads
  <2>3. o \in {"REQUIRE_REVIEW", "SUPPRESS_INCENTIVE"} => HeldAtGate(d)
    BY <1>2, <1>3, <1>9
  <2> QED
    BY <1>4, <2>1, <2>2, <2>3
<1> QED
  BY <1>1, <1>5, <1>6, <1>7, <1>8, <1>9

\* The employee's page and the gate never part, for any rules, policies,
\* assessments and deciders, but in what the page does not look at: a payment
\* there can be none of, and an assessment the gate is the first to make.
THEOREM AlwaysMirrorsGate == Spec => []ProjectionMirrorsGate
BY AlwaysLegible, LegibleMirrors, PTL

\* The commit finds what the page shows: the assessment in force, and the
\* approval given for it or for the policy.
LEMMA IssueAnnounced ==
  ASSUME Sound, Legible, NEW w \in Worker, IssueEffect(w)
  PROVE  NonPayoutOutcome(txn[w].decision) = "AUTHORIZED_PENDING"
<1> DEFINE t == txn[w]
           d == txn[w].decision
           q == txn[w].approval
           i == txn[w].cand
           shown == CurrentSafety(txn[w].cand)
           o == evals'[i][t.safety].outcome
<1>1. /\ d \in decisions /\ d.cand = i /\ Approved(d, q) /\ VerdictsFit
  BY Issued DEF IssueFits, Legible
<1>2. Guarded(d, t.safety, o, q) /\ head'[i] = t.safety
      /\ (head[i] # 0 => UNCHANGED <<evals, head>>)
  BY DEF IssueEffect, assessed
<1>3. /\ head[i] = 0 => shown = "CLEAR"
      /\ head[i] # 0 => shown = o /\ head[i] = t.safety
  BY <1>2 DEF CurrentSafety, Current
<1> HIDE DEF o, shown
<1>4. shown # "SUPPRESS_INCENTIVE" /\ d.result \in {"ALLOW", "REQUIRE_APPROVAL"}
  BY <1>2, <1>3 DEF Guarded
<1>5. CurrentSafety(d.cand) = shown
  BY <1>1 DEF shown
<1>6. CASE d.result = "REQUIRE_APPROVAL"
  <2>1. q \in InFavour(d, 0)
    BY <1>1, <1>2, <1>6 DEF Guarded, Approved, InFavour
  <2>2. NonPayoutOutcome(d) = ApprovalOutcome(d, 0)
    BY <1>4, <1>5, <1>6 DEF NonPayoutOutcome
  <2> HIDE DEF d, q
  <2>3. ApprovalOutcome(d, 0) = "AUTHORIZED_PENDING"
    BY <1>1, <2>1, OutcomeOfApproval
  <2> QED
    BY <2>2, <2>3 DEF d
<1>7. CASE d.result = "ALLOW" /\ shown = "REQUIRE_REVIEW"
  <2>1. shown = o /\ head[d.cand] = t.safety
    BY <1>1, <1>3, <1>7
  <2>2. q \in InFavour(d, t.safety)
    BY <1>1, <1>2, <1>7, <2>1 DEF Guarded, Approved, InFavour
  <2>3. NonPayoutOutcome(d) = ApprovalOutcome(d, head[d.cand])
    BY <1>5, <1>7 DEF NonPayoutOutcome
  <2>4. q \in InFavour(d, head[d.cand])
    BY <2>1, <2>2
  <2> HIDE DEF d, q
  <2>5. ApprovalOutcome(d, head[d.cand]) = "AUTHORIZED_PENDING"
    BY <1>1, <2>4, OutcomeOfApproval
  <2> QED
    BY <2>3, <2>5 DEF d
<1>8. CASE d.result = "ALLOW" /\ shown # "REQUIRE_REVIEW"
  BY <1>4, <1>5, <1>8 DEF NonPayoutOutcome
<1> QED
  BY <1>4, <1>6, <1>7, <1>8

LEMMA NextAnnounced ==
  ASSUME Sound, Legible, [Next]_vars
  PROVE  \A f \in effects' \ effects : NonPayoutOutcome(f.decision) = "AUTHORIZED_PENDING"
<1>1. CASE UNCHANGED effects
  BY <1>1
<1>2. ASSUME NEW w \in Worker, IssueEffect(w)
      PROVE  \A f \in effects' \ effects : NonPayoutOutcome(f.decision) = "AUTHORIZED_PENDING"
  <2>1. \A f \in effects' \ effects : f.decision = txn[w].decision
    BY <1>2 DEF IssueEffect
  <2> QED
    BY <1>2, <2>1, IssueAnnounced
<1> QED
  BY <1>1, <1>2, Additions

\* Whoever is paid was shown "authorized" to the last moment, whatever moved
\* while the admin's button was being handled.
THEOREM AlwaysAnnounced == Spec => PaidAsAnnounced
<1>1. Sound /\ Legible /\ [Next]_vars => [\A f \in effects' \ effects : NonPayoutOutcome(f.decision) = "AUTHORIZED_PENDING"]_vars
  BY NextAnnounced
<1> QED
  BY <1>1, AlwaysLegible, PTL DEF Spec, PaidAsAnnounced

-----------------------------------------------------------------------------
(* What is shown as paid adds up to what the ledger holds *)

Amounts == [f \in effects |-> f.amount]
Standing(u) == {x.effect : x \in {y \in PayoutStream(u) : y.status = "ISSUED"}}
Credited(u) == {i \in Known : Concerns(i) = u /\ coins[i] # 0}
NameOf(S) == [f \in S |-> f.cand]

LEMMA StandingAre ==
  ASSUME NEW u
  PROVE  Standing(u) = {f \in effects : f.to = u /\ f.cand \notin DOMAIN reversals}
<1>1. ASSUME NEW f \in effects, f.to = u, f.cand \notin DOMAIN reversals PROVE f \in Standing(u)
  <2> DEFINE y == [effect |-> f, status |-> EffectStatus(f)]
  <2>1. y \in PayoutStream(u) /\ y.status = "ISSUED" /\ y.effect = f
    BY <1>1 DEF PayoutStream, EffectStatus
  <2> HIDE DEF y
  <2> QED
    BY <2>1 DEF Standing
<1>2. ASSUME NEW f \in Standing(u) PROVE f \in effects /\ f.to = u /\ f.cand \notin DOMAIN reversals
  <2>1. PICK y \in PayoutStream(u) : y.status = "ISSUED" /\ y.effect = f
    BY <1>2 DEF Standing
  <2>2. PICK g \in effects : g.to = u /\ y = [effect |-> g, status |-> EffectStatus(g)]
    BY <2>1 DEF PayoutStream
  <2> QED
    BY <2>1, <2>2 DEF EffectStatus
<1> QED
  BY <1>1, <1>2

\* Each credited candidate has one standing effect, of what the ledger holds.
LEMMA StandingIsCredited ==
  ASSUME Sound, EffectsFit, NEW u
  PROVE  /\ NameOf(Standing(u)) \in Bijection(Standing(u), Credited(u))
         /\ \A f \in Standing(u) : f \in effects /\ f.amount = coins[f.cand]
         /\ \A i \in Credited(u) : coins[i] \in Nat
<1>1. \A f \in Standing(u) : f \in effects /\ f.to = u /\ f.cand \notin DOMAIN reversals
  BY StandingAre
<1>2. ASSUME NEW f \in Standing(u)
      PROVE  f.cand \in Credited(u) /\ f.amount = coins[f.cand] /\ coins[f.cand] \in Nat
  BY <1>1 DEF Sound, BooksFit, EffectsFit, Credited
<1>3. ASSUME NEW i \in Credited(u)
      PROVE  \E f \in Standing(u) : f.cand = i
  <2>1. i \in Known /\ Concerns(i) = u /\ coins[i] # 0
    BY DEF Credited
  <2>2. PICK f \in effects : f.cand = i
    BY <2>1 DEF Sound, BooksFit
  <2>3. f.cand \notin DOMAIN reversals
    BY <2>1, <2>2 DEF Sound, BooksFit
  <2>4. f.to = u
    BY <2>1, <2>2 DEF EffectsFit
  <2> QED
    BY <2>2, <2>3, <2>4, StandingAre
<1>4. \A f, g \in Standing(u) : f.cand = g.cand => f = g
  BY <1>1 DEF Sound, BooksFit
<1> DEFINE S == Standing(u)
           C == Credited(u)
<1> HIDE DEF S, C
<1>5. NameOf(S) \in [S -> C]
  BY <1>2 DEF NameOf, S, C
<1>6. NameOf(S) \in Injection(S, C)
  BY <1>4, <1>5 DEF Injection, IsInjective, NameOf, S
<1>7. NameOf(S) \in Surjection(S, C)
  BY <1>3, <1>5 DEF Surjection, NameOf, S, C
<1>8. NameOf(S) \in Bijection(S, C)
  BY <1>6, <1>7 DEF Bijection
<1>9. \A i \in C : coins[i] \in Nat
  BY <1>2, <1>3 DEF S, C
<1> QED
  BY <1>1, <1>2, <1>8, <1>9 DEF S, C

\* The sum over effects, in terms of the sums whose laws are known.
LEMMA AmountsAreSummed ==
  ASSUME NEW S, S \subseteq effects
  PROVE  MapThenSumSet(LAMBDA f : f.amount, S) = SumOver(Amounts, S)
<1> DEFINE ByField(sum) ==
             [s \in SUBSET S |-> IF s = {} THEN 0 ELSE Pick(s).amount + sum[s \ {Pick(s)}]]
           ByAmount(sum) ==
             [s \in SUBSET S |-> IF s = {} THEN 0 ELSE Amounts[Pick(s)] + sum[s \ {Pick(s)}]]
<1>1. ASSUME NEW sum
      PROVE  ByField(sum) = ByAmount(sum)
  <2>1. \A s \in SUBSET S : s # {} => Amounts[Pick(s)] = Pick(s).amount
    BY PickIsElement DEF Amounts
  <2> QED
    BY <2>1
<1>2. MapThenSumSet(LAMBDA f : f.amount, S) = (CHOOSE sum : sum = ByField(sum))[S]
  BY Zenon DEF MapThenSumSet, MapThenFoldSet, Pick
<1>3. SumOver(Amounts, S) = (CHOOSE sum : sum = ByAmount(sum))[S]
  BY Zenon DEF SumOver, Sums
<1> HIDE DEF ByField, ByAmount
<1> QED
  BY <1>1, <1>2, <1>3, Zenon

LEMMA ShownAddsUp ==
  ASSUME Sound, EffectsFit, NEW u
  PROVE  MapThenSumSet(LAMBDA f : f.amount, Standing(u)) = MapThenSumSet(LAMBDA i : coins[i], Credited(u))
<1>1. PICK S, C, h : S = Standing(u) /\ C = Credited(u) /\ h = NameOf(Standing(u))
  OBVIOUS
<1>2. S \subseteq effects /\ h \in Bijection(S, C) /\ \A i \in C : coins[i] \in Int
  BY <1>1, StandingIsCredited
<1>3. IsFiniteSet(S)
  BY <1>2, FS_Subset DEF EffectsFit
<1>4. \A f \in S : Amounts[f] = coins[h[f]]
  BY <1>1, <1>2, StandingIsCredited DEF Amounts, NameOf
<1>5. SumOver(Amounts, S) = SumOver(coins, C)
  BY <1>2, <1>3, <1>4, SumRenames
<1>6. MapThenSumSet(LAMBDA f : f.amount, S) = SumOver(Amounts, S)
  BY <1>2, AmountsAreSummed
<1>7. MapThenSumSet(LAMBDA i : coins[i], C) = SumOver(coins, C)
  BY MapIsSum
<1> QED
  BY <1>1, <1>5, <1>6, <1>7

\* Of what was not paid nothing is called issued.
LEMMA OutcomesAreNotIssued ==
  ASSUME NEW u, NEW x \in MyOutcomes(u)
  PROVE  x.status # "ISSUED"
<1>1. \A d, s : ApprovalOutcome(d, s) # "ISSUED"
  BY DEF ApprovalOutcome
<1>2. \A d : NonPayoutOutcome(d) # "ISSUED"
  BY <1>1 DEF NonPayoutOutcome
<1>3. \E i, d : x = Item(i, NonPayoutOutcome(d))
  BY DEF MyOutcomes
<1> QED
  BY <1>2, <1>3 DEF Item

LEMMA IssuedOnThePage ==
  ASSUME NEW u
  PROVE  {x.cand : x \in {y \in MyIncentives(u) : y.status = "ISSUED"}} = {f.cand : f \in Standing(u)}
<1>1. ASSUME NEW x \in MyIncentives(u), x.status = "ISSUED"
      PROVE  \E f \in Standing(u) : x.cand = f.cand
  <2>1. x \notin MyOutcomes(u)
    BY <1>1, OutcomesAreNotIssued
  <2>2. PICK y \in PayoutStream(u) : x = Item(y.effect.cand, y.status)
    BY <2>1 DEF MyIncentives
  <2>3. x.cand = y.effect.cand /\ y.status = "ISSUED"
    BY <1>1, <2>2 DEF Item
  <2> QED
    BY <2>2, <2>3 DEF Standing
<1>2. ASSUME NEW f \in Standing(u)
      PROVE  \E x \in MyIncentives(u) : x.status = "ISSUED" /\ x.cand = f.cand
  <2>1. PICK y \in PayoutStream(u) : y.status = "ISSUED" /\ y.effect = f
    BY <1>2 DEF Standing
  <2>2. Item(f.cand, "ISSUED") \in MyIncentives(u)
    BY <2>1 DEF MyIncentives
  <2> QED
    BY <2>2 DEF Item
<1> QED
  BY <1>1, <1>2

LEMMA LegibleExplains == ASSUME Sound, Legible PROVE PayoutsExplainLedger
<1> SUFFICES ASSUME NEW u \in User
             PROVE  /\ MapThenSumSet(LAMBDA f : f.amount, Standing(u)) = MapThenSumSet(LAMBDA i : coins[i], Credited(u))
                    /\ Credited(u) = {x.cand : x \in {y \in MyIncentives(u) : y.status = "ISSUED"}}
  BY DEF PayoutsExplainLedger, Standing, Credited
<1>1. MapThenSumSet(LAMBDA f : f.amount, Standing(u)) = MapThenSumSet(LAMBDA i : coins[i], Credited(u))
  BY ShownAddsUp DEF Legible
<1>2. Credited(u) = {f.cand : f \in Standing(u)}
  <2>1. PICK S, C, h : S = Standing(u) /\ C = Credited(u) /\ h = NameOf(Standing(u))
    OBVIOUS
  <2>2. h \in Bijection(S, C) /\ \A f \in S : h[f] = f.cand
    BY <2>1, StandingIsCredited DEF Legible, NameOf
  <2>3. C = {f.cand : f \in S}
    BY <2>2 DEF Bijection, Surjection
  <2> QED
    BY <2>1, <2>3
<1> QED
  BY <1>1, <1>2, IssuedOnThePage

\* However many effects, reversals and undecided candidates a person has: what
\* the wallet page shows as paid is what the ledger holds for them, to the coin.
THEOREM AlwaysExplained == Spec => []PayoutsExplainLedger
BY AlwaysLegible, LegibleExplains, PTL

-----------------------------------------------------------------------------
(* Who is told *)

\* Who is told and who may decide are written in five places, and agree.
LEMMA ToldMayDecide ==
  ASSUME RequestsFit, NEW q \in requests \ DOMAIN verdicts
  PROVE  Told(q) = {v \in User : q \in PendingScoped(v)} \ {Concerns(q.decision.cand)}
<1>1. q.authority \in {"ADMIN", "MANAGER_OR_ADMIN"}
  BY DEF RequestsFit
<1>2. \A v : q \in PendingScoped(v) <=> MayDecide(v, q)
  BY DEF PendingScoped
<1>3. ASSUME NEW v \in User, v # Concerns(q.decision.cand)
      PROVE  v \in Told(q) <=> MayDecide(v, q)
  BY <1>1, <1>3 DEF Told, MayDecide, Admin
<1> QED
  BY <1>2, <1>3 DEF Told

\* A query that names no order returns something, or nothing at all.
LEMMA SomethingIsTaken ==
  ASSUME NEW S
  PROVE  \E x : x \in OneOf(S)
<1>1. CASE S = {}
  BY <1>1 DEF OneOf
<1>2. CASE S # {}
  BY <1>2 DEF OneOf
<1> QED
  BY <1>1, <1>2

\* Whatever is on record of a candidate, its requests are.
LEMMA SomethingIsLoaded ==
  ASSUME NEW i
  PROVE  \E c \in Loaded(i) : c.asked = {q \in requests : q.decision.cand = i}
<1>1. PICK d : d \in OneOf(DecisionRows(i))
  BY SomethingIsTaken, Zenon
<1>2. PICK a : a \in OneOf(Range(evals[i]))
  BY SomethingIsTaken, Zenon
<1> DEFINE Row(x, y) == [cand |-> i, decision |-> x, assessed |-> y,
                         asked |-> {q \in requests : q.decision.cand = i}, paid |-> {f \in effects : f.cand = i}]
<1>3. Loaded(i) = {Row(x, y) : x \in OneOf(DecisionRows(i)), y \in OneOf(Range(evals[i]))}
  BY DEF Loaded
<1>4. Row(d, a).asked = {q \in requests : q.decision.cand = i}
  OBVIOUS
<1> HIDE DEF Row
<1>5. Row(d, a) \in Loaded(i)
  BY <1>1, <1>2, <1>3
<1> QED
  BY <1>4, <1>5

LEMMA ToldFinds ==
  ASSUME RequestsFit, NEW q \in requests \ DOMAIN verdicts, NEW v \in Told(q)
  PROVE  /\ q \in Listed(v, "PENDING")
         /\ Deciding(q) \in Personal(v)
         /\ q.safety # 0 => Flow(v).incentives.held > 0
         /\ \E c \in ApprovalContext(v, q) : q \in c.asked
<1>1. q \in PendingScoped(v) /\ MayDecide(v, q)
  BY ToldMayDecide DEF PendingScoped
<1>2. q \in Listed(v, "PENDING")
  BY <1>1 DEF Listed
<1>3. Deciding(q) \in Personal(v)
  BY <1>1 DEF Personal, PendingDecisions
<1>4. ASSUME q.safety # 0 PROVE Flow(v).incentives.held > 0
  <2> DEFINE H == {p \in PendingScoped(v) : p.safety # 0}
  <2>1. q \in H /\ IsFiniteSet(H)
    BY <1>1, <1>4, FS_Subset DEF PendingScoped, RequestsFit
  <2>2. Flow(v).incentives.held = Cardinality(H)
    BY DEF Flow, FlowIncentives
  <2> HIDE DEF H
  <2>3. Cardinality(H) \in Nat /\ Cardinality(H) # 0
    BY <2>1, FS_CardinalityType, FS_EmptySet
  <2> QED
    BY <2>2, <2>3
<1>5. \E c \in ApprovalContext(v, q) : q \in c.asked
  <2>1. \E c \in Loaded(q.decision.cand) : c.asked = {p \in requests : p.decision.cand = q.decision.cand}
    BY SomethingIsLoaded
  <2>2. ApprovalContext(v, q) = Loaded(q.decision.cand)
    BY <1>1 DEF ApprovalContext
  <2> QED
    BY <2>1, <2>2
<1> QED
  BY <1>2, <1>3, <1>4, <1>5

\* Whoever is told of an undecided request is who may decide it without being
\* the one it concerns, and comes across it wherever they look.
ToldDecide ==
    \A q \in requests \ DOMAIN verdicts :
        /\ Told(q) = {v \in User : q \in PendingScoped(v)} \ {Concerns(q.decision.cand)}
        /\ \A v \in Told(q) :
              /\ q \in Listed(v, "PENDING")
              /\ Deciding(q) \in Personal(v)
              /\ q.safety # 0 => Flow(v).incentives.held > 0
              /\ \E c \in ApprovalContext(v, q) : q \in c.asked

LEMMA LegibleTold == ASSUME RequestsFit PROVE ToldDecide
BY ToldMayDecide, ToldFinds DEF ToldDecide

\* Notices, lists, attention, the flow's count and the right to decide agree on
\* every request, whatever admins and managers a company has.
THEOREM WhoIsToldDecides == Spec => []ToldDecide
<1>1. Sound /\ Legible => ToldDecide
  BY LegibleTold DEF Legible
<1> QED
  BY <1>1, AlwaysLegible, PTL
=============================================================================
