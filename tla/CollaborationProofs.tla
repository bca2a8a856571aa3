------------------------- MODULE CollaborationProofs -------------------------
(* What is proved of help and appreciation, for any people, units, seats,   *)
(* requests and number of routing passes at work.                           *)
EXTENDS Attention, SequenceTheorems, TLAPS

-----------------------------------------------------------------------------
(* The inductive invariant *)

Row == [requester : User, scope : Scope, status : {"OPEN", "ACCEPTED", "FINISHED", "CONFIRMED"},
        helper : User \cup {Nobody}, routing : {"ROUTED", "UNRESOLVED", "ESCALATED"}, stale : BOOLEAN,
        escalations : 0..1, routings : SUBSET [kind : {"INITIAL", "ESCALATION"}, to : SUBSET User]]

\* Nobody helps themselves, and only an escalated request was escalated.
RowFits(row) ==
    /\ row.status # "OPEN" => row.helper \in User \ {row.requester}
    /\ row.routing # "ESCALATED" => row.escalations = 0

HelpFits ==
    /\ active \subseteq User
    /\ help \in Seq(Row)
    /\ \A h \in DOMAIN help : RowFits(help[h])

\* Whom a routing may name.
Told(row, u) ==
    /\ u # row.requester
    /\ Role(u) = "ADMIN" \/ (row.scope # Company /\ seat[row.scope][u] # "NONE")

\* What a pass may make of an open request.
Onward(new, row) ==
    /\ new \in Row /\ RowFits(new)
    /\ row.status = "OPEN" /\ new.status = "OPEN"
    /\ new.requester = row.requester /\ new.scope = row.scope /\ new.helper = row.helper
    /\ row.routings \subseteq new.routings
    /\ \A r \in new.routings \ row.routings : \A u \in r.to : Told(new, u)

\* A pass writes only what it holds, and what it will write is still right.
PassFits(t) ==
    /\ t.pc \in {"idle", "ROUTED", "UNRESOLVED"} /\ (t.pc = "idle" => t = Rest)
    /\ DOMAIN t = {"pc", "list", "held", "new"}
    /\ t.list \subseteq DOMAIN help /\ t.held \subseteq DOMAIN help
    /\ \A x \in t.new : x.id \in t.held /\ Onward(x.row, help[x.id])

PassesFit ==
    /\ DOMAIN pass = Pass
    /\ \A p \in Pass : PassFits(pass[p])
    /\ \A p, q \in Pass : p # q => pass[p].held \cap pass[q].held = {}

Inv == HelpFits /\ PassesFit

-----------------------------------------------------------------------------
LEMMA InitInv == ASSUME LimitsAssumption, Init PROVE Inv
<1>1. HelpFits
  BY DEF Init, HelpFits
<1>2. PassesFit
  BY DEF Init, PassesFit, PassFits, Rest
<1> QED
  BY <1>1, <1>2 DEF Inv

\* A row of which only the flag of its window may differ.
Alike(new, row) ==
    /\ new.status = row.status /\ new.requester = row.requester /\ new.scope = row.scope
    /\ new.helper = row.helper /\ new.routings = row.routings

\* What passes hold stays as it was, and so do the seats they looked at: what
\* they are about to write stays right.
LEMMA PassesStay ==
  ASSUME Inv, UNCHANGED pass, DOMAIN help \subseteq DOMAIN help',
         \A h \in DOMAIN help : ~Free(h) => Alike(help'[h], help[h]),
         UNCHANGED seat \/ NoPass
  PROVE  PassesFit'
<1>1. ASSUME NEW p \in Pass PROVE PassFits(pass[p])'
  <2> DEFINE t == pass[p]
  <2>1. PassFits(t) /\ pass'[p] = t
    BY DEF Inv, PassesFit
  <2>2. ASSUME NEW x \in t.new PROVE x.id \in t.held /\ Onward(x.row, help[x.id])'
    <3>1. x.id \in t.held /\ x.id \in DOMAIN help /\ Onward(x.row, help[x.id])
      BY <2>1 DEF PassFits
    <3>2. ~Free(x.id)
      BY <3>1 DEF Free
    <3>3. Alike(help'[x.id], help[x.id])
      BY <3>1, <3>2
    <3>4. UNCHANGED seat
      BY <2>1 DEF NoPass, PassFits, Rest
    <3> QED
      BY <3>1, <3>3, <3>4 DEF Onward, Alike, Told
  <2> QED
    BY <2>1, <2>2 DEF PassFits
<1> QED
  BY <1>1 DEF Inv, PassesFit

-----------------------------------------------------------------------------
(* The admin and appreciation *)

LEMMA OrganizeSound == ASSUME LimitsAssumption, Inv, Organize PROVE Inv' /\ UNCHANGED <<help, events>>
<1>1. UNCHANGED <<help, events, pass>> /\ (UNCHANGED seat \/ NoPass)
  BY DEF Organize, Close, Membership, SetActive, Switch
<1>2. active' \subseteq User
  BY DEF Organize, Close, Membership, SetActive, Switch, Inv, HelpFits, LimitsAssumption
<1>3. HelpFits'
  BY <1>1, <1>2 DEF Inv, HelpFits
<1>4. PassesFit'
  BY <1>1, PassesStay DEF Alike
<1> QED
  BY <1>1, <1>3, <1>4 DEF Inv

LEMMA AppreciateSound ==
  ASSUME LimitsAssumption, Inv, NEW kind, NEW u, NEW to, NEW s, Appreciate(kind, u, to, s)
  PROVE  Inv' /\ UNCHANGED help
<1>1. UNCHANGED <<help, pass, seat, active>>
  BY DEF Appreciate, company
<1>2. HelpFits'
  BY <1>1 DEF Inv, HelpFits
<1>3. PassesFit'
  BY <1>1, PassesStay DEF Alike
<1> QED
  BY <1>1, <1>2, <1>3 DEF Inv

-----------------------------------------------------------------------------
(* Routing *)

LEMMA AudienceTold ==
  ASSUME Inv, NEW row \in Row, NEW managing \in BOOLEAN, NEW x \in Audience(row.scope, row.requester, managing)
  PROVE  x \in User /\ Told(row, x)
<1>1. CASE row.scope = Company
  BY <1>1 DEF Audience, Told, Admins, Inv, HelpFits
<1>2. CASE row.scope # Company
  BY <1>2 DEF Audience, Told, Leads, IsMember, Inv, HelpFits
<1> QED
  BY <1>1, <1>2

LEMMA RoutedOnward ==
  ASSUME Inv, NEW row \in Row, row.status = "OPEN", row.escalations = 0
  PROVE  Onward(Routed(row), row)
<1> DEFINE to == Audience(row.scope, row.requester, FALSE)
           new == Routed(row)
<1>1. to \in SUBSET User /\ \A u \in to : Told(row, u)
  BY AudienceTold
<1> HIDE DEF to
<1>2. new = [row EXCEPT !.routing = IF to # {} THEN "ROUTED" ELSE "UNRESOLVED", !.stale = FALSE,
                        !.routings = row.routings \cup {Snapshot("INITIAL", to)}]
  BY DEF Routed, to
<1>3. Snapshot("INITIAL", to) \in [kind : {"INITIAL", "ESCALATION"}, to : SUBSET User]
  BY <1>1 DEF Snapshot
<1> HIDE DEF new
<1>4. new \in Row /\ new.routing # "ESCALATED"
  BY <1>2, <1>3 DEF Row
<1>5. /\ new.status = "OPEN" /\ new.requester = row.requester /\ new.scope = row.scope
      /\ new.helper = row.helper /\ new.escalations = 0
      /\ new.routings = row.routings \cup {Snapshot("INITIAL", to)}
  BY <1>2 DEF Row
<1>6. Snapshot("INITIAL", to).to = to
  BY DEF Snapshot
<1> QED
  BY <1>1, <1>4, <1>5, <1>6 DEF Onward, RowFits, Told, new

LEMMA EscalatedOnward ==
  ASSUME Inv, NEW row \in Row, row.status = "OPEN", row.escalations = 0
  PROVE  Onward(Escalated(row), row)
<1> DEFINE managers == Audience(row.scope, row.requester, TRUE)
           to == IF managers # {} THEN managers ELSE Admins \ {row.requester}
           new == Escalated(row)
<1>1. to \in SUBSET User /\ \A u \in to : Told(row, u)
  <2>1. \A u \in managers : u \in User /\ Told(row, u)
    BY AudienceTold
  <2>2. \A u \in Admins \ {row.requester} : u \in User /\ Told(row, u)
    BY DEF Admins, Told, Inv, HelpFits
  <2> QED
    BY <2>1, <2>2
<1> HIDE DEF to
<1>2. new = [row EXCEPT !.routing = "ESCALATED", !.escalations = 1,
                        !.routings = row.routings \cup {Snapshot("ESCALATION", to)}]
  BY DEF Escalated, to
<1>3. Snapshot("ESCALATION", to) \in [kind : {"INITIAL", "ESCALATION"}, to : SUBSET User]
  BY <1>1 DEF Snapshot
<1> HIDE DEF new
<1>4. new \in Row /\ new.routing = "ESCALATED"
  <2>1. 1 \in 0..1
    OBVIOUS
  <2>2. [row EXCEPT !.escalations = 1] \in Row
    BY <2>1 DEF Row
  <2>3. new = [[row EXCEPT !.escalations = 1] EXCEPT !.routing = "ESCALATED",
                                                     !.routings = row.routings \cup {Snapshot("ESCALATION", to)}]
    BY <1>2 DEF Row
  <2> QED
    BY <1>3, <2>2, <2>3 DEF Row
<1>5. /\ new.status = "OPEN" /\ new.requester = row.requester /\ new.scope = row.scope
      /\ new.helper = row.helper
      /\ new.routings = row.routings \cup {Snapshot("ESCALATION", to)}
  BY <1>2 DEF Row
<1>6. Snapshot("ESCALATION", to).to = to
  BY DEF Snapshot
<1> QED
  BY <1>1, <1>4, <1>5, <1>6 DEF Onward, RowFits, Told, new

-----------------------------------------------------------------------------
(* What people do with a request *)

\* One row changes, within what it may be, and no pass holds it or only the
\* flag changes.
LEMMA RowMoves ==
  ASSUME Inv, NEW h \in DOMAIN help, NEW row \in Row, RowFits(row), help' = [help EXCEPT ![h] = row],
         UNCHANGED <<active, seat, pass>>, Free(h) \/ Alike(row, help[h])
  PROVE  Inv' /\ DOMAIN help' = DOMAIN help /\ help'[h] = row /\ \A g \in DOMAIN help \ {h} : help'[g] = help[g]
<1>1. help \in Seq(Row)
  BY DEF Inv, HelpFits
<1>2. DOMAIN help' = DOMAIN help /\ help'[h] = row /\ \A g \in DOMAIN help \ {h} : help'[g] = help[g]
  BY <1>1
<1>3. HelpFits'
  <2>1. help' \in Seq(Row)
    BY <1>1
  <2> QED
    BY <1>2, <2>1 DEF Inv, HelpFits
<1>4. PassesFit'
  <2>1. \A g \in DOMAIN help : ~Free(g) => Alike(help'[g], help[g])
    BY <1>2 DEF Alike
  <2> QED
    BY <1>2, <2>1, PassesStay
<1> QED
  BY <1>2, <1>3, <1>4 DEF Inv

LEMMA CreateSound ==
  ASSUME LimitsAssumption, Inv, NEW u \in Requesters, NEW s \in Scope, Create(u, s)
  PROVE  /\ Inv' /\ DOMAIN help' = DOMAIN help \cup {Len(help) + 1}
         /\ \A h \in DOMAIN help : help'[h] = help[h]
         /\ Len(help) + 1 \notin DOMAIN help
         /\ Onward(help'[Len(help) + 1], NewRequest(u, s))
<1> DEFINE row == Routed(NewRequest(u, s))
<1>1. help \in Seq(Row) /\ help' = Append(help, row) /\ UNCHANGED <<active, seat, pass>>
  BY DEF Create, company, Inv, HelpFits
<1>2. NewRequest(u, s) \in Row /\ NewRequest(u, s).status = "OPEN" /\ NewRequest(u, s).escalations = 0
  BY DEF NewRequest, Row, LimitsAssumption
<1>3. Onward(row, NewRequest(u, s))
  BY <1>2, RoutedOnward
<1> HIDE DEF row
<1>4. row \in Row /\ RowFits(row)
  BY <1>3 DEF Onward
<1>5. /\ help' \in Seq(Row) /\ DOMAIN help' = DOMAIN help \cup {Len(help) + 1}
      /\ \A h \in DOMAIN help : help'[h] = help[h]
      /\ help'[Len(help) + 1] = row /\ Len(help) + 1 \notin DOMAIN help
  BY <1>1, <1>4
<1>6. HelpFits'
  BY <1>1, <1>4, <1>5 DEF Inv, HelpFits
<1>7. PassesFit'
  BY <1>1, <1>5, PassesStay DEF Alike
<1> QED
  BY <1>3, <1>5, <1>6, <1>7 DEF Inv

\* A step that leaves one request with the people and routings it had.
Kept(h) ==
    /\ DOMAIN help' = DOMAIN help
    /\ help'[h].routings = help[h].routings
    /\ \A g \in DOMAIN help \ {h} : help'[g] = help[g]

LEMMA AcceptSound ==
  ASSUME LimitsAssumption, Inv, NEW h \in DOMAIN help, NEW u \in User, Accept(h, u)
  PROVE  Inv' /\ Kept(h)
<1> DEFINE row == [help[h] EXCEPT !.status = "ACCEPTED", !.helper = u]
<1>1. help[h] \in Row /\ RowFits(help[h])
  BY DEF Inv, HelpFits
<1>2. u # help[h].requester /\ Free(h) /\ help' = [help EXCEPT ![h] = row] /\ UNCHANGED <<active, seat, pass>>
  BY DEF Accept, Transition, company
<1>3. row \in Row /\ row.routings = help[h].routings
  BY <1>1 DEF Row
<1>4. RowFits(row)
  BY <1>1, <1>2 DEF Row, RowFits
<1> HIDE DEF row
<1> QED
  BY <1>2, <1>3, <1>4, RowMoves DEF Kept

LEMMA FinishSound ==
  ASSUME LimitsAssumption, Inv, NEW h \in DOMAIN help, NEW u \in User, Finish(h, u)
  PROVE  Inv' /\ Kept(h)
<1> DEFINE row == [help[h] EXCEPT !.status = "FINISHED"]
<1>1. help[h] \in Row /\ RowFits(help[h])
  BY DEF Inv, HelpFits
<1>2. help[h].status = "ACCEPTED" /\ Free(h) /\ help' = [help EXCEPT ![h] = row] /\ UNCHANGED <<active, seat, pass>>
  BY DEF Finish, Transition, company
<1>3. row \in Row /\ row.routings = help[h].routings
  BY <1>1 DEF Row
<1>4. RowFits(row)
  BY <1>1, <1>2 DEF Row, RowFits
<1> HIDE DEF row
<1> QED
  BY <1>2, <1>3, <1>4, RowMoves DEF Kept

LEMMA ConfirmSound ==
  ASSUME LimitsAssumption, Inv, NEW h \in DOMAIN help, NEW u \in User, Confirm(h, u)
  PROVE  Inv' /\ Kept(h)
<1> DEFINE row == [help[h] EXCEPT !.status = "CONFIRMED"]
<1>1. help[h] \in Row /\ RowFits(help[h])
  BY DEF Inv, HelpFits
<1>2. help[h].status = "FINISHED" /\ Free(h) /\ help' = [help EXCEPT ![h] = row] /\ UNCHANGED <<active, seat, pass>>
  BY DEF Confirm, Transition, company
<1>3. row \in Row /\ row.routings = help[h].routings
  BY <1>1 DEF Row
<1>4. RowFits(row)
  BY <1>1, <1>2 DEF Row, RowFits
<1> HIDE DEF row
<1> QED
  BY <1>2, <1>3, <1>4, RowMoves DEF Kept

LEMMA ExpireSound ==
  ASSUME LimitsAssumption, Inv, NEW h \in DOMAIN help, Expire(h)
  PROVE  Inv' /\ Kept(h)
<1> DEFINE row == [help[h] EXCEPT !.stale = TRUE]
<1>1. help[h] \in Row /\ RowFits(help[h])
  BY DEF Inv, HelpFits
<1>2. help' = [help EXCEPT ![h] = row] /\ UNCHANGED <<active, seat, pass>>
  BY DEF Expire, company
<1>3. row \in Row /\ Alike(row, help[h])
  BY <1>1 DEF Row, Alike
<1>4. RowFits(row)
  BY <1>1 DEF Row, RowFits
<1> HIDE DEF row
<1>5. Inv' /\ DOMAIN help' = DOMAIN help /\ help'[h] = row /\ \A g \in DOMAIN help \ {h} : help'[g] = help[g]
  BY <1>2, <1>3, <1>4, RowMoves
<1> QED
  BY <1>3, <1>5 DEF Kept, Alike

-----------------------------------------------------------------------------
(* What a pass does *)

\* One pass goes on; nothing else moves.
LEMMA PassMoves ==
  ASSUME Inv, NEW p \in Pass, NEW t, pass' = [pass EXCEPT ![p] = t], UNCHANGED <<active, seat, help>>,
         PassFits(t), \A q \in Pass \ {p} : t.held \cap pass[q].held = {}
  PROVE  Inv'
<1>1. HelpFits'
  BY DEF Inv, HelpFits
<1>2. DOMAIN pass' = Pass /\ pass'[p] = t /\ \A q \in Pass \ {p} : pass'[q] = pass[q]
  BY DEF Inv, PassesFit
<1>3. \A q \in Pass : PassFits(pass'[q])
  BY <1>2 DEF Inv, PassesFit
<1>4. \A q \in Pass : PassFits(pass[q])'
  BY <1>3 DEF PassFits, Onward, Told
<1>5. \A q, r \in Pass : q # r => pass'[q].held \cap pass'[r].held = {}
  BY <1>2 DEF Inv, PassesFit
<1>6. PassesFit'
  BY <1>2, <1>4, <1>5 DEF PassesFit
<1> QED
  BY <1>1, <1>6 DEF Inv

LEMMA CrashSound == ASSUME Inv, NEW p \in Pass, CrashPass(p) PROVE Inv' /\ UNCHANGED help
<1>1. PassFits(Rest)
  BY DEF PassFits, Rest
<1>2. \A q \in Pass \ {p} : Rest.held \cap pass[q].held = {}
  BY DEF Rest
<1>3. pass' = [pass EXCEPT ![p] = Rest] /\ UNCHANGED <<active, seat, help>>
  BY DEF CrashPass
<1> QED
  BY <1>1, <1>2, <1>3, PassMoves

LEMMA StartSound == ASSUME Inv, NEW p \in Pass, StartPass(p) PROVE Inv' /\ UNCHANGED help
<1> DEFINE t == [Rest EXCEPT !.pc = "ROUTED", !.list = Listed("ROUTED")]
<1>1. t.pc = "ROUTED" /\ t.list = Listed("ROUTED") /\ t.held = {} /\ t.new = {} /\ DOMAIN t = {"pc", "list", "held", "new"}
  BY DEF Rest
<1>2. pass' = [pass EXCEPT ![p] = t] /\ UNCHANGED <<active, seat, help>>
  BY DEF StartPass, company
<1> HIDE DEF t
<1>3. Listed("ROUTED") \subseteq DOMAIN help
  BY DEF Listed, Due
<1>4. PassFits(t)
  BY <1>1, <1>3 DEF PassFits
<1> QED
  BY <1>1, <1>2, <1>4, PassMoves

LEMMA NextClassSound == ASSUME Inv, NEW p \in Pass, NextClass(p) PROVE Inv' /\ UNCHANGED help
<1> DEFINE o == pass[p]
           t == [o EXCEPT !.pc = "UNRESOLVED", !.list = Listed("UNRESOLVED")]
<1>1. PassFits(o) /\ \A q \in Pass \ {p} : o.held \cap pass[q].held = {}
  BY DEF Inv, PassesFit
<1>2. /\ t.pc = "UNRESOLVED" /\ t.list = Listed("UNRESOLVED") /\ t.held = o.held /\ t.new = o.new
      /\ DOMAIN t = {"pc", "list", "held", "new"}
  BY <1>1 DEF PassFits
<1>3. pass' = [pass EXCEPT ![p] = t] /\ UNCHANGED <<active, seat, help>>
  BY DEF NextClass, company
<1> HIDE DEF t
<1>4. Listed("UNRESOLVED") \subseteq DOMAIN help
  BY DEF Listed, Due
<1>5. PassFits(t)
  BY <1>1, <1>2, <1>4 DEF PassFits
<1> QED
  BY <1>1, <1>2, <1>3, <1>5, PassMoves

\* Under the lock the row is looked at again, so what the pass makes of it fits.
LEMMA HandledOnward ==
  ASSUME Inv, NEW h \in DOMAIN help, NEW class \in {"ROUTED", "UNRESOLVED"}, NEW x \in Handled(h, class)
  PROVE  x.id = h /\ Onward(x.row, help[h])
<1>1. help[h] \in Row /\ RowFits(help[h]) /\ StillOpen(h, class)
  BY DEF Inv, HelpFits, Handled
<1>2. help[h].status = "OPEN" /\ help[h].escalations = 0
  BY <1>1 DEF StillOpen, RowFits
<1>3. x = [id |-> h, row |-> Escalated(help[h])] \/ x = [id |-> h, row |-> Routed(help[h])]
  BY DEF Handled
<1> QED
  BY <1>1, <1>2, <1>3, RoutedOnward, EscalatedOnward

LEMMA PassRowSound == ASSUME Inv, NEW p \in Pass, PassRow(p) PROVE Inv' /\ UNCHANGED help
<1> DEFINE o == pass[p]
<1>1. PICK h \in o.list :
        /\ \A q \in Pass \ {p} : h \notin pass[q].held
        /\ pass' = [pass EXCEPT ![p] = [pc |-> o.pc, list |-> o.list \ {h}, held |-> o.held \cup {h},
                                        new |-> o.new \cup Handled(h, o.pc)]]
        /\ UNCHANGED <<active, seat, help>>
  BY DEF PassRow, company
<1> DEFINE t == [pc |-> o.pc, list |-> o.list \ {h}, held |-> o.held \cup {h}, new |-> o.new \cup Handled(h, o.pc)]
<1>2. PassFits(o) /\ \A q \in Pass \ {p} : o.held \cap pass[q].held = {}
  BY DEF Inv, PassesFit
<1>3. o.pc \in {"ROUTED", "UNRESOLVED"} /\ h \in DOMAIN help
  BY <1>2 DEF PassFits, Rest
<1>4. \A x \in t.new : x.id \in t.held /\ Onward(x.row, help[x.id])
  BY <1>2, <1>3, HandledOnward DEF PassFits
<1>5. PassFits(t)
  BY <1>2, <1>3, <1>4 DEF PassFits
<1>6. \A q \in Pass \ {p} : t.held \cap pass[q].held = {}
  BY <1>1, <1>2
<1>7. pass' = [pass EXCEPT ![p] = t]
  BY <1>1
<1> HIDE DEF t
<1> QED
  BY <1>1, <1>5, <1>6, <1>7, PassMoves

\* What a pass holds is as it leaves it; the rest is as it was.
LEMMA CommitSound ==
  ASSUME Inv, NEW p \in Pass, CommitPass(p)
  PROVE  /\ Inv' /\ DOMAIN help' = DOMAIN help /\ UNCHANGED seat
         /\ \A h \in DOMAIN help : help'[h] = help[h] \/ Onward(help'[h], help[h])
<1> DEFINE t == pass[p]
<1>1. /\ help' = [h \in DOMAIN help |-> Written(h, t.new)] /\ pass' = [pass EXCEPT ![p] = Rest]
      /\ UNCHANGED <<active, seat>>
  BY DEF CommitPass, company
<1>2. PassFits(t) /\ \A q \in Pass \ {p} : t.held \cap pass[q].held = {}
  BY DEF Inv, PassesFit
<1>3. ASSUME NEW h \in DOMAIN help
      PROVE  help'[h] = help[h] \/ (h \in t.held /\ Onward(help'[h], help[h]))
  <2> DEFINE mine == {x \in t.new : x.id = h}
  <2>1. CASE mine = {}
    BY <1>1, <2>1 DEF Written
  <2>2. CASE mine # {}
    <3>1. (CHOOSE x \in mine : TRUE) \in mine
      BY <2>2
    <3>2. help'[h] = (CHOOSE x \in mine : TRUE).row
      BY <1>1, <2>2 DEF Written
    <3> DEFINE x == CHOOSE x \in mine : TRUE
    <3>3. x \in t.new /\ x.id = h /\ help'[h] = x.row
      BY <3>1, <3>2
    <3> HIDE DEF x, mine
    <3> QED
      BY <1>2, <3>3 DEF PassFits
  <2> QED
    BY <2>1, <2>2
<1>4. DOMAIN help' = DOMAIN help
  BY <1>1
<1>5. HelpFits'
  <2>1. help \in Seq(Row) /\ \A h \in DOMAIN help : help[h] \in Row /\ RowFits(help[h])
    BY DEF Inv, HelpFits
  <2>2. \A h \in DOMAIN help : help'[h] \in Row /\ RowFits(help'[h])
    BY <1>3, <2>1 DEF Onward
  <2>3. help' \in Seq(Row)
    <3>1. DOMAIN help = 1..Len(help) /\ Len(help) \in Nat
      BY <2>1
    <3>2. help' \in [1..Len(help) -> Row]
      BY <1>1, <2>2, <3>1
    <3> QED
      BY <3>1, <3>2, SeqDef
  <2> QED
    BY <1>1, <1>4, <2>2, <2>3 DEF Inv, HelpFits
<1>6. ASSUME NEW q \in Pass PROVE PassFits(pass[q])'
  <2>1. CASE q = p
    <3>1. pass'[q] = Rest
      BY <1>1, <2>1 DEF Inv, PassesFit
    <3> QED
      BY <3>1 DEF PassFits, Rest
  <2>2. CASE q # p
    <3>1. PICK o : o = pass[q]
      OBVIOUS
    <3>2. pass'[q] = o /\ PassFits(o)
      BY <1>1, <2>2, <3>1 DEF Inv, PassesFit
    <3>3. ASSUME NEW x \in o.new PROVE help'[x.id] = help[x.id]
      BY <1>2, <1>3, <2>2, <3>1, <3>2 DEF PassFits
    <3>4. PassFits(o)'
      BY <1>1, <1>4, <3>2, <3>3 DEF PassFits, Onward, Told
    <3> QED
      BY <3>2, <3>4
  <2> QED
    BY <2>1, <2>2
<1>7. PassesFit'
  <2>1. DOMAIN pass' = Pass /\ pass'[p] = Rest /\ \A q \in Pass \ {p} : pass'[q] = pass[q]
    BY <1>1 DEF Inv, PassesFit
  <2>2. \A q, r \in Pass : q # r => pass'[q].held \cap pass'[r].held = {}
    BY <2>1 DEF Inv, PassesFit, Rest
  <2> QED
    BY <1>6, <2>1, <2>2 DEF PassesFit
<1> QED
  BY <1>1, <1>3, <1>4, <1>5, <1>7 DEF Inv

-----------------------------------------------------------------------------
(* Every step *)

\* What any step does to the requests.
Changes ==
    /\ DOMAIN help \subseteq DOMAIN help'
    /\ \A h \in DOMAIN help :
          help'[h].routings = help[h].routings \/ (Onward(help'[h], help[h]) /\ UNCHANGED seat)
    /\ \A h \in DOMAIN help' \ DOMAIN help :
          UNCHANGED seat /\ \E u, s : Onward(help'[h], NewRequest(u, s))

LEMMA NextSound == ASSUME LimitsAssumption, Inv, [Next]_vars PROVE Inv' /\ Changes
<1>1. ASSUME Inv', UNCHANGED help PROVE Inv' /\ Changes
  BY <1>1 DEF Changes
<1>2. CASE Organize
  BY <1>1, <1>2, OrganizeSound
<1>3. ASSUME NEW u \in Requesters, NEW s \in Scope, Create(u, s) PROVE Inv' /\ Changes
  <2>1. /\ Inv' /\ DOMAIN help' = DOMAIN help \cup {Len(help) + 1}
        /\ \A h \in DOMAIN help : help'[h] = help[h]
        /\ Onward(help'[Len(help) + 1], NewRequest(u, s))
    BY <1>3, CreateSound
  <2>2. UNCHANGED seat
    BY <1>3 DEF Create, company
  <2> QED
    BY <2>1, <2>2 DEF Changes
<1>4. ASSUME NEW h \in DOMAIN help, Kept(h), Inv' PROVE Inv' /\ Changes
  BY <1>4 DEF Kept, Changes
<1>5. CASE Helping
  BY <1>3, <1>4, <1>5, AcceptSound, FinishSound, ConfirmSound, ExpireSound DEF Helping
<1>6. ASSUME NEW p \in Pass, PassStep(p) \/ CrashPass(p) PROVE Inv' /\ Changes
  <2>1. CASE CommitPass(p)
    BY <2>1, CommitSound DEF Changes
  <2>2. CASE ~CommitPass(p)
    BY <1>1, <1>6, <2>2, StartSound, PassRowSound, NextClassSound, CrashSound DEF PassStep
  <2> QED
    BY <2>1, <2>2
<1>7. CASE \E kind \in DOMAIN EventOf, u \in Thankers, to \in User, s \in Scope : Appreciate(kind, u, to, s)
  BY <1>1, <1>7, AppreciateSound
<1>8. CASE UNCHANGED vars
  <2>1. UNCHANGED <<active, seat, help, pass>>
    BY <1>8 DEF vars
  <2>2. HelpFits' /\ PassesFit'
    BY <2>1, PassesStay DEF Alike, Inv, HelpFits
  <2> QED
    BY <1>1, <2>1, <2>2 DEF Inv
<1> QED
  BY <1>2, <1>5, <1>6, <1>7, <1>8 DEF Next

\* The invariant the rest follows from.
THEOREM AlwaysFits == Spec => []Inv
<1>1. Init => Inv
  BY LimitsAssumption, InitInv
<1>2. Inv /\ [Next]_vars => Inv'
  BY LimitsAssumption, NextSound
<1> QED
  BY <1>1, <1>2, PTL DEF Spec

\* However passes, people and crashes interleave: once a request is picked up
\* it is never routed again, and none is escalated twice.
THEOREM AlwaysRoutingEndsOnce == Spec => RoutingEndsOnce
<1>1. Inv /\ [Next]_vars =>
        [\A h \in DOMAIN help :
            /\ help'[h].routings # help[h].routings => help[h].status = "OPEN" /\ help'[h].status = "OPEN"
            /\ help'[h].escalations # 0 => help'[h].escalations = 1]_vars
  <2> SUFFICES ASSUME Inv, [Next]_vars, NEW h \in DOMAIN help
               PROVE  /\ help'[h].routings # help[h].routings => help[h].status = "OPEN" /\ help'[h].status = "OPEN"
                      /\ help'[h].escalations # 0 => help'[h].escalations = 1
    OBVIOUS
  <2>1. Inv' /\ Changes
    BY LimitsAssumption, NextSound
  <2>2. help'[h].routings # help[h].routings => help[h].status = "OPEN" /\ help'[h].status = "OPEN"
    BY <2>1 DEF Changes, Onward
  <2>3. h \in DOMAIN help' /\ help'[h] \in Row
    BY <2>1 DEF Changes, Inv, HelpFits
  <2>4. help'[h].escalations \in 0..1
    BY <2>3 DEF Row
  <2> QED
    BY <2>2, <2>4
<1> QED
  BY <1>1, AlwaysFits, PTL DEF Spec, RoutingEndsOnce

\* Seats stand still while a pass is at work: whoever a routing names belongs to
\* the scope when it is written, or is an admin, and finds the request listed.
THEOREM AlwaysAskedBelong == Spec => AskedBelong
<1>1. Inv /\ [Next]_vars =>
        [\A h \in DOMAIN help' : LET row == help'[h] IN
            \A r \in row.routings \ (IF h \in DOMAIN help THEN help[h].routings ELSE {}) : \A u \in r.to :
                /\ Item(h, "ACTION_REQUIRED", "accept") \in HelpPersonal(u)'
                /\ Role(u) = "ADMIN" \/ (row.scope # Company /\ seat'[row.scope][u] # "NONE")]_vars
  <2> SUFFICES ASSUME Inv, [Next]_vars, NEW h \in DOMAIN help',
                      NEW r \in help'[h].routings \ (IF h \in DOMAIN help THEN help[h].routings ELSE {}), NEW u \in r.to
               PROVE  /\ Item(h, "ACTION_REQUIRED", "accept") \in HelpPersonal(u)'
                      /\ Role(u) = "ADMIN" \/ (help'[h].scope # Company /\ seat'[help'[h].scope][u] # "NONE")
    OBVIOUS
  <2>1. Inv' /\ Changes
    BY LimitsAssumption, NextSound
  <2>2. UNCHANGED seat /\ help'[h].status = "OPEN" /\ Told(help'[h], u)
    <3>1. CASE h \in DOMAIN help
      BY <2>1, <3>1 DEF Changes, Onward
    <3>2. CASE h \notin DOMAIN help
      <4>1. PICK v, s : Onward(help'[h], NewRequest(v, s))
        BY <2>1, <3>2 DEF Changes
      <4>2. NewRequest(v, s).routings = {}
        BY DEF NewRequest
      <4> QED
        BY <2>1, <3>2, <4>1, <4>2 DEF Changes, Onward
    <3> QED
      BY <3>1, <3>2
  <2>3. h \in (RoutedTo(u) \ {x \in DOMAIN help : help[x].requester = u})'
    BY <2>2 DEF RoutedTo, Told
  <2>4. Item(h, "ACTION_REQUIRED", "accept") \in HelpPersonal(u)'
    BY <2>2, <2>3 DEF HelpPersonal
  <2> QED
    BY <2>2, <2>4 DEF Told
<1> QED
  BY <1>1, AlwaysFits, PTL DEF Spec, AskedBelong

\* A helper, or whoever is thanked, is credited only by somebody else, and while
\* both are in use and the person credited has a seat in the open scope.
THEOREM AlwaysCreditsWithinScope == Spec => CreditsWithinScope
<1>1. Inv /\ [Next]_vars =>
        [\A e \in events' \ events :
            LET s == IF e.kind = "internal.help.completed" THEN help[e.about].scope ELSE e.about.scope IN
            /\ IsMember(s, e.subject) /\ Open(s)
            /\ {e.actor, e.subject} \subseteq active
            /\ e.actor # e.subject]_vars
  <2> DEFINE s(e) == IF e.kind = "internal.help.completed" THEN help[e.about].scope ELSE e.about.scope
             Credited(e) == IsMember(s(e), e.subject) /\ Open(s(e)) /\ {e.actor, e.subject} \subseteq active /\ e.actor # e.subject
  <2> SUFFICES ASSUME Inv, [Next]_vars, NEW e \in events' \ events PROVE Credited(e)
    OBVIOUS
  <2>1. ASSUME NEW h \in DOMAIN help, NEW u \in User, Confirm(h, u) PROVE Credited(e)
    <3>1. e = [kind |-> "internal.help.completed", about |-> h, actor |-> u, subject |-> help[h].helper]
      BY <2>1 DEF Confirm, Emitted
    <3>2. help[h].helper \in User \ {help[h].requester}
      BY <2>1 DEF Confirm, Inv, HelpFits, RowFits
    <3>3. u = help[h].requester /\ IsMember(help[h].scope, help[h].helper) /\ Open(help[h].scope)
      BY <2>1 DEF Confirm, Admit
    <3>4. {u, help[h].helper} \subseteq active
      BY <2>1, <3>2, LimitsAssumption DEF Confirm, Transition, Present
    <3> QED
      BY <3>1, <3>2, <3>3, <3>4
  <2>2. ASSUME NEW kind \in DOMAIN EventOf, NEW u, NEW to, NEW place, Appreciate(kind, u, to, place) PROVE Credited(e)
    <3> DEFINE row == [kind |-> kind, from |-> u, to |-> to, scope |-> place]
    <3>1. e = [kind |-> EventOf[kind], about |-> row, actor |-> u, subject |-> to]
      BY <2>2 DEF Appreciate, Emitted
    <3>2. EventOf[kind] # "internal.help.completed"
      BY DEF EventOf
    <3>3. row.scope = place
      OBVIOUS
    <3> HIDE DEF row
    <3> QED
      BY <2>2, <3>1, <3>2, <3>3 DEF Appreciate, Admit
  <2>3. \/ \E h \in DOMAIN help : \E u \in User : Confirm(h, u)
        \/ \E kind \in DOMAIN EventOf, u \in Thankers, to \in User, place \in Scope : Appreciate(kind, u, to, place)
    <3>1. CASE UNCHANGED vars
      BY <3>1 DEF vars
    <3>2. CASE Organize
      BY <3>2, OrganizeSound, LimitsAssumption
    <3>3. CASE Helping
      BY <3>3 DEF Helping, Create, Accept, Finish, Expire
    <3>4. CASE \E p \in Pass : PassStep(p) \/ CrashPass(p)
      BY <3>4 DEF PassStep, StartPass, PassRow, NextClass, CommitPass, CrashPass
    <3> QED
      BY <3>1, <3>2, <3>3, <3>4 DEF Next
  <2> QED
    BY <2>1, <2>2, <2>3
<1> QED
  BY <1>1, AlwaysFits, PTL DEF Spec, CreditsWithinScope
=============================================================================
