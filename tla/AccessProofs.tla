---------------------------- MODULE AccessProofs ----------------------------
(* What is proved of accounts for any companies, people and addresses, and  *)
(* any number of transactions at work.                                      *)
EXTENDS Access, TLAPS

-----------------------------------------------------------------------------
(* Rows *)

\* A row is added at the end, and the others stay where they are.
LEMMA AppendedRow ==
  ASSUME NEW S, NEW q \in Seq(S), NEW e \in S
  PROVE  /\ Append(q, e) \in Seq(S)
         /\ DOMAIN q = 1..Len(q) /\ DOMAIN Append(q, e) = DOMAIN q \cup {Len(q) + 1}
         /\ \A i \in DOMAIN q : Append(q, e)[i] = q[i] /\ i # Len(q) + 1
         /\ Append(q, e)[Len(q) + 1] = e
OBVIOUS

\* A row is replaced by another, and the others stay.
LEMMA ReplacedRow ==
  ASSUME NEW S, NEW q \in Seq(S), NEW i \in DOMAIN q, NEW e \in S
  PROVE  /\ [q EXCEPT ![i] = e] \in Seq(S)
         /\ DOMAIN [q EXCEPT ![i] = e] = DOMAIN q
         /\ [q EXCEPT ![i] = e][i] = e
         /\ \A j \in DOMAIN q \ {i} : [q EXCEPT ![i] = e][j] = q[j]
OBVIOUS

\* What a list holds.
LEMMA RowOf == ASSUME NEW S, NEW q \in Seq(S), NEW i \in DOMAIN q PROVE q[i] \in S
OBVIOUS

\* A new account is a row, and waits for its activation if it has a link.
LEMMA NewAccountType ==
  ASSUME AccessAssumption, clock \in Nat,
         NEW c \in Company, NEW login \in Address, NEW role \in Role,
         NEW link \in Nat, NEW p \in Password \cup {None}
  PROVE  /\ NewAccount(c, login, role, link, p) \in AccountRow
         /\ NewAccount(c, login, role, link, p).login = login
         /\ NewAccount(c, login, role, link, p).link = link
         /\ NewAccount(c, login, role, link, p).password = p
<1>1. (IF link = Spent THEN 0 ELSE clock + LinkLife) \in Nat
  BY DEF AccessAssumption
<1> QED
  BY <1>1 DEF NewAccount, AccountRow

-----------------------------------------------------------------------------
(* What every step does to the accounts: one of four things. *)

Kept == account' = account

Added(c, login) ==
    \E row \in AccountRow :
        /\ row.login = login /\ row.company = c
        /\ row.link = Spent <=> row.password # None
        /\ account' = Append(account, row)

\* A row is replaced; its address and company are not.
Replaced(a, row) ==
    /\ row \in AccountRow
    /\ row.login = account[a].login /\ row.company = account[a].company
    /\ row.link = Spent <=> row.password # None
    /\ account' = [account EXCEPT ![a] = row]

\* Only one row changes.
LEMMA ReplacedOnly ==
  ASSUME TypeOK, NEW a \in Accounts, NEW row, Replaced(a, row)
  PROVE  /\ Accounts' = Accounts /\ account'[a] = row
         /\ \A b \in Accounts \ {a} : account'[b] = account[b]
         /\ account' \in Seq(AccountRow)
BY ReplacedRow DEF Replaced, Accounts, TypeOK

\* An account that is added has an address nobody has.
LEMMA AddedKeepsAddresses ==
  ASSUME TypeOK, OneAccountPerAddress, NEW c \in Company, NEW login \in Address \ Logins,
         Added(c, login)
  PROVE  OneAccountPerAddress' /\ account' \in Seq(AccountRow)
         /\ \A a \in Accounts' : account'[a].link = Spent <=> account'[a].password # None
<1>1. PICK row \in AccountRow : /\ row.login = login
                                /\ row.link = Spent <=> row.password # None
                                /\ account' = Append(account, row)
  BY DEF Added
<1>2. /\ Accounts' = Accounts \cup {Len(account) + 1}
      /\ account'[Len(account) + 1] = row
      /\ \A a \in Accounts : account'[a] = account[a] /\ account[a].login # login
      /\ account' \in Seq(AccountRow)
  BY <1>1, AppendedRow DEF Accounts, TypeOK, Logins
<1>3. OneAccountPerAddress'
  <2> SUFFICES ASSUME NEW a \in Accounts', NEW b \in Accounts',
                      account'[a].login = account'[b].login
               PROVE  a = b
    BY DEF OneAccountPerAddress
  <2>1. CASE a \in Accounts /\ b \in Accounts
    BY <1>2, <2>1 DEF OneAccountPerAddress
  <2> QED
    BY <1>1, <1>2, <2>1
<1>4. \A a \in Accounts' : account'[a].link = Spent <=> account'[a].password # None
  BY <1>1, <1>2 DEF TypeOK
<1> QED
  BY <1>2, <1>3, <1>4

\* An account that is replaced keeps its address.
LEMMA ReplacedKeepsAddresses ==
  ASSUME TypeOK, OneAccountPerAddress, NEW a \in Accounts, NEW row, Replaced(a, row)
  PROVE  OneAccountPerAddress' /\ account' \in Seq(AccountRow)
         /\ \A b \in Accounts' : account'[b].link = Spent <=> account'[b].password # None
<1>1. /\ Accounts' = Accounts /\ account'[a] = row
      /\ \A b \in Accounts \ {a} : account'[b] = account[b]
      /\ account' \in Seq(AccountRow)
  BY ReplacedRow DEF Replaced, Accounts, TypeOK
<1> QED
  BY <1>1 DEF OneAccountPerAddress, TypeOK, Replaced

\* Entering an account is adding one.
LEMMA InsertAdds ==
  ASSUME AccessAssumption, TypeOK, NEW w \in Worker, Insert(w)
  PROVE  /\ work[w].company \in Company /\ work[w].login \in Address \ Logins
         /\ Added(work[w].company, work[w].login)
         /\ links' \in Nat
<1>1. work[w] \in Entered
  BY DEF Insert, TypeOK, Idle, Asked
<1>2. links' \in Nat /\ links' # Spent
  BY DEF Insert, TypeOK, Spent
<1>3. NewAccount(work[w].company, work[w].login, work[w].role, links', None) \in AccountRow
  BY <1>1, <1>2, NewAccountType DEF Entered, TypeOK
<1> DEFINE row == NewAccount(work[w].company, work[w].login, work[w].role, links', None)
<1>4. row.login = work[w].login /\ row.company = work[w].company
      /\ row.link = links' /\ row.password = None
  BY DEF NewAccount
<1> QED
  BY <1>1, <1>2, <1>3, <1>4 DEF Insert, Added, Entered, Indexed, Unclaimed

\* So is the provisioning of a company.
LEMMA ProvisionAdds ==
  ASSUME AccessAssumption, TypeOK, NEW c \in Company, NEW e \in Spelling, NEW p \in Password,
         Provision(c, e, p)
  PROVE  /\ Normal[e] \in Address \ Logins /\ Added(c, Normal[e])
         /\ \E a \in Accounts' : /\ account'[a].company = c /\ account'[a].role = "ADMIN"
                                 /\ account'[a].active /\ account'[a].link = Spent
                                 /\ account'[a].password # None
<1> DEFINE row == NewAccount(c, Normal[e], "ADMIN", Spent, p)
<1>1. Normal[e] \in Address \ Logins
  BY DEF Provision, Unclaimed, Address
<1>2. row \in AccountRow
  BY <1>1, NewAccountType DEF TypeOK, AccessAssumption, Spent
<1>3. /\ row.login = Normal[e] /\ row.company = c /\ row.role = "ADMIN" /\ row.active
      /\ row.link = Spent /\ row.password = p
  BY DEF NewAccount
<1>4. p # None
  BY DEF AccessAssumption
<1>5. account' = Append(account, row)
  BY DEF Provision
<1>6. Len(account) + 1 \in Accounts' /\ account'[Len(account) + 1] = row
  BY <1>2, <1>5, AppendedRow DEF TypeOK, Accounts
<1> QED
  BY <1>1, <1>2, <1>3, <1>4, <1>5, <1>6 DEF Added

\* Reissuing, activating and changing an account replace its row.
LEMMA ReissueReplaces ==
  ASSUME AccessAssumption, TypeOK, NEW w \in Worker, NEW a \in Accounts, Reissue(w, a)
  PROVE  /\ Replaced(a, [account[a] EXCEPT !.link = links + 1, !.until = clock + LinkLife])
         /\ account[a].link # Spent /\ links' \in Nat
<1>1. account[a] \in AccountRow /\ clock + LinkLife \in Nat /\ links + 1 \in Nat /\ links + 1 # Spent
  BY DEF TypeOK, Accounts, AccessAssumption, Spent
<1>2. account[a].link # Spent /\ account[a].password = None
  BY DEF Reissue, Pending, TypeOK
<1> QED
  BY <1>1, <1>2 DEF Reissue, Replaced, AccountRow

LEMMA ActivateReplaces ==
  ASSUME AccessAssumption, TypeOK, NEW a \in Accounts, NEW p \in Password, Activate(a, p)
  PROVE  /\ Replaced(a, [account[a] EXCEPT !.password = p, !.link = Spent, !.until = 0])
         /\ account[a].link # Spent
<1>1. account[a] \in AccountRow /\ p # None
  BY DEF TypeOK, Accounts, AccessAssumption
<1> QED
  BY <1>1 DEF Activate, Activated, Replaced, AccountRow, Spent

LEMMA UpdateReplaces ==
  ASSUME AccessAssumption, TypeOK, NEW w \in Worker, NEW a \in Accounts,
         NEW role \in Role, NEW active \in BOOLEAN, Update(w, a, role, active)
  PROVE  Replaced(a, [account[a] EXCEPT !.role = role, !.active = active])
<1>1. account[a] \in AccountRow /\ (account[a].link = Spent <=> account[a].password # None)
  BY DEF TypeOK, Accounts
<1> QED
  BY <1>1 DEF Update, Replaced, AccountRow
-----------------------------------------------------------------------------
(* The invariant *)

\* Accounts and transactions are of companies that exist.
CompaniesExist ==
    /\ \A a \in Accounts : stage[account[a].company] # "ABSENT"
    /\ \A w \in Worker : work[w].pc # "idle" => stage[work[w].company] # "ABSENT"

\* The inductive invariant: the properties themselves, over typed rows of
\* companies that exist.
Inv == TypeOK /\ OneAccountPerAddress /\ KeepsAnAdmin /\ CompaniesExist

LEMMA InitInv == ASSUME AccessAssumption, Init PROVE Inv
<1>1. TypeOK
  BY DEF Init, TypeOK, Accounts
<1>2. OneAccountPerAddress /\ KeepsAnAdmin /\ CompaniesExist
  BY DEF Init, OneAccountPerAddress, KeepsAnAdmin, Accounts, CompaniesExist, Idle
<1> QED
  BY <1>1, <1>2 DEF Inv

\* The parts of the type that a step leaves to its work, stage and sessions.
LEMMA BegunType ==
  ASSUME TypeOK, NEW c \in Company
  PROVE  /\ Begun(c) \in [Company -> {"ABSENT", "NOT_STARTED", "IN_PROGRESS", "COMPLETED"}]
         /\ Begun(c)[c] # "ABSENT" /\ \A d \in Company \ {c} : Begun(c)[d] = stage[d]
BY DEF Begun, TypeOK

LEMMA DoneType ==
  ASSUME TypeOK, NEW w \in Worker, Done(w)
  PROVE  /\ work' \in [Worker -> {Idle} \cup Asked \cup Entered]
         /\ work'[w].pc = "idle" /\ \A v \in Worker \ {w} : work'[v] = work[v]
BY DEF Done, TypeOK, Idle

\* Who works for a company is of a company.
LEMMA AskedCompany ==
  ASSUME TypeOK, CompaniesExist, NEW w \in Worker, AsAdmin(w)
  PROVE  /\ work[w].company \in Company /\ work[w] \in Asked
         /\ stage[work[w].company] # "ABSENT"
BY DEF AsAdmin, TypeOK, CompaniesExist, Idle, Asked, Entered

\* Accounts and transactions are of companies.
LEMMA OfCompanies ==
  ASSUME TypeOK
  PROVE  /\ \A a \in Accounts : account[a] \in AccountRow /\ account[a].company \in Company
         /\ \A w \in Worker : work[w].pc # "idle" => work[w].company \in Company
<1>1. \A a \in Accounts : account[a] \in AccountRow
  BY DEF TypeOK, Accounts
<1>2. \A w \in Worker : work[w] \in {Idle} \cup Asked \cup Entered
  BY DEF TypeOK
<1> QED
  BY <1>1, <1>2 DEF AccountRow, Idle, Asked, Entered

\* A company whose accounts stay keeps its admin.
LEMMA KeptAdmins ==
  ASSUME KeepsAnAdmin, account' = account,
         \A c \in Company : stage'[c] # "ABSENT" => stage[c] # "ABSENT"
  PROVE  KeepsAnAdmin'
BY DEF KeepsAnAdmin, Entering, Accounts, Usable

\* A company whose accounts are added to keeps its admin.
LEMMA AddedAdmins ==
  ASSUME TypeOK, KeepsAnAdmin, NEW c \in Company, NEW login, Added(c, login),
         NEW d \in Company, stage[d] # "ABSENT"
  PROVE  Entering(d)' # {}
<1>1. PICK row \in AccountRow : account' = Append(account, row)
  BY DEF Added
<1>2. \A a \in Accounts : a \in Accounts' /\ account'[a] = account[a]
  BY <1>1, AppendedRow DEF Accounts, TypeOK
<1> QED
  BY <1>2 DEF KeepsAnAdmin, Entering, Usable

\* A change of one account leaves every company another, or the same, admin.
LEMMA ReplacedAdmins ==
  ASSUME TypeOK, KeepsAnAdmin, NEW a \in Accounts, NEW row, Replaced(a, row),
         stage' = stage,
         \/ /\ row.role = account[a].role /\ row.active = account[a].active
            /\ account[a].link # Spent
         \/ /\ row.link = account[a].link /\ row.password = account[a].password
            /\ \/ account[a].role # "ADMIN"
               \/ row.role = "ADMIN" /\ row.active
               \/ OtherAdmins(a) # {}
  PROVE  KeepsAnAdmin'
<1>1. /\ Accounts' = Accounts /\ account'[a] = row
      /\ \A b \in Accounts \ {a} : account'[b] = account[b]
  BY ReplacedRow DEF Replaced, Accounts, TypeOK
<1> SUFFICES ASSUME NEW c \in Company, stage[c] # "ABSENT"
             PROVE  Entering(c)' # {}
  BY DEF KeepsAnAdmin
<1>2. PICK b \in Accounts : b \in Entering(c)
  BY DEF KeepsAnAdmin, Entering
<1>3. CASE b # a
  <2>1. b \in Entering(c)'
    BY <1>1, <1>2, <1>3 DEF Entering, Usable
  <2> QED
    BY <2>1
<1>4. CASE b = a
  <2>1. /\ account[a].link = Spent /\ account[a].role = "ADMIN" /\ account[a].company = c
        /\ account[a].password # None
    BY <1>2, <1>4 DEF Entering, Usable
  <2>2. CASE row.role = "ADMIN" /\ row.active
    <3>1. a \in Entering(c)'
      BY <1>1, <2>1, <2>2 DEF Entering, Usable, Replaced
    <3> QED
      BY <3>1
  <2>3. CASE OtherAdmins(a) # {}
    <3>1. PICK d \in Accounts \ {a} : /\ account[d].company = c /\ account[d].role = "ADMIN"
                                      /\ Usable(d)
      BY <2>1, <2>3 DEF OtherAdmins
    <3>2. account[d].password # None
      BY <3>1 DEF TypeOK, Usable
    <3>3. d \in Entering(c)'
      BY <1>1, <3>1, <3>2 DEF Entering, Usable
    <3> QED
      BY <3>3
  <2> QED
    BY <2>1, <2>2, <2>3
<1> QED
  BY <1>3, <1>4
-----------------------------------------------------------------------------
(* The steps *)

\* What the variables other than the accounts must satisfy after a step.
OthersOK ==
    /\ stage \in [Company -> {"ABSENT", "NOT_STARTED", "IN_PROGRESS", "COMPLETED"}]
    /\ session \in Seq([by : Nat, until : Nat, ended : BOOLEAN])
    /\ \A s \in DOMAIN session : session[s].by \in Accounts
    /\ work \in [Worker -> {Idle} \cup Asked \cup Entered]
    /\ links \in Nat /\ clock \in Nat
    /\ CompaniesExist

\* A step that keeps the accounts and adds no company keeps the invariant.
LEMMA KeptInv ==
  ASSUME Inv, account' = account, OthersOK',
         \A c \in Company : stage'[c] # "ABSENT" => stage[c] # "ABSENT"
  PROVE  Inv'
<1>1. TypeOK'
  BY DEF Inv, TypeOK, OthersOK, Accounts
<1>2. OneAccountPerAddress'
  BY DEF Inv, OneAccountPerAddress, Accounts
<1> QED
  BY <1>1, <1>2, KeptAdmins DEF Inv, OthersOK

\* So does one that adds or replaces an account, as far as it keeps an admin.
LEMMA ChangedInv ==
  ASSUME Inv, OneAccountPerAddress', account' \in Seq(AccountRow),
         \A a \in Accounts' : account'[a].link = Spent <=> account'[a].password # None,
         OthersOK', KeepsAnAdmin'
  PROVE  Inv'
BY DEF Inv, TypeOK, OthersOK

\* A transaction that ends and changes nothing else.
LEMMA GiveUpInv ==
  ASSUME Inv, NEW w \in Worker, GiveUp(w)
  PROVE  Inv'
<1>1. OthersOK'
  BY DoneType DEF GiveUp, OthersOK, Inv, TypeOK, Accounts, CompaniesExist
<1> QED
  BY <1>1, KeptInv DEF GiveUp

\* Setup moves on for a company that exists.
LEMMA SetupInv ==
  ASSUME Inv, NEW w \in Worker, BeginSetup(w) \/ CompleteSetup(w)
  PROVE  Inv'
<1>1. /\ work[w].company \in Company /\ stage[work[w].company] # "ABSENT"
  BY AskedCompany DEF BeginSetup, CompleteSetup, Inv
<1>2. /\ stage' \in [Company -> {"ABSENT", "NOT_STARTED", "IN_PROGRESS", "COMPLETED"}]
      /\ \A c \in Company : stage'[c] # "ABSENT" <=> stage[c] # "ABSENT"
  BY <1>1, BegunType DEF BeginSetup, CompleteSetup, Inv, TypeOK
<1>3. CompaniesExist'
  <2>1. account' = account /\ \A v \in Worker : work'[v].pc = "idle" \/ work'[v] = work[v]
    BY DoneType DEF BeginSetup, CompleteSetup, Inv
  <2> QED
    BY <1>2, <2>1, OfCompanies DEF Inv, CompaniesExist, Accounts
<1>4. OthersOK'
  BY <1>2, <1>3, DoneType DEF BeginSetup, CompleteSetup, OthersOK, Inv, TypeOK, Accounts
<1> QED
  BY <1>2, <1>4, KeptInv DEF BeginSetup, CompleteSetup

\* A request arrives from a company that exists.
LEMMA ArriveInv ==
  ASSUME Inv, NEW w \in Worker, NEW s \in DOMAIN session, Arrive(w, s)
  PROVE  Inv'
<1> DEFINE a == session[s].by
<1>1. a \in Accounts /\ account[a] \in AccountRow /\ stage[account[a].company] # "ABSENT"
  BY DEF Inv, TypeOK, Accounts, CompaniesExist
<1> DEFINE asked == [pc |-> "asked", role |-> account[a].role, company |-> account[a].company]
<1>2. asked \in Asked
  BY <1>1 DEF Asked, AccountRow
<1>3. /\ work' \in [Worker -> {Idle} \cup Asked \cup Entered]
      /\ work'[w] = asked /\ \A v \in Worker \ {w} : work'[v] = work[v]
  BY <1>2 DEF Arrive, Inv, TypeOK
<1>4. CompaniesExist'
  BY <1>1, <1>3 DEF Arrive, Inv, CompaniesExist, Accounts
<1>5. OthersOK'
  BY <1>3, <1>4 DEF Arrive, OthersOK, Inv, TypeOK, Accounts
<1> QED
  BY <1>5, KeptInv DEF Arrive

\* So does the entry of an account, up to its insertion.
LEMMA EnterInv ==
  ASSUME AccessAssumption, Inv, NEW w \in Worker, NEW e \in Spelling, NEW role \in Role,
         Enter(w, e, role)
  PROVE  Inv'
<1>1. work[w].company \in Company /\ stage[work[w].company] # "ABSENT"
  BY AskedCompany DEF Enter, Inv
<1> DEFINE entering == [pc |-> "entering", company |-> work[w].company,
                        login |-> Normal[e], role |-> role]
<1>2. entering \in Entered
  BY <1>1 DEF Entered, Address
<1>3. /\ work' \in [Worker -> {Idle} \cup Asked \cup Entered]
      /\ work'[w] = entering /\ \A v \in Worker \ {w} : work'[v] = work[v]
  BY <1>2 DEF Enter, Inv, TypeOK
<1>4. CompaniesExist'
  BY <1>1, <1>3 DEF Enter, Inv, CompaniesExist, Accounts
<1>5. OthersOK'
  BY <1>3, <1>4 DEF Enter, OthersOK, Inv, TypeOK, Accounts
<1> QED
  BY <1>5, KeptInv DEF Enter

\* Sessions and time.
LEMMA SessionInv ==
  ASSUME AccessAssumption, Inv,
         \/ \E a \in Accounts : LogIn(a)
         \/ \E s \in DOMAIN session : LogOut(s)
         \/ Tick
  PROVE  Inv'
<1> DEFINE Row == [by : Nat, until : Nat, ended : BOOLEAN]
<1>1. CompaniesExist' /\ account' = account /\ stage' = stage /\ work' = work /\ links' = links
  BY DEF LogIn, LogOut, Tick, Inv, CompaniesExist, Accounts
<1>2. /\ session' \in Seq(Row) /\ \A s \in DOMAIN session' : session'[s].by \in Accounts
      /\ clock' \in Nat
  <2>1. ASSUME NEW a \in Accounts, LogIn(a) PROVE <1>2
    <3>1. a \in Nat /\ Opened(a) \in Row /\ Opened(a).by = a
      <4>1. account \in Seq(AccountRow) /\ a \in DOMAIN account
        BY DEF Inv, TypeOK, Accounts
      <4>2. a \in Nat
        BY <4>1
      <4>3. clock \in Nat /\ SessionLife \in Nat
        BY DEF Inv, TypeOK, AccessAssumption
      <4> QED
        BY <4>2, <4>3 DEF Opened
    <3>2. session \in Seq(Row) /\ session' = Append(session, Opened(a)) /\ clock' = clock
      BY <2>1 DEF LogIn, Inv, TypeOK
    <3>3. /\ session' \in Seq(Row) /\ DOMAIN session' = DOMAIN session \cup {Len(session) + 1}
          /\ \A s \in DOMAIN session : session'[s] = session[s]
          /\ session'[Len(session) + 1] = Opened(a)
      <4> HIDE DEF Row
      <4>1. Append(session, Opened(a)) \in Seq(Row)
        BY <3>1, <3>2, AppendedRow
      <4>2. DOMAIN Append(session, Opened(a)) = DOMAIN session \cup {Len(session) + 1}
        BY <3>1, <3>2, AppendedRow
      <4>3. /\ \A s \in DOMAIN session : Append(session, Opened(a))[s] = session[s]
            /\ Append(session, Opened(a))[Len(session) + 1] = Opened(a)
        BY <3>1, <3>2, AppendedRow
      <4> QED
        BY <3>2, <4>1, <4>2, <4>3
    <3> QED
      BY <3>1, <3>2, <3>3 DEF Inv, TypeOK
  <2>2. ASSUME NEW s \in DOMAIN session, LogOut(s) PROVE <1>2
    <3>1. session[s] \in Row /\ [session[s] EXCEPT !.ended = TRUE] \in Row
      <4>1. session \in Seq(Row)
        BY DEF Inv, TypeOK
      <4>2. session[s] \in Row
        BY <4>1, RowOf
      <4> QED
        BY <4>2
    <3>2. session \in Seq(Row) /\ clock' = clock
          /\ session' = [session EXCEPT ![s] = [session[s] EXCEPT !.ended = TRUE]]
      BY <2>2 DEF LogOut, Inv, TypeOK
    <3> DEFINE ended == [session[s] EXCEPT !.ended = TRUE]
    <3>3. session' \in Seq(Row) /\ DOMAIN session' = DOMAIN session
          /\ \A x \in DOMAIN session : session'[x] = IF x = s THEN ended ELSE session[x]
      <4> HIDE DEF Row, ended
      <4>1. ended \in Row
        BY <3>1 DEF ended
      <4>2. session' = [session EXCEPT ![s] = ended]
        BY <3>2 DEF ended
      <4>3. [session EXCEPT ![s] = ended] \in Seq(Row)
        BY <3>2, <4>1, ReplacedRow
      <4>4. DOMAIN [session EXCEPT ![s] = ended] = DOMAIN session
        BY <3>2, <4>1, ReplacedRow
      <4>5. \A x \in DOMAIN session :
               [session EXCEPT ![s] = ended][x] = IF x = s THEN ended ELSE session[x]
        OBVIOUS
      <4> QED
        BY <4>2, <4>3, <4>4, <4>5
    <3>4. ended.by = session[s].by
      BY <3>1
    <3> QED
      BY <3>2, <3>3, <3>4 DEF Inv, TypeOK
  <2>3. ASSUME Tick PROVE <1>2
    BY <2>3 DEF Tick, Inv, TypeOK
  <2> QED
    BY <2>1, <2>2, <2>3
<1>3. OthersOK'
  BY <1>1, <1>2 DEF OthersOK, Inv, TypeOK, Accounts
<1> QED
  BY <1>1, <1>3, KeptInv

\* An account is entered or replaced and its company's admin stays.
LEMMA InsertInv ==
  ASSUME AccessAssumption, Inv, NEW w \in Worker, Insert(w)
  PROVE  Inv'
<1> DEFINE c == work[w].company
           login == work[w].login
<1>1. /\ c \in Company /\ login \in Address \ Logins /\ Added(c, login) /\ links' \in Nat
  BY InsertAdds DEF Inv
<1>2. stage[c] # "ABSENT" /\ stage' = Begun(c)
  BY DEF Insert, Inv, CompaniesExist
<1>3. /\ stage' \in [Company -> {"ABSENT", "NOT_STARTED", "IN_PROGRESS", "COMPLETED"}]
      /\ \A d \in Company : stage'[d] # "ABSENT" <=> stage[d] # "ABSENT"
  BY <1>1, <1>2, BegunType DEF Inv
<1>4. /\ OneAccountPerAddress' /\ account' \in Seq(AccountRow)
      /\ \A a \in Accounts' : account'[a].link = Spent <=> account'[a].password # None
  BY <1>1, AddedKeepsAddresses DEF Inv
<1>5. KeepsAnAdmin'
  BY <1>1, <1>3, AddedAdmins DEF KeepsAnAdmin, Inv
<1>6. PICK row \in AccountRow : row.company = c /\ account' = Append(account, row)
  BY <1>1 DEF Added
<1>7. /\ Accounts' = Accounts \cup {Len(account) + 1} /\ account'[Len(account) + 1] = row
      /\ \A a \in Accounts : account'[a] = account[a]
  BY <1>6, AppendedRow DEF Inv, TypeOK, Accounts
<1>8. CompaniesExist'
  <2>1. \A a \in Accounts' : stage'[account'[a].company] # "ABSENT"
    <3>1. ASSUME NEW a \in Accounts PROVE stage'[account'[a].company] # "ABSENT"
      BY <1>3, <1>7, OfCompanies DEF Inv, CompaniesExist
    <3>2. stage'[row.company] # "ABSENT"
      BY <1>1, <1>2, <1>3, <1>6
    <3> QED
      BY <1>7, <3>1, <3>2
  <2>2. \A v \in Worker : work'[v].pc # "idle" => stage'[work'[v].company] # "ABSENT"
    <3>1. work'[w].pc = "idle" /\ \A v \in Worker \ {w} : work'[v] = work[v]
      BY DoneType DEF Insert, Inv
    <3>2. ASSUME NEW v \in Worker, work[v].pc # "idle"
          PROVE  work[v].company \in Company /\ stage[work[v].company] # "ABSENT"
      <4>1. work[v] \in Asked \cup Entered
        BY <3>2 DEF Inv, TypeOK, Idle
      <4> QED
        BY <3>2, <4>1 DEF Inv, CompaniesExist, Asked, Entered
    <3> QED
      BY <1>3, <3>1, <3>2
  <2> QED
    BY <2>1, <2>2 DEF CompaniesExist
<1>9. OthersOK'
  BY <1>1, <1>3, <1>7, <1>8, DoneType DEF Insert, OthersOK, Inv, TypeOK
<1> QED
  BY <1>4, <1>5, <1>9, ChangedInv

LEMMA ProvisionInv ==
  ASSUME AccessAssumption, Inv, NEW c \in Company, NEW e \in Spelling, NEW p \in Password,
         Provision(c, e, p)
  PROVE  Inv'
<1>1. /\ Normal[e] \in Address \ Logins /\ Added(c, Normal[e])
      /\ Entering(c)' # {}
  BY ProvisionAdds DEF Inv, Entering, Usable
<1>2. /\ stage' \in [Company -> {"ABSENT", "NOT_STARTED", "IN_PROGRESS", "COMPLETED"}]
      /\ stage'[c] # "ABSENT" /\ \A d \in Company \ {c} : stage'[d] = stage[d]
  BY DEF Provision, Inv, TypeOK
<1>3. /\ OneAccountPerAddress' /\ account' \in Seq(AccountRow)
      /\ \A a \in Accounts' : account'[a].link = Spent <=> account'[a].password # None
  BY <1>1, AddedKeepsAddresses DEF Inv
<1>4. KeepsAnAdmin'
  BY <1>1, <1>2, AddedAdmins DEF KeepsAnAdmin, Inv
<1>5. PICK row \in AccountRow : row.company = c /\ account' = Append(account, row)
  BY <1>1 DEF Added
<1>6. /\ Accounts' = Accounts \cup {Len(account) + 1} /\ account'[Len(account) + 1] = row
      /\ \A a \in Accounts : account'[a] = account[a]
  BY <1>5, AppendedRow DEF Inv, TypeOK, Accounts
<1>7. CompaniesExist'
  <2>1. \A a \in Accounts' : stage'[account'[a].company] # "ABSENT"
    BY <1>2, <1>5, <1>6, OfCompanies DEF Inv, CompaniesExist
  <2>2. work' = work /\ \A v \in Worker : work[v].pc # "idle" => work[v].company \in Company
    BY DEF Provision, Inv, TypeOK, Idle, Asked, Entered
  <2> QED
    BY <1>2, <2>1, <2>2 DEF CompaniesExist, Inv
<1>8. OthersOK'
  BY <1>2, <1>6, <1>7 DEF Provision, OthersOK, Inv, TypeOK
<1> QED
  BY <1>3, <1>4, <1>8, ChangedInv

\* Whatever replaces a row keeps the invariant, if an admin is left.
LEMMA ReplacedInv ==
  ASSUME Inv, NEW a \in Accounts, NEW row, Replaced(a, row), KeepsAnAdmin',
         stage' = stage, session' = session, clock' = clock, links' \in Nat,
         work' = work \/ \E w \in Worker : Done(w)
  PROVE  Inv'
<1>1. /\ OneAccountPerAddress' /\ account' \in Seq(AccountRow)
      /\ \A b \in Accounts' : account'[b].link = Spent <=> account'[b].password # None
  BY ReplacedKeepsAddresses DEF Inv
<1>2. /\ Accounts' = Accounts /\ \A b \in Accounts : account'[b].company = account[b].company
  BY ReplacedRow DEF Replaced, Accounts, Inv, TypeOK
<1>3. /\ work' \in [Worker -> {Idle} \cup Asked \cup Entered]
      /\ \A v \in Worker : work'[v].pc = "idle" \/ work'[v] = work[v]
  BY DoneType DEF Inv, TypeOK
<1>4. CompaniesExist'
  BY <1>2, <1>3 DEF CompaniesExist, Inv
<1>5. OthersOK'
  BY <1>2, <1>3, <1>4 DEF OthersOK, Inv, TypeOK
<1> QED
  BY <1>1, <1>5, ChangedInv

LEMMA ReissueInv ==
  ASSUME AccessAssumption, Inv, NEW w \in Worker, NEW a \in Accounts, Reissue(w, a)
  PROVE  Inv'
<1> DEFINE row == [account[a] EXCEPT !.link = links + 1, !.until = clock + LinkLife]
<1>1. Replaced(a, row) /\ account[a].link # Spent /\ links' \in Nat
  BY ReissueReplaces DEF Inv
<1>2. row.role = account[a].role /\ row.active = account[a].active
  BY DEF Inv, TypeOK, Accounts, AccountRow
<1>3. KeepsAnAdmin'
  BY <1>1, <1>2, ReplacedAdmins DEF Reissue, Inv
<1> QED
  BY <1>1, <1>3, ReplacedInv DEF Reissue

LEMMA ActivateInv ==
  ASSUME AccessAssumption, Inv, NEW a \in Accounts, NEW p \in Password, Activate(a, p)
  PROVE  Inv'
<1> DEFINE row == [account[a] EXCEPT !.password = p, !.link = Spent, !.until = 0]
<1>1. Replaced(a, row) /\ account[a].link # Spent
  BY ActivateReplaces DEF Inv
<1>2. row.role = account[a].role /\ row.active = account[a].active
  BY DEF Inv, TypeOK, Accounts, AccountRow
<1>3. KeepsAnAdmin'
  BY <1>1, <1>2, ReplacedAdmins DEF Activate, Inv
<1> QED
  BY <1>1, <1>3, ReplacedInv DEF Activate, Inv, TypeOK

LEMMA UpdateInv ==
  ASSUME AccessAssumption, Inv, NEW w \in Worker, NEW a \in Accounts,
         NEW role \in Role, NEW active \in BOOLEAN, Update(w, a, role, active)
  PROVE  Inv'
<1> DEFINE row == [account[a] EXCEPT !.role = role, !.active = active]
<1>1. Replaced(a, row)
  BY UpdateReplaces DEF Inv
<1>2. /\ row.link = account[a].link /\ row.password = account[a].password
      /\ row.role = role /\ row.active = active
  BY DEF Inv, TypeOK, Accounts, AccountRow
<1>3. account[a].role # "ADMIN" \/ (role = "ADMIN" /\ active) \/ OtherAdmins(a) # {}
  BY DEF Update
<1>4. KeepsAnAdmin'
  BY <1>1, <1>2, <1>3, ReplacedAdmins DEF Update, Inv
<1> QED
  BY <1>1, <1>4, ReplacedInv DEF Update, Inv, TypeOK

LEMMA NextInv == ASSUME AccessAssumption, Inv, [Next]_vars PROVE Inv'
<1>1. CASE UNCHANGED vars
  <2>1. OthersOK' /\ account' = account /\ stage' = stage
    BY <1>1 DEF vars, OthersOK, Inv, TypeOK, Accounts, CompaniesExist
  <2> QED
    BY <2>1, KeptInv
<1>2. ASSUME NEW w \in Worker, Step(w) PROVE Inv'
  BY <1>2, GiveUpInv, InsertInv, SetupInv, ArriveInv, EnterInv, ReissueInv, UpdateInv DEF Step
<1>3. CASE \E c \in Company, e \in Spelling, p \in Password : Provision(c, e, p)
  BY <1>3, ProvisionInv
<1>4. CASE \E a \in Accounts, p \in Password : Activate(a, p)
  BY <1>4, ActivateInv
<1>5. CASE \/ \E a \in Accounts : LogIn(a)
           \/ \E s \in DOMAIN session : LogOut(s)
           \/ Tick
  BY <1>5, SessionInv
<1> QED
  BY <1>1, <1>2, <1>3, <1>4, <1>5 DEF Next

THEOREM Invariance == Spec => []Inv
<1>1. Init => Inv
  BY InitInv, AccessAssumption
<1>2. Inv /\ [Next]_vars => Inv'
  BY NextInv, AccessAssumption
<1> QED
  BY <1>1, <1>2, PTL DEF Spec
\* Rows keep their types, and wait for activation while they have no password.
THEOREM AccountsTyped == Spec => []TypeOK
<1>1. Inv => TypeOK
  BY DEF Inv
<1> QED
  BY <1>1, Invariance, PTL

\* An address belongs to one account, whatever transactions are at work.
THEOREM AddressesAreUnique == Spec => []OneAccountPerAddress
<1>1. Inv => OneAccountPerAddress
  BY DEF Inv
<1> QED
  BY <1>1, Invariance, PTL

\* No sequence of commands, acting with stale roles, locks a company out.
THEOREM AnAdminIsKept == Spec => []KeepsAnAdmin
<1>1. Inv => KeepsAnAdmin
  BY DEF Inv
<1> QED
  BY <1>1, Invariance, PTL

\* What a step does to the accounts, by the kinds of it.
LEMMA AccountSteps ==
  ASSUME AccessAssumption, Inv, [Next]_vars
  PROVE  \/ account' = account
         \/ \E c \in Company, login \in Address : Added(c, login)
         \/ \E w \in Worker, a \in Accounts : Reissue(w, a)
         \/ \E a \in Accounts, p \in Password : Activate(a, p)
         \/ \E w \in Worker, a \in Accounts, role \in Role, active \in BOOLEAN :
                Update(w, a, role, active)
<1>1. ASSUME NEW w \in Worker, Insert(w) PROVE \E c \in Company, login \in Address : Added(c, login)
  BY <1>1, InsertAdds DEF Inv
<1>2. ASSUME NEW c \in Company, NEW e \in Spelling, NEW p \in Password, Provision(c, e, p)
      PROVE  \E d \in Company, login \in Address : Added(d, login)
  BY <1>2, ProvisionAdds DEF Inv
<1>3. ASSUME NEW w \in Worker, \/ GiveUp(w) \/ BeginSetup(w) \/ CompleteSetup(w)
                               \/ \E s \in DOMAIN session : Arrive(w, s)
                               \/ \E e \in Spelling, role \in Role : Enter(w, e, role)
      PROVE  account' = account
  BY <1>3 DEF GiveUp, BeginSetup, CompleteSetup, Arrive, Enter
<1>4. ASSUME \/ UNCHANGED vars
             \/ \E a \in Accounts : LogIn(a)
             \/ \E s \in DOMAIN session : LogOut(s)
             \/ Tick
      PROVE  account' = account
  BY <1>4 DEF vars, LogIn, LogOut, Tick
<1>5. CASE \E w \in Worker : Step(w)
  BY <1>1, <1>3, <1>5 DEF Step
<1> QED
  BY <1>2, <1>4, <1>5 DEF Next

\* A password that is set stays, and so does the absence of a link.
LEMMA PasswordStep ==
  ASSUME AccessAssumption, Inv, [Next]_vars,
         NEW a \in Accounts, account[a].password # None
  PROVE  account'[a].password = account[a].password /\ account'[a].link = Spent
<1>1. account[a].link = Spent /\ account[a] \in AccountRow
  BY OfCompanies DEF Inv, TypeOK
<1>2. CASE \E c \in Company, login \in Address : Added(c, login)
  <2>1. account'[a] = account[a]
    BY <1>2, AppendedRow DEF Added, Inv, TypeOK, Accounts
  <2> QED
    BY <1>1, <2>1
<1>3. ASSUME NEW w \in Worker, NEW b \in Accounts, Reissue(w, b) PROVE account'[a] = account[a]
  <2> DEFINE row == [account[b] EXCEPT !.link = links + 1, !.until = clock + LinkLife]
  <2>1. Replaced(b, row) /\ account[b].link # Spent
    BY <1>3, ReissueReplaces DEF Inv
  <2> HIDE DEF row
  <2> QED
    BY <1>1, <2>1, ReplacedOnly DEF Inv
<1>4. ASSUME NEW b \in Accounts, NEW p \in Password, Activate(b, p) PROVE account'[a] = account[a]
  <2> DEFINE row == [account[b] EXCEPT !.password = p, !.link = Spent, !.until = 0]
  <2>1. Replaced(b, row) /\ account[b].link # Spent
    BY <1>4, ActivateReplaces DEF Inv
  <2> HIDE DEF row
  <2> QED
    BY <1>1, <2>1, ReplacedOnly DEF Inv
<1>5. ASSUME NEW w \in Worker, NEW b \in Accounts, NEW role \in Role, NEW active \in BOOLEAN,
             Update(w, b, role, active)
      PROVE  account'[a].password = account[a].password /\ account'[a].link = account[a].link
  <2> DEFINE row == [account[b] EXCEPT !.role = role, !.active = active]
  <2>1. Replaced(b, row)
    BY <1>5, UpdateReplaces DEF Inv
  <2>2. row.password = account[b].password /\ row.link = account[b].link
    BY OfCompanies DEF Inv, AccountRow
  <2> HIDE DEF row
  <2> QED
    BY <2>1, <2>2, ReplacedOnly DEF Inv
<1> QED
  BY <1>1, <1>2, <1>3, <1>4, <1>5, AccountSteps

\* A password is set once, whatever links were issued for the account.
THEOREM PasswordsStand == Spec => PasswordStands
<1>1. Inv /\ [Next]_vars =>
        [\A a \in Accounts : account[a].password # None =>
           account'[a].password = account[a].password /\ account'[a].link = Spent]_vars
  BY PasswordStep, AccessAssumption
<1> QED
  BY <1>1, Invariance, PTL DEF Spec, PasswordStands

\* An account is changed by a request of its own company, or by its link.
LEMMA CompanyStep ==
  ASSUME AccessAssumption, Inv, [Next]_vars,
         NEW a \in Accounts, account'[a] # account[a]
  PROVE  \/ account'[a].password # account[a].password
         \/ \E w \in Worker : /\ work[w].pc = "asked" /\ work'[w] = Idle
                              /\ work[w].company = account[a].company
<1>1. ~ \E c \in Company, login \in Address : Added(c, login)
  BY AppendedRow DEF Added, Inv, TypeOK, Accounts
<1>2. ASSUME NEW w \in Worker, NEW b \in Accounts,
             Reissue(w, b) \/ \E role \in Role, active \in BOOLEAN : Update(w, b, role, active)
      PROVE  /\ work[w].pc = "asked" /\ work'[w] = Idle
             /\ work[w].company = account[a].company
  <2>1. PICK row : Replaced(b, row)
    BY <1>2, ReissueReplaces, UpdateReplaces DEF Inv
  <2>3. a = b
    BY <2>1, ReplacedOnly DEF Inv
  <2>2. work'[w] = Idle
    BY <1>2 DEF Reissue, Update, Done, Inv, TypeOK
  <2> QED
    BY <1>2, <2>3, <2>2 DEF Reissue, Update, AsAdmin, Pending
<1>3. ASSUME NEW b \in Accounts, NEW p \in Password, Activate(b, p)
      PROVE  account'[a].password # account[a].password
  <2>1. account' = [account EXCEPT ![b] = [account[b] EXCEPT !.password = p, !.link = Spent, !.until = 0]]
        /\ account[b].link # Spent
    BY <1>3, ActivateReplaces DEF Replaced, Inv
  <2>2. a = b /\ account[b] \in AccountRow /\ account[b].password = None
    BY <2>1, OfCompanies DEF Inv, TypeOK
  <2>3. account'[a].password = p
    BY <2>1, <2>2 DEF AccountRow, Inv, TypeOK, Accounts
  <2> QED
    BY <2>2, <2>3, AccessAssumption DEF AccessAssumption
<1> QED
  BY <1>1, <1>2, <1>3, AccountSteps

\* Admins change the accounts of their own company only.
THEOREM CompaniesAreApart == Spec => OwnCompanyOnly
<1>1. Inv /\ [Next]_vars =>
        [\A a \in Accounts : account'[a] # account[a] =>
           \/ account'[a].password # account[a].password
           \/ \E w \in Worker : /\ work[w].pc = "asked" /\ work'[w] = Idle
                                /\ work[w].company = account[a].company]_vars
  BY CompanyStep, AccessAssumption
<1> QED
  BY <1>1, Invariance, PTL DEF Spec, OwnCompanyOnly
=============================================================================
