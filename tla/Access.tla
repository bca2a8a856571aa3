------------------------------- MODULE Access -------------------------------
(* How people get in: companies are provisioned with their first admin,     *)
(* admins enter people, who receive a link, set a password by it once, log  *)
(* in, and send requests until the session ends.                            *)
(*                                                                          *)
(* A request acts with the role its authentication saw, and the entry of an *)
(* account reads first and writes later: each is a piece of work that other *)
(* steps interleave with.  Commands on accounts wait for the lock on their  *)
(* company and are one transaction.                                         *)
EXTENDS Naturals, Sequences

CONSTANTS Worker,                \* transactions at work at a time
          Company, Password, Role,
          Spelling, Normal,      \* e-mail addresses as typed, and as stored
          LinkLife, SessionLife,
          MaxAccounts, MaxLinks, MaxSessions, MaxTime   \* bounds

None == "none"   \* the password_hash '!', which no password matches

ASSUME AccessAssumption ==
    /\ {LinkLife, SessionLife, MaxAccounts, MaxLinks, MaxSessions, MaxTime} \subseteq Nat
    /\ DOMAIN Normal = Spelling
    /\ "ADMIN" \in Role /\ Role \subseteq {"ADMIN", "MANAGER", "EMPLOYEE"}
    /\ None \notin Password

VARIABLES account,    \* rows of `users`, in the order of their insertion
          stage,      \* onboarding status of each company, "ABSENT" before it exists
          session,    \* rows of `auth_sessions`
          links,      \* activation links issued so far
          work, clock

vars == <<account, stage, session, links, work, clock>>

Spent == 0                                \* no link outstanding
Accounts == DOMAIN account
Logins == {account[a].login : a \in Accounts}

-----------------------------------------------------------------------------
(* Who may come in *)

\* What login and every request ask of an account.
Usable(a) == account[a].active /\ account[a].link = Spent

\* `current_auth`: the account and the session of a token, as they are now.
Live(s) ==
    /\ Usable(session[s].by)
    /\ ~session[s].ended /\ clock < session[s].until

\* The admins of a company who could log in, which setup asks for as well.
Entering(c) == {a \in Accounts : /\ account[a].company = c /\ account[a].role = "ADMIN"
                                 /\ Usable(a) /\ account[a].password # None}

-----------------------------------------------------------------------------
(* Work in progress *)

Idle == [pc |-> "idle"]
Free(w) == work[w] = Idle
Done(w) == work' = [work EXCEPT ![w] = Idle]

\* Whoever enters an account holds the lock on the company.
Unlocked(c) == \A w \in Worker : work[w].pc = "entering" => work[w].company # c

\* A refusal, an error or a crash: the transaction is rolled back.
GiveUp(w) ==
    /\ ~Free(w)
    /\ Done(w)
    /\ UNCHANGED <<account, stage, session, links, clock>>

\* A request arrives; it acts with the role and company seen here.
Arrive(w, s) ==
    /\ Free(w)
    /\ Live(s)
    /\ work' = [work EXCEPT ![w] = [pc |-> "asked",
                                    role |-> account[session[s].by].role,
                                    company |-> account[session[s].by].company]]
    /\ UNCHANGED <<account, stage, session, links, clock>>

\* `admin_company`: an admin, and the lock on the company.
AsAdmin(w) ==
    /\ work[w].pc = "asked" /\ work[w].role = "ADMIN"
    /\ Unlocked(work[w].company)

Begun(c) == [stage EXCEPT ![c] = IF @ = "COMPLETED" THEN @ ELSE "IN_PROGRESS"]

-----------------------------------------------------------------------------
(* Sessions *)

Opened(a) == [by |-> a, until |-> clock + SessionLife, ended |-> FALSE]

\* `login` with the right password.  It reads the account without a lock, so
\* the session may follow a change of the account; it only counts while Live.
LogIn(a) ==
    /\ Usable(a) /\ account[a].password # None
    /\ Len(session) < MaxSessions
    /\ session' = Append(session, Opened(a))
    /\ UNCHANGED <<account, stage, links, work, clock>>

LogOut(s) ==
    /\ Live(s)
    /\ session' = [session EXCEPT ![s].ended = TRUE]
    /\ UNCHANGED <<account, stage, links, work, clock>>

-----------------------------------------------------------------------------
(* Entering accounts *)

Unclaimed(login) == login \notin Logins

\* Mutant: there is no unique index on the addresses.
NoIndex(login) == TRUE

\* The unique index on e-mail addresses, tested again when a row is inserted.
Indexed(login) == Unclaimed(login)

NewAccount(c, login, role, link, password) ==
    [company |-> c, login |-> login, role |-> role, active |-> TRUE, password |-> password,
     link |-> link, until |-> IF link = Spent THEN 0 ELSE clock + LinkLife]

\* `new_person` finds the login free ...
Enter(w, e, role) ==
    /\ AsAdmin(w)
    /\ role # "ADMIN"
    /\ Unclaimed(Normal[e])
    /\ work' = [work EXCEPT ![w] = [pc |-> "entering", company |-> work[w].company,
                                    login |-> Normal[e], role |-> role]]
    /\ UNCHANGED <<account, stage, session, links, clock>>

\* ... and inserts the row, unless another transaction took the login.
Insert(w) ==
    /\ work[w].pc = "entering"
    /\ Len(account) < MaxAccounts /\ links < MaxLinks
    /\ Indexed(work[w].login)
    /\ links' = links + 1
    /\ account' = Append(account, NewAccount(work[w].company, work[w].login, work[w].role, links', None))
    /\ stage' = Begun(work[w].company)
    /\ Done(w)
    /\ UNCHANGED <<session, clock>>

\* `provision_company`, under the advisory lock on the name: a company that is
\* there with this admin is left alone, anything else that exists refuses.
Provision(c, e, p) ==
    /\ stage[c] = "ABSENT" /\ Unclaimed(Normal[e]) /\ Len(account) < MaxAccounts
    /\ account' = Append(account, NewAccount(c, Normal[e], "ADMIN", Spent, p))
    /\ stage' = [stage EXCEPT ![c] = "NOT_STARTED"]
    /\ UNCHANGED <<session, links, work, clock>>

-----------------------------------------------------------------------------
(* Activation *)

\* Mutant: a new link for an account of any company.
PendingAnywhere(w, a) == account[a].link # Spent

Pending(w, a) == account[a].company = work[w].company /\ account[a].link # Spent

\* The new link takes the place of the old one.
Reissue(w, a) ==
    /\ AsAdmin(w) /\ links < MaxLinks
    /\ Pending(w, a)
    /\ links' = links + 1
    /\ account' = [account EXCEPT ![a].link = links', ![a].until = clock + LinkLife]
    /\ Done(w)
    /\ UNCHANGED <<stage, session, clock>>

Valid(a) == account[a].active /\ clock <= account[a].until

\* Mutant: the link ends by its time only.
ActivatedByTime(a, p) == [account EXCEPT ![a].password = p]

Activated(a, p) == [account EXCEPT ![a].password = p, ![a].link = Spent, ![a].until = 0]

\* Whoever holds the link sets the password, under the row's lock.  A link that was
\* replaced fits no row any more and is refused, so only the outstanding one acts.
Activate(a, p) ==
    /\ account[a].link # Spent
    /\ Valid(a)
    /\ account' = Activated(a, p)
    /\ UNCHANGED <<stage, session, links, work, clock>>

-----------------------------------------------------------------------------
(* Commands of the admin on accounts and on the setup *)

\* Mutant: an admin who never set a password counts.
OtherAdminsPending(a) ==
    {b \in Accounts \ {a} : /\ account[b].company = account[a].company
                            /\ account[b].role = "ADMIN" /\ account[b].active}

OtherAdmins(a) ==
    {b \in Accounts \ {a} : /\ account[b].company = account[a].company
                            /\ account[b].role = "ADMIN" /\ Usable(b)}

\* `update_user` of a person without open responsibilities.
Update(w, a, role, active) ==
    /\ AsAdmin(w)
    /\ account[a].company = work[w].company
    /\ <<role, active>> # <<account[a].role, account[a].active>>
    /\ account[a].role = "ADMIN" /\ (role # "ADMIN" \/ ~active) => OtherAdmins(a) # {}
    /\ account' = [account EXCEPT ![a].role = role, ![a].active = active]
    /\ Done(w)
    /\ UNCHANGED <<stage, session, links, clock>>

\* `begin`, alone or with the company's name.
BeginSetup(w) ==
    /\ AsAdmin(w)
    /\ stage' = Begun(work[w].company)
    /\ Done(w)
    /\ UNCHANGED <<account, session, links, clock>>

\* `readiness`: no admin with a password is the blocker these states can have.
Ready(c) == \E a \in Accounts : /\ account[a].company = c /\ account[a].role = "ADMIN"
                                /\ account[a].link = Spent /\ account[a].password # None

CompleteSetup(w) ==
    /\ AsAdmin(w)
    /\ Ready(work[w].company)
    /\ stage' = [stage EXCEPT ![work[w].company] = "COMPLETED"]
    /\ Done(w)
    /\ UNCHANGED <<account, session, links, clock>>

Tick ==
    /\ clock < MaxTime
    /\ clock' = clock + 1
    /\ UNCHANGED <<account, stage, session, links, work>>

-----------------------------------------------------------------------------
Init ==
    /\ account = <<>> /\ session = <<>>
    /\ stage = [c \in Company |-> "ABSENT"]
    /\ work = [w \in Worker |-> Idle]
    /\ links = 0 /\ clock = 0

Step(w) ==
    \/ GiveUp(w) \/ Insert(w) \/ BeginSetup(w) \/ CompleteSetup(w)
    \/ \E s \in DOMAIN session : Arrive(w, s)
    \/ \E e \in Spelling, role \in Role : Enter(w, e, role)
    \/ \E a \in Accounts : Reissue(w, a)
    \/ \E a \in Accounts, role \in Role, active \in BOOLEAN : Update(w, a, role, active)

Next ==
    \/ \E w \in Worker : Step(w)
    \/ \E c \in Company, e \in Spelling, p \in Password : Provision(c, e, p)
    \/ \E a \in Accounts : LogIn(a)
    \/ \E a \in Accounts, p \in Password : Activate(a, p)
    \/ \E s \in DOMAIN session : LogOut(s)
    \/ Tick

Spec == Init /\ [][Next]_vars

-----------------------------------------------------------------------------
(* Properties *)

Address == {Normal[e] : e \in Spelling}
AccountRow == [company : Company, login : Address, role : Role, active : BOOLEAN,
               password : Password \cup {None}, link : Nat, until : Nat]
Asked == [pc : {"asked"}, role : Role, company : Company]
Entered == [pc : {"entering"}, company : Company, login : Address, role : Role]

\* What rows and transactions may hold; an account waits for its activation
\* exactly as long as it has no password.
TypeOK ==
    /\ account \in Seq(AccountRow)
    /\ \A a \in Accounts : account[a].link = Spent <=> account[a].password # None
    /\ stage \in [Company -> {"ABSENT", "NOT_STARTED", "IN_PROGRESS", "COMPLETED"}]
    /\ session \in Seq([by : Nat, until : Nat, ended : BOOLEAN])
    /\ \A s \in DOMAIN session : session[s].by \in Accounts
    /\ work \in [Worker -> {Idle} \cup Asked \cup Entered]
    /\ links \in Nat /\ clock \in Nat

\* An address belongs to one account however it is typed, although companies
\* check it before they insert and do not lock each other.
OneAccountPerAddress ==
    \A a, b \in Accounts : account[a].login = account[b].login => a = b

\* From its provisioning on, every company has an admin who can log in: two
\* admins who act at once, with roles seen earlier, cannot remove each other.
KeepsAnAdmin == \A c \in Company : stage[c] # "ABSENT" => Entering(c) # {}

\* A password, once set, is never set again, and no link to do so exists: not
\* by an admin, a second provisioning or a link that was superseded or used.
PasswordStands ==
    [][\A a \in Accounts : account[a].password # None =>
           account'[a].password = account[a].password /\ account'[a].link = Spent]_vars

\* An account is changed by a request from its own company, or by its link.
OwnCompanyOnly ==
    [][\A a \in Accounts : account'[a] # account[a] =>
           \/ account'[a].password # account[a].password
           \/ \E w \in Worker : /\ work[w].pc = "asked" /\ work'[w] = Idle
                                /\ work[w].company = account[a].company]_vars
=============================================================================
