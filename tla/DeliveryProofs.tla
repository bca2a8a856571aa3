--------------------------- MODULE DeliveryProofs ---------------------------
(* What the outbox guarantees with batches of any size, however many workers *)
(* drain it, however they overlap and however often they crash; and what it   *)
(* has to do with the inboxes of Notices.                                    *)
EXTENDS Notices, FiniteSetTheorems, SequenceTheorems, TLAPS

----------------------------------------------------------------------------
(* Types                                                                   *)

\* Staging, the end of a backoff and accounts that come and go.
World ==
  \/ \E S, up \in SUBSET Key : Stage(S, up)
  \/ \E S \in SUBSET Key, able \in BOOLEAN : RecipientsChange(S, able)
  \/ \E k \in Key : BackoffEnds(k)

\* A row is staged, becomes due, or stays as it is.
Ages(j) ==
  \/ outbox'[j] = outbox[j]
  \/ /\ outbox[j].status = "ABSENT"
     /\ outbox'[j] = [outbox[j] EXCEPT !.status = "PENDING", !.due = TRUE]
  \/ /\ outbox[j].status = "PENDING"
     /\ outbox'[j] = [outbox[j] EXCEPT !.due = TRUE]

LEMMA WorldAges ==
  ASSUME TypeOK, World
  PROVE  /\ UNCHANGED <<batch, locked, outcome, accepted, unseen>>
         /\ \A j \in Key : Ages(j)
         /\ outbox' = [j \in Key |-> outbox'[j]]
         /\ reachable' \in [Key -> BOOLEAN]
<1>1. CASE \E S, up \in SUBSET Key : Stage(S, up)
  <2> PICK S \in SUBSET Key, up \in SUBSET Key : Stage(S, up)
    BY <1>1
  <2>1. /\ \A j \in S : outbox[j].status = "ABSENT"
        /\ outbox' = [j \in Key |->
             IF j \in S THEN [outbox[j] EXCEPT !.status = "PENDING", !.due = TRUE] ELSE outbox[j]]
        /\ reachable' = [j \in Key |-> IF j \in S THEN j \in up ELSE reachable[j]]
        /\ UNCHANGED <<batch, locked, outcome, accepted, unseen>>
    BY DEF Stage
  <2>2. \A j \in Key : Ages(j)
    BY <2>1 DEF Ages
  <2>3. reachable' \in [Key -> BOOLEAN]
    <3>1. ASSUME NEW j \in Key PROVE (IF j \in S THEN j \in up ELSE reachable[j]) \in BOOLEAN
      <4>1. reachable[j] \in BOOLEAN
        BY DEF TypeOK
      <4>2. (j \in up) \in BOOLEAN
        OBVIOUS
      <4> QED
        BY <4>1, <4>2, Zenon
    <3> QED
      BY <2>1, <3>1
  <2>4. outbox' = [j \in Key |-> outbox'[j]]
    BY <2>1
  <2> QED
    BY <2>1, <2>2, <2>3, <2>4
<1>2. CASE \E S \in SUBSET Key, able \in BOOLEAN : RecipientsChange(S, able)
  <2> PICK S \in SUBSET Key, able \in BOOLEAN : RecipientsChange(S, able)
    BY <1>2
  <2>1. /\ reachable' = [j \in Key |-> IF j \in S THEN able ELSE reachable[j]]
        /\ UNCHANGED <<outbox, batch, locked, outcome, accepted, unseen>>
    BY DEF RecipientsChange
  <2>2. reachable' \in [Key -> BOOLEAN]
    <3>1. ASSUME NEW j \in Key PROVE (IF j \in S THEN able ELSE reachable[j]) \in BOOLEAN
      <4>1. reachable[j] \in BOOLEAN
        BY DEF TypeOK
      <4>2. (able) \in BOOLEAN
        OBVIOUS
      <4> QED
        BY <4>1, <4>2, Zenon
    <3> QED
      BY <2>1, <3>1
  <2>3. outbox' = [j \in Key |-> outbox'[j]]
    BY <2>1 DEF TypeOK
  <2> QED
    BY <2>1, <2>2, <2>3 DEF Ages
<1>3. CASE \E k \in Key : BackoffEnds(k)
  <2> PICK k \in Key : BackoffEnds(k)
    BY <1>3
  <2>1. /\ outbox' = [outbox EXCEPT ![k] = [outbox[k] EXCEPT !.due = TRUE]]
        /\ outbox[k].status = "PENDING"
        /\ UNCHANGED <<reachable, batch, locked, outcome, accepted, unseen>>
    BY DEF BackoffEnds, TypeOK
  <2>2. \A j \in Key : Ages(j)
    BY <2>1 DEF TypeOK, Ages
  <2>3. outbox' = [j \in Key |-> outbox'[j]]
    BY <2>1 DEF TypeOK
  <2> QED
    BY <2>1, <2>2, <2>3 DEF TypeOK
<1> QED
  BY <1>1, <1>2, <1>3 DEF World

\* Of a finite set of numbers there is one with any given number below it.
LEMMA NthOf ==
  ASSUME NEW C, IsFiniteSet(C), C \subseteq Int, NEW i \in 1..Cardinality(C)
  PROVE  \E k \in C : Cardinality({j \in C : j < k}) = i - 1
<1> DEFINE n == Cardinality(C)
           Below(k) == {j \in C : j < k}
           f == [k \in C |-> Cardinality(Below(k))]
<1>1. n \in Nat /\ n >= 1 /\ i \in 1..n
  BY FS_CardinalityType
<1>2. ASSUME NEW k \in C
      PROVE  IsFiniteSet(Below(k)) /\ Cardinality(Below(k)) \in 0..(n - 1)
  <2>1. IsFiniteSet(C \ {k}) /\ Cardinality(C \ {k}) = n - 1
    BY FS_RemoveElement
  <2>2. Below(k) \subseteq C \ {k}
    OBVIOUS
  <2> HIDE DEF Below, n
  <2>3. IsFiniteSet(Below(k)) /\ Cardinality(Below(k)) <= n - 1
    BY <2>1, <2>2, FS_Subset
  <2>4. Cardinality(Below(k)) \in Nat
    BY <2>3, FS_CardinalityType
  <2> QED
    BY <1>1, <2>3, <2>4
<1>3. ASSUME NEW j \in C, NEW k \in C, j < k
      PROVE  Cardinality(Below(j)) # Cardinality(Below(k))
  <2>1. Below(j) \subseteq Below(k) /\ j \in Below(k) /\ j \notin Below(j)
    <3>1. j \in Int /\ k \in Int /\ \A x \in C : x \in Int
      OBVIOUS
    <3>2. \A x \in C : x < j => x < k
      BY <1>3, <3>1
    <3>3. Below(j) \subseteq Below(k)
      BY <3>2
    <3>4. ~(j < j)
      BY <3>1
    <3> QED
      BY <1>3, <3>3, <3>4
  <2>2. IsFiniteSet(Below(k))
    BY <1>2
  <2> HIDE DEF Below
  <2> QED
    BY <2>1, <2>2, FS_Subset
<1> HIDE DEF Below
<1>4. \A j, k \in C : f[j] = f[k] => j = k
  BY <1>3
<1>5. f \in [C -> 0..(n - 1)]
  BY <1>2
<1> HIDE DEF f, n
<1>6. f \in Injection(C, 0..(n - 1))
  <2>1. DOMAIN f = C
    BY <1>5
  <2>2. IsInjective(f)
    BY <1>4, <2>1 DEF IsInjective
  <2> QED
    BY <1>5, <2>2 DEF Injection
<1>7. IsFiniteSet(0..(n - 1)) /\ Cardinality(0..(n - 1)) = n
  BY <1>1, FS_Interval
<1>8. f \in Surjection(C, 0..(n - 1))
  BY <1>6, <1>7, FS_Injection DEF n
<1>9. PICK k \in C : f[k] = i - 1
  <2>1. i - 1 \in 0..(n - 1)
    BY <1>1
  <2> QED
    BY <1>8, <2>1 DEF Surjection
<1> QED
  BY <1>9 DEF f, Below

\* A pass loads copies of rows that are due, as they are, and each of them once.
LEMMA SelectsDue ==
  ASSUME TypeOK, NEW w \in Worker, SelectBatch(w)
  PROVE  /\ UNCHANGED <<outbox, reachable, outcome, accepted, unseen>>
         /\ Chosen \subseteq Key /\ locked' = [locked EXCEPT ![w] = Chosen]
         /\ \E list \in Seq(Copy) :
               /\ batch' = [batch EXCEPT ![w] = list]
               /\ \A i \in 1..Len(list) : /\ list[i].key \in Due
                                           /\ list[i].attempts = outbox[list[i].key].attempts
               /\ \A i, j \in 1..Len(list) : list[i].key = list[j].key => i = j
<1> DEFINE Nth(i) == CHOOSE k \in Chosen : Cardinality({j \in Chosen : j < k}) = i - 1
           Loaded(i) == [key |-> Nth(i), attempts |-> outbox[Nth(i)].attempts]
           list == [i \in 1..Cardinality(Chosen) |-> Loaded(i)]
<1>1. Due \subseteq Key /\ Chosen \subseteq Due /\ Chosen \subseteq Key /\ Key \subseteq Int
  BY OutboxAssumption DEF Due, Chosen, Key
<1>2. IsFiniteSet(Chosen) /\ Cardinality(Chosen) \in Nat
  <2>1. IsFiniteSet(Key)
    BY OutboxAssumption, FS_Interval DEF Key
  <2> QED
    BY <1>1, <2>1, FS_Subset, FS_CardinalityType
<1>3. ASSUME NEW i \in 1..Cardinality(Chosen)
      PROVE  Nth(i) \in Due /\ Cardinality({j \in Chosen : j < Nth(i)}) = i - 1
  <2>1. \E k \in Chosen : Cardinality({j \in Chosen : j < k}) = i - 1
    BY <1>1, <1>2, NthOf
  <2>2. Nth(i) \in Chosen /\ Cardinality({j \in Chosen : j < Nth(i)}) = i - 1
    BY <2>1
  <2> HIDE DEF Nth
  <2> QED
    BY <1>1, <2>2
<1> HIDE DEF Nth
<1>4. ASSUME NEW i \in 1..Cardinality(Chosen)
      PROVE  /\ Loaded(i) \in Copy /\ Loaded(i).key \in Due /\ Loaded(i).key = Nth(i)
             /\ Loaded(i).attempts = outbox[Loaded(i).key].attempts
  <2>1. Nth(i) \in Key /\ outbox[Nth(i)].attempts \in Nat
    BY <1>1, <1>3 DEF TypeOK
  <2> QED
    BY <1>3, <2>1 DEF Copy
<1> HIDE DEF Loaded
<1>5. list \in Seq(Copy) /\ Len(list) = Cardinality(Chosen)
  BY <1>2, <1>4
<1>6. \A i \in 1..Len(list) : list[i].key \in Due /\ list[i].attempts = outbox[list[i].key].attempts
  BY <1>4, <1>5
<1>7. ASSUME NEW i \in 1..Len(list), NEW j \in 1..Len(list), list[i].key = list[j].key
      PROVE  i = j
  <2>1. i \in 1..Cardinality(Chosen) /\ j \in 1..Cardinality(Chosen) /\ list[i] = Loaded(i) /\ list[j] = Loaded(j)
    BY <1>5
  <2>2. Nth(i) = Nth(j)
    BY <1>4, <1>7, <2>1
  <2>3. i - 1 = j - 1
    BY <1>3, <2>1, <2>2
  <2> QED
    BY <1>2, <2>1, <2>3
<1>8. /\ batch' = [batch EXCEPT ![w] = list] /\ locked' = [locked EXCEPT ![w] = Chosen]
      /\ UNCHANGED <<outbox, reachable, outcome, accepted, unseen>>
  BY DEF SelectBatch, list, Loaded, Nth
<1> HIDE DEF list
<1> QED
  BY <1>1, <1>5, <1>6, <1>7, <1>8

\* What a busy worker is at, and what remains when it is done.
LEMMA AtRow ==
  ASSUME TypeOK, NEW w \in Worker, Busy(w)
  PROVE  /\ Row(w) = batch[w][1] /\ Len(batch[w]) >= 1 /\ Len(batch[w]) \in Nat
         /\ Row(w).key \in Key /\ Row(w).attempts \in Nat
         /\ Tail(batch[w]) \in Seq(Copy) /\ Len(Tail(batch[w])) = Len(batch[w]) - 1
         /\ \A i \in 1..Len(Tail(batch[w])) : Tail(batch[w])[i] = batch[w][i + 1]
<1>1. batch[w] \in Seq(Copy) /\ batch[w] # <<>>
  BY DEF TypeOK, Busy
<1>2. Len(batch[w]) \in Nat /\ Len(batch[w]) >= 1
  BY <1>1, EmptySeq, LenProperties
<1>3. batch[w][1] \in Copy
  BY <1>1, <1>2, ElementOfSeq
<1> QED
  BY <1>1, <1>2, <1>3, HeadTailProperties DEF Row, Copy

Entry == [status : {"ABSENT", "PENDING"} \cup Settled, attempts : Nat, due : BOOLEAN]

LEMMA CommitTypes ==
  ASSUME TypeOK, NEW w \in Worker, CommitRow(w)
  PROVE  TypeOK'
<1>1. Busy(w) /\ outcome[w] \in Settled
  <2>1. outcome[w] \in Outcome /\ outcome[w] # "NONE" /\ Busy(w)
    BY DEF CommitRow, TypeOK
  <2> QED
    BY <2>1 DEF Outcome, Settled
<1>2. PICK k \in Key : k = Row(w).key
  BY <1>1, AtRow
<1> DEFINE n == Row(w).attempts + 1
           new == IF outcome[w] = "FAILED" THEN Failed(outbox[k], Row(w))
                  ELSE [outbox[k] EXCEPT !.status = outcome[w]]
<1>3. outbox' = [outbox EXCEPT ![k] = new]
  BY <1>2 DEF CommitRow
<1>4. outbox[k] \in Entry /\ n \in Nat
  BY <1>1, AtRow DEF TypeOK, Entry
<1>5. new \in Entry
  <2>1. CASE outcome[w] = "FAILED"
    <3>1. PICK s \in {"ABSENT", "PENDING"} \cup Settled : s = IF n >= MaxAttempts THEN "FAILED" ELSE outbox[k].status
      BY <1>4 DEF Entry, Settled
    <3>2. new = [status |-> s, attempts |-> n, due |-> FALSE]
      BY <1>4, <2>1, <3>1 DEF Failed, Entry
    <3> HIDE DEF new, n
    <3> QED
      BY <1>4, <3>2 DEF Entry
  <2>2. CASE outcome[w] # "FAILED"
    BY <1>1, <1>4, <2>2 DEF Entry
  <2> QED
    BY <2>1, <2>2
<1> HIDE DEF new
<1>6. outbox' \in [Key -> Entry]
  BY <1>3, <1>5 DEF TypeOK, Entry
<1>7. batch' \in [Worker -> Seq(Copy)]
  BY <1>1, AtRow DEF CommitRow, TypeOK
<1>8. /\ locked' \in [Worker -> SUBSET Key] /\ outcome' \in [Worker -> Outcome]
      /\ UNCHANGED <<reachable, accepted, unseen>>
  BY DEF CommitRow, TypeOK, Outcome
<1> QED
  BY <1>6, <1>7, <1>8 DEF TypeOK, Entry

LEMMA AttemptTypes ==
  ASSUME TypeOK, NEW w \in Worker, Attempt(w) \/ GiveUp(w) \/ Crash(w)
  PROVE  TypeOK'
<1>1. Busy(w) /\ UNCHANGED <<outbox, reachable>>
  BY DEF Attempt, Skip, Send, FailToSend, GiveUp, Crash, Attempting
<1>2. PICK k \in Key : k = Row(w).key
  BY <1>1, AtRow
<1>3. /\ accepted' \in {accepted, [accepted EXCEPT ![k] = @ + 1]}
      /\ unseen' \in {unseen, [unseen EXCEPT ![k] = @ + 1]}
  BY <1>2 DEF Attempt, Skip, Send, FailToSend, GiveUp, Crash
<1>4. accepted' \in [Key -> Nat] /\ unseen' \in [Key -> Nat]
  <2>1. accepted \in [Key -> Nat] /\ unseen \in [Key -> Nat]
    BY DEF TypeOK
  <2>2. [accepted EXCEPT ![k] = @ + 1] \in [Key -> Nat] /\ [unseen EXCEPT ![k] = @ + 1] \in [Key -> Nat]
    BY <2>1
  <2> QED
    BY <1>3, <2>1, <2>2
<1>5. outcome' \in [Worker -> Outcome]
  <2>1. outcome' = outcome \/ \E o \in Outcome : outcome' = [outcome EXCEPT ![w] = o]
    BY DEF Attempt, Skip, Send, FailToSend, GiveUp, Crash, Outcome
  <2> QED
    BY <2>1 DEF TypeOK
<1>6. batch' \in [Worker -> Seq(Copy)] /\ locked' \in [Worker -> SUBSET Key]
  <2>1. \/ UNCHANGED <<batch, locked>>
        \/ batch' = [batch EXCEPT ![w] = <<>>] /\ locked' = [locked EXCEPT ![w] = {}]
    BY DEF Attempt, Skip, Send, FailToSend, GiveUp, Crash
  <2>2. <<>> \in Seq(Copy) /\ {} \in SUBSET Key
    BY EmptySeq
  <2> QED
    BY <2>1, <2>2 DEF TypeOK
<1> QED
  BY <1>1, <1>4, <1>5, <1>6 DEF TypeOK

LEMMA NextTypes == ASSUME TypeOK, [Next]_vars PROVE TypeOK'
<1>1. CASE UNCHANGED vars
  BY <1>1 DEF vars, TypeOK
<1>2. CASE World
  <2>1. /\ UNCHANGED <<batch, locked, outcome, accepted, unseen>> /\ \A j \in Key : Ages(j)
        /\ outbox' = [j \in Key |-> outbox'[j]] /\ reachable' \in [Key -> BOOLEAN]
    BY <1>2, WorldAges
  <2>2. ASSUME NEW j \in Key PROVE outbox'[j] \in Entry
    <3>1. outbox[j] \in Entry
      BY DEF TypeOK, Entry
    <3> QED
      BY <2>1, <3>1 DEF Ages, Entry
  <2>3. outbox' \in [Key -> Entry]
    BY <2>1, <2>2
  <2> QED
    BY <2>1, <2>3 DEF TypeOK, Entry
<1>3. ASSUME NEW w \in Worker, SelectBatch(w) PROVE TypeOK'
  <2>1. /\ UNCHANGED <<outbox, reachable, outcome, accepted, unseen>>
        /\ Chosen \subseteq Key /\ locked' = [locked EXCEPT ![w] = Chosen]
        /\ \E list \in Seq(Copy) : batch' = [batch EXCEPT ![w] = list]
    BY <1>3, SelectsDue
  <2>2. batch' \in [Worker -> Seq(Copy)]
    BY <2>1 DEF TypeOK
  <2>3. locked' \in [Worker -> SUBSET Key]
    BY <2>1 DEF TypeOK
  <2> QED
    BY <2>1, <2>2, <2>3 DEF TypeOK
<1>4. ASSUME NEW w \in Worker, Attempt(w) \/ GiveUp(w) \/ Crash(w) PROVE TypeOK'
  BY <1>4, AttemptTypes
<1>5. ASSUME NEW w \in Worker, CommitRow(w) PROVE TypeOK'
  BY <1>5, CommitTypes
<1> QED
  BY <1>1, <1>2, <1>3, <1>4, <1>5 DEF Next, World

LEMMA InitTypes == Init => TypeOK
BY DEF Init, TypeOK, Settled, Outcome

\* Whatever the size of the batches, a pass works on copies of rows there are,
\* and writes rows the table can hold.
THEOREM AlwaysTyped == Spec => []TypeOK
<1>1. TypeOK /\ [Next]_vars => TypeOK'
  BY NextTypes
<1> QED
  BY <1>1, InitTypes, PTL DEF Spec

----------------------------------------------------------------------------
(* How often a message is sent.  A pass that sends a row either still has to *)
(* record it, recorded it, or died; one that holds a copy of a row may send  *)
(* it once more.                                                           *)

\* Workers about to record that they sent the message of row k.
Sending(k) == {w \in Worker : Busy(w) /\ Row(w).key = k /\ outcome[w] = "SENT"}

\* Workers whose copy of row k is still to be dealt with.
Behind(k) == {w \in Worker : \E i \in 1..Len(batch[w]) : batch[w][i].key = k} \ Sending(k)

Bit(b) == IF b THEN 1 ELSE 0

CopiesFit(w) ==
  /\ batch[w] = <<>> => outcome[w] = "NONE"
  /\ \A i \in 1..Len(batch[w]) : batch[w][i].attempts < MaxAttempts
  /\ \A i, j \in 1..Len(batch[w]) : batch[w][i].key = batch[w][j].key => i = j

AttemptsFit(k) ==
  /\ outbox[k].status \notin Settled => outbox[k].attempts < MaxAttempts
  /\ outbox[k].attempts <= MaxAttempts

\* Acceptances are those that went unrecorded, those about to be recorded, and
\* those that were; once the row is settled only the copies there are can add one.
SendsFit(k) ==
  /\ accepted[k] >= unseen[k] + Cardinality(Sending(k)) + Bit(outbox[k].status = "SENT")
  /\ outbox[k].status \notin Settled => accepted[k] = unseen[k] + Cardinality(Sending(k))
  /\ outbox[k].status \in Settled => accepted[k] + Cardinality(Behind(k)) <= unseen[k] + Cardinality(Worker)

\* The inductive invariant of the outbox, for batches of any size.
Counted ==
  /\ TypeOK
  /\ \A w \in Worker : CopiesFit(w)
  /\ \A k \in Key : AttemptsFit(k) /\ SendsFit(k)

\* Two sets that differ in w at most.
LEMMA MovesOne ==
  ASSUME NEW S, NEW T, NEW w, IsFiniteSet(S), IsFiniteSet(T), \A v : v # w => (v \in S <=> v \in T)
  PROVE  /\ Cardinality(S) \in Nat /\ Cardinality(T) \in Nat
         /\ Cardinality(T) + Bit(w \in S) = Cardinality(S) + Bit(w \in T)
<1>1. S \ {w} = T \ {w}
  OBVIOUS
<1>2. /\ Cardinality(S \ {w}) = IF w \in S THEN Cardinality(S) - 1 ELSE Cardinality(S)
      /\ Cardinality(T \ {w}) = IF w \in T THEN Cardinality(T) - 1 ELSE Cardinality(T)
  BY FS_RemoveElement
<1>3. Cardinality(S) \in Nat /\ Cardinality(T) \in Nat
  BY FS_CardinalityType
<1> QED
  BY <1>1, <1>2, <1>3 DEF Bit

LEMMA Crews ==
  ASSUME NEW k
  PROVE  /\ IsFiniteSet(Sending(k)) /\ IsFiniteSet(Behind(k))
         /\ Sending(k) \subseteq Worker /\ Behind(k) \subseteq Worker /\ Sending(k) \cap Behind(k) = {}
<1>1. Sending(k) \subseteq Worker /\ Behind(k) \subseteq Worker /\ Sending(k) \cap Behind(k) = {}
  BY DEF Sending, Behind
<1> QED
  BY <1>1, WorkersAssumption, FS_Subset

\* A step of w changes at most whether w is among them.
LEMMA CrewsMove ==
  ASSUME NEW w \in Worker, NEW k, \A v \in Worker \ {w} : batch'[v] = batch[v] /\ outcome'[v] = outcome[v]
  PROVE  /\ \A v : v # w => (v \in Sending(k) <=> v \in Sending(k)')
         /\ \A v : v # w => (v \in Behind(k) <=> v \in Behind(k)')
         /\ IsFiniteSet(Sending(k)') /\ IsFiniteSet(Behind(k)')
         /\ Sending(k)' \subseteq Worker /\ Behind(k)' \subseteq Worker
<1>1. \A v : v # w => (v \in Sending(k) <=> v \in Sending(k)')
  BY DEF Sending, Busy, Row
<1>2. \A v : v # w => (v \in Behind(k) <=> v \in Behind(k)')
  BY <1>1 DEF Behind
<1>3. Sending(k)' \subseteq Worker /\ Behind(k)' \subseteq Worker
  BY DEF Sending, Behind
<1> QED
  BY <1>1, <1>2, <1>3, WorkersAssumption, FS_Subset

\* A step of w that leaves the status of row k keeps the account of it when what
\* w adds to the acceptances is what it takes from the copies.
LEMMA Tallies ==
  ASSUME Counted, NEW w \in Worker, NEW k \in Key,
         \A v \in Worker \ {w} : batch'[v] = batch[v] /\ outcome'[v] = outcome[v],
         accepted'[k] \in Nat, unseen'[k] \in Nat, outbox'[k].status = outbox[k].status,
         accepted'[k] + unseen[k] + Bit(w \in Sending(k)) >= accepted[k] + unseen'[k] + Bit(w \in Sending(k)'),
         outbox[k].status \notin Settled =>
           accepted'[k] + unseen[k] + Bit(w \in Sending(k)) = accepted[k] + unseen'[k] + Bit(w \in Sending(k)'),
         outbox[k].status \in Settled =>
           accepted'[k] + unseen[k] + Bit(w \in Behind(k)') <= accepted[k] + unseen'[k] + Bit(w \in Behind(k))
  PROVE  SendsFit(k)'
<1> DEFINE s == Cardinality(Sending(k))
           t == Cardinality(Sending(k)')
           b == Cardinality(Behind(k))
           c == Cardinality(Behind(k)')
           n == Cardinality(Worker)
           sends == Bit(w \in Sending(k))
           sent == Bit(w \in Sending(k)')
           holds == Bit(w \in Behind(k))
           held == Bit(w \in Behind(k)')
           known == Bit(outbox[k].status = "SENT")
<1>1. /\ s \in Nat /\ t \in Nat /\ t + sends = s + sent
      /\ b \in Nat /\ c \in Nat /\ c + holds = b + held
  BY Crews, CrewsMove, MovesOne
<1>2. /\ accepted[k] >= unseen[k] + s + known
      /\ outbox[k].status \notin Settled => accepted[k] = unseen[k] + s
      /\ outbox[k].status \in Settled => accepted[k] + b <= unseen[k] + n
      /\ accepted[k] \in Nat /\ unseen[k] \in Nat
  BY DEF Counted, SendsFit, TypeOK
<1>3. n \in Nat
  BY WorkersAssumption, FS_CardinalityType
<1>4. sends \in Nat /\ sent \in Nat /\ holds \in Nat /\ held \in Nat /\ known \in Nat
  BY DEF Bit
<1>5. /\ accepted'[k] + unseen[k] + sends >= accepted[k] + unseen'[k] + sent
      /\ outbox[k].status \notin Settled => accepted'[k] + unseen[k] + sends = accepted[k] + unseen'[k] + sent
      /\ outbox[k].status \in Settled => accepted'[k] + unseen[k] + held <= accepted[k] + unseen'[k] + holds
  OBVIOUS
<1> HIDE DEF s, t, b, c, n, sends, sent, holds, held, known
<1>6. /\ accepted'[k] >= unseen'[k] + t + known
      /\ outbox[k].status \notin Settled => accepted'[k] = unseen'[k] + t
      /\ outbox[k].status \in Settled => accepted'[k] + c <= unseen'[k] + n
  BY <1>1, <1>2, <1>3, <1>4, <1>5
<1> QED
  BY <1>6 DEF SendsFit, t, c, n, known, Settled

LEMMA InitCounted == Init => Counted
<1> SUFFICES ASSUME Init PROVE Counted
  OBVIOUS
<1>1. ASSUME NEW w \in Worker PROVE CopiesFit(w)
  BY OutboxAssumption DEF Init, CopiesFit
<1>2. ASSUME NEW k \in Key PROVE AttemptsFit(k) /\ SendsFit(k)
  <2>1. Sending(k) = {} /\ Behind(k) = {}
    BY DEF Init, Sending, Behind, Busy
  <2>2. Cardinality(Sending(k)) = 0 /\ Cardinality(Behind(k)) = 0 /\ Cardinality(Worker) \in Nat
    BY <2>1, WorkersAssumption, FS_EmptySet, FS_CardinalityType
  <2>3. outbox[k].status = "ABSENT" /\ outbox[k].attempts = 0 /\ accepted[k] = 0 /\ unseen[k] = 0
    BY DEF Init
  <2> QED
    BY <2>2, <2>3, OutboxAssumption DEF AttemptsFit, SendsFit, Bit, Settled
<1> QED
  BY <1>1, <1>2, InitTypes DEF Counted

\* What the world does to a row nobody has to record.
LEMMA WorldCounts == ASSUME Counted, World PROVE Counted'
<1>1. TypeOK /\ TypeOK'
  BY NextTypes DEF Counted, World, Next
<1>2. UNCHANGED <<batch, outcome, accepted, unseen>> /\ \A k \in Key : Ages(k)
  BY <1>1, WorldAges
<1>3. \A w \in Worker : CopiesFit(w)'
  BY <1>2 DEF Counted, CopiesFit
<1>4. ASSUME NEW k \in Key PROVE AttemptsFit(k)' /\ SendsFit(k)'
  <2>1. Sending(k)' = Sending(k) /\ Behind(k)' = Behind(k)
    BY <1>2 DEF Sending, Behind, Busy, Row
  <2>2. /\ outbox'[k].attempts = outbox[k].attempts
        /\ outbox'[k].status = "SENT" <=> outbox[k].status = "SENT"
        /\ outbox'[k].status \in Settled <=> outbox[k].status \in Settled
    BY <1>1, <1>2 DEF Ages, TypeOK, Settled
  <2>3. accepted'[k] = accepted[k] /\ unseen'[k] = unseen[k] /\ AttemptsFit(k) /\ SendsFit(k)
    BY <1>2 DEF Counted
  <2>4. Bit(outbox'[k].status = "SENT") = Bit(outbox[k].status = "SENT")
    BY <2>2 DEF Bit
  <2> QED
    BY <2>1, <2>2, <2>3, <2>4 DEF AttemptsFit, SendsFit
<1> QED
  BY <1>1, <1>3, <1>4 DEF Counted

\* Selecting hands w copies of rows that are not settled, as they are.
LEMMA SelectCounts == ASSUME Counted, NEW w \in Worker, SelectBatch(w) PROVE Counted'
<1>1. TypeOK /\ TypeOK'
  BY NextTypes DEF Counted, Next
<1>2. UNCHANGED <<outbox, outcome, accepted, unseen>>
  BY DEF SelectBatch
<1>3. PICK list \in Seq(Copy) :
         /\ batch' = [batch EXCEPT ![w] = list]
         /\ \A i \in 1..Len(list) : list[i].key \in Due /\ list[i].attempts = outbox[list[i].key].attempts
         /\ \A i, j \in 1..Len(list) : list[i].key = list[j].key => i = j
  BY <1>1, SelectsDue
<1>4. batch'[w] = list /\ \A v \in Worker \ {w} : batch'[v] = batch[v] /\ outcome'[v] = outcome[v]
  BY <1>1, <1>2, <1>3 DEF TypeOK
<1>5. batch[w] = <<>> /\ outcome[w] = "NONE"
  BY DEF SelectBatch, Counted, CopiesFit
<1>6. CopiesFit(w)'
  <2>1. ASSUME NEW i \in 1..Len(list) PROVE list[i].attempts < MaxAttempts
    <3>1. list[i].key \in Key /\ outbox[list[i].key].status = "PENDING"
      BY <1>3 DEF Due
    <3> QED
      BY <1>3, <3>1 DEF Counted, AttemptsFit, Settled
  <2> QED
    BY <1>2, <1>3, <1>4, <1>5, <2>1 DEF CopiesFit
<1>7. ASSUME NEW v \in Worker \ {w} PROVE CopiesFit(v)'
  BY <1>4 DEF Counted, CopiesFit
<1>8. ASSUME NEW k \in Key PROVE SendsFit(k)'
  <2>1. w \notin Sending(k) /\ w \notin Sending(k)'
    BY <1>2, <1>5 DEF Sending
  <2>2. outbox[k].status \in Settled => w \notin Behind(k)'
    <3>1. ASSUME NEW i \in 1..Len(list), list[i].key = k PROVE outbox[k].status = "PENDING"
      BY <1>3, <3>1 DEF Due
    <3> QED
      BY <1>4, <3>1 DEF Behind, Settled
  <2>3. /\ accepted'[k] = accepted[k] /\ unseen'[k] = unseen[k] /\ accepted[k] \in Nat /\ unseen[k] \in Nat
        /\ outbox'[k].status = outbox[k].status
    BY <1>1, <1>2 DEF TypeOK
  <2>4. Bit(w \in Sending(k)) = 0 /\ Bit(w \in Sending(k)') = 0
    BY <2>1 DEF Bit
  <2>5. outbox[k].status \in Settled => Bit(w \in Behind(k)') = 0
    BY <2>2 DEF Bit
  <2>6. Bit(w \in Behind(k)) \in Nat
    BY DEF Bit
  <2> DEFINE sends == Bit(w \in Sending(k))
             sent == Bit(w \in Sending(k)')
             holds == Bit(w \in Behind(k))
             held == Bit(w \in Behind(k)')
  <2>7. sends = 0 /\ sent = 0 /\ holds \in Nat /\ (outbox[k].status \in Settled => held = 0)
    BY <2>4, <2>5, <2>6
  <2> HIDE DEF sends, sent, holds, held
  <2>8. /\ accepted'[k] + unseen[k] + sends >= accepted[k] + unseen'[k] + sent
        /\ outbox[k].status \notin Settled => accepted'[k] + unseen[k] + sends = accepted[k] + unseen'[k] + sent
        /\ outbox[k].status \in Settled => accepted'[k] + unseen[k] + held <= accepted[k] + unseen'[k] + holds
    BY <2>3, <2>7
  <2> QED
    BY <1>4, <2>3, <2>8, Tallies DEF sends, sent, holds, held
<1>9. \A k \in Key : AttemptsFit(k)'
  BY <1>2 DEF Counted, AttemptsFit
<1> QED
  BY <1>1, <1>6, <1>7, <1>8, <1>9 DEF Counted

\* Which rows a busy worker is about to record, and has still to deal with.
LEMMA Engaged ==
  ASSUME TypeOK, NEW w \in Worker, Busy(w)
  PROVE  /\ \A k \in Key : w \in Sending(k) <=> k = Row(w).key /\ outcome[w] = "SENT"
         /\ w \in Behind(Row(w).key) <=> outcome[w] # "SENT"
<1>1. \A k \in Key : w \in Sending(k) <=> k = Row(w).key /\ outcome[w] = "SENT"
  BY DEF Sending
<1>2. batch[w][1].key = Row(w).key /\ 1 \in 1..Len(batch[w]) /\ Row(w).key \in Key
  BY AtRow
<1> QED
  BY <1>1, <1>2 DEF Behind

\* Steps that write no row: what they say of the acceptances of the row w is at.
Balanced(w, k) ==
  /\ accepted'[k] + unseen[k] + Bit(w \in Sending(k)) = accepted[k] + unseen'[k] + Bit(w \in Sending(k)')
  /\ accepted'[k] + unseen[k] + Bit(w \in Behind(k)') <= accepted[k] + unseen'[k] + Bit(w \in Behind(k))

\* At the row itself w trades a copy for an acceptance, or gives it up.
LEMMA AttemptBalances ==
  ASSUME Counted, NEW w \in Worker, Attempt(w) \/ GiveUp(w) \/ Crash(w), NEW k \in Key, k = Row(w).key
  PROVE  Balanced(w, k)
<1>1. TypeOK /\ TypeOK' /\ Busy(w)
  BY NextTypes DEF Counted, Next, Attempt, Skip, Send, FailToSend, GiveUp, Crash, Attempting
<1>2. k = Row(w).key
  OBVIOUS
<1>3. (w \in Sending(k) <=> outcome[w] = "SENT") /\ (w \in Behind(k) <=> outcome[w] # "SENT")
  BY <1>1, <1>2, Engaged
<1>4. accepted[k] \in Nat /\ unseen[k] \in Nat
  BY <1>1 DEF TypeOK
<1> DEFINE sends == Bit(w \in Sending(k))
           sent == Bit(w \in Sending(k)')
           holds == Bit(w \in Behind(k))
           held == Bit(w \in Behind(k)')
           Evens == /\ accepted'[k] + unseen[k] + sends = accepted[k] + unseen'[k] + sent
                    /\ accepted'[k] + unseen[k] + held <= accepted[k] + unseen'[k] + holds
<1>5. sends = Bit(outcome[w] = "SENT") /\ holds = Bit(outcome[w] # "SENT")
  <2>1. (w \in Sending(k)) = (outcome[w] = "SENT") /\ (w \in Behind(k)) = (outcome[w] # "SENT")
    <3>1. (w \in Sending(k)) \in BOOLEAN /\ (w \in Behind(k)) \in BOOLEAN
      OBVIOUS
    <3> QED
      BY <1>3, <3>1
  <2> QED
    BY <2>1
<1>6. ASSUME batch' = batch PROVE Evens
  <2>1. Busy(w)' /\ Row(w)' = Row(w)
    BY <1>1, <1>6 DEF Busy, Row
  <2>2. (w \in Sending(k)' <=> outcome'[w] = "SENT") /\ (w \in Behind(k)' <=> outcome'[w] # "SENT")
    <3>1. w \in Sending(k)' <=> outcome'[w] = "SENT"
      BY <1>2, <2>1 DEF Sending
    <3>2. batch'[w][1].key = k /\ 1 \in 1..Len(batch'[w])
      BY <1>1, <1>2, <1>6, AtRow
    <3> QED
      BY <3>1, <3>2 DEF Behind
  <2>3. sent = Bit(outcome'[w] = "SENT") /\ held = Bit(outcome'[w] # "SENT")
    BY <2>2 DEF Bit
  <2> HIDE DEF sends, sent, holds, held
  <2>4. CASE Skip(w)
    <3>1. outcome[w] = "NONE" /\ outcome'[w] = "SKIPPED" /\ accepted' = accepted /\ unseen' = unseen
      BY <1>1, <2>4 DEF Skip, Attempting, TypeOK
    <3>2. sends = 0 /\ holds = 1 /\ sent = 0 /\ held = 1
      BY <1>5, <2>3, <3>1 DEF Bit
    <3> QED
      BY <1>4, <3>1, <3>2
  <2>5. CASE Send(w)
    <3>1. outcome[w] = "NONE" /\ outcome'[w] = "SENT" /\ accepted'[k] = accepted[k] + 1 /\ unseen' = unseen
      BY <1>1, <1>2, <2>5 DEF Send, Attempting, TypeOK
    <3>2. sends = 0 /\ holds = 1 /\ sent = 1 /\ held = 0
      BY <1>5, <2>3, <3>1 DEF Bit
    <3> QED
      BY <1>4, <3>1, <3>2
  <2>6. CASE \E taken \in BOOLEAN : FailToSend(w, taken)
    <3>1. outcome[w] = "NONE" /\ outcome'[w] = "FAILED"
      BY <1>1, <2>6 DEF FailToSend, Attempting, TypeOK
    <3>2. \/ accepted' = accepted /\ unseen' = unseen
          \/ accepted'[k] = accepted[k] + 1 /\ unseen'[k] = unseen[k] + 1
      BY <1>1, <1>2, <2>6 DEF FailToSend, TypeOK
    <3>3. sends = 0 /\ holds = 1 /\ sent = 0 /\ held = 1
      BY <1>5, <2>3, <3>1 DEF Bit
    <3> QED
      BY <1>4, <3>2, <3>3
  <2>7. CASE GiveUp(w) \/ Crash(w)
    <3>1. batch'[w] = <<>> /\ batch[w] # <<>>
      BY <1>1, <2>7 DEF GiveUp, Crash, TypeOK, Busy
    <3> QED
      BY <1>6, <3>1
  <2> QED
    BY <2>4, <2>5, <2>6, <2>7 DEF Attempt
<1>7. ASSUME batch'[w] = <<>> PROVE Evens
  <2>1. w \notin Sending(k)' /\ w \notin Behind(k)'
    BY <1>7 DEF Sending, Behind, Busy
  <2>2. sent = 0 /\ held = 0
    BY <2>1 DEF Bit
  <2> HIDE DEF sends, sent, holds, held
  <2>3. CASE GiveUp(w)
    <3>1. outcome[w] = "NONE" /\ accepted' = accepted /\ unseen' = unseen
      BY <2>3 DEF GiveUp, Attempting
    <3>2. sends = 0 /\ holds = 1
      BY <1>5, <3>1 DEF Bit
    <3> QED
      BY <1>4, <2>2, <3>1, <3>2
  <2>4. CASE Crash(w)
    <3>1. accepted' = accepted /\ unseen'[k] = unseen[k] + Bit(outcome[w] = "SENT")
      BY <1>1, <1>2, <1>4, <2>4 DEF Crash, TypeOK, Bit
    <3>2. sends \in 0..1 /\ holds \in 0..1 /\ unseen'[k] = unseen[k] + sends
      BY <1>5, <3>1 DEF Bit
    <3> QED
      BY <1>4, <2>2, <3>1, <3>2
  <2>5. CASE Attempt(w)
    <3>1. batch' = batch
      BY <2>5 DEF Attempt, Skip, Send, FailToSend
    <3> QED
      BY <1>1, <1>7, <3>1 DEF Busy
  <2> QED
    BY <2>3, <2>4, <2>5
<1>8. batch' = batch \/ batch'[w] = <<>>
  BY <1>1 DEF Attempt, Skip, Send, FailToSend, GiveUp, Crash, TypeOK
<1>9. Evens
  BY <1>6, <1>7, <1>8
<1> QED
  BY <1>9 DEF Balanced

\* Of the other rows w may at most give up its copy.
LEMMA OthersBalance ==
  ASSUME Counted, NEW w \in Worker, Busy(w), NEW k \in Key, k # Row(w).key,
         accepted'[k] = accepted[k], unseen'[k] = unseen[k],
         w \notin Sending(k)', w \in Behind(k)' => w \in Behind(k)
  PROVE  Balanced(w, k)
<1>1. w \notin Sending(k)
  BY Engaged DEF Counted
<1>2. accepted[k] \in Nat /\ unseen[k] \in Nat
  BY DEF Counted, TypeOK
<1> QED
  BY <1>1, <1>2 DEF Balanced, Bit

LEMMA Settles ==
  ASSUME Counted, TypeOK', NEW w \in Worker, NEW k \in Key, Balanced(w, k), outbox'[k].status = outbox[k].status,
         \A v \in Worker \ {w} : batch'[v] = batch[v] /\ outcome'[v] = outcome[v]
  PROVE  SendsFit(k)'
<1> DEFINE sends == Bit(w \in Sending(k))
           sent == Bit(w \in Sending(k)')
<1>1. /\ accepted[k] \in Nat /\ unseen[k] \in Nat /\ accepted'[k] \in Nat /\ unseen'[k] \in Nat
      /\ sends \in Nat /\ sent \in Nat
  BY DEF Counted, TypeOK, Bit
<1>2. /\ accepted'[k] + unseen[k] + sends = accepted[k] + unseen'[k] + sent
      /\ accepted'[k] + unseen[k] + Bit(w \in Behind(k)') <= accepted[k] + unseen'[k] + Bit(w \in Behind(k))
  BY DEF Balanced
<1> HIDE DEF sends, sent
<1>3. accepted'[k] + unseen[k] + sends >= accepted[k] + unseen'[k] + sent
  BY <1>1, <1>2
<1> QED
  BY <1>1, <1>2, <1>3, Tallies DEF sends, sent

LEMMA AttemptCounts ==
  ASSUME Counted, NEW w \in Worker, Attempt(w) \/ GiveUp(w) \/ Crash(w)
  PROVE  Counted'
<1>1. TypeOK /\ TypeOK' /\ Busy(w)
  BY NextTypes DEF Counted, Next, Attempt, Skip, Send, FailToSend, GiveUp, Crash, Attempting
<1>2. PICK k \in Key : k = Row(w).key
  BY <1>1, AtRow
<1>3. /\ outbox' = outbox
      /\ \A v \in Worker \ {w} : batch'[v] = batch[v] /\ outcome'[v] = outcome[v]
      /\ \A j \in Key \ {k} : accepted'[j] = accepted[j] /\ unseen'[j] = unseen[j]
  BY <1>1, <1>2 DEF Attempt, Skip, Send, FailToSend, GiveUp, Crash, TypeOK
<1>4. batch' = batch \/ (batch'[w] = <<>> /\ outcome'[w] = "NONE")
  BY <1>1 DEF Attempt, Skip, Send, FailToSend, GiveUp, Crash, Attempting, TypeOK
<1>5. CopiesFit(w)'
  BY <1>1, <1>4 DEF Counted, CopiesFit, Busy
<1>6. ASSUME NEW v \in Worker \ {w} PROVE CopiesFit(v)'
  BY <1>3 DEF Counted, CopiesFit
<1>7. ASSUME NEW j \in Key PROVE Balanced(w, j)
  <2>1. CASE j = k
    BY <1>2, <2>1, AttemptBalances
  <2>2. CASE j # k
    <3>1. w \notin Sending(j)'
      BY <1>1, <1>2, <1>4, <2>2 DEF Sending, Busy, Row
    <3>2. w \in Behind(j)' => w \in Behind(j)
      <4>1. w \notin Sending(j)
        BY <1>1, <1>2, <2>2, Engaged
      <4>2. w \in Behind(j)' => batch' = batch
        BY <1>4 DEF Behind
      <4> QED
        BY <4>1, <4>2 DEF Behind
    <3> QED
      BY <1>1, <1>2, <1>3, <2>2, <3>1, <3>2, OthersBalance
  <2> QED
    BY <2>1, <2>2
<1>8. \A j \in Key : SendsFit(j)' /\ AttemptsFit(j)'
  BY <1>1, <1>3, <1>7, Settles DEF Counted, AttemptsFit
<1> QED
  BY <1>1, <1>5, <1>6, <1>8 DEF Counted

\* A commit deals with the first copy of w, and with no other.
LEMMA CommitEngages ==
  ASSUME Counted, NEW w \in Worker, CommitRow(w), NEW k \in Key, k = Row(w).key
  PROVE  /\ CopiesFit(w)' /\ outcome'[w] = "NONE"
         /\ \A j \in Key : w \notin Sending(j)' /\ (w \in Behind(j)' => w \in Behind(j))
         /\ w \notin Behind(k)'
<1>1. TypeOK /\ Busy(w) /\ CopiesFit(w)
  BY DEF Counted, CommitRow
<1>2. batch'[w] = Tail(batch[w]) /\ outcome'[w] = "NONE"
  BY <1>1 DEF CommitRow, TypeOK
<1>3. /\ Len(batch[w]) \in Nat /\ Len(batch'[w]) = Len(batch[w]) - 1 /\ batch[w][1].key = k
      /\ \A i \in 1..Len(batch'[w]) : batch'[w][i] = batch[w][i + 1] /\ i + 1 \in 1..Len(batch[w])
  BY <1>1, <1>2, AtRow
<1>4. 1 \in 1..Len(batch[w])
  BY <1>1, AtRow
<1>5. \A i \in 1..Len(batch'[w]) : batch'[w][i].key # k
  <2>1. ASSUME NEW i \in 1..Len(batch'[w]), batch'[w][i].key = k PROVE FALSE
    <3>1. i + 1 = 1
      BY <1>1, <1>3, <1>4, <2>1 DEF CopiesFit
    <3>2. i >= 1 /\ i \in Int
      BY <1>3
    <3> QED
      BY <3>1, <3>2
  <2> QED
    BY <2>1
<1>6. \A j : w \notin Sending(j)'
  BY <1>2 DEF Sending
<1>7. ASSUME NEW j \in Key, w \in Behind(j)' PROVE w \in Behind(j)
  <2>1. PICK i \in 1..Len(batch'[w]) : batch'[w][i].key = j
    BY <1>7 DEF Behind
  <2>2. batch[w][i + 1].key = j /\ i + 1 \in 1..Len(batch[w]) /\ j # k
    BY <1>3, <1>5, <2>1
  <2>3. w \notin Sending(j)
    BY <1>1, <2>2, Engaged
  <2> QED
    BY <2>2, <2>3 DEF Behind
<1>8. w \notin Behind(k)'
  BY <1>5 DEF Behind
<1>9. CopiesFit(w)'
  <2>1. \A i \in 1..Len(batch'[w]) : batch'[w][i].attempts < MaxAttempts
    BY <1>1, <1>3 DEF CopiesFit
  <2>2. ASSUME NEW i \in 1..Len(batch'[w]), NEW j \in 1..Len(batch'[w]), batch'[w][i].key = batch'[w][j].key
        PROVE  i = j
    <3>1. i + 1 \in 1..Len(batch[w]) /\ j + 1 \in 1..Len(batch[w]) /\ batch[w][i + 1].key = batch[w][j + 1].key
      BY <1>3, <2>2
    <3>2. i + 1 = j + 1
      BY <1>1, <3>1 DEF CopiesFit
    <3> QED
      BY <1>3, <3>2
  <2> QED
    BY <1>2, <2>1, <2>2 DEF CopiesFit
<1> QED
  BY <1>2, <1>6, <1>7, <1>8, <1>9

\* What a commit makes of the row.
LEMMA CommitWrites ==
  ASSUME Counted, NEW w \in Worker, CommitRow(w), NEW k \in Key, k = Row(w).key
  PROVE  /\ outcome[w] \in Settled
         /\ AttemptsFit(k)'
         /\ outbox[k].status \in Settled => outbox'[k].status \in Settled
         /\ outbox'[k].status = "SENT" => outcome[w] = "SENT" \/ outbox[k].status = "SENT"
         /\ outcome[w] # "FAILED" => outbox'[k].status = outcome[w]
         /\ outbox'[k].status \notin Settled => outcome[w] = "FAILED"
<1>1. TypeOK /\ Busy(w) /\ CopiesFit(w) /\ AttemptsFit(k)
  BY DEF Counted, CommitRow
<1>2. outcome[w] \in Settled
  <2>1. outcome[w] \in Outcome /\ outcome[w] # "NONE"
    BY <1>1 DEF CommitRow, TypeOK
  <2> QED
    BY <2>1 DEF Outcome, Settled
<1> DEFINE n == Row(w).attempts + 1
<1>3. n \in Nat /\ n <= MaxAttempts
  <2>1. Row(w).attempts \in Nat /\ Row(w) = batch[w][1] /\ 1 \in 1..Len(batch[w])
    BY <1>1, AtRow
  <2>2. Row(w).attempts < MaxAttempts
    BY <1>1, <2>1 DEF CopiesFit
  <2> QED
    BY <2>1, <2>2, OutboxAssumption
<1>4. outbox[k] \in Entry
  BY <1>1 DEF TypeOK, Entry
<1>5. CASE outcome[w] = "FAILED"
  <2>1. outbox'[k] = Failed(outbox[k], Row(w))
    BY <1>1, <1>5 DEF CommitRow, TypeOK
  <2>2. /\ outbox'[k].attempts = n
        /\ outbox'[k].status = IF n >= MaxAttempts THEN "FAILED" ELSE outbox[k].status
    <3>1. PICK s : s = IF n >= MaxAttempts THEN "FAILED" ELSE outbox[k].status
      OBVIOUS
    <3>2. outbox'[k] = [[[outbox[k] EXCEPT !.attempts = n] EXCEPT !.due = FALSE] EXCEPT !.status = s]
      BY <1>4, <2>1, <3>1 DEF Failed, Entry
    <3> HIDE DEF n
    <3> QED
      BY <1>4, <3>1, <3>2 DEF Entry
  <2> HIDE DEF n
  <2> QED
    BY <1>2, <1>3, <1>5, <2>2, OutboxAssumption DEF AttemptsFit, Settled
<1>6. CASE outcome[w] # "FAILED"
  <2>1. outbox'[k].status = outcome[w] /\ outbox'[k].attempts = outbox[k].attempts
    BY <1>1, <1>4, <1>6 DEF CommitRow, TypeOK, Entry
  <2> QED
    BY <1>1, <1>2, <1>6, <2>1 DEF AttemptsFit, Settled
<1> QED
  BY <1>5, <1>6

\* The worker whose copy is dealt with no longer counts.
LEMMA CommitSettles ==
  ASSUME Counted, NEW w \in Worker, CommitRow(w), NEW k \in Key, k = Row(w).key
  PROVE  SendsFit(k)'
<1>1. TypeOK /\ Busy(w) /\ SendsFit(k)
  BY DEF Counted, CommitRow
<1>2. /\ \A v \in Worker \ {w} : batch'[v] = batch[v] /\ outcome'[v] = outcome[v]
      /\ UNCHANGED <<accepted, unseen>>
  BY <1>1 DEF CommitRow, TypeOK
<1>3. /\ w \notin Sending(k)' /\ w \notin Behind(k)'
      /\ w \in Sending(k) <=> outcome[w] = "SENT"
      /\ w \in Behind(k) <=> outcome[w] # "SENT"
  BY <1>1, CommitEngages, Engaged
<1>4. /\ outcome[w] \in Settled
      /\ outbox[k].status \in Settled => outbox'[k].status \in Settled
      /\ outbox'[k].status = "SENT" => outcome[w] = "SENT" \/ outbox[k].status = "SENT"
      /\ outbox'[k].status \notin Settled => outcome[w] = "FAILED"
  BY CommitWrites
<1> DEFINE s == Cardinality(Sending(k))
           t == Cardinality(Sending(k)')
           b == Cardinality(Behind(k))
           c == Cardinality(Behind(k)')
           n == Cardinality(Worker)
           sends == Bit(w \in Sending(k))
           holds == Bit(w \in Behind(k))
           known == Bit(outbox[k].status = "SENT")
           knows == Bit(outbox'[k].status = "SENT")
<1>5. /\ s \in Nat /\ t \in Nat /\ b \in Nat /\ c \in Nat /\ n \in Nat
      /\ t + sends = s /\ c + holds = b
  <2>1. /\ s \in Nat /\ t \in Nat /\ t + sends = s + Bit(w \in Sending(k)')
        /\ b \in Nat /\ c \in Nat /\ c + holds = b + Bit(w \in Behind(k)')
    BY <1>2, Crews, CrewsMove, MovesOne
  <2>2. Bit(w \in Sending(k)') = 0 /\ Bit(w \in Behind(k)') = 0
    BY <1>3 DEF Bit
  <2>3. n \in Nat
    BY WorkersAssumption, FS_CardinalityType
  <2> HIDE DEF s, t, b, c, n, sends, holds
  <2> QED
    BY <2>1, <2>2, <2>3
<1>6. s + c <= n
  <2>1. /\ Sending(k) \cap Behind(k)' = {} /\ IsFiniteSet(Sending(k)) /\ IsFiniteSet(Behind(k)')
        /\ Sending(k) \cup Behind(k)' \subseteq Worker
    <3>1. \A v : v # w => (v \in Behind(k) <=> v \in Behind(k)')
      BY <1>2, CrewsMove
    <3>2. Sending(k) \cap Behind(k) = {} /\ Sending(k) \subseteq Worker /\ IsFiniteSet(Sending(k))
      BY Crews
    <3>3. Behind(k)' \subseteq Worker /\ IsFiniteSet(Behind(k)')
      BY <1>2, CrewsMove
    <3> QED
      BY <1>3, <3>1, <3>2, <3>3
  <2> DEFINE X == Sending(k)
             Y == Behind(k)'
  <2>2. X \cap Y = {} /\ IsFiniteSet(X) /\ IsFiniteSet(Y) /\ X \cup Y \subseteq Worker
    BY <2>1
  <2>3. s = Cardinality(X) /\ c = Cardinality(Y)
    OBVIOUS
  <2> HIDE DEF X, Y, s, c
  <2>4. Cardinality(X \cup Y) = Cardinality(X) + Cardinality(Y) - Cardinality(X \cap Y)
    BY <2>2, FS_Union
  <2>5. Cardinality(X \cap Y) = 0
    BY <2>2, FS_EmptySet
  <2>6. Cardinality(X \cup Y) <= n
    BY <2>2, WorkersAssumption, FS_Subset
  <2> QED
    BY <1>5, <2>3, <2>4, <2>5, <2>6
<1>7. /\ accepted[k] >= unseen[k] + s + known
      /\ outbox[k].status \notin Settled => accepted[k] = unseen[k] + s
      /\ outbox[k].status \in Settled => accepted[k] + b <= unseen[k] + n
      /\ accepted[k] \in Nat /\ unseen[k] \in Nat
  BY <1>1 DEF SendsFit, TypeOK
<1>8. /\ sends = 1 \/ (holds = 1 /\ sends = 0)
      /\ holds \in Nat /\ known \in Nat /\ knows \in 0..1
      /\ knows > 0 => sends = 1 \/ known = 1
      /\ outbox'[k].status \notin Settled => sends = 0
  <2>1. sends = IF outcome[w] = "SENT" THEN 1 ELSE 0
    BY <1>3 DEF Bit
  <2>2. holds = IF outcome[w] = "SENT" THEN 0 ELSE 1
    BY <1>3 DEF Bit
  <2>3. known = IF outbox[k].status = "SENT" THEN 1 ELSE 0
    BY DEF Bit
  <2>4. knows = IF outbox'[k].status = "SENT" THEN 1 ELSE 0
    BY DEF Bit
  <2> HIDE DEF sends, holds, known, knows
  <2>5. /\ sends = 1 \/ (holds = 1 /\ sends = 0)
        /\ holds \in Nat /\ known \in Nat /\ knows \in 0..1
    BY <2>1, <2>2, <2>3, <2>4
  <2>6. knows > 0 => sends = 1 \/ known = 1
    BY <1>4, <2>1, <2>3, <2>4
  <2>7. outbox'[k].status \notin Settled => sends = 0
    BY <1>4, <2>1
  <2> QED
    BY <2>5, <2>6, <2>7
<1> HIDE DEF s, t, b, c, n, sends, holds, known, knows
<1>9. accepted[k] >= unseen[k] + t + knows
  BY <1>5, <1>7, <1>8
<1>10. ASSUME outbox'[k].status \notin Settled PROVE accepted[k] = unseen[k] + t
  BY <1>4, <1>5, <1>7, <1>8, <1>10
<1>11. accepted[k] + c <= unseen[k] + n
  <2>1. CASE outbox[k].status \in Settled
    BY <1>5, <1>7, <1>8, <2>1
  <2>2. CASE outbox[k].status \notin Settled
    BY <1>5, <1>6, <1>7, <2>2
  <2> QED
    BY <2>1, <2>2
<1> QED
  BY <1>2, <1>9, <1>10, <1>11 DEF SendsFit, t, c, n, knows, Settled

LEMMA CommitCounts == ASSUME Counted, NEW w \in Worker, CommitRow(w) PROVE Counted'
<1>1. TypeOK /\ TypeOK' /\ Busy(w)
  BY NextTypes DEF Counted, Next, CommitRow
<1>2. PICK k \in Key : k = Row(w).key
  BY <1>1, AtRow
<1>3. /\ \A v \in Worker \ {w} : batch'[v] = batch[v] /\ outcome'[v] = outcome[v]
      /\ UNCHANGED <<accepted, unseen>>
      /\ \A j \in Key \ {k} : outbox'[j] = outbox[j]
  BY <1>1, <1>2 DEF CommitRow, TypeOK
<1>4. /\ CopiesFit(w)'
      /\ \A j \in Key : w \notin Sending(j)' /\ (w \in Behind(j)' => w \in Behind(j))
  BY <1>2, CommitEngages
<1>5. ASSUME NEW v \in Worker \ {w} PROVE CopiesFit(v)'
  BY <1>3 DEF Counted, CopiesFit
<1>6. ASSUME NEW j \in Key \ {k} PROVE AttemptsFit(j)' /\ SendsFit(j)'
  <2>1. Balanced(w, j)
    BY <1>1, <1>2, <1>3, <1>4, OthersBalance
  <2>2. AttemptsFit(j)'
    BY <1>3 DEF Counted, AttemptsFit
  <2> QED
    BY <1>1, <1>3, <2>1, <2>2, Settles
<1>7. AttemptsFit(k)' /\ SendsFit(k)'
  BY <1>2, CommitWrites, CommitSettles
<1> QED
  BY <1>1, <1>4, <1>5, <1>6, <1>7 DEF Counted

LEMMA NextCounts == ASSUME Counted, [Next]_vars PROVE Counted'
<1>1. CASE UNCHANGED vars
  BY <1>1 DEF vars, Counted, TypeOK, CopiesFit, AttemptsFit, SendsFit, Sending, Behind, Busy, Row
<1>2. CASE World
  BY <1>2, WorldCounts
<1>3. ASSUME NEW w \in Worker, SelectBatch(w) \/ Attempt(w) \/ GiveUp(w) \/ CommitRow(w) \/ Crash(w)
      PROVE  Counted'
  BY <1>3, SelectCounts, AttemptCounts, CommitCounts
<1> QED
  BY <1>1, <1>2, <1>3 DEF Next, World

\* Batches of any size, any number of workers that overlap and crash as they
\* like: every acceptance of a message was recorded, is about to be, or went
\* unrecorded, and no more copies of a settled row are left than may add to them.
THEOREM AlwaysCounted == Spec => []Counted
<1>1. Counted /\ [Next]_vars => Counted'
  BY NextCounts
<1> QED
  BY <1>1, InitCounted, PTL DEF Spec

LEMMA CountedMeans == ASSUME Counted PROVE SentWasAccepted /\ OneCopyPerWorker /\ RetriesBounded
<1> SUFFICES ASSUME NEW k \in Key
             PROVE  /\ outbox[k].status = "SENT" => accepted[k] > unseen[k]
                    /\ accepted[k] <= Cardinality(Worker) + unseen[k]
                    /\ outbox[k].status = "PENDING" => outbox[k].attempts < MaxAttempts
                    /\ outbox[k].attempts <= MaxAttempts
  BY DEF SentWasAccepted, OneCopyPerWorker, RetriesBounded
<1> DEFINE s == Cardinality(Sending(k))
           b == Cardinality(Behind(k))
           n == Cardinality(Worker)
           known == Bit(outbox[k].status = "SENT")
<1>1. /\ accepted[k] >= unseen[k] + s + known
      /\ outbox[k].status \notin Settled => accepted[k] = unseen[k] + s
      /\ outbox[k].status \in Settled => accepted[k] + b <= unseen[k] + n
      /\ accepted[k] \in Nat /\ unseen[k] \in Nat /\ AttemptsFit(k)
  BY DEF Counted, SendsFit, TypeOK
<1>2. s \in Nat /\ b \in Nat /\ n \in Nat /\ s <= n
  BY Crews, WorkersAssumption, FS_CardinalityType, FS_Subset
<1>3. known = IF outbox[k].status = "SENT" THEN 1 ELSE 0
  BY DEF Bit
<1> HIDE DEF s, b, n, known
<1>4. accepted[k] <= n + unseen[k]
  BY <1>1, <1>2
<1>5. outbox[k].status = "SENT" => accepted[k] > unseen[k]
  BY <1>1, <1>2, <1>3
<1> QED
  BY <1>1, <1>4, <1>5 DEF AttemptsFit, n, Settled

\* A row says SENT only of a message the provider did accept, also when passes
\* overlap and overwrite each other's outcome.
THEOREM SentIsAccepted == Spec => []SentWasAccepted
BY AlwaysCounted, CountedMeans, PTL

\* Overlapping passes send a message once for every worker at most, lost
\* acceptances aside: retries add nothing to that.
THEOREM CopiesAreBounded == Spec => []OneCopyPerWorker
BY AlwaysCounted, CountedMeans, PTL

\* No row is retried beyond the last attempt allowed, whatever copies say.
THEOREM RetriesAreBounded == Spec => []RetriesBounded
BY AlwaysCounted, CountedMeans, PTL

----------------------------------------------------------------------------
(* The outbox of Notices: rows are staged in the order of their keys, and   *)
(* passes only touch what was staged.                                      *)

InUse == Len(pushed)

Staged ==
  /\ TypeOK
  /\ pushed \in Seq(Range(pushed)) /\ InUse <= Rows
  /\ \A k \in Key : k > InUse => outbox[k].status = "ABSENT" /\ accepted[k] = 0
  /\ \A w \in Worker : \A i \in 1..Len(batch[w]) : batch[w][i].key <= InUse

\* A set that is finite has an enumeration.
LEMMA Enumerates ==
  ASSUME NEW S, IsFiniteSet(S)
  PROVE  /\ SetToSeq(S) \in Seq(S) /\ Len(SetToSeq(S)) = Cardinality(S)
         /\ IsInjective(SetToSeq(S)) /\ Range(SetToSeq(S)) = S
         /\ Cardinality(S) \in Nat
<1> DEFINE n == Cardinality(S)
           s == SetToSeq(S)
<1>1. n \in Nat /\ ExistsBijection(1..n, S)
  BY FS_CardinalityType
<1>2. PICK f \in Bijection(1..n, S) : TRUE
  BY <1>1 DEF ExistsBijection
<1>3. f \in [1..n -> S] /\ IsInjective(f)
  BY <1>2 DEF Bijection, Injection
<1>4. s \in [1..n -> S] /\ IsInjective(s)
  BY <1>3 DEF SetToSeq
<1> HIDE DEF s
<1>5. s \in Seq(S) /\ Len(s) = n
  BY <1>1, <1>4
<1>6. s \in Injection(1..n, S)
  BY <1>4 DEF Injection
<1>7. IsFiniteSet(1..n) /\ Cardinality(1..n) = n
  BY <1>1, FS_Interval
<1>8. s \in Surjection(1..n, S)
  BY <1>6, <1>7, FS_Injection
<1>9. Range(s) = S
  BY <1>4, <1>8 DEF Range, Surjection
<1> QED
  BY <1>1, <1>4, <1>5, <1>9 DEF s

\* What follows what, and what is in both.
LEMMA Concatenates ==
  ASSUME NEW s, s \in Seq(Range(s)), NEW T, NEW t \in Seq(T), Range(t) = T
  PROVE  /\ s \o t \in Seq(Range(s \o t)) /\ Len(s \o t) = Len(s) + Len(t)
         /\ Range(s \o t) = Range(s) \cup T
         /\ \A i \in 1..Len(s) : (s \o t)[i] = s[i]
         /\ \A i \in 1..Len(t) : (s \o t)[Len(s) + i] = t[i]
<1> DEFINE S == Range(s) \cup T
           c == s \o t
<1>1. s \in Seq(S) /\ t \in Seq(S)
  BY SeqMonotonic
<1> HIDE DEF S
<1>2. /\ Len(s) \in Nat /\ DOMAIN s = 1..Len(s)
      /\ Len(t) \in Nat /\ DOMAIN t = 1..Len(t)
  BY <1>1, LenProperties
<1>3. /\ c \in Seq(S) /\ Len(c) = Len(s) + Len(t)
      /\ \A i \in 1..Len(s) + Len(t) : c[i] = IF i <= Len(s) THEN s[i] ELSE t[i - Len(s)]
  BY <1>1, ConcatProperties
<1>4. DOMAIN c = 1..Len(s) + Len(t)
  BY <1>3, LenProperties
<1> HIDE DEF c
<1>5. \A i \in 1..Len(s) : c[i] = s[i]
  BY <1>2, <1>3
<1>6. ASSUME NEW i \in 1..Len(t) PROVE c[Len(s) + i] = t[i]
  <2>1. Len(s) + i \in 1..Len(s) + Len(t) /\ ~(Len(s) + i <= Len(s)) /\ (Len(s) + i) - Len(s) = i
    BY <1>2
  <2> QED
    BY <1>3, <2>1
<1>7. Range(c) = S
  <2>1. ASSUME NEW x \in S PROVE x \in Range(c)
    <3>1. CASE x \in Range(s)
      <4>1. PICK i \in 1..Len(s) : x = s[i]
        BY <1>2, <3>1 DEF Range
      <4>2. i \in 1..Len(s) + Len(t) /\ c[i] = x
        BY <1>2, <1>5, <4>1
      <4> QED
        BY <1>4, <4>2 DEF Range
    <3>2. CASE x \in T
      <4>1. PICK i \in 1..Len(t) : x = t[i]
        BY <1>2, <3>2 DEF Range
      <4>2. Len(s) + i \in 1..Len(s) + Len(t) /\ c[Len(s) + i] = x
        BY <1>2, <1>6, <4>1
      <4> QED
        BY <1>4, <4>2 DEF Range
    <3> QED
      BY <3>1, <3>2 DEF S
  <2>2. \A x \in Range(c) : x \in S
    BY <1>3, <1>4, ElementOfSeq DEF Range
  <2> QED
    BY <2>1, <2>2
<1>8. c \in Seq(Range(c))
  BY <1>3, <1>7
<1> QED
  BY <1>3, <1>5, <1>6, <1>7, <1>8 DEF c, S

\* Whatever one appends to another without repeating it repeats nothing.
LEMMA ConcatenatesOnce ==
  ASSUME NEW s, s \in Seq(Range(s)), NEW T, NEW t \in Seq(T), Range(t) = T,
         IsInjective(s), IsInjective(t), T \cap Range(s) = {}
  PROVE  IsInjective(s \o t)
<1>1. PICK m, n, c : m = Len(s) /\ n = Len(t) /\ c = s \o t
  OBVIOUS
<1>2. m \in Nat /\ DOMAIN s = 1..m /\ n \in Nat /\ DOMAIN t = 1..n
  BY <1>1, LenProperties
<1>3. /\ c \in Seq(Range(c)) /\ Len(c) = m + n
      /\ \A i \in 1..m : c[i] = s[i]
      /\ \A i \in 1..n : c[m + i] = t[i]
  BY <1>1, Concatenates
<1>4. DOMAIN c = 1..m + n
  BY <1>3, LenProperties
<1>5. \A i \in 1..m : c[i] \in Range(s)
  BY <1>2, <1>3 DEF Range
<1>6. ASSUME NEW i \in 1..m + n, i > m PROVE i - m \in 1..n /\ c[i] = t[i - m] /\ c[i] \in T
  <2>1. i - m \in 1..n /\ m + (i - m) = i
    BY <1>2, <1>6
  <2>2. t[i - m] \in Range(t)
    BY <1>2, <2>1 DEF Range
  <2> QED
    BY <1>3, <2>1, <2>2
<1>7. ASSUME NEW i \in 1..m + n, NEW j \in 1..m + n, c[i] = c[j] PROVE i = j
  <2>1. CASE i <= m /\ j <= m
    <3>1. i \in 1..m /\ j \in 1..m
      BY <2>1
    <3> QED
      BY <1>2, <1>3, <1>7, <3>1 DEF IsInjective
  <2>2. CASE i > m /\ j > m
    <3>1. i - m = j - m
      BY <1>2, <1>6, <1>7, <2>2 DEF IsInjective
    <3> QED
      BY <1>2, <3>1
  <2>3. ASSUME NEW x \in 1..m + n, NEW y \in 1..m + n, x <= m, y > m PROVE c[x] # c[y]
    <3>1. x \in 1..m
      BY <2>3
    <3> QED
      BY <1>5, <1>6, <2>3, <3>1
  <2> QED
    BY <1>2, <1>7, <2>1, <2>2, <2>3
<1> QED
  BY <1>1, <1>4, <1>7 DEF IsInjective

\* What a batch of telling adds to the outbox: a row for each new key.
LEMMA Pushed ==
  ASSUME Staged, NEW o, Notify(o)
  PROVE  LET new == SetToSeq(Pushes(o))
             rows == InUse + 1 .. InUse + Len(new)
         IN  /\ pushed' = pushed \o new /\ new \in Seq(Pushes(o)) /\ Len(new) \in Nat
             /\ IsInjective(new) /\ Range(new) = Pushes(o)
             /\ pushed' \in Seq(Range(pushed')) /\ Len(pushed') = InUse + Len(new)
             /\ Range(pushed') = Range(pushed) \cup Pushes(o)
             /\ \A k \in 1..InUse : pushed'[k] = pushed[k]
             /\ InUse \in Nat /\ Len(pushed') <= Rows /\ rows \subseteq Key
             /\ \/ rows = {} /\ UNCHANGED vars
                \/ \E up \in SUBSET Key : Stage(rows, up)
<1> DEFINE P == Pushes(o)
           new == SetToSeq(P)
           rows == InUse + 1 .. InUse + Len(new)
<1>1. IsFiniteSet(P)
  <2>1. IsFiniteSet(Eligible(o))
    <3>1. Eligible(o) \subseteq Person
      BY DEF Notify, Sound, Eligible, Recipients
    <3> QED
      BY <3>1, CompanyAssumption, FS_Subset
  <2>2. \A x \in P : x.to \in Eligible(o) /\ x = DedupeKey(o, x.to)
    BY DEF Pushes, DedupeKey
  <2> DEFINE f == [x \in P |-> x.to]
  <2>3. f \in [P -> Eligible(o)] /\ IsInjective(f)
    BY <2>2 DEF IsInjective
  <2>4. f \in Injection(P, Eligible(o))
    BY <2>3 DEF Injection
  <2> HIDE DEF f, P
  <2> QED
    BY <2>1, <2>4, FS_Injection
<1>2. /\ new \in Seq(P) /\ Len(new) = Cardinality(P) /\ Cardinality(P) \in Nat
      /\ IsInjective(new) /\ Range(new) = P
  BY <1>1, Enumerates
<1>3. /\ pushed' = pushed \o new /\ rows \subseteq Key
      /\ IF rows = {} THEN UNCHANGED vars ELSE Stage(rows, {k \in rows : CanBeReached(pushed'[k].to)})
  BY DEF Notify, InUse
<1>4. pushed \in Seq(Range(pushed)) /\ InUse \in Nat /\ InUse <= Rows
  BY LenProperties DEF Staged, InUse
<1> HIDE DEF new, P
<1>5. /\ pushed' \in Seq(Range(pushed')) /\ Len(pushed') = InUse + Len(new)
      /\ Range(pushed') = Range(pushed) \cup P
      /\ \A k \in 1..InUse : pushed'[k] = pushed[k]
  BY <1>2, <1>3, <1>4, Concatenates DEF InUse
<1>6. Len(pushed') <= Rows
  <2>1. CASE Len(new) = 0
    BY <1>4, <1>5, <2>1
  <2>2. CASE Len(new) > 0
    <3>1. InUse + Len(new) \in rows
      BY <1>2, <1>4, <2>2
    <3> QED
      BY <1>3, <1>5, <3>1 DEF Key
  <2> QED
    BY <1>2, <2>1, <2>2
<1>7. \/ rows = {} /\ UNCHANGED vars
      \/ \E up \in SUBSET Key : Stage(rows, up)
  <2>1. {k \in rows : CanBeReached(pushed'[k].to)} \in SUBSET Key
    BY <1>3
  <2> QED
    BY <1>3, <2>1
<1> QED
  BY <1>2, <1>3, <1>4, <1>5, <1>6, <1>7 DEF new, P
LEMMA NotifyStages ==
  ASSUME Staged, NEW o, Notify(o)
  PROVE  Staged' /\ [Next]_vars
<1> DEFINE new == SetToSeq(Pushes(o))
           rows == InUse + 1 .. InUse + Len(new)
<1>1. /\ pushed' \in Seq(Range(pushed')) /\ Len(pushed') = InUse + Len(new)
      /\ InUse \in Nat /\ Len(new) \in Nat /\ Len(pushed') <= Rows /\ rows \subseteq Key
      /\ \/ rows = {} /\ UNCHANGED vars
         \/ \E up \in SUBSET Key : Stage(rows, up)
  BY Pushed
<1> HIDE DEF new
<1>2. [Next]_vars
  BY <1>1 DEF Next
<1>3. TypeOK'
  BY <1>2, NextTypes DEF Staged
<1>4. UNCHANGED <<batch, accepted>> /\ \A k \in Key \ rows : outbox'[k] = outbox[k]
  BY <1>1 DEF vars, Stage
<1>5. \A k \in Key : k > Len(pushed') => k \notin rows /\ k > InUse
  BY <1>1 DEF Key
<1>6. \A k \in Key : k > Len(pushed') => outbox'[k].status = "ABSENT" /\ accepted'[k] = 0
  BY <1>4, <1>5 DEF Staged
<1>7. ASSUME NEW w \in Worker, NEW i \in 1..Len(batch'[w])
      PROVE  batch'[w][i].key <= Len(pushed')
  <2>1. batch[w] \in Seq(Copy) /\ batch' = batch
    BY <1>4 DEF Staged, TypeOK
  <2>2. batch[w][i] \in Copy
    BY <2>1, ElementOfSeq
  <2>3. batch[w][i].key \in Int /\ batch[w][i].key <= InUse
    BY <2>1, <2>2 DEF Staged, Copy, Key
  <2> QED
    BY <1>1, <2>1, <2>3
<1> QED
  BY <1>1, <1>2, <1>3, <1>6, <1>7 DEF Staged, InUse

\* Steps of Delivery that stage nothing keep to the rows that were staged.
LEMMA DrainStages ==
  ASSUME Staged, UNCHANGED pushed,
         \/ UNCHANGED vars
         \/ \E S \in SUBSET Key, able \in BOOLEAN : RecipientsChange(S, able)
         \/ \E k \in Key : BackoffEnds(k)
         \/ \E w \in Worker : SelectBatch(w) \/ Attempt(w) \/ GiveUp(w) \/ CommitRow(w) \/ Crash(w)
  PROVE  Staged' /\ [Next]_vars
<1>1. [Next]_vars
  BY DEF Next
<1>2. TypeOK /\ TypeOK'
  BY <1>1, NextTypes DEF Staged
<1> DEFINE Beyond == \A k \in Key : k > InUse => outbox'[k].status = "ABSENT" /\ accepted'[k] = 0
           Within == \A w \in Worker : \A i \in 1..Len(batch'[w]) : batch'[w][i].key <= InUse
<1>3. CASE UNCHANGED <<outbox, batch, accepted>>
  BY <1>1, <1>2, <1>3 DEF Staged, InUse
<1>4. ASSUME NEW k \in Key, BackoffEnds(k) PROVE Beyond /\ Within
  <2>1. UNCHANGED <<batch, accepted>> /\ \A j \in Key \ {k} : outbox'[j] = outbox[j]
    BY <1>2, <1>4 DEF BackoffEnds, TypeOK
  <2>2. ~(k > InUse)
    BY <1>4 DEF BackoffEnds, Staged
  <2> QED
    BY <2>1, <2>2 DEF Staged
<1>5. ASSUME NEW w \in Worker, SelectBatch(w) PROVE Beyond /\ Within
  <2>1. PICK list \in Seq(Copy) :
          /\ UNCHANGED <<outbox, accepted>> /\ batch' = [batch EXCEPT ![w] = list]
          /\ \A i \in 1..Len(list) : list[i].key \in Due
    BY <1>2, <1>5, SelectsDue
  <2>2. ASSUME NEW k \in Due PROVE k <= InUse
    <3>1. k \in Key /\ ~(k > InUse)
      BY DEF Due, Staged
    <3>2. k \in Int /\ InUse \in Int
      BY <3>1, LenProperties DEF Key, Staged, InUse
    <3> QED
      BY <3>1, <3>2
  <2>3. batch'[w] = list /\ \A v \in Worker \ {w} : batch'[v] = batch[v]
    BY <1>2, <2>1 DEF TypeOK
  <2> QED
    BY <2>1, <2>2, <2>3 DEF Staged
<1>6. ASSUME NEW w \in Worker, Attempt(w) \/ GiveUp(w) \/ CommitRow(w) \/ Crash(w)
      PROVE  Beyond /\ Within
  <2>1. Busy(w)
    BY <1>6 DEF Attempt, Skip, Send, FailToSend, GiveUp, CommitRow, Crash, Attempting
  <2>2. PICK k \in Key : k = Row(w).key
    BY <1>2, <2>1, AtRow
  <2>3. ~(k > InUse)
    <3>1. k = batch[w][1].key /\ 1 \in 1..Len(batch[w])
      BY <1>2, <2>1, <2>2, AtRow
    <3>2. k <= InUse
      BY <3>1 DEF Staged
    <3>3. k \in Int /\ InUse \in Int
      BY LenProperties DEF Key, Staged, InUse
    <3> QED
      BY <3>2, <3>3
  <2>4. \A j \in Key \ {k} : outbox'[j] = outbox[j] /\ accepted'[j] = accepted[j]
    BY <1>2, <1>6, <2>2 DEF Attempt, Skip, Send, FailToSend, GiveUp, CommitRow, Crash, TypeOK
  <2>5. Beyond
    BY <2>3, <2>4 DEF Staged
  <2>6. \/ UNCHANGED batch
        \/ batch' = [batch EXCEPT ![w] = <<>>]
        \/ batch' = [batch EXCEPT ![w] = Tail(batch[w])]
    BY <1>6 DEF Attempt, Skip, Send, FailToSend, GiveUp, CommitRow, Crash
  <2>7. \A v \in Worker \ {w} : batch'[v] = batch[v]
    BY <1>2, <2>6 DEF TypeOK
  <2>8. ASSUME NEW i \in 1..Len(batch'[w]) PROVE batch'[w][i].key <= InUse
    <3>1. CASE batch'[w] = batch[w]
      BY <2>8, <3>1 DEF Staged
    <3>2. CASE batch'[w] = <<>>
      BY <2>8, <3>2, EmptySeq
    <3>3. CASE batch'[w] = Tail(batch[w])
      <4>1. batch'[w][i] = batch[w][i + 1] /\ i + 1 \in 1..Len(batch[w])
        BY <1>2, <2>1, <2>8, <3>3, AtRow
      <4> QED
        BY <4>1 DEF Staged
    <3> QED
      BY <1>2, <2>6, <3>1, <3>2, <3>3 DEF TypeOK
  <2> QED
    BY <2>5, <2>7, <2>8 DEF Staged
<1>7. CASE \E S \in SUBSET Key, able \in BOOLEAN : RecipientsChange(S, able)
  BY <1>3, <1>7 DEF RecipientsChange
<1>8. CASE UNCHANGED vars
  BY <1>3, <1>8 DEF vars
<1>9. CASE Beyond /\ Within
  BY <1>1, <1>2, <1>9 DEF Staged, InUse
<1> QED
  BY <1>4, <1>5, <1>6, <1>7, <1>8, <1>9

\* Steps of people: what becomes of an account reaches its rows only.
LEMMA PeopleStage ==
  ASSUME Staged, NEW u, MarkAllRead(u) \/ ArchiveAllRead(u) \/ (\E n : MarkRead(u, n) \/ ArchiveNotice(u, n))
                        \/ SetActive(u) \/ Activate(u)
  PROVE  Staged' /\ [Next]_vars
<1>1. CASE UNCHANGED <<vars, pushed>>
  BY <1>1, DrainStages
<1>2. CASE SetActive(u) \/ Activate(u)
  <2>1. pushed' = pushed
        /\ (UNCHANGED vars \/ RecipientsChange(RowsOf(u), u \in active' \cap activated'))
    BY <1>2 DEF SetActive, Activate, Account
  <2>2. RowsOf(u) \in SUBSET Key
    <3>1. DOMAIN pushed = 1..InUse /\ InUse \in Nat /\ InUse <= Rows /\ Rows \in Nat
      BY OutboxAssumption, LenProperties DEF Staged, InUse
    <3>2. 1..InUse \subseteq 1..Rows
      BY <3>1
    <3> QED
      BY <3>1, <3>2 DEF RowsOf, Key
  <2>3. (u \in active' \cap activated') \in BOOLEAN
    OBVIOUS
  <2>4. UNCHANGED vars \/ \E S \in SUBSET Key, able \in BOOLEAN : RecipientsChange(S, able)
    BY <2>1, <2>2, <2>3, Zenon
  <2> QED
    BY <2>1, <2>4, DrainStages
<1> QED
  BY <1>1, <1>2 DEF MarkAllRead, ArchiveAllRead, MarkRead, ArchiveNotice, Inboxes

LEMMA TellStages ==
  ASSUME Staged, [TellNext]_all
  PROVE  Staged' /\ [Next]_vars
<1>1. CASE UNCHANGED all
  BY <1>1, DrainStages DEF all, own
<1>2. CASE \E o \in Observation : Notify(o)
  BY <1>2, NotifyStages
<1>3. CASE \E u : MarkAllRead(u) \/ ArchiveAllRead(u) \/ (\E n : MarkRead(u, n) \/ ArchiveNotice(u, n))
                  \/ SetActive(u) \/ Activate(u)
  BY <1>3, PeopleStage
<1>4. CASE \/ \E k \in Key : Worked(BackoffEnds(k))
           \/ \E w \in Worker : Worked(SelectBatch(w) \/ Attempt(w) \/ GiveUp(w) \/ CommitRow(w) \/ Crash(w))
  <2>1. /\ UNCHANGED pushed
        /\ \/ \E k \in Key : BackoffEnds(k)
           \/ \E w \in Worker : SelectBatch(w) \/ Attempt(w) \/ GiveUp(w) \/ CommitRow(w) \/ Crash(w)
    BY <1>4 DEF Worked, own
  <2> QED
    BY <2>1, DrainStages
<1> QED
  BY <1>1, <1>2, <1>3, <1>4 DEF TellNext

LEMMA InitStaged == ASSUME TellInit PROVE Init /\ Staged
<1>1. Init /\ pushed = <<>>
  BY DEF TellInit
<1>2. TypeOK
  BY <1>1, InitTypes
<1>3. <<>> \in Seq(Range(<<>>)) /\ Len(<<>>) = 0 /\ Rows >= 0
  BY EmptySeq, OutboxAssumption
<1>4. \A k \in Key : outbox[k].status = "ABSENT" /\ accepted[k] = 0
  BY <1>1 DEF Init
<1>5. \A w \in Worker : Len(batch[w]) = 0
  BY <1>1, EmptySeq DEF Init
<1> QED
  BY <1>1, <1>2, <1>3, <1>4, <1>5 DEF Staged, InUse

\* What is staged fits its rows and copies whatever business transactions, readers
\* and workers do in between, for batches of any size.
THEOREM AlwaysStaged == TellSpec => []Staged
<1>1. TellInit => Staged
  BY InitStaged
<1>2. Staged /\ [TellNext]_all => Staged'
  BY TellStages
<1> QED
  BY <1>1, <1>2, PTL DEF TellSpec

\* With the inboxes beside it the outbox behaves as Delivery does: nobody's
\* notices, and no account that comes or goes, add a copy or an attempt.
THEOREM NoticesSend == TellSpec => [](SentWasAccepted /\ OneCopyPerWorker /\ RetriesBounded)
<1>1. TellInit => Init
  BY InitStaged
<1>2. Staged /\ [TellNext]_all => [Next]_vars
  BY TellStages
<1>3. TellSpec => Spec
  BY <1>1, <1>2, AlwaysStaged, PTL DEF TellSpec, Spec
<1> QED
  BY <1>3, SentIsAccepted, CopiesAreBounded, RetriesAreBounded, PTL

----------------------------------------------------------------------------
(* The inboxes and the outbox tell the same                                 *)

KeyOf(n) == [event |-> n.event, to |-> n.to, ref |-> n.ref]
Pushing(S) == {n \in S : n.event \in DOMAIN PushClass}

Mirrored ==
  /\ IsInjective(pushed)
  /\ {KeyOf(n) : n \in Pushing(inbox)} = Range(pushed)
  /\ \A n \in inbox : DOMAIN n = {"no", "to", "event", "ref", "read", "archived"}

\* Marking a notice says nothing else of it.
LEMMA MarkingKeeps ==
  ASSUME Mirrored, NEW S \in SUBSET inbox, NEW archived, Marked(S, archived), UNCHANGED pushed
  PROVE  Mirrored'
<1> DEFINE New(n) == [n EXCEPT !.read = TRUE, !.archived = @ \/ archived]
<1>1. inbox' = (inbox \ S) \cup {New(n) : n \in S}
  BY DEF Marked
<1>2. ASSUME NEW n \in inbox
      PROVE  /\ KeyOf(New(n)) = KeyOf(n) /\ New(n).event = n.event
             /\ DOMAIN New(n) = {"no", "to", "event", "ref", "read", "archived"}
  BY DEF Mirrored, KeyOf
<1> HIDE DEF New
<1>3. \A n \in inbox' : DOMAIN n = {"no", "to", "event", "ref", "read", "archived"}
  BY <1>1, <1>2 DEF Mirrored
<1>4. ASSUME NEW n \in Pushing(inbox) PROVE \E m \in Pushing(inbox') : KeyOf(m) = KeyOf(n)
  BY <1>1, <1>2, <1>4 DEF Pushing
<1>5. ASSUME NEW m \in Pushing(inbox') PROVE \E n \in Pushing(inbox) : KeyOf(m) = KeyOf(n)
  BY <1>1, <1>2, <1>5 DEF Pushing
<1>6. {KeyOf(n) : n \in Pushing(inbox')} = {KeyOf(n) : n \in Pushing(inbox)}
  BY <1>4, <1>5
<1> QED
  BY <1>3, <1>6 DEF Mirrored

\* Telling adds to both what one of them lacked.
LEMMA TellingMirrors ==
  ASSUME Staged, Mirrored, NEW o, Notify(o)
  PROVE  Mirrored'
<1> DEFINE new == SetToSeq(Pushes(o))
           Keys == {DedupeKey(o, u) : u \in Eligible(o)}
           Notices == {Notice(o, u) : u \in Eligible(o)}
<1>1. /\ pushed' = pushed \o new /\ new \in Seq(Pushes(o))
      /\ IsInjective(new) /\ Range(new) = Pushes(o)
      /\ Range(pushed') = Range(pushed) \cup Pushes(o)
  BY Pushed
<1>2. Pushes(o) = IF Says[o].event \in DOMAIN PushClass THEN Keys \ Range(pushed) ELSE {}
  BY DEF Pushes
<1>3. IsInjective(pushed')
  <2>1. Pushes(o) \cap Range(pushed) = {}
    BY <1>2
  <2>2. pushed \in Seq(Range(pushed)) /\ IsInjective(pushed)
    BY DEF Staged, Mirrored
  <2> HIDE DEF new
  <2> QED
    BY <1>1, <2>1, <2>2, ConcatenatesOnce
<1>4. ASSUME NEW u
      PROVE  /\ KeyOf(Notice(o, u)) = DedupeKey(o, u) /\ Notice(o, u).event = Says[o].event
             /\ DOMAIN Notice(o, u) = {"no", "to", "event", "ref", "read", "archived"}
  BY DEF KeyOf, Notice, DedupeKey
<1>5. inbox' = inbox \cup Notices
  BY DEF Notify
<1>6. \A n \in inbox' : DOMAIN n = {"no", "to", "event", "ref", "read", "archived"}
  BY <1>4, <1>5 DEF Mirrored
<1>7. {KeyOf(n) : n \in Pushing(inbox')} = {KeyOf(n) : n \in Pushing(inbox)} \cup {KeyOf(n) : n \in Pushing(Notices)}
  BY <1>5 DEF Pushing
<1>8. {KeyOf(n) : n \in Pushing(Notices)} = IF Says[o].event \in DOMAIN PushClass THEN Keys ELSE {}
  <2>1. CASE Says[o].event \in DOMAIN PushClass
    <3>1. Pushing(Notices) = Notices
      BY <1>4, <2>1 DEF Pushing
    <3>2. {KeyOf(n) : n \in Notices} = Keys
      BY <1>4
    <3> QED
      BY <2>1, <3>1, <3>2
  <2>2. CASE Says[o].event \notin DOMAIN PushClass
    <3>1. Pushing(Notices) = {}
      BY <1>4, <2>2 DEF Pushing
    <3> QED
      BY <2>2, <3>1
  <2> QED
    BY <2>1, <2>2
<1>9. {KeyOf(n) : n \in Pushing(inbox')} = Range(pushed')
  <2> HIDE DEF Keys, Notices, new
  <2> QED
    BY <1>1, <1>2, <1>7, <1>8 DEF Mirrored
<1> QED
  BY <1>3, <1>6, <1>9 DEF Mirrored

LEMMA TellMirrors ==
  ASSUME Staged, Mirrored, [TellNext]_all
  PROVE  Mirrored'
<1>1. CASE UNCHANGED <<inbox, pushed>>
  BY <1>1 DEF Mirrored
<1>2. CASE \E o \in Observation : Notify(o)
  BY <1>2, TellingMirrors
<1>3. ASSUME NEW u, MarkAllRead(u) \/ ArchiveAllRead(u) \/ (\E n \in inbox : MarkRead(u, n) \/ ArchiveNotice(u, n))
      PROVE  Mirrored'
  <2>1. UNCHANGED pushed /\ \E S \in SUBSET inbox, archived \in BOOLEAN : Marked(S, archived)
    <3>1. UNCHANGED pushed
      BY <1>3 DEF MarkAllRead, ArchiveAllRead, MarkRead, ArchiveNotice, Inboxes
    <3>2. /\ {n \in Mine(u) : ~n.read} \in SUBSET inbox
          /\ {n \in Mine(u) : n.read /\ ~n.archived} \in SUBSET inbox
          /\ \A n \in inbox : {n} \in SUBSET inbox
      BY DEF Mine
    <3> QED
      BY <1>3, <3>1, <3>2 DEF MarkAllRead, ArchiveAllRead, MarkRead, ArchiveNotice
  <2> QED
    BY <2>1, MarkingKeeps
<1>4. CASE UNCHANGED all \/ (\E u : SetActive(u) \/ Activate(u))
             \/ (\E k \in Key : Worked(BackoffEnds(k)))
             \/ \E w \in Worker : Worked(SelectBatch(w) \/ Attempt(w) \/ GiveUp(w) \/ CommitRow(w) \/ Crash(w))
  <2>1. UNCHANGED <<inbox, pushed>>
    BY <1>4 DEF all, own, Worked, SetActive, Activate, Account
  <2> QED
    BY <1>1, <2>1
<1> QED
  BY <1>2, <1>3, <1>4 DEF TellNext

LEMMA InitMirrored == ASSUME TellInit PROVE Mirrored
<1>1. inbox = {} /\ pushed = <<>>
  BY DEF TellInit
<1>2. DOMAIN <<>> = {}
  BY EmptySeq, LenProperties
<1> QED
  BY <1>1, <1>2 DEF Mirrored, IsInjective, Pushing, Range

\* What a mail tells of is in the inbox of the person it was sent to.
LEMMA MirrorsMeans == ASSUME Staged, Mirrored PROVE PushesMirrorNotices
<1>1. {[event |-> n.event, to |-> n.to, ref |-> n.ref] : n \in {x \in inbox : x.event \in DOMAIN PushClass}} = Range(pushed)
  BY DEF Mirrored, KeyOf, Pushing
<1>2. ASSUME NEW k \in Key, accepted[k] > 0
      PROVE  \E n \in inbox : n.to = pushed[k].to /\ Template(n.event) = Template(pushed[k].event)
  <2>1. k \in DOMAIN pushed
    <3>1. ~(k > InUse)
      BY <1>2 DEF Staged
    <3> QED
      BY <3>1, LenProperties DEF Staged, InUse, Key
  <2>2. pushed[k] \in Range(pushed)
    BY <2>1 DEF Range
  <2>3. PICK n \in Pushing(inbox) : pushed[k] = KeyOf(n)
    BY <2>2 DEF Mirrored
  <2>4. n \in inbox /\ n.to = pushed[k].to /\ n.event = pushed[k].event
    BY <2>3 DEF Pushing, KeyOf
  <2> QED
    BY <2>4
<1> QED
  BY <1>1, <1>2 DEF PushesMirrorNotices, Mirrored

\* For any company, batches of any size and whatever people read and archive:
\* the outbox has one row for each thing of a push class somebody was told, and
\* a mail that was sent tells its reader of a notice they have.
THEOREM AlwaysMirrored == TellSpec => []PushesMirrorNotices
<1>1. TellInit => Mirrored
  BY InitMirrored
<1>2. Staged /\ Mirrored /\ [TellNext]_all => Mirrored'
  BY TellMirrors
<1>3. Staged /\ Mirrored => PushesMirrorNotices
  BY MirrorsMeans
<1> QED
  BY <1>1, <1>2, <1>3, AlwaysStaged, PTL DEF TellSpec
=============================================================================
