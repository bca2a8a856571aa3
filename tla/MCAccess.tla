------------------------------ MODULE MCAccess ------------------------------
(* Two companies and three addresses, each typed in two ways.               *)
EXTENDS Access, TLC

CONSTANTS Mailbox

Spellings == Mailbox \X {"plain", "shouted"}
Stored == [e \in Spelling |-> e[1]]

\* Who stands for which transaction, company, address or password is the same.
Alike == Permutations(Worker) \cup Permutations(Company) \cup Permutations(Password)
             \cup Permutations(Mailbox)
=============================================================================
