CONSTANTS
  Mailbox = {x, y, z}
  Worker = {w1, w2}
  Company = {c1, c2}
  Password = {p}
  Role = {"ADMIN", "EMPLOYEE"}
  Spelling <- Spellings
  Normal <- Stored
  LinkLife = 0
  SessionLife = 1
  MaxAccounts = 3
  MaxLinks = 2
  MaxSessions = 2
  MaxTime = 1
SPECIFICATION Spec
SYMMETRY Alike
CHECK_DEADLOCK FALSE
INVARIANTS
  OneAccountPerAddress
  KeepsAnAdmin
PROPERTIES
  PasswordStands
  OwnCompanyOnly
