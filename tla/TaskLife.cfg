CONSTANTS
  adm = adm
  mgr = mgr
  emp = emp
  eve = eve
  NoUser = NoUser
  User <- TwoWorkers
  Task = {t1}
  InitRole <- Roles
  UnitSeat <- Seats
  Panels <- NoGrants
  Scopes = {"COMPANY"}
  Audiences = {"EMPLOYEES"}
  Rewards = {9}
  Leftovers = {6}
  Pcts = {60}
  Limits = {2}
  Editable = {}
  MaxCycle = 2
  MaxFined = 0
SPECIFICATION Spec
SYMMETRY Colleagues
CHECK_DEADLOCK FALSE
INVARIANTS
  TypeOK
  LedgerAgrees
  ProgressAddsUp
PROPERTIES
  ClosedCyclesFrozen
  TermsStandWhileHeld
  PaysAsPromised
