CONSTANTS
  adm = adm
  mgr = mgr
  emp = emp
  eve = eve
  NoUser = NoUser
  User <- Company
  Task = {t1, t2}
  InitRole <- Roles
  UnitSeat <- Seats
  Panels <- NoGrants
  Scopes = {"UNIT"}
  Audiences = {"EMPLOYEES"}
  Rewards = {4}
  Leftovers = {}
  Pcts = {}
  Limits = {1, 2}
  Editable = {}
  MaxCycle = 1
  MaxFined = 0
SPECIFICATION Spec
CHECK_DEADLOCK FALSE
INVARIANTS
  ManagersDoNotPayOwnPromise
PROPERTIES
  NoStepOverCapacity
