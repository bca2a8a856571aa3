CONSTANTS
  adm = adm
  mgr = mgr
  emp = emp
  eve = eve
  NoUser = NoUser
  User <- Company
  Task = {t1}
  InitRole <- Roles
  UnitSeat <- Seats
  Panels <- Reviewer
  Scopes = {"COMPANY", "UNIT"}
  Audiences = {"EMPLOYEES"}
  Rewards = {9}
  Leftovers = {6}
  Pcts = {60}
  Limits = {2}
  Editable = {}
  MaxCycle = 2
  MaxFined = 0
SPECIFICATION Spec
CHECK_DEADLOCK FALSE
INVARIANTS
  ManagersDoNotPayOwnPromise
