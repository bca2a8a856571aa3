CONSTANTS
  adm = adm
  mgr = mgr
  emp = emp
  eve = eve
  NoUser = NoUser
  User <- Pair
  Task = {t1}
  InitRole <- Roles
  UnitSeat <- Seats
  Panels <- Promoted
  Scopes = {"COMPANY", "UNIT"}
  Audiences = {"EMPLOYEES", "MANAGEMENT", "PRIVATE"}
  Rewards = {0}
  Leftovers = {}
  Pcts = {0}
  Limits = {1}
  Editable = {emp}
  MaxCycle = 1
  MaxFined = 20
SPECIFICATION Spec
CHECK_DEADLOCK FALSE
INVARIANTS
  HoldersEligible
PROPERTIES
  ExposureConfirmed
