CONSTANTS
  adm = adm
  lead = lead
  emp = emp
  team = team
  other = other
  User <- People
  Unit <- Teams
  Pass = {p1, p2}
  KindOf <- AllTeams
  InitRole <- Roles
  InitSeat <- Seats
  Movable <- Leader
  Switched = {"HELP"}
  Requesters <- Asking
  Thankers <- Leader
  Batch = 2
  MaxRecords = 2
  MaxMoves = 1
SPECIFICATION FairSpec
CHECK_DEADLOCK FALSE
PROPERTIES
  RoutingEndsOnce
  CreditsWithinScope
  AskedBelong
  StaleHelpEscalates
