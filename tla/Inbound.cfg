CONSTANTS
  hook = hook
  repo = repo
  chat = chat
  x1 = x1
  x2 = x2
  ann = ann
  bob = bob
  alpha = alpha
  beta = beta
  p1 = p1
  p2 = p2
  post = post
  early = early
  opened = opened
  merge = merge
  label = label
  odd = odd
  team = team
  project = project
  thanks = thanks
  Request = {r1, r2}
  Source <- Sources
  User <- Users
  Admins <- AdminUsers
  External <- Outside
  Identity = {i1, i2}
  Body <- Bodies
  Team <- Teams
  Project <- Projects
  Named <- Names
  KindOf <- SourceKinds
  About <- Contents
  Places <- Seats
  MaxSources = 1
  MaxSends = 2
  MaxMoves = 2
  MaxTime = 1
  Skew = 1
SPECIFICATION Spec
SYMMETRY Alike
CHECK_DEADLOCK FALSE
INVARIANTS
  ActedOnce
  ScopeAsOfOccurrence
PROPERTIES
  NoStaleSecret
  NamesActivePeople
  AskedWhereNamed
