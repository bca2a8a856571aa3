CONSTANTS
  adm = adm
  mgr = mgr
  emp = emp
  praise = praise
  rule = rule
  policy = policy
  w1 = w1
  w2 = w2
  User <- People
  Event <- Events
  Rule <- RuleNames
  Policy <- PolicyNames
  Worker <- Server
  EventOf <- Recorded0
  RuleForms <- RewardsOffered
  PolicyForms <- PoliciesOffered
  SafetyForms <- SafetyOffered
  Defaults <- Quiet
  InitRole <- Roles0
  Editable <- Promoted
  NewRoles <- Promotions
  Leads <- ScopeLeads
  Bound <- Bounds
  Executors <- Issuers
  MaxRules = 1
  MaxPolicies = 1
  Shadowing = TRUE
SYMMETRY AnyRequest
SPECIFICATION Spec
INVARIANTS
  ApprovedByAnother
  ProjectionMirrorsGate
  PayoutsExplainLedger
PROPERTIES
  PaidOnce
  HistoryStands
  PaidAsAnnounced
