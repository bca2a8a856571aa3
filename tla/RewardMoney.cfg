CONSTANTS
  adm = adm
  mgr = mgr
  emp = emp
  rwd = rwd
  w1 = w1
  w2 = w2
  NoUser = NoUser
  NoReward = NoReward
  Unlimited = Unlimited
  User <- Company
  Reward <- Catalog
  Request <- Server
  MaxRedemptions = 2
  MaxGiven = 2
  InitRole <- Roles
  InitRow <- Shop
  Forms <- Restocked
  Gifts <- Grants
  Commands <- MoneyAndForms
SYMMETRY AnyRequest
SPECIFICATION Spec
INVARIANTS
  WalletsAddUp
  StockAddsUp
PROPERTIES
  LimitsHold
  NoOverdraft
  OutcomesStand
