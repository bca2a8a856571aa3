CONSTANTS
  adm = adm
  mgr = mgr
  emp = emp
  rwd = rwd
  w1 = w1
  w2 = w2
  NoUser = NoUser
  NoReward = NoReward
  Unlimited = Unlimited
  User <- Pair
  Reward <- Catalog
  Request <- Server
  MaxRedemptions = 1
  MaxGiven = 0
  InitRole <- Roles
  InitRow <- EmptyShop
  Forms <- GiftForms
  Gifts <- Grants
  Commands <- Staff
SYMMETRY AnyRequest
SPECIFICATION Spec
INVARIANTS
  OpenHaveOwners
  CirclesNeedAdmins
