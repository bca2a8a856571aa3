CONSTANTS
  mate = mate
  boss = boss
  h1 = h1
  h2 = h2
  t1 = t1
  Person <- People
  Recorded <- OnRecord
  Says <- Said
  Observation = {"escalated", "another", "assigned", "broken"}
  Joining <- Newcomers
  Movable <- Leaving
  Readers <- Reading
  MaxTold = 2
  Rows = 2
  Worker = {w1, w2}
  Limit = 1
  MaxAttempts = 2
  MaxLost = 1
SPECIFICATION TellSpec
INVARIANTS
  SentWasAccepted
  DuplicatesNeedALostAcceptance
  PushesMirrorNotices
PROPERTIES
  EventuallySettled
