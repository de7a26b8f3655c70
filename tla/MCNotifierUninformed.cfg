SPECIFICATION Spec
CONSTANTS
  u1 = u1
  u2 = u2
  e1 = e1
  e2 = e2
  NoUser = NoUser
  NoMessage = NoMessage
  Users <- OneUser
  Shows <- OneShow
  NewStatuses <- SomeStatuses
  MaxUpdates = 1
  MaxProposals = 1
  MaxFaults = 0
INVARIANT DisruptionReachesEveryoneTold
