SPECIFICATION Spec
CONSTANTS
  u1 = u1
  u2 = u2
  e1 = e1
  e2 = e2
  NoUser = NoUser
  NoMessage = NoMessage
  Users <- OneUser
  Shows <- TwoShows
  NewStatuses <- SomeStatuses
  MaxUpdates = 2
  MaxProposals = 2
  MaxFaults = 1
INVARIANT OnceUnlessRacedOrInterrupted
INVARIANT NoticeFollowsAlert
INVARIANT PublishedWereRecorded
INVARIANT DisruptionReachesUnlessSlipped
PROPERTY ImplementsAlertBook
