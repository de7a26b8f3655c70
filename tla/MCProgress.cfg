SPECIFICATION ProgressSpec
CONSTANTS
  u1 = u1
  u2 = u2
  e1 = e1
  e2 = e2
  NoUser = NoUser
  NoMessage = NoMessage
  a1 = a1
  p1 = p1
  h1 = h1
  h2 = h2
  l1 = l1
  l2 = l2
  s1 = s1
  s2 = s2
  v1 = v1
  roxy = roxy
  NoRow = NoRow
  NoListing = NoListing
  NoStatus = NoStatus
  NoVenueId = NoVenueId
  Users <- TwoUsers
  Shows <- OneShow
  NewStatuses <- OneDisruption
  MaxUpdates = 1
  MaxProposals = 2
  MaxFaults = 1
PROPERTY AlertsSettle
PROPERTY NoticesSettle
PROPERTY MessagesDrain
PROPERTY RequestsEnd
PROPERTY MatchesArrive
PROPERTY DiscoveriesDrain
CHECK_DEADLOCK FALSE
