SPECIFICATION Spec
CONSTANTS
  u1 = u1
  u2 = u2
  a1 = a1
  e1 = e1
  e2 = e2
  e3 = e3
  NoUser = NoUser
  Nothing = Nothing
  Users <- TwoUsers
  Artists <- OneArtist
  Events <- ThreeEvents
  Filters <- AllOrSome
  NoFilter <- ThreeEvents
  Rankings <- TwoRankings
  PageSize = 1
  WalkPages = 1
  MaxCalls = 2
  MaxClicks = 3
  MaxUpsets = 1
INVARIANT TypeOK
INVARIANT PagesLineUp
INVARIANT DismissedStaysAway
INVARIANT ButtonsTellTheTruth
INVARIANT WaitsAreForCalls
INVARIANT SessionAgrees
CHECK_DEADLOCK FALSE
SYMMETRY Symmetry
