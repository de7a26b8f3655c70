SPECIFICATION Spec
CONSTANTS
  u1 = u1
  a1 = a1
  a2 = a2
  e1 = e1
  p1 = p1
  h1 = h1
  h2 = h2
  NoRow = NoRow
  NoUser = NoUser
  NoMessage = NoMessage
  Users <- OneUser
  Artists <- TwoArtists
  Shows <- OneShow
  Places <- OnePlace
  Handlers <- TwoHandlers
  ListedRows <- ThreeRows
  MaxRequests = 2
  MaxListings = 1
  MaxFaults = 1
SYMMETRY Alike
INVARIANT NobodyMissed
INVARIANT TasteFollowsFollows
INVARIANT RescrapesStayQuiet
CHECK_DEADLOCK FALSE
