SPECIFICATION MCSpec
CONSTANTS
  l1 = l1
  l2 = l2
  l3 = l3
  s1 = s1
  s2 = s2
  roxy = roxy
  fox = fox
  v1 = v1
  v2 = v2
  a1 = a1
  a2 = a2
  NoListing = NoListing
  NoRow = NoRow
  NoStatus = NoStatus
  NoVenueId = NoVenueId
  Listings <- ThreeListings
  Sources <- BothSources
  SourceOf <- MCSourceOf
  Titles <- MCTitles
  Similarity <- MCSimilarity
  VenueNames <- MCVenueNames
  VenueIds <- MCVenueIds
  Artists <- MCArtists
  Scrapes <- BothScrapes
  MaxScrapes = 4
  MaxFaults = 2
INVARIANT AnnouncedAtMostOnce
INVARIANT NewShowsAnnounced
INVARIANT StatusFollowed
INVARIANT TwinsOnlyAfterMove
INVARIANT LineupFollowsSource
CHECK_DEADLOCK FALSE
