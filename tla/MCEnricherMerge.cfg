SPECIFICATION FairSpec
CONSTANTS
  u1 = u1
  e1 = e1
  i1 = i1
  i2 = i2
  m1 = m1
  p1 = p1
  NoId = NoId
  NoArtist = NoArtist
  NoShow = NoShow
  NoUser = NoUser
  NoName = NoName
  Users <- OneUser
  Shows <- OneShow
  Ids <- TwoIds
  Names <- Spellings
  Mbids <- OneMbid
  SpotifyIds <- OneSpotifyId
  MbidOf <- SameMbid
  SpotifyOf <- SameSpotifyId
  MaxListings = 3
  MaxEdits = 2
PROPERTY MergeMovesFollowers
PROPERTY MergeMovesLineups
PROPERTY FilledInStays
PROPERTY ShowsReachMatcher
CHECK_DEADLOCK FALSE
