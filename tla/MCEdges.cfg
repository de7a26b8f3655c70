SPECIFICATION EdgesSpec
CONSTANTS
  Users = {u1}
  NoUser = NoUser
  Tabs = {t1, t2}
  MaxSockets = 5
  MaxMounts = 3
  MaxMatches = 1
  MaxFaults = 1
  Pickers = {p1, p2, p3}
  NoPicker = NoPicker
  Places = {a, b}
  Interval = 2
  CacheSize = 1
  MaxSearches = 5
  Runs = {r1, r2}
  Listings = {1}
  Events <- TwoListings
  Archiving = TRUE
  MaxPages = 2
  MaxAttempts = 2
  Totals = {1, 3}
  MaxSecond = 1
  MinInterval = 2
  RetryDelay = 1
  MaxSearchAttempts = 3
  SpotifyEnabled = TRUE
  Margin = 2
  Transit = 1
  Lifetimes = {3, 5}
  MaxLookups = 2
  Artists = {1, 2, 3}
  Shows = {1, 2, 3, 4}
  Headliner <- FourHeadliners
  Starts <- AllAtOnce
  Genres = {"folk", "jazz"}
  Closeness = {1, 2}
  Unknown = 0
  Callers = {1}
  Limits = {2, 4}
  PerGenre = 1
  DefaultLimit = 2
  MaxLimit = 3
  Timeout = 1
  Grace = 2
  MaxDiscovers = 1
  MaxTurns = 1
INVARIANTS
  EdgesTypeOK
  RegistryExact
  AskedOnce
  PublishedAccountedFor
  TokenHonoured
  ListsAreDiverse
  NoneCutShort
PROPERTIES
  TabsComeBack
  OpenTabsGetIt
  RequestsSpaced
  SearchesPaced
CHECK_DEADLOCK FALSE
