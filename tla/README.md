# Concert Radar in TLA+

Concert Radar watches concert listings and emails its users about new shows of
the artists they follow. It is a pipeline of small Python services connected by
Kafka topics (Redpanda) over one PostgreSQL database, with a web front end. This
directory models it, checks it with TLC and proves the main safety
properties with TLAPS.

Paths below are relative to `src/`.

## The system

    scraper --events.discovered--> deduper --events.deduped--> enricher --events.enriched--> matcher
                                      |                                                        |   ^
                                      | events.status_changed                 matches.proposed |   | users.taste_updated
                                      v                                                        v   |
                                   notifier <-------------------------------------------- (notifier, gateway)
                                      |                                                        |
                                      +--notifications.sent--> (nobody yet)                    +--WebSocket--> web

Every topic has three partitions and every message a key, so messages of one key
are delivered in order (`infra/redpanda/create-topics.sh`). Every service runs
one consumer that commits its offset after each message, so a crash delivers the
message in hand again. All services share one database, with PostgreSQL's default
READ COMMITTED isolation.

| Component | State | Operations | Talks to | What makes it correct |
| --- | --- | --- | --- | --- |
| Ticketmaster scraper (`services/scraper-ticketmaster`) | none that lasts | scrape a market page by page, archive, publish | events.discovered | every listing of a page is published once per run |
| Deduper (`services/deduper`) | venues, events, event_artists | resolve the venue, fold a listing into another source's row or upsert its own, link the lineup, publish | events.discovered, events.deduped, events.status_changed | one row per show; a show is called new once; every status change gets out; the lineup is the source's |
| Enricher (`services/enricher`) | artists | look an artist up, merge a stub into the canonical row, embed | events.deduped, events.enriched, the MusicBrainz and Spotify APIs | a merge loses no lineup and no follow; one request per second to MusicBrainz; no search with a token that has ended |
| Matcher (`services/matcher`) | none that lasts | match an enriched show, or a user's new taste, against the followers nearby | events.enriched, users.taste_updated, matches.proposed | no follower of a show is missed, in whatever order the follow and the show arrive |
| Notifier (`services/notifier`) | pending_alerts, pending_show_changes, alerts_sent | queue a match, queue notices of a disruption, send the daily digest | matches.proposed, events.status_changed, notifications.sent, email | one email per new show; a disruption reaches everyone told |
| Gateway (`services/gateway`) | users, follows, dismissals; open sockets; geocoder cache | accounts, settings, follows, feed pages, live feed, geocoding | users.taste_updated, matches.proposed, web | the feed agrees with the follows; a socket is registered exactly while it is open; requests to Nominatim are spaced |
| Recommender (`services/recommender`) | none that lasts | rank the shows of artists a user does not follow; stop with a grace | gateway | a list repeats a genre only when no other has a show left for its share; a restart cuts nobody short |
| Web (`web`) | Redux slices: feed, follows, notifications, session | load pages, follow, dismiss, receive pushed matches | gateway | what is shown belongs to the current filter and user |
| Database (`db`) | all of the above tables | migrations, SQL functions | everything | keys and cascades |

### Where it is hard

- The notifier runs a consumer and a daily digest in one process over the same
  tables. They interleave at every `await`, READ COMMITTED makes each statement
  see what committed before it, and an email cannot be rolled back.
- Every service writes the database first, publishes second and commits the
  offset last. The process can die between any two of these.
- One show reaches the deduper from two sources, with different titles, times,
  venue ids and lineups, in any order, and each of them moves.
- A follow and a new show race through different services: each side is read by a
  message of the other, and either read may come before the other's commit.
- Follow requests of one user overlap in the database, where some wait for
  others' rows and some read what is about to change.
- The web applies answers in the order they arrive, not the order it asked, to
  whatever the stores hold by then, a sign-out or another account included.
- A socket has two ends that learn of its loss at different times, and two tasks
  of the gateway may take it out of the registry.
- Clocks count against each other: a throttle against the retries' backoff, a cached token
  against its life at Spotify, a caller's deadline against a stopping server's grace.

`PROJECT.json` lists these as hazards, each at its line with the properties that
cover it.

## The modules

| Module | What it is |
| --- | --- |
| `AlertBook` | What the notifier promises: notifications wait in a book until an email lists them or they are found stale while they wait. |
| `Notifier` | `services/notifier`: both loops, the tables, the topics, crashes and failed digests; its properties and their inductive strengthenings. |
| `NotifierProofs` | Type correctness and the safety properties of `Notifier`, and that it implements `AlertBook`, proved. |
| `Deduper` | `services/deduper`: venues, cross-source folding, upserts, lineups, publishes, crashes; properties and strengthenings. |
| `DeduperProofs` | Type correctness and the safety properties of `Deduper`, proved. |
| `Enricher` | `services/enricher` with the other writers of the artists table: filling a row in, the merge of a stub statement by statement, the deduper's lineups, the gateway's follows and import, crashes; properties and strengthenings. |
| `EnricherProofs` | Type correctness and the safety properties of `Enricher`, proved. |
| `Follows` | From a follow, a move or a new show to a match: the gateway's requests with their transactions and `users.taste_updated`, `services/matcher`, and what the deduper and the enricher do to the rows it reads. |
| `FollowsProofs` | Type correctness and the safety properties of `Follows`, proved. |
| `WebApp` | The web app's session, feed and follow stores, the pages that drive them, and what the gateway answers. |
| `WebAppProofs` | Type correctness and the safety properties of `WebApp`, proved. |
| `LiveFeed` | The gateway's socket registry and push loop with the browser's end of every socket. |
| `LiveFeedProofs` | Type correctness and the registry's and the tabs' invariants of `LiveFeed`, proved. |
| `Geocoder` | The gateway's Nominatim client: lock, spacing, cache. |
| `Scraper` | `services/scraper-ticketmaster`: a run from page to page. |
| `Lookups` | The enricher's MusicBrainz and Spotify clients: throttle, retries, token. |
| `Recommender` | Discovery: `GET /discover`, its gRPC client, and `services/recommender` with its query and its shutdown. |
| `EdgesProofs` | Type correctness and the safety properties of `Geocoder`, `Scraper`, `Lookups` and `Recommender`, proved. |
| `Recursion` | Lemmas: a set of numbers has a least, and a function defined by recursion over the numbers exists. |
| `MCNotifier`, `MCDeduper`, `MCEnricher`, `MCFollows`, `MCWebApp` | Small instances for TLC. `MCDeduper` has two sets of listings, and a behaviour takes its own from one of them. |
| `MCProgress` | `MCNotifier`, and instances of `Follows` and `Deduper` small enough for liveness, side by side: a behaviour is one of one of them, under the fairness of that one's `FairSpec`. |
| `MCEdges` | `LiveFeed`, `Geocoder`, `Scraper`, `Lookups` and `Recommender` side by side. They share no state, so a behaviour is one of one of them and the run checks their union. |

Operators named as mutants in their comments (`AfterCheckUnrecorded`,
`CommitOffsetNever`, ...) are plausible bugs. They are in no behaviour; each shows
that some property would notice.

### Notifier

| Code | Model |
| --- | --- |
| `consume_loop`, `handle_message` (`main.py`) | `consumer`: where the loop is, the message in hand, and the opt-in it read. Messages past the committed offset are `matches` (a count per pair, as two matches of one user and show are equal) and `changes` (a sequence per show). |
| `process_match` (`handler.py`) | `ReceiveMatch` (the preferences), `CheckSent` (`already_sent` and the opt-out), `QueueAlert` (the insert and the commit of the transaction), `CommitMatch` (the offset) |
| `process_status_change` | `HandleChange` and `CommitChange` |
| `send_digests` (`digest.py`) | `DropStaleAlerts`, `DropStaleChanges` (the two DELETEs), `ListUsers` (reading who is left and the commit) |
| `_send_user_digest` | `ReadNewShows`, `ReadChanges`, `SendEmail`, `CommitUserDigest` |
| `run_digest`, `daily_digests` | `PublishSent` for every notification, after all users; `EndDigest`; `DigestFails`, logged and tried the next day |
| the process dying | `Crash`: open transactions roll back, the message in hand is delivered again |
| deduper, gateway, matcher, the clock | `UpsertShow`, `SetAlertEmail`, `MoveHome`, `DismissEvent`, `ProposeMatch`, `ShowStarts` |

A step is one statement, or one statement with the commit that follows it,
because under READ COMMITTED that is what other transactions can see between.
`record_sent`, the clearing DELETEs and the commit of a user's digest are one
step: their uncommitted writes are visible to nobody, and an insert of one of
those rows waits for the commit. The rows a stale-drop has deleted but not
committed are `dropAlerts` and `dropChanges`, and an insert of one of them waits
(the guards of `QueueAlert` and `HandleChange`). Both DELETEs use the
transaction's start as the current time; a show that starts between them only
stays in the queue until the next digest.

`UpsertShow` writes the show and publishes the change at once. A publish that
comes later is a consumer that is slower; one that is lost is a finding about
the deduper below.

`mailed`, `noticed` and `lastTold` record what reached the inboxes. `raced`,
`interrupted`, `slipped` and `waived` record why a promise was missed, so that the
properties can say that nothing else misses it. No guard reads them. A user and
an event are never deleted by the code, so the MISSING outcome of `process_match`
is left out, as are malformed messages, which are logged and skipped.

### Deduper

| Code | Model |
| --- | --- |
| `upsert_venue` (`db.py`) | `VenueOf`, `WithVenueId` |
| `find_cross_source_duplicate` | `SameShow`, `Candidates`, `BestMatches` (ties either way) |
| `link_lineup` | `BillingIn`, `LinkLineup`; `lineup[r][a]` is the billing or `Off` |
| `process_discovered` (`handler.py`) | `FoldIntoRow` or `UpsertRow`: one transaction each, as one consumer does all the writing of these tables |
| `handle_message`, `consume_loop` (`main.py`) | `PublishDeduped`, `PublishStatusChanged`, `CommitOffset` |
| the process dying | `Crash` |
| the scraper | `Scrape` |

(source, external_id) is unique in `events`, so a row is named by its listing. An
artist is named by themselves, as `upsert_artist` finds one by name. Times are
minutes and the similarity of titles is a percentage given as a constant.
`announced` and `told` are what the rest of the system has heard; `unannounced`,
`untold`, `moved`, `own` and `folded` say what explains an exception.

### Enricher

| Code | Model |
| --- | --- |
| `_enrich_artist` (`handler.py`) | `FetchArtist` (the read), `Search` (both lookups and `_pick_genres`), then `EnrichArtist` or a merge |
| `merge_artist` (`db.py`) | `RelinkLineups`, `DropLineups`, `RelinkFollows`, `DropFollows`, `DropArtist`: one action per statement; `DropRefused` when the foreign keys forbid the last |
| `_ARTIST_ENRICH` (`db.py`) | `Filled`: `genres` as they are given, everything else by coalesce |
| the unique `spotify_id` | `EnrichClashes`: the UPDATE raises and the message comes again |
| `handle_message`, `consume_loop` (`main.py`) | `PublishEnriched`, `CommitOffset`, `Crash` |
| `upsert_artist`, `link_lineup` of the deduper | `LookUpListed`, `LinkListed`; `LinkFails` when the row it found is gone |
| `create_follow`, `delete_follow` of the gateway | `CreateFollow`, `DeleteFollow` |
| `_upsert_import_artist`, `spotify_callback` | `LookUpImported`, `FinishImport`, `ImportFails` |

Names have no unique key, so two writers may each make a row for one name; the
model finds any row of a name. What an open merge has written but not committed
is `enricher.addLinks`, `delLinks`, `addFollows` and `delFollows`: the others do
not see it, and an insert or a delete of one of these rows waits (`MayInsert`,
`MayDelete`). A delete of a row a merge has not touched does not wait, even if
the merge misses it. A lineup has one artist; the enricher resolves each artist of a
longer one by itself. `late` names the users and shows whose rows changed after
the merge had copied them. No guard reads it. `Names` are what `lower(name)`
distinguishes, and the searches are functions of the name that may also come back
empty. `Deduper` names artists by themselves: it is about rows of shows and
`Enricher` about rows of artists, and neither reads what the other abstracts.

### Follows

| Code | Model |
| --- | --- |
| `create_follow`, `delete_follow` (`routes/follows.py`) | `CreateFollow` or `DeleteFollow` (the statement), `Recompute` (the read of `update_user_taste_embedding`), `CommitFollow` (its write and the commit) |
| `spotify_callback` | `StartImport` (the session is stored on the user's row), `ImportArtist` for each, then the same; `ImportRefused` when an artist is gone |
| `update_me` | `UpdateArea`, then `ReadFollowed` |
| `TasteUpdatedPublisher.publish` | `PublishTaste`; `PublishFails`, logged and forgotten |
| row locks | `Added`, `Deleted`, `UserLocked`; `DeadlockAbort` when two requests wait for each other |
| deduper, enricher, clock | `ListShow`, `LoseAnnouncement`, `SendOn`, `EmbedArtist`, `MergeArtist`, `ShowStarts` |
| the gateway's process dying | `GatewayCrash`: open transactions roll back, and what was committed is not published |
| `_MATCH_BASE` and the two queries made of it | `InReach`, `Features`, and `PerHeadliner`: a row for each artist with billing 0 |
| `handle_message`, `consume_loop` of the matcher | `ReadEnriched` or `ReadTaste`, `PublishMatch` for each match, `CommitMessage`, `MatcherCrash` |

`handler[h]` is one request: its transaction's uncommitted rows are `add` and `del`, and
`seen` is what its recompute read: the artists among the follows that are `embedded` by then. A
taste is the set of artists it is the average of. The import and the deduper make artists
without an embedding, and `EmbedArtist` gives one to an artist on a show the enricher has in hand,
whether or not it had one; it recomputes nobody's taste, as in the code. An event row is what
the matcher's queries read: whether it still sells and is to come, which radii reach it, its
lineup and its headliners. No key keeps those to one artist, so a row may have two, and
the matcher then finds, and publishes, a row for each: `proposals` counts by user, show
and headliner.

`silent`, `news` and `overtaken`, and `missed` of a request, are history, which no guard reads.
`missed` are the artists that another request, a merge or an embedding changed between the read
of a request and its write, and `overtaken` the pairs of a user and an artist about which the
taste that was written may therefore be wrong, or that a merge or an embedding changed later.
What `Enricher` takes five statements for is one step here, and `Enricher` shows what it may
lose; the deduper's transaction and its publish are one step unless it crashes between
them. The first connection of the producer, which other requests wait for, is part of the
publish.

### WebApp

| Code | Model |
| --- | --- |
| `fetchFeedPage`, `fetchEntireFeed`, `dismissEvent` | a call in `calls` with the arguments read at dispatch (`PageCall`); `AnswerPage`, `AnswerDismiss` at the gateway; `PageFulfilled`, `PageRejected`, `DismissFulfilled`, `DismissRejected` when the answer arrives. The walk over the pages is the last part of `PageFulfilled`. |
| `filtersChanged`, `matchReceived` | `FiltersChanged`, `MatchReceived`; a match `PushMatch` has sent over the socket is in `pushes` until the store has it, in order, or the page or the socket is gone |
| `loadFollows`, `toggleFollow` | `LoadCall`, `ToggleFollow`, and what becomes of their answers |
| `login`, `adoptToken`, `loadSession`, `loggedOut`, `userUpdated` | `Login`, `AdoptToken`, `SessionCalls`, `SignIn`, `SessionLoaded`, `SessionRefused`, `SignOut`, `UserUpdated` |
| the pages' effects, `NavBar`, `Providers` | `MountCalls`, `Open`, `Reload` |
| `get_feed` (`routes/feed.py`) | `Listing` and `AnswerPage`: an offset into the ranked list |

A call remembers what it was asked with. `stale`, `raced` and `older` on a call, and `lined`,
`returned`, `doubt` and `mixed`, are history: they say which overtaking explains an exception. A
profile is the account it is of.

### LiveFeed

| Code | Model |
| --- | --- |
| `useFeedSocket` | `Mount`, `Connect`, `OnOpen`, `OnMessage`, `OnClose`, `Retry`, `Unmount`, `OnCloseLate` |
| `ConnectionManager` (`ws.py`) | `registry`, `Register`, `Unregister`, `Send` (one socket of `send_to_user`) |
| `feed_socket` | `Accept`, `Refuse`, `AcceptFails`, `Serve`, `Disconnect` |
| `matches_push_loop`, `push_match` | `StartLoop`, `SkipMatch`, `TakeMatch`, `ReadItem`, `Send`, `PushDone`; `StartFails` and `ReadFails` end the loop for good |
| a lost connection, a restart of the gateway | `LoseConnection`, `Restart` |

### Geocoder and Scraper

`search` is `Search` (a cache hit ends it), `Enter` (the lock, and the cache again), `Wake`
(the rest of the interval), `Answered` or `Unavailable`. Time is how long ago the last
request was, up to the interval, which is all the code compares.

A scraper run is `StartRun`, then for each page `Receive`, `Upload` and `Publish` for each
usable event, then `PageDone`. It ends with the last page, a failed upload, too many
429s (`RateLimited`), an unreadable value (`Parse`), a lost reply of the broker, or anything
else (`Abort`). The API may answer any page with any number of pages. A listing is what
`parse_event` looks at, in its order: without a start or a venue it is `Skipped` whatever else it
says, any other with a value that cannot be read is `Unreadable` and fails its page, and the rest
is `Usable`.

### Lookups

| Code | Model |
| --- | --- |
| `_throttle`, `_search` (`musicbrainz.py`) | `LookUp`, `SendSearch` (the sleep is over and the request is sent), `Unready` (503), `TryAgain` after the backoff, `Found`; `Die` when the last attempt fails, as at any crash |
| `_get_token`, `search_artist` (`spotify.py`) | the check of the cached token is in `Found`; `Issue` is Spotify making a token, `TokenArrives` the client counting from then on; `SpotifyDone` ends the search, on an error or a timeout too |

The consumer looks up one artist at a time, so the clients' locks are never waited for. The
throttle's stamp (`musicbrainz.py:58`) and the request it is for (`:67`) are one step, so what a connection
takes to set up in between, which could bring two requests nearer than the interval, is not seen. A
request is under way for at most the client's timeout, `Transit`. `sinceSent`, `calm` and
`life` are what was really sent and issued, which a restart does not forget; `sinceRequest`
and `expiry` are what the client knows of it.

### Recommender

| Code | Model |
| --- | --- |
| `discover`, `RecommenderClient.recommendations` (gateway) | `Discover` (the limit's check and the deadline), `Answer` (the list, or 503) |
| `GetRecommendations`, `recommend` | `TakeCall`, `Rank`; `Served` is the default and the cap of the limit |
| `_RECOMMEND_SQL` | `Candidates` (one show per headliner, the soonest that is `Wanted`), `Spare` (`genre_rank > :per_genre`), `Before` (the order), `Recommended` (the limit) |
| `run` | `Sigterm`, `Stopped` (when the calls are over or the grace is), `RecCrash`, `StartServer` |

A query reads one snapshot, so `Rank` is one step; `from` and `close` keep what it read, as
the property is about the list and not about what happens to the tables later. Similarities
are numbers of which only the order matters.

## What is checked

| Run | Instance | Shows |
| --- | --- | --- |
| `notifier_delivery` | 1 user, 2 shows, 4 statuses, 2 changes of the world, 2 matches, 1 fault | `OnceUnlessRacedOrInterrupted`: a second email about a new show needs the race below or a rollback after an email; `NoticeFollowsAlert`; `PublishedWereRecorded`; `DisruptionReachesUnlessSlipped`; `ImplementsAlertBook` |
| `progress` | The notifier with 2 users, 1 show, 2 statuses, 1 change, 2 matches, 1 fault; `Follows` with 1 user, 1 artist, 2 requests at once, 1 row, 2 requests, 1 listing, 1 fault; the deduper with 2 listings of 2 sources, 2 statuses, 3 scrapes, 1 crash | `AlertsSettle`, `NoticesSettle`, `MessagesDrain`: what is queued is settled and what is published is consumed, though one user's failure ends the digest for the others; `RequestsEnd`, `MatchesArrive`; `DiscoveriesDrain` |
| `deduper` | Either 2 sources with one listing each, 3 statuses, 2 crashes; or 3 listings of 2 sources, titles, times, venues, venue ids and lineups that move, 1 crash; 4 scrapes | `AnnouncedAtMostOnce`; `NewShowsAnnounced` and `StatusFollowed`, but for a crash; `TwinsOnlyAfterMove`, `LineupFollowsSource` |
| `enricher_merge` | 1 user, 1 show, 2 artist rows of two spellings with one MusicBrainz and one Spotify id, 3 listings, 2 follows, unfollows, imports or crashes | `MergeMovesFollowers`, `MergeMovesLineups`: the canonical row ends with exactly the rows of both; `FilledInStays`: ids and embeddings stay, and an embedded row keeps having genres, though an unembedded one may lose them (`enricher_clears`); `ShowsReachMatcher` |
| `follows` | 1 user, 2 artists, either of them embedded at first or not, 1 show in 1 place, 2 requests at once, 3 rows a listing may make (a headliner alone, with a support act, two headliners), 2 requests, 1 listing, 1 fault | `NobodyMissed`: whoever follows an artist of a live show in reach is matched or about to be, whichever side commits or is read first; `TasteFollowsFollows`; `RescrapesStayQuiet` |
| `web` | 2 accounts, 1 artist, 3 shows on pages of 1, 2 rankings, 2 filters, 3 clicks, 2 calls under way, 1 upset | `TypeOK`; `PagesLineUp`, `DismissedStaysAway`, `ButtonsTellTheTruth`, `SessionAgrees`: what the stores show against what the gateway has, but for the overtaken answers they name; `WaitsAreForCalls` |
| `edges` | 1 user on 2 tabs with 3 sign-ins and outs, 1 match, 1 fault; 3 pickers, 2 places, a cache of 1, interval 2, 5 searches; 2 scraper runs of 2 pages over 2 seconds; 2 lookups of 3 attempts, tokens that live 3 or 5; 4 shows of 3 artists in 2 genres, every genre and similarity of 2, 1 call, 1 change or end of the process | `EdgesTypeOK`; `RegistryExact`, `TabsComeBack`, `OpenTabsGetIt`; `AskedOnce`, `RequestsSpaced`; `PublishedAccountedFor`; `SearchesPaced`, `TokenHonoured`; `ListsAreDiverse`, `NoneCutShort` |

`TypeOK` of `Notifier`, `Deduper`, `Enricher` and `Follows` is in no run, as it is proved for
all values of their constants.

Five runs end in a violation, each of something the repository says:

| Run | Says | What the code does |
| --- | --- | --- |
| `notifier_twice` | `services/notifier/src/dedup.py`: never notify a user twice about the same event on one channel | A match whose `already_sent` was checked just before a digest commits is queued just after it, and the show is in the next digest again. No failure is needed. |
| `notifier_uninformed` | ADR 006: users already emailed about a show get a notice if it falls through | A show that falls through after the stale drop and before `record_sent` is emailed as new; its status message finds nobody on record, and no notice follows. |
| `deduper_replay` | `README.md`: replays are safe | A crash after the transaction and before the publish makes the replay find its own row: the show is never called new, or the status change never published. |
| `enricher_lost` | `merge_artist`: re-point lineups and follows from a stub artist to the canonical row, then drop it | A follow of the stub that commits between the copy of its follows and their DELETE is deleted without a copy: the user is told 201 and follows nobody. Lineups have the same gap between their copy and DELETE, which `MergeMovesLineups` excuses through `late`. |
| `enricher_clears` | `enrich_artist`: never clearing existing values (`services/enricher/src/db.py:69`) | Genres are the one column that is not written by coalesce. Those that an import commits between the enricher's read and its write are cleared when neither search finds any. |

Other places where the code and what is said of it differ, met while modelling and
without a run of their own:

- A taste is "the average embedding of the artists they follow, recomputed on every follow"
  (`docs/architecture.md:52`). Of two overlapping requests of one user, the one that writes last
  may have read before the other committed, and nothing recomputes after it. An artist
  followed before it has an embedding is not in the average (`0008_functions.sql:22`), and
  embedding it later recomputes no taste: one request is enough for that. `Recompute` and `EmbedArtist`
  have both, and `TasteFollowsFollows` excepts just the artists it happens to.
- Following an artist "alerts that artist's existing nearby shows once" and the push follows
  the same rule (ADR 006), on "its headliner" (`ranker.py:16`). A folded listing with
  another headliner leaves two artists with billing 0 on one row
  (`services/deduper/src/handler.py:47`), the query joins both, and one follow is two matches of one pair.
  `PerHeadliner` has it, and `RescrapesStayQuiet` counts by headliner. The feed's and the digest's
  queries have the same join.
- "A malformed message is logged and skipped so a partition never wedges; anything else"
  crashes the consumer, "which restarts and resumes" (`docs/architecture.md:195`). A Spotify id that another row has
  is no malformed message, and fails the same message after every restart (`EnrichClashes`).
- `matches_push_loop` says it runs until cancelled (`services/gateway/src/ws.py:133`); an exception
  of `push_match` ends it for good. `ReadFails` has it.
- `fetchEntireFeed` is to give the map every event (`web/src/store/feedSlice.ts:37`). A filter change
  on the map dispatches a page by itself beside the walk (`FilterDrawer.tsx:58`), and the two
  overwrite each other's cursor. `FiltersChanged` has it, and `PagesLineUp` excuses the walk
  whose cursor moved.
- The feed's cursor is an offset, so a user who dismisses a show and loads more skips
  one. `PagesLineUp` speaks of lists that have not changed.
- `useFeedSocket`'s `live` flag is not in `LiveFeed`: a socket that closes late clears it
  (`useFeedSocket.ts:36`) even if the one that replaced it is open by then, and the navigation bar
  stops saying "live". Nothing else reads it.
- A pushed match is shown whatever the filters (`feedSlice.ts:75`), as `PushMatch` has it.
- `savePrefs` rejects into the store, so a failed save of the second request still shows
  "Saved" (`app/settings/page.tsx:67`).
- `dev_login` leaves `alert_email` at its default (`services/gateway/src/routes/auth.py:86`), so a user who
  opted out, signs in and saves the settings page before a reload opts in again.
- Two scraper runs started in one second write the same archive keys
  (`services/scraper-ticketmaster/src/archive.py:31`); `PublishedAccountedFor` excepts them.
- One unreadable value fails its whole page and the run (`parser.py:192`), although unusable events
  are skipped one by one.

### Bounds

`MaxUpdates`, `MaxProposals`, `MaxScrapes`, `MaxListings`, `MaxEdits` and `MaxFaults` bound
the environment and nothing of the code. Two changes of the world with two matches reach what the
notifier's properties are about: an alert that goes stale while it waits, a
disruption before, during and after the digest that announces the show, a show
that falls through and comes back, a duplicate match during a digest and a crash
with an email out. One user is enough for the safety properties, as each of them
relates one user's rows; the notifier of `progress` has two because a failure on one delays
the other, and two shows in `notifier_delivery` let a digest list one and not the
other. For the deduper, four scrapes of three listings allow two rows of one show
to be made and moved in either order and a third listing to fold into one of two
candidates; two crashes cut off both an announcement and a later change.
For `Follows`, two requests make every pair of a follow, an unfollow, an import and a
move overlap, or follow one another around a listing, a merge and an embedding; three rows let a
listing change the lineup or bring a second headliner; one fault is a failed publish, a
crash or a message sent twice at any point. The handlers are alike, so `follows` takes
them as symmetric. One user is enough, as no lock, queue or query relates two users. In
`progress` one artist is enough for two requests to wait for each other's rows, a status
that changes once needs one disruption, and three scrapes bring a show, its twin
and a change of either.
For `WebApp`, three clicks with two calls under way let an answer be overtaken by a
click and by another answer, over a sign-out and a sign-in; pages of one show make three
shows three pages, so that a walk and an append each have a middle. In `MCEdges` two tabs have a
retry, an unmount and a push of one cross those of the other; three pickers fill
the lock's queue behind a sleeper, and a cache of one evicts; two pages reach the cap and
the number of pages may be claimed above it or fall below what was read. Three attempts have
a backoff that doubles, with an interval longer than the first delay and no longer than the second; a
token of 3 leaves one tick of use and one of 5 outlives a lookup, and a second lookup finds it kept
or ended. Three candidates with one show per genre before the rest give every list with a genre
that has more than its share, cut by a limit of 2 or left whole; one turn is a change of
the tables around a query, or the stop or crash of a server with a call in any state.
For the enricher, three listings make the two rows and list one of them again during the
merge; two edits allow a follow that is moved and one that comes late, or a
follow that is withdrawn during the merge. The safety properties do not rest on
these bounds, because they are proved for all.

`CHECK_DEADLOCK FALSE` is in every configuration but those of `MCNotifier`: when
every message is handled, the clicks are spent and the scrapers are done there is nothing left to do. The notifier's
digest can always run again, so its runs check for deadlock, which covers the
inserts that wait for the digest's locks.

### Fairness

`FairSpec` asks for weak fairness of `Consume` and, in the notifier, `RunDigest`; in `Follows` also of
every request that is being served and of the enricher's `SendOn`; in `LiveFeed` of each tab, each
handler and the push loop, one by one. The
consumers poll in an endless loop, the digest's timer fires every day, and the
production containers restart whenever the process ends
(`deploy/compose.prod.yml`). A crash is not fair and is bounded: a message that
crashes the process every time does wedge its partition. One handler does that:
the enricher's UPDATE with a Spotify id that another row has (`EnrichClashes`), and
`ShowsReachMatcher` promises nothing once two rows are one artist to Spotify: the
loop is fair then and fails each time. The notifier's two loops are fair separately, since neither waits for the
other longer than one transaction. Nothing is assumed of users, scrapers or shows. `TabsComeBack`
holds because a lost connection, a refused token and a restart are each bounded: a token
that is refused for good is tried every three seconds for ever, as the code does.

## What is proved

The theorems hold for all users, shows, listings, titles, similarities and bounds
that satisfy the `ASSUME` of the module they are about: markers such as `NoUser`
are not users, statuses are statuses, similarity is symmetric, a gateway serves
finitely many requests at once, shows are finitely many, two requests to Spotify take no
longer than the token's margin and less than its life, and the
caller's deadline is shorter than the server's grace. These are what the code's
settings say: timeouts of 15 s against 60 s in `spotify.py` (httpx applies its timeout to the
connection and to each read, so an answer that trickles in for half a minute is beyond the
assumption), and 2 s in the gateway's `config.py` against 5 s in the recommender's `main.py`.

- Every module's type invariant: `TypeCorrect` in `NotifierProofs`, `DeduperProofs`, `EnricherProofs`
  and `FollowsProofs`, `LiveTypeCorrect`, `WebTypeCorrect`, and `EdgesTypeCorrect` for the five edges
  side by side. Beyond shapes, the message in hand is always past the
  committed offset, and the rows of an open merge exist.
- **Delivery** (`OnlyOnce`, `NoticesFollowAlerts`, `ReportsAreRecorded`). None of these
  is inductive. `DeliveryInv` adds that an open digest transaction owns the rows it
  is about (only a digest deletes), that a pair both on record and waiting was
  raced, that every email is on record, about to be or interrupted, and that
  notices and reports are of pairs on record.
- **Disruption** (`DisruptionsAreReported`). `DisruptionInv` follows one reader: the
  newest message about a show that fell through carries its status
  (`LastChangeIsCurrent`); a reader last told something else has a notice or an
  unhandled message on the way (`NobodyForgotten`); a notice about to be dropped
  has a reason or a successor (`DroppedWithReason`).
- **Refinement** (`NotifierProofs!NotifierImplementsAlertBook`). The book holds
  the rows of both tables, a sweep's findings are the uncommitted deletes, and
  what is worth sending is the negation of the two staleness conditions. It rests
  on `DeliveryInv`: what a digest clears it has mailed.
- **Announcements** (`NewOnce`, `NewShowsAreAnnounced`, `StatusIsFollowed`) from
  `AnnounceInv`: the loop speaks for the row it has just written from the message
  in hand, and an announced row exists and is not about to be announced again.
- **Rows** (`TwinsHaveMoved`, `LineupsFollowSources`). These are inductive given
  `TypeOK`; the first needs the symmetry of similarity, as either row may be the
  newer one.
- **Merges** (`FollowersMove`, `LineupsMove`). `MergeInv` follows an open merge: what it
  has copied is what the stub had (`FollowsTracked`, `LineupsTracked`, except for the
  late), and what it has deleted is the stub's and still there, since a second
  delete of those rows waits (`OpenRows`). The foreign keys then say that nothing
  else is left when the stub goes.
- **Live feed** (`LiveFeedProofs!RegistryExactHolds`, `OneSocketPerTabHolds`). `LiveInv` adds that sockets not
  opened yet are unused and in nobody's hands (`FreshOK`), and that what the push loop
  still has to send to are sockets of the match's user (`HeldOK`), so that dropping one after a
  failed send takes it out of the right entry.
- **Geocoder** (`EdgesProofs!AskedOnceHolds`, `RequestsAreSpaced`). `GeoInv` says who may sleep or ask: the
  holder of the lock and nobody else; everybody else is queued once; and the time since
  the last request is never longer than the code believes.
- **Scraper** (`EdgesProofs!PublishedAccountedForHolds`). `ScrapeInv` follows a run: what it has published of
  the page in hand and what it still holds are the usable events of that page, and the pages
  before are complete.
- **Lookups** (`EdgesProofs!TokenHonouredHolds`, `SearchesArePaced`). `LookInv` relates what the client knows to what
  is so: a token's life and the time its answer took are at least its term (`TokenOK`),
  hence what is left of a cached token, with the margin, is at most its life and one transit; and a search
  takes at most another. `PaceOK` says that the throttle's clock is the time since a search unless the
  process is new, and that a sleep's rest and the time since the 503 make up the delay it was
  for. The delays are a recursive function whose values come from `Recursion`.
- **Discovery** (`EdgesProofs!ListsAreDiverseHolds`, `NoneCutShortHolds`). The first is about the query and not
  about steps: `BeforeOrders` shows that its ORDER BY is a strict order of the candidates, `PlaceOrders` and
  `PlaceTaken` that their places follow it and that every place up to their number is taken, so that a list is the
  candidates in order; and `PickFirst` that whoever comes first is whom the greedy rule picks
  after those ahead, as a candidate is spare exactly if the ones ahead of it hold its genre's share.
  The second needs that a call in flight has less time left than the grace (`CallOK`).
- **Web app** (`WebAppProofs`). `IInv` follows every call from the click to its answer, and is a conjunction of
  parts that are proved one after another, each resting on the types and shapes of calls (`Basis`) only:
  - `WaitsAreForCallsHolds` from `WaitInv`: a feed that waits, waits for a first page, a button for a toggle of its
    artist and the form for its own request, not just for any call of a kind, since these
    answers are what ends the wait.
  - `SessionAgreesHolds` from `SessionInv`: only one session is ever loaded; while it is
    still wanted the store is signed out, no settings are being saved, and what the browser keeps is what it
    was asked with.
  - `DismissedStaysAwayHolds` from `DismissedInv`: a page already read and a pushed match know which of their shows
    were dismissed after (`older`), and a dismissal that was done is in the table.
  - `PagesLineUpHolds` from `PagesInv`: a page that was read at the list's present version is a segment of that list
    (`IsPage`), so a page that fits goes exactly behind those shown. What the store filters and what the gateway filters
    are related by lemmas on `Kept`: of a concatenation, of a filter of a filter, of one element less.
  - `ButtonsTellTheTruthHolds` from `ButtonsInv`: a button without doubt has at most one toggle under way, which will end or
    has ended with what the button shows (`ToggleOK`), and the follows a load of this session has read are
    the table's but for artists that were toggled meanwhile (`LoadOK`).
  Answers move, remove, age and append calls; `Moved` says how the calls of a state come of those
  before, and each part has one lemma on `Moved` in place of one per action.
- **Filling in** (`FilledInRemains`) from `FillInv`: a row in search has no MusicBrainz
  id, as only the enricher gives one; a row that is embedded has genres, was read with genres,
  and the genres to be written are then not empty.
- **Matching** (`FollowsProofs!Missed`). `NobodyMissed` is not inductive: a crash of the
  matcher takes the matches in hand with it. `AllCovered` says what covers a pair so that a
  crash cannot uncover it: a match, an announcement not yet read to the end or, by the artist
  the user follows, a request or a taste message. A message in hand counts as long as the pair
  is left. `RequestsOK` says that a request names every artist it will have followed.
- **Taste** (`FollowsProofs!TasteFollows`) from `TasteSeen`: about an artist it has not missed, what
  a request has read is what its commit makes of the follows that are embedded.
  `SeenOvertaken` carries that through the writes of other requests, merges and embeddings.
- **Quiet** (`FollowsProofs!Quiet`). `Budget` counts, for every user, show and headliner: the
  matches there have been and the messages and requests that may each bring one more are never
  more than the show's announcement, the requests and the faults, and the message in hand counts once
  and not twice (`Spent`). `NewsListed` says that a show is announced once. The messages of a
  queue are counted by lemmas on finite sets (`CountAppend`, `CountTail`). The sum over two
  headliners does not stay within that count.

Induction over the numbers is done without a theorem that takes an operator: of the
numbers for which a claim fails there is a least one (`Recursion!NatMin`), which the step
refutes. In the same way a recursive function is shown to exist (`RecursionDefines`), so that
what its definition chooses has the values it says: `Kept` of `WebApp`, which stands for `filter`, and
`Backoff` of `Lookups` are defined by recursion and proved about.

Only model-checked: the liveness properties (`AlertsSettle`, `NoticesSettle`, `MessagesDrain`, `DiscoveriesDrain`,
`ShowsReachMatcher`, `RequestsEnd`, `MatchesArrive`, `TabsComeBack`, `OpenTabsGetIt`), as the provers do
not reach ENABLED and so no fairness, and the runs that end in a violation. Whether a
bound is large enough matters for these alone.

## What is not modelled

The wording of emails and pages, logging, telemetry and health checks; relevance
scores and embeddings, which are arithmetic on reals (discovery only compares them);
OAuth and how a token is signed; the fields of Ticketmaster's JSON that decide nothing; the read-only
endpoints of artists and events, and the components that show them;
deployment. The digest's timer is the
guard-free start of `RunDigest`: the properties hold whenever it fires.

## Plan

1. *Done:* `AlertBook`, `Notifier`, `Deduper`, with proofs. They decide what users
   are told, and hold the worst interleavings and crash windows.
2. *Done:* `Enricher`, with proofs: the merge of a stub into the canonical artist
   against the deduper's links and the gateway's follows.
3. *Done:* `Follows`: follows, moves and imports against new shows, through the matcher.
4. *Done:* `WebApp` and `LiveFeed`: the stores under answers out of order, the sockets.
5. *Done:* `Geocoder` and `Scraper`, with proofs, and the proofs of `LiveFeed` and
   `Follows`.
6. *Done:* the proofs of `WebApp`; `Lookups` and `Recommender`, with proofs.
7. Left: the promises of the services composed, from a scrape to an email. Each link is
   stated between two of them: rows to announcements (`Deduper`), announcements and
   follows to matches (`Follows`), matches to emails (`Notifier`).
