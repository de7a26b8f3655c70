------------------------------- MODULE Enricher -------------------------------
(***************************************************************************)
(* services/enricher among the other writers of the artists table.         *)
(*                                                                         *)
(* The deduper makes a bare row for every name it has not seen, the        *)
(* gateway's Spotify import does the same, and users follow rows by their  *)
(* id.  The enricher takes each deduped show, looks its artist up on       *)
(* MusicBrainz and Spotify and either fills the row in or, when another    *)
(* row already owns the MusicBrainz id, merges the row into that one:      *)
(* five statements of one READ COMMITTED transaction, between which the    *)
(* others commit theirs.                                                   *)
(*                                                                         *)
(* A lineup has one artist here; the enricher resolves each artist of a    *)
(* longer one in transactions of their own.  What the rest of the system   *)
(* does with a show is in Deduper and Notifier.                            *)
(***************************************************************************)
EXTENDS Integers, Sequences, FiniteSets

CONSTANTS
  Users, Shows,
  Ids,           \* artist row ids, each used once
  Names,
  Mbids, SpotifyIds,
  MbidOf,        \* the MusicBrainz id a search for each name returns, or NoId
  SpotifyOf,     \* the Spotify id a search for each name returns, or NoId
  NoId, NoArtist, NoShow, NoUser, NoName,
  MaxListings,   \* bound: lineups the deduper links
  MaxEdits       \* bound: follows, unfollows, imports and crashes of the enricher

Artist ==
  [name : Names, mbid : Mbids \cup {NoId}, spotifyId : SpotifyIds \cup {NoId},
   genres : BOOLEAN, embedded : BOOLEAN]

ASSUME EnricherAssumption ==
  /\ Users \cap Shows = {}
  /\ MbidOf \in [Names -> Mbids \cup {NoId}]
  /\ SpotifyOf \in [Names -> SpotifyIds \cup {NoId}]
  /\ NoId \notin Ids \cup Mbids \cup SpotifyIds
  /\ NoArtist \notin Artist
  /\ NoShow \notin Shows /\ NoUser \notin Users /\ NoName \notin Names
  /\ MaxListings \in Nat /\ MaxEdits \in Nat

VARIABLES
  artists,      \* artists: the row of each id, or NoArtist
  born,         \* the ids given out so far
  links,        \* event_artists
  follows,      \* follows
  deduped,      \* events.deduped: per show, the artist of each message not committed
  enriched,     \* the shows some message on events.enriched is about
  enricher, deduper, gateway,   \* where each service is
  late,         \* users and shows whose rows changed under the merge (never read)
  listings, edits

tables == <<artists, born, links, follows>>
bounds == <<listings, edits>>

vars == <<tables, deduped, enriched, enricher, deduper, gateway, late, bounds>>

Rows == {i \in Ids : artists[i] # NoArtist}

EnricherSteps ==
  {"poll", "search", "write", "dropLineups", "relinkFollows", "dropFollows",
   "dropArtist", "embed", "publish", "commit"}

\* No message in hand, and nothing written by an open transaction.
Polling ==
  [at |-> "poll", show |-> NoShow, id |-> NoId, had |-> FALSE, mbid |-> NoId,
   spotifyId |-> NoId, genres |-> FALSE, canonical |-> NoId,
   addLinks |-> {}, delLinks |-> {}, addFollows |-> {}, delFollows |-> {}]

NotLinking == [show |-> NoShow, name |-> NoName, id |-> NoId]

NotImporting == [user |-> NoUser, name |-> NoName, id |-> NoId, byName |-> FALSE]

Init ==
  /\ artists = [i \in Ids |-> NoArtist]
  /\ born = {}
  /\ links = {} /\ follows = {}
  /\ deduped = [s \in Shows |-> <<>>]
  /\ enriched = {}
  /\ enricher = Polling /\ deduper = NotLinking /\ gateway = NotImporting
  /\ late = {}
  /\ listings = 0 /\ edits = 0

-------------------------------------------------------------------------------
(* Inserts and deletes of the other services, against the open merge.  A row *)
(* the merge has written makes them wait; a row it has not touched is theirs *)
(* to change, even if the merge will miss that.                              *)

\* An insert of <<x, i>> goes ahead: the artist exists and no open row is in the way.
MayInsert(x, i) ==
  /\ i \in Rows
  /\ <<x, i>> \notin enricher.addLinks \cup enricher.delLinks
                       \cup enricher.addFollows \cup enricher.delFollows

MayDelete(x, i) == <<x, i>> \notin enricher.delLinks \cup enricher.delFollows

\* The rows of x that change after the merge has copied them, before it is done.
OvertakesFollows(i) ==
  \/ enricher.at = "dropFollows" /\ i = enricher.id
  \/ enricher.at \in {"dropFollows", "dropArtist"} /\ i = enricher.canonical

OvertakesLinks(i) ==
  \/ enricher.at = "dropLineups" /\ i = enricher.id
  \/ enricher.at \in {"dropLineups", "relinkFollows", "dropFollows", "dropArtist"}
       /\ i = enricher.canonical

-------------------------------------------------------------------------------
(* The deduper: upsert_artist and link_lineup, one transaction *)

\* A new row for the name, under an id never used before: which one does not matter.
NewRow(i, name, spotifyId, genres) ==
  /\ Ids \ born # {}
  /\ i = CHOOSE j \in Ids : j \notin born
  /\ born' = born \cup {i}
  /\ artists' = [artists EXCEPT ![i] =
                   [name |-> name, mbid |-> NoId, spotifyId |-> spotifyId,
                    genres |-> genres, embedded |-> FALSE]]

\* The first row of that name, in no particular order, or none.
RowsNamed(name) == {i \in Rows : artists[i].name = name}

FoundByName(name, i) ==
  i \in IF RowsNamed(name) = {} THEN {NoId} ELSE RowsNamed(name)

LookUpListed(s, name) ==
  /\ listings < MaxListings
  /\ deduper = NotLinking
  /\ \E i \in Ids \cup {NoId} :
       /\ FoundByName(name, i)
       /\ deduper' = [show |-> s, name |-> name, id |-> i]
  /\ UNCHANGED <<tables, deduped, enriched, enricher, gateway, late, bounds>>

\* The links the commit takes away: the other artists of the row's own listing.
Pruned(s, i, prune) == {l \in links : prune /\ l[1] = s /\ l[2] # i}

\* The row is made or reused, linked to the show, and the show is sent on.
LinkListed(i, prune, genres) ==
  LET s == deduper.show
      gone == Pruned(s, i, prune)
  IN  /\ deduper # NotLinking
      /\ IF deduper.id = NoId
           THEN NewRow(i, deduper.name, NoId, genres)
           ELSE /\ i = deduper.id
                /\ MayInsert(s, i)
                /\ UNCHANGED <<artists, born>>
      /\ \A l \in gone : MayDelete(s, l[2])
      /\ links' = (links \ gone) \cup {<<s, i>>}
      /\ late' = late \cup
           {x \in {s} : \/ <<s, i>> \notin links /\ OvertakesLinks(i)
                        \/ \E l \in gone : OvertakesLinks(l[2])}
      /\ deduped' = [deduped EXCEPT ![s] = Append(@, i)]
      /\ deduper' = NotLinking
      /\ listings' = listings + 1
      /\ UNCHANGED <<follows, enriched, enricher, gateway, edits>>

\* The row it found was merged away: the insert fails and the listing is retried.
LinkFails ==
  /\ deduper.id \in Ids \ Rows
  /\ deduper' = NotLinking
  /\ UNCHANGED <<tables, deduped, enriched, enricher, gateway, late, bounds>>

-------------------------------------------------------------------------------
(* The gateway: follows and the Spotify import *)

InsertFollow(u, i) ==
  /\ MayInsert(u, i)
  /\ follows' = follows \cup {<<u, i>>}
  /\ late' = late \cup {x \in {u} : <<u, i>> \notin follows /\ OvertakesFollows(i)}

CreateFollow(u, i) ==
  /\ edits < MaxEdits
  /\ edits' = edits + 1
  /\ InsertFollow(u, i)
  /\ UNCHANGED <<artists, born, links, deduped, enriched, enricher, deduper, gateway,
                 listings>>

DeleteFollow(u, i) ==
  /\ edits < MaxEdits
  /\ edits' = edits + 1
  /\ <<u, i>> \in follows
  /\ MayDelete(u, i)
  /\ follows' = follows \ {<<u, i>>}
  /\ late' = late \cup {x \in {u} : OvertakesFollows(i)}
  /\ UNCHANGED <<artists, born, links, deduped, enriched, enricher, deduper, gateway,
                 listings>>

\* The row that has the Spotify id, else one of that name, else none.
LookUpImported(u, name) ==
  /\ edits < MaxEdits
  /\ edits' = edits + 1
  /\ gateway = NotImporting
  /\ SpotifyOf[name] # NoId
  /\ LET known == {j \in Rows : artists[j].spotifyId = SpotifyOf[name]} IN
     \E i \in Ids \cup {NoId} :
       /\ IF known # {} THEN i \in known ELSE FoundByName(name, i)
       /\ gateway' = [user |-> u, name |-> name, id |-> i, byName |-> known = {}]
  /\ UNCHANGED <<tables, deduped, enriched, enricher, deduper, late, listings>>

\* Another row has the Spotify id, which is unique.
Taken(spotifyId, i) ==
  spotifyId # NoId /\ \E j \in Rows \ {i} : artists[j].spotifyId = spotifyId

\* The row would get a Spotify id that another one got in the meantime.
ImportClashes ==
  /\ gateway.byName
  /\ gateway.id \in Rows => artists[gateway.id].spotifyId = NoId
  /\ Taken(SpotifyOf[gateway.name], gateway.id)

\* Metadata is only filled in where the row has none.
AttachSpotify(i, spotifyId, genres) ==
  [artists EXCEPT ![i].spotifyId = IF @ = NoId THEN spotifyId ELSE @,
                  ![i].genres = @ \/ genres]

\* The user follows the row the import found or made.
FinishImport(i, genres) ==
  /\ gateway # NotImporting
  /\ ~ImportClashes
  /\ IF gateway.id = NoId
       THEN /\ NewRow(i, gateway.name, SpotifyOf[gateway.name], genres)
            /\ follows' = follows \cup {<<gateway.user, i>>}
            /\ UNCHANGED late
       ELSE /\ i = gateway.id
            /\ InsertFollow(gateway.user, i)
            /\ artists' = IF gateway.byName
                            THEN AttachSpotify(i, SpotifyOf[gateway.name], genres)
                            ELSE artists
            /\ UNCHANGED born
  /\ gateway' = NotImporting
  /\ UNCHANGED <<links, deduped, enriched, enricher, deduper, bounds>>

\* Or the request fails, also when the row was merged away.
ImportFails ==
  /\ gateway # NotImporting
  /\ gateway.id \in Ids \ Rows \/ ImportClashes
  /\ gateway' = NotImporting
  /\ UNCHANGED <<tables, deduped, enriched, enricher, deduper, late, bounds>>

-------------------------------------------------------------------------------
(* The enricher: one artist *)

\* The row is read before the searches and written after them.  A row that is gone or
\* done needs neither; one that only lacks its embedding needs no search.
FetchArtist(s) ==
  /\ enricher.at = "poll"
  /\ deduped[s] # <<>>
  /\ LET i == Head(deduped[s])
         row == artists[i]
         hand == [Polling EXCEPT !.show = s, !.id = i]
     IN  enricher' =
           IF row = NoArtist THEN [hand EXCEPT !.at = "publish"]
           ELSE IF row.mbid = NoId
             THEN [hand EXCEPT !.at = "search", !.had = row.genres]
           ELSE IF row.embedded THEN [hand EXCEPT !.at = "publish"]
           ELSE [hand EXCEPT !.at = "embed", !.had = row.genres, !.genres = row.genres]
  /\ UNCHANGED <<tables, deduped, enriched, deduper, gateway, late, bounds>>

\* _pick_genres.  (Mutant: the genres the row has do not count.)
PickGenresFound(found, existing) == found

PickGenres(found, existing) == found \/ existing

\* Either search may come back empty, Spotify's also when it fails.
Search(mbid, spotifyId, found) ==
  /\ enricher.at = "search"
  /\ mbid \in {NoId, MbidOf[artists[enricher.id].name]}
  /\ spotifyId \in {NoId, SpotifyOf[artists[enricher.id].name]}
  /\ found => mbid # NoId \/ spotifyId # NoId
  /\ enricher' = [enricher EXCEPT !.at = "write", !.mbid = mbid, !.spotifyId = spotifyId,
                                  !.genres = PickGenres(found, enricher.had)]
  /\ UNCHANGED <<tables, deduped, enriched, deduper, gateway, late, bounds>>

\* The other rows that own the MusicBrainz id.
Owners ==
  {j \in Rows \ {enricher.id} : enricher.mbid # NoId /\ artists[j].mbid = enricher.mbid}

\* The row with the results filled in; the genres become those found or read.
Filled(row) ==
  [row EXCEPT !.mbid = IF enricher.mbid = NoId THEN @ ELSE enricher.mbid,
              !.spotifyId = IF enricher.spotifyId = NoId THEN @ ELSE enricher.spotifyId,
              !.genres = enricher.genres,
              !.embedded = @ \/ enricher.genres]

EnrichArtist ==
  /\ \/ enricher.at = "embed"
     \/ enricher.at = "write" /\ Owners = {} /\ ~Taken(enricher.spotifyId, enricher.id)
  /\ artists' = [artists EXCEPT ![enricher.id] = Filled(@)]
  /\ enricher' = [enricher EXCEPT !.at = "publish"]
  /\ UNCHANGED <<born, links, follows, deduped, enriched, deduper, gateway, late, bounds>>

\* Another row has the Spotify id: the update raises, the process dies and the message
\* is delivered again.
EnrichClashes ==
  /\ enricher.at = "write" /\ Owners = {} /\ Taken(enricher.spotifyId, enricher.id)
  /\ enricher' = Polling
  /\ UNCHANGED <<tables, deduped, enriched, deduper, gateway, late, bounds>>

-------------------------------------------------------------------------------
(* The enricher: merge_artist, statement by statement *)

RowsOf(rel, stub) == {r \in rel : r[2] = stub}

\* What INSERT ... SELECT ... ON CONFLICT DO NOTHING adds: the stub's rows under the
\* canonical id, as far as they are not there yet.
Repointed(rel, stub, canonical) ==
  {<<r[1], canonical>> : r \in RowsOf(rel, stub)} \ rel

\* (Mutant: the lineups are deleted first, so there is nothing to copy.)
RelinkNoLineups(canonical) ==
  /\ enricher.at = "write"
  /\ canonical \in Owners
  /\ enricher' = [enricher EXCEPT !.at = "dropLineups", !.canonical = canonical]
  /\ late' = {}
  /\ UNCHANGED <<tables, deduped, enriched, deduper, gateway, bounds>>

RelinkLineups(canonical) ==
  /\ enricher.at = "write"
  /\ canonical \in Owners
  /\ enricher' = [enricher EXCEPT !.at = "dropLineups", !.canonical = canonical,
                     !.addLinks = Repointed(links, enricher.id, canonical)]
  /\ late' = {}
  /\ UNCHANGED <<tables, deduped, enriched, deduper, gateway, bounds>>

DropLineups ==
  /\ enricher.at = "dropLineups"
  /\ enricher' = [enricher EXCEPT !.at = "relinkFollows",
                                  !.delLinks = RowsOf(links, enricher.id)]
  /\ UNCHANGED <<tables, deduped, enriched, deduper, gateway, late, bounds>>

\* (Mutant: the follows are not copied.)
RelinkNoFollows ==
  /\ enricher.at = "relinkFollows"
  /\ enricher' = [enricher EXCEPT !.at = "dropFollows"]
  /\ UNCHANGED <<tables, deduped, enriched, deduper, gateway, late, bounds>>

RelinkFollows ==
  /\ enricher.at = "relinkFollows"
  /\ enricher' = [enricher EXCEPT !.at = "dropFollows",
                     !.addFollows = Repointed(follows, enricher.id, enricher.canonical)]
  /\ UNCHANGED <<tables, deduped, enriched, deduper, gateway, late, bounds>>

DropFollows ==
  /\ enricher.at = "dropFollows"
  /\ enricher' = [enricher EXCEPT !.at = "dropArtist",
                                  !.delFollows = RowsOf(follows, enricher.id)]
  /\ UNCHANGED <<tables, deduped, enriched, deduper, gateway, late, bounds>>

\* Rows that still refer to the stub, which the foreign keys do not allow.
References ==
  RowsOf(links \ enricher.delLinks, enricher.id)
    \cup RowsOf(follows \ enricher.delFollows, enricher.id)

\* The stub is deleted and the transaction commits.
DropArtist ==
  /\ enricher.at = "dropArtist"
  /\ References = {}
  /\ artists' = [artists EXCEPT ![enricher.id] = NoArtist]
  /\ links' = (links \ enricher.delLinks) \cup enricher.addLinks
  /\ follows' = (follows \ enricher.delFollows) \cup enricher.addFollows
  /\ enricher' = [enricher EXCEPT !.at = "publish", !.addLinks = {}, !.delLinks = {},
                                  !.addFollows = {}, !.delFollows = {}]
  /\ UNCHANGED <<born, deduped, enriched, deduper, gateway, late, bounds>>

\* Or the delete raises: the merge rolls back and the message is delivered again.
DropRefused ==
  /\ enricher.at = "dropArtist"
  /\ References # {}
  /\ enricher' = Polling
  /\ UNCHANGED <<tables, deduped, enriched, deduper, gateway, late, bounds>>

-------------------------------------------------------------------------------
(* The enricher: the message is done *)

PublishEnriched ==
  /\ enricher.at = "publish"
  /\ enriched' = enriched \cup {enricher.show}
  /\ enricher' = [enricher EXCEPT !.at = "commit"]
  /\ UNCHANGED <<tables, deduped, deduper, gateway, late, bounds>>

\* (Mutant: the consumer polls on without committing.)
CommitOffsetNever ==
  /\ enricher.at = "commit"
  /\ enricher' = Polling
  /\ UNCHANGED <<tables, deduped, enriched, deduper, gateway, late, bounds>>

CommitOffset ==
  /\ enricher.at = "commit"
  /\ deduped' = [deduped EXCEPT ![enricher.show] = Tail(@)]
  /\ enricher' = Polling
  /\ UNCHANGED <<tables, enriched, deduper, gateway, late, bounds>>

\* The process dies, on its own or because MusicBrainz stays unavailable.
Crash ==
  /\ enricher.at # "poll"
  /\ edits < MaxEdits
  /\ edits' = edits + 1
  /\ enricher' = Polling
  /\ UNCHANGED <<tables, deduped, enriched, deduper, gateway, late, listings>>

-------------------------------------------------------------------------------
Others ==
  \/ \E s \in Shows, n \in Names : LookUpListed(s, n)
  \/ \E i \in Ids, prune, genres \in BOOLEAN : LinkListed(i, prune, genres)
  \/ LinkFails
  \/ \E u \in Users, i \in Ids : CreateFollow(u, i) \/ DeleteFollow(u, i)
  \/ \E u \in Users, n \in Names : LookUpImported(u, n)
  \/ \E i \in Ids, genres \in BOOLEAN : FinishImport(i, genres)
  \/ ImportFails

Consume ==
  \/ \E s \in Shows : FetchArtist(s)
  \/ \E mbid \in Mbids \cup {NoId}, spotifyId \in SpotifyIds \cup {NoId}, found \in BOOLEAN :
       Search(mbid, spotifyId, found)
  \/ EnrichArtist \/ EnrichClashes
  \/ \E canonical \in Ids : RelinkLineups(canonical)
  \/ DropLineups \/ RelinkFollows \/ DropFollows
  \/ DropArtist \/ DropRefused
  \/ PublishEnriched \/ CommitOffset

Next == Others \/ Consume \/ Crash

Spec == Init /\ [][Next]_vars

\* The consumer keeps polling; nobody has to follow, import or list anything.
FairSpec == Spec /\ WF_vars(Consume)

-------------------------------------------------------------------------------
(* Properties *)

TablesOK ==
  /\ artists \in [Ids -> Artist \cup {NoArtist}]
  /\ born \subseteq Ids
  /\ Rows \subseteq born
  /\ links \subseteq Shows \X Ids
  /\ follows \subseteq Users \X Ids

ServicesOK ==
  /\ enricher \in
       [at : EnricherSteps, show : Shows \cup {NoShow}, id : Ids \cup {NoId},
        had : BOOLEAN, mbid : Mbids \cup {NoId}, spotifyId : SpotifyIds \cup {NoId},
        genres : BOOLEAN, canonical : Ids \cup {NoId},
        addLinks : SUBSET (Shows \X Ids), delLinks : SUBSET (Shows \X Ids),
        addFollows : SUBSET (Users \X Ids), delFollows : SUBSET (Users \X Ids)]
  /\ deduper \in [show : Shows \cup {NoShow}, name : Names \cup {NoName},
                  id : Ids \cup {NoId}]
  /\ gateway \in [user : Users \cup {NoUser}, name : Names \cup {NoName},
                  id : Ids \cup {NoId}, byName : BOOLEAN]

\* The message in hand is past no committed offset, and the row the enricher works on
\* exists: nobody else removes one.
InHand ==
  /\ enricher.at # "poll" =>
       enricher.show \in Shows /\ deduped[enricher.show] # <<>> /\ enricher.id \in Ids
  /\ enricher.at \notin {"poll", "publish", "commit"} => enricher.id \in Rows
  /\ enricher.at \in {"dropLineups", "relinkFollows", "dropFollows", "dropArtist"} =>
       enricher.canonical \in Rows \ {enricher.id}
  /\ deduper # NotLinking => deduper.show \in Shows /\ deduper.name \in Names
  /\ gateway # NotImporting => gateway.user \in Users /\ gateway.name \in Names

\* The shape of the state; what the services have in hand is there.
TypeOK ==
  /\ TablesOK
  /\ ServicesOK
  /\ InHand
  /\ deduped \in [Shows -> Seq(Ids)]
  /\ enriched \subseteq Shows
  /\ late \subseteq Users \cup Shows
  /\ listings \in Nat /\ edits \in Nat

\* What a merge of the stub into the canonical row makes of the rows of xs.
Moved(old, new, stub, canonical, xs) ==
  \A x \in xs :
    /\ <<x, canonical>> \in new <=> (<<x, stub>> \in old \/ <<x, canonical>> \in old)
    /\ <<x, stub>> \notin new

\* When an artist row disappears, another row has exactly its followers and its own,
\* unless one of them followed or unfollowed while the merge was running.
MergeMovesFollowers ==
  [][\A i \in Rows \ Rows' :
       /\ enricher.canonical \in Rows'
       /\ Moved(follows, follows', i, enricher.canonical, Users \ late)]_vars

\* When an artist row disappears, another row is on exactly its bills and its own,
\* unless one of the shows was listed anew while the merge was running.
MergeMovesLineups ==
  [][\A i \in Rows \ Rows' :
       Moved(links, links', i, enricher.canonical, Shows \ late)]_vars

\* What a row has been given stays: nobody takes away or replaces its MusicBrainz id, nobody
\* takes away its Spotify id or its embedding, and an embedded row is never left without
\* genres, however often its artist is looked up with whatever the searches find
\* (enrich_artist writes genres as they are, the rest by coalesce).
FilledInStays ==
  [][\A i \in Rows \cap Rows' :
       /\ artists[i].mbid # NoId => artists'[i].mbid = artists[i].mbid
       /\ artists[i].spotifyId # NoId => artists'[i].spotifyId # NoId
       /\ artists[i].embedded => artists'[i].embedded /\ artists'[i].genres]_vars

\* enrich_artist: "never clearing existing values" (services/enricher/src/db.py:69).  The code
\* does not keep it: genres that an import adds to a row between the enricher's read and
\* its write are cleared when the searches find none.
EnrichNeverClears ==
  [][\A i \in Rows \cap Rows' : artists[i].genres => artists'[i].genres]_vars

\* Some row's Spotify search returns the id of another row.
SpotifyClash == \E i \in Rows : Taken(SpotifyOf[artists[i].name], i)

\* Every deduped show is enriched and sent on, whatever is merged or crashes meanwhile,
\* unless two rows are the same artist to Spotify.
ShowsReachMatcher ==
  \A s \in Shows : (deduped[s] # <<>>) ~> ((deduped[s] = <<>> /\ s \in enriched) \/ SpotifyClash)

\* merge_artist: "Re-point lineups and follows from a stub artist to the canonical row".
\* The code does not keep it: a follow that commits between the INSERT ... SELECT and
\* the DELETE is deleted without having been copied.
MergeLosesNoFollow ==
  [][\A i \in Rows \ Rows' : Moved(follows, follows', i, enricher.canonical, Users)]_vars
-------------------------------------------------------------------------------
(* Why a merge moves everything: inductive strengthenings *)

\* The copies made are of the rows of xs that the stub had, as far as they are not the
\* canonical row's anyway; what was deleted is the stub's and nobody else deletes it.
Tracks(rel, add, had, xs) ==
  \A x \in xs :
    <<x, enricher.canonical>> \in rel \cup add <=>
      (<<x, enricher.id>> \in had \/ <<x, enricher.canonical>> \in rel)

FollowsTracked ==
  /\ enricher.at = "dropFollows" =>
       Tracks(follows, enricher.addFollows, follows, Users \ late)
  /\ enricher.at = "dropArtist" =>
       Tracks(follows, enricher.addFollows, enricher.delFollows, Users \ late)

LineupsTracked ==
  /\ enricher.at = "dropLineups" =>
       Tracks(links, enricher.addLinks, links, Shows \ late)
  /\ enricher.at \in {"relinkFollows", "dropFollows", "dropArtist"} =>
       Tracks(links, enricher.addLinks, enricher.delLinks, Shows \ late)

\* The open transaction adds rows of the canonical artist, deletes rows of the stub that
\* are still there, and has not got ahead of itself.
OpenRows ==
  /\ \A r \in enricher.addLinks \cup enricher.addFollows : r[2] = enricher.canonical
  /\ enricher.delLinks \subseteq RowsOf(links, enricher.id)
  /\ enricher.delFollows \subseteq RowsOf(follows, enricher.id)
  /\ enricher.at \notin {"dropFollows", "dropArtist"} => enricher.addFollows = {}
  /\ enricher.at # "dropArtist" => enricher.delFollows = {}
  /\ enricher.at \notin {"dropLineups", "relinkFollows", "dropFollows", "dropArtist"} =>
       enricher.addLinks = {}
  /\ enricher.at \notin {"relinkFollows", "dropFollows", "dropArtist"} =>
       enricher.delLinks = {}

\* An embedded row has genres, and was read with them; those about to be written include
\* those that were read.
GenresKept ==
  /\ \A i \in Rows : artists[i].embedded => artists[i].genres
  /\ enricher.at \in {"search", "write", "embed"} =>
       (artists[enricher.id].embedded => enricher.had)
  /\ enricher.at \in {"write", "embed"} => (enricher.had => enricher.genres)

\* A row about to get a MusicBrainz id has none, and one about to be embedded keeps its own.
IdsKept ==
  /\ enricher.at \in {"search", "write"} => artists[enricher.id].mbid = NoId
  /\ enricher.at = "embed" => enricher.mbid = NoId /\ enricher.spotifyId = NoId

MergeInv == FollowsTracked /\ LineupsTracked /\ OpenRows

FillInv == GenresKept /\ IdsKept
==============================================================================
