-------------------------------- MODULE Follows --------------------------------
(***************************************************************************)
(* From a follow or a new show to a match: the gateway's follow requests,  *)
(* services/matcher, and what the deduper and the enricher do to the rows  *)
(* it reads.                                                               *)
(*                                                                         *)
(* Two messages bring the two sides of a match together.  events.enriched  *)
(* makes the matcher read who follows a new show; users.taste_updated      *)
(* makes it read which shows a user's follows bring.  Each read may come   *)
(* before the other side has committed.  This module is about who is       *)
(* missed.  Deduper, Enricher and Notifier have the details of the rows    *)
(* and of what becomes of a match.                                         *)
(***************************************************************************)
EXTENDS Integers, Sequences, FiniteSets

CONSTANTS
  Users, Artists, Shows,
  Places,        \* what a travel radius can tell apart of the venues
  Handlers,      \* requests the gateway serves at once
  ListedRows,    \* the rows a listing may make
  NoRow, NoUser, NoMessage,
  MaxRequests,   \* bound: follows, unfollows, imports, moves and dismissals
  MaxListings,   \* bound: listings of a show and changes to its row
  MaxFaults      \* bound: crashes, failed publishes and messages sent twice

\* An event row, as far as the matcher reads it.  live is starts_at > now() and a
\* status that still sells; headliners are the artists with billing 0, which no key keeps
\* to one: a folded listing brings its own.
Row ==
  [live : BOOLEAN, place : Places, lineup : SUBSET Artists, headliners : SUBSET Artists]

ASSUME FollowsAssumption ==
  /\ NoRow \notin Row
  /\ ListedRows \subseteq Row
  /\ \A r \in ListedRows : r.headliners \subseteq r.lineup
  /\ NoUser \notin Users
  /\ NoMessage \notin Users \cup Shows /\ Users \cap Shows = {}
  /\ IsFiniteSet(Handlers)
  /\ MaxRequests \in Nat /\ MaxListings \in Nat /\ MaxFaults \in Nat

VARIABLES
  rows,          \* events with their lineups
  merged,        \* the artist rows the enricher has merged away
  embedded,      \* the artist rows with an embedding
  follows,       \* follows, per user
  taste,         \* the artists each users.taste_embedding is the average of
  reach,         \* the places within each user's radius of home, none without a home
  dismissals,    \* dismissals
  handler,       \* the gateway's requests
  deduped, enrichedQ,   \* per show, is_new of each message not committed
  tasteQ,        \* per user, the artists of each taste_updated not committed
  matcher,       \* where the matcher's loop is
  proposals,     \* how often each match was published on matches.proposed
  silent,        \* pairs that became a match by a step nobody announces (never read)
  news,          \* shows that were announced as new (never read)
  overtaken,     \* of whom a user's taste has an old view (never read)
  requests, listings, faults

events == <<rows, merged, embedded>>
people == <<follows, taste, reach, dismissals>>
topics == <<deduped, enrichedQ, tasteQ>>
history == <<silent, news, overtaken>>
bounds == <<requests, listings, faults>>

vars == <<events, people, handler, topics, matcher, proposals, history, bounds>>

Pairs == Users \X Shows

\* A row of the matcher's queries: a user, a show and the headliner it is scored on.
Found == Users \X Shows \X Artists

Idle ==
  [at |-> "idle", user |-> NoUser, artists |-> {}, todo |-> {}, add |-> {}, del |-> {},
   seen |-> {}, missed |-> {}, import |-> FALSE]

Polling == [at |-> "poll", msg |-> NoMessage, left |-> {}]

Init ==
  /\ rows \in [Shows -> ListedRows \cup {NoRow}]
  /\ merged = {} /\ embedded \in SUBSET Artists
  /\ follows = [u \in Users |-> {}]
  /\ taste = [u \in Users |-> {}]
  /\ reach = [u \in Users |-> Places]
  /\ dismissals = {}
  /\ handler = [h \in Handlers |-> Idle]
  /\ deduped = [e \in Shows |-> <<>>]
  /\ enrichedQ = [e \in Shows |-> <<>>]
  /\ tasteQ = [u \in Users |-> <<>>]
  /\ matcher = Polling
  /\ proposals = [m \in Found |-> 0]
  /\ silent = {} /\ news = {} /\ overtaken = {}
  /\ requests = 0 /\ listings = 0 /\ faults = 0

-------------------------------------------------------------------------------
(* What the matcher's queries return *)

\* An upcoming, still sellable show with a headliner, in the user's radius, not dismissed.
InReach(u, e) ==
  /\ rows[e] # NoRow
  /\ rows[e].live
  /\ rows[e].headliners # {}
  /\ rows[e].place \in reach[u]
  /\ <<u, e>> \notin dismissals

\* Mutant of Features: support acts do not count.
FeaturesHeadliner(u, e, artists) ==
  rows[e] # NoRow /\ rows[e].headliners \cap follows[u] \cap artists # {}

\* ... that features one of the artists, whom the user follows.
Features(u, e, artists) ==
  rows[e] # NoRow /\ rows[e].lineup \cap follows[u] \cap artists # {}

Match(u, e) == InReach(u, e) /\ Features(u, e, Artists)

MatchesForEvent(e) == {p \in Pairs : p[2] = e /\ Match(p[1], e)}

MatchesForFollowedArtists(u, artists) ==
  {p \in Pairs : p[1] = u /\ InReach(u, p[2]) /\ Features(u, p[2], artists)}

\* The join with the artists of billing 0 gives a row for each of them.
PerHeadliner(pairs) ==
  {m \in Found : <<m[1], m[2]>> \in pairs /\ m[3] \in rows[m[2]].headliners}

-------------------------------------------------------------------------------
(* The gateway.  A follow is one transaction: the insert, a read of the      *)
(* user's follows to recompute the taste from, and the write of the user's   *)
(* row with the commit; then it publishes.  Others see only what committed.  *)

Open(u) == {h \in Handlers : handler[h].user = u /\ handler[h].at \in {"import", "insert", "write"}}

\* An open transaction has inserted or deleted this follow: an insert waits for it.  A
\* delete waits for a delete, and does not see an insert.
Added(u, a) == \E g \in Open(u) : a \in handler[g].add
Deleted(u, a) == \E g \in Open(u) : a \in handler[g].del

\* Mutant of UserLocked: the import's recompute waits for its own transaction.
UserLockedByAny(h, u) == \E g \in Open(u) : handler[g].import

\* An import writes the user's row first, so nobody else writes it until the commit.
UserLocked(h, u) == \E g \in Open(u) \ {h} : handler[g].import

Request(h, r) ==
  /\ requests < MaxRequests
  /\ handler[h].at = "idle"
  /\ requests' = requests + 1
  /\ handler' = [handler EXCEPT ![h] = r]

\* create_follow: the artist is there, and the insert does nothing if the follow is.
CreateFollow(h, u, a) ==
  /\ a \notin merged /\ ~ Added(u, a) /\ ~ Deleted(u, a)
  /\ Request(h, [Idle EXCEPT !.at = "insert", !.user = u, !.artists = {a},
                             !.add = {a} \ follows[u]])
  /\ UNCHANGED <<events, people, topics, matcher, proposals, history,
                 listings, faults>>

\* delete_follow by any id the client holds, a merged one among them; publishes no artist.
DeleteFollow(h, u, a) ==
  /\ ~ Deleted(u, a)
  /\ Request(h, [Idle EXCEPT !.at = "insert", !.user = u, !.del = {a} \cap follows[u]])
  /\ UNCHANGED <<events, people, topics, matcher, proposals, history,
                 listings, faults>>

\* spotify_callback: the session is stored on the user's row, then the follows are
\* inserted one after another.
StartImport(h, u, artists) ==
  /\ artists \cap merged = {} /\ ~ UserLocked(h, u)
  /\ Request(h, [Idle EXCEPT !.at = "import", !.user = u, !.artists = artists,
                             !.todo = artists, !.import = TRUE])
  /\ UNCHANGED <<events, people, topics, matcher, proposals, history,
                 listings, faults>>

ImportArtist(h, a) ==
  /\ handler[h].at = "import" /\ a \in handler[h].todo \ merged
  /\ ~ Added(handler[h].user, a) /\ ~ Deleted(handler[h].user, a)
  /\ handler' = [handler EXCEPT ![h].todo = @ \ {a},
                                ![h].add = @ \cup ({a} \ follows[handler[h].user])]
  /\ UNCHANGED <<events, people, topics, matcher, proposals, history, bounds>>

\* An artist found for the import was merged away before its follow: the insert is refused.
ImportRefused(h) ==
  /\ handler[h].at = "import" /\ handler[h].todo \cap merged # {}
  /\ handler' = [handler EXCEPT ![h] = Idle]
  /\ UNCHANGED <<events, people, topics, matcher, proposals, history, bounds>>

\* Mutant of Recompute: it runs before the insert.
RecomputeBefore(h) ==
  /\ handler[h].at \in {"insert", "import"} /\ handler[h].todo = {}
  /\ handler' = [handler EXCEPT ![h].at = "write",
                   ![h].seen = follows[handler[h].user] \cap embedded]
  /\ UNCHANGED <<events, people, topics, matcher, proposals, history, bounds>>

\* update_user_taste_embedding averages the embeddings there are of the follows committed
\* when it starts, and its own.
Recompute(h) ==
  LET r == handler[h]
  IN /\ (r.at = "insert") \/ (r.at = "import" /\ r.todo = {})
     /\ handler' = [handler EXCEPT ![h].at = "write",
                      ![h].seen = ((follows[r.user] \cup r.add) \ r.del) \cap embedded]
  /\ UNCHANGED <<events, people, topics, matcher, proposals, history, bounds>>

\* A request that has read for a taste not yet written misses what happens to the artists.
Overtake(g, users, artists) ==
  [g EXCEPT !.missed = @ \cup IF g.at = "write" /\ g.user \in users THEN artists ELSE {}]

\* The taste is written once the user's row is free, and the transaction commits.
CommitFollow(h) ==
  LET r == handler[h]
  IN /\ r.at = "write" /\ ~ UserLocked(h, r.user)
     /\ follows' = [follows EXCEPT ![r.user] = (@ \cup r.add) \ r.del]
     /\ taste' = [taste EXCEPT ![r.user] = r.seen]
     /\ handler' = [g \in Handlers |->
                      IF g = h THEN [Idle EXCEPT !.at = "publish", !.user = r.user,
                                                 !.artists = r.artists]
                      ELSE Overtake(handler[g], {r.user}, r.add \cup r.del)]
     /\ overtaken' = {x \in overtaken : x[1] # r.user} \cup ({r.user} \X r.missed)
  /\ UNCHANGED <<events, reach, dismissals, topics, matcher, proposals, silent,
                 news, bounds>>

\* An import waits for a follow somebody else has written, who waits for the user's row.
WaitsFor(h, g) ==
  /\ handler[h].user = handler[g].user
  /\ \/ handler[h].at = "import" /\ handler[h].todo \cap (handler[g].add \cup handler[g].del) # {}
     \/ handler[h].at = "write" /\ g \in Open(handler[g].user) /\ handler[g].import

\* The database ends one of two transactions that wait for each other.
DeadlockAbort(h) ==
  /\ \E g \in Handlers \ {h} : WaitsFor(h, g) /\ WaitsFor(g, h)
  /\ handler' = [handler EXCEPT ![h] = Idle]
  /\ UNCHANGED <<events, people, topics, matcher, proposals, history, bounds>>

\* update_me with a home or a radius: one statement and its commit.
UpdateArea(h, u, places) ==
  /\ ~ UserLocked(h, u)
  /\ Request(h, [Idle EXCEPT !.at = "moved", !.user = u])
  /\ reach' = [reach EXCEPT ![u] = places]
  /\ UNCHANGED <<events, follows, taste, dismissals, topics, matcher, proposals,
                 history, listings, faults>>

\* ... after which the follows are read and all of them published, unless there are none.
ReadFollowed(h) ==
  LET r == handler[h]
  IN /\ r.at = "moved"
     /\ handler' = [handler EXCEPT ![h] =
                      IF follows[r.user] = {} THEN Idle
                      ELSE [r EXCEPT !.at = "publish", !.artists = follows[r.user]]]
  /\ UNCHANGED <<events, people, topics, matcher, proposals, history, bounds>>

\* The producer connects first if it has not: the others wait for that, or fail in turn.
PublishTaste(h) ==
  LET r == handler[h]
  IN /\ r.at = "publish"
     /\ tasteQ' = [tasteQ EXCEPT ![r.user] = Append(@, r.artists)]
     /\ handler' = [handler EXCEPT ![h] = Idle]
  /\ UNCHANGED <<events, people, deduped, enrichedQ, matcher, proposals, history,
                 bounds>>

\* The matches that a committed request has yet to ask for.
Unasked(h) ==
  LET r == handler[h]
  IN {p \in Pairs : /\ p[1] = r.user
                    /\ \/ r.at = "moved" /\ Match(p[1], p[2])
                       \/ /\ r.at = "publish"
                          /\ p \in MatchesForFollowedArtists(r.user, r.artists)}

\* A failure to connect or to send is logged, and the request succeeds without it.
PublishFails(h) ==
  /\ faults < MaxFaults
  /\ handler[h].at = "publish"
  /\ handler' = [handler EXCEPT ![h] = Idle]
  /\ silent' = silent \cup Unasked(h)
  /\ faults' = faults + 1
  /\ UNCHANGED <<events, people, topics, matcher, proposals, news, overtaken, requests,
                 listings>>

\* The process dies: what its requests have not committed or published is lost.
GatewayCrash ==
  /\ faults < MaxFaults
  /\ handler' = [h \in Handlers |-> Idle]
  /\ silent' = silent \cup UNION {Unasked(h) : h \in Handlers}
  /\ faults' = faults + 1
  /\ UNCHANGED <<events, people, topics, matcher, proposals, news, overtaken, requests, listings>>

DismissEvent(u, e) ==
  /\ rows[e] # NoRow /\ requests < MaxRequests
  /\ dismissals' = dismissals \cup {<<u, e>>}
  /\ requests' = requests + 1
  /\ UNCHANGED <<events, follows, taste, reach, handler, topics, matcher,
                 proposals, history, listings, faults>>

-------------------------------------------------------------------------------
(* The deduper, the enricher and the clock *)

\* The deduper writes the row with its lineup, then publishes whether the row is new.
WriteRow(e, row) ==
  /\ listings < MaxListings
  /\ row.lineup \cap merged = {}
  /\ rows' = [rows EXCEPT ![e] = row]
  /\ listings' = listings + 1

\* The pairs that are a match now, by an artist who was not on the row or not at all.
NowMatching(e) ==
  {p \in Pairs : /\ p[2] = e /\ Match(p[1], e)'
                 /\ \/ ~ Match(p[1], e)
                    \/ ~ (rows'[e].lineup \cap follows[p[1]] \subseteq rows[e].lineup)}

\* Only a new row is announced: what a change brings to whom is told to nobody.
ListShow(e, row) ==
  /\ WriteRow(e, row)
  /\ deduped' = [deduped EXCEPT ![e] = Append(@, rows[e] = NoRow)]
  /\ UNCHANGED <<merged, embedded, people, handler, enrichedQ, tasteQ, matcher, proposals,
                 overtaken, requests, faults>>
  /\ news' = IF rows[e] = NoRow THEN news \cup {e} ELSE news
  /\ silent' = IF rows[e] = NoRow THEN silent ELSE silent \cup NowMatching(e)

\* The deduper dies after the commit, and the replay finds its own row.
LoseAnnouncement(e, row) ==
  /\ rows[e] = NoRow /\ faults < MaxFaults
  /\ WriteRow(e, row)
  /\ deduped' = [deduped EXCEPT ![e] = Append(@, FALSE)]
  /\ faults' = faults + 1
  /\ UNCHANGED <<merged, embedded, people, handler, enrichedQ, tasteQ, matcher, proposals,
                 news, overtaken, requests>>
  /\ silent' = silent \cup NowMatching(e)

ShowStarts(e) ==
  /\ rows[e] # NoRow /\ rows[e].live /\ listings < MaxListings
  /\ rows' = [rows EXCEPT ![e].live = FALSE]
  /\ listings' = listings + 1
  /\ UNCHANGED <<merged, embedded, people, handler, topics, matcher, proposals, history,
                 requests, faults>>

\* The enricher sends a show on once its artists are done, again if it dies before it commits.
SendOn(e, again) ==
  /\ deduped[e] # <<>>
  /\ again => faults < MaxFaults
  /\ enrichedQ' = [enrichedQ EXCEPT ![e] = Append(@, Head(deduped[e]))]
  /\ deduped' = IF again THEN deduped ELSE [deduped EXCEPT ![e] = Tail(@)]
  /\ faults' = IF again THEN faults + 1 ELSE faults
  /\ UNCHANGED <<events, people, handler, tasteQ, matcher, proposals, history,
                 requests, listings>>

\* The enricher embeds an artist of a show in hand, or anew one that MusicBrainz did not find
\* before; no follower's taste is recomputed.
EmbedArtist(a) ==
  /\ a \notin merged
  /\ \E e \in Shows : deduped[e] # <<>> /\ a \in rows[e].lineup
  /\ embedded' = embedded \cup {a}
  /\ handler' = [h \in Handlers |-> Overtake(handler[h], Users, {a})]
  /\ overtaken' = overtaken \cup {x \in Users \X {a} : a \in follows[x[1]]}
  /\ UNCHANGED <<rows, merged, people, topics, matcher, proposals, silent, news, bounds>>

Renamed(artists, s, c) == IF s \in artists THEN (artists \ {s}) \cup {c} ELSE artists

\* merge_artist, as one step: the stub's billing is lost where the other is listed too.
MergedRow(r, s, c) ==
  IF r = NoRow THEN r
  ELSE [r EXCEPT !.lineup = Renamed(@, s, c),
                 !.headliners = IF c \in r.lineup THEN @ \ {s} ELSE Renamed(@, s, c)]

\* It waits for requests that have written a follow of either, and recomputes no taste.
MergeArtist(s, c) ==
  /\ s # c /\ {s, c} \cap merged = {}
  /\ \E e \in Shows : deduped[e] # <<>> /\ s \in rows[e].lineup
  /\ \A u \in Users, a \in {s, c} : ~ Added(u, a) /\ ~ Deleted(u, a)
  /\ merged' = merged \cup {s} /\ embedded' = embedded \ {s}
  /\ rows' = [e \in Shows |-> MergedRow(rows[e], s, c)]
  /\ follows' = [u \in Users |-> Renamed(follows[u], s, c)]
  /\ UNCHANGED <<taste, reach, dismissals, topics, matcher, proposals, bounds>>
  /\ news' = news
  /\ LET moved == {u \in Users : s \in follows[u]}
     IN /\ handler' = [h \in Handlers |-> Overtake(handler[h], moved, {s, c})]
        /\ overtaken' = overtaken \cup (moved \X {s, c})
        /\ silent' = silent \cup
             {p \in Pairs : /\ Match(p[1], p[2])'
                            /\ p[1] \in moved \/ s \in rows[p[2]].lineup}

-------------------------------------------------------------------------------
(* The matcher *)

\* Mutant of ReadEnriched: every listing of a show is matched.
ReadEnrichedAlways(e) ==
  /\ matcher.at = "poll" /\ enrichedQ[e] # <<>>
  /\ matcher' = [at |-> "publish", msg |-> e, left |-> PerHeadliner(MatchesForEvent(e))]
  /\ UNCHANGED <<events, people, handler, topics, proposals, history, bounds>>

\* An enriched show: matched only if it is new.
ReadEnriched(e) ==
  /\ matcher.at = "poll" /\ enrichedQ[e] # <<>>
  /\ matcher' = [at |-> "publish", msg |-> e,
                 left |-> IF Head(enrichedQ[e]) THEN PerHeadliner(MatchesForEvent(e)) ELSE {}]
  /\ UNCHANGED <<events, people, handler, topics, proposals, history, bounds>>

ReadTaste(u) ==
  /\ matcher.at = "poll" /\ tasteQ[u] # <<>>
  /\ matcher' = [at |-> "publish", msg |-> u,
                 left |-> PerHeadliner(MatchesForFollowedArtists(u, Head(tasteQ[u])))]
  /\ UNCHANGED <<events, people, handler, topics, proposals, history, bounds>>

PublishMatch(m) ==
  /\ m \in matcher.left
  /\ matcher' = [matcher EXCEPT !.left = @ \ {m}]
  /\ proposals' = [proposals EXCEPT ![m] = @ + 1]
  /\ UNCHANGED <<events, people, handler, topics, history, bounds>>

\* Mutant of CommitMessage: the offset is committed before the matches are out.
CommitMessageEarly ==
  /\ matcher.at = "publish"
  /\ matcher' = Polling
  /\ enrichedQ' = [e \in Shows |-> IF e = matcher.msg THEN Tail(enrichedQ[e]) ELSE enrichedQ[e]]
  /\ tasteQ' = [u \in Users |-> IF u = matcher.msg THEN Tail(tasteQ[u]) ELSE tasteQ[u]]
  /\ UNCHANGED <<events, people, handler, deduped, proposals, history, bounds>>

CommitMessage ==
  /\ matcher.at = "publish" /\ matcher.left = {}
  /\ matcher' = Polling
  /\ enrichedQ' = [e \in Shows |-> IF e = matcher.msg THEN Tail(enrichedQ[e]) ELSE enrichedQ[e]]
  /\ tasteQ' = [u \in Users |-> IF u = matcher.msg THEN Tail(tasteQ[u]) ELSE tasteQ[u]]
  /\ UNCHANGED <<events, people, handler, deduped, proposals, history, bounds>>

MatcherCrash ==
  /\ faults < MaxFaults
  /\ matcher.at = "publish"
  /\ matcher' = Polling
  /\ faults' = faults + 1
  /\ UNCHANGED <<events, people, handler, topics, proposals, history, requests,
                 listings>>

-------------------------------------------------------------------------------

ServeRequest(h) ==
  \/ \E a \in Artists : ImportArtist(h, a)
  \/ ImportRefused(h) \/ Recompute(h) \/ CommitFollow(h) \/ DeadlockAbort(h)
  \/ ReadFollowed(h) \/ PublishTaste(h)

NewRequest(h, u) ==
  \/ \E a \in Artists : CreateFollow(h, u, a) \/ DeleteFollow(h, u, a)
  \/ \E artists \in SUBSET Artists : StartImport(h, u, artists)
  \/ \E places \in SUBSET Places : UpdateArea(h, u, places)

Consume ==
  \/ \E e \in Shows : ReadEnriched(e)
  \/ \E u \in Users : ReadTaste(u)
  \/ \E m \in matcher.left : PublishMatch(m)
  \/ CommitMessage

ListingChanges(e) ==
  \/ \E row \in ListedRows : ListShow(e, row) \/ LoseAnnouncement(e, row)
  \/ ShowStarts(e) \/ SendOn(e, TRUE)

Next ==
  \/ \E h \in Handlers : ServeRequest(h) \/ PublishFails(h)
  \/ \E h \in Handlers, u \in Users : NewRequest(h, u)
  \/ \E u \in Users, e \in Shows : DismissEvent(u, e)
  \/ \E e \in Shows : ListingChanges(e) \/ SendOn(e, FALSE)
  \/ \E s, c \in Artists : MergeArtist(s, c)
  \/ \E a \in Artists : EmbedArtist(a)
  \/ Consume \/ GatewayCrash \/ MatcherCrash

Spec == Init /\ [][Next]_vars

\* Requests are served to the end, and the enricher's and the matcher's loops keep polling.
FairSpec ==
  /\ Spec /\ WF_vars(Consume)
  /\ \A h \in Handlers : WF_vars(ServeRequest(h))
  /\ \A e \in Shows : WF_vars(SendOn(e, FALSE))

-------------------------------------------------------------------------------
(* Properties *)

Requests ==
  [at : {"idle", "import", "insert", "write", "moved", "publish"},
   user : Users \cup {NoUser}, artists : SUBSET Artists, todo : SUBSET Artists,
   add : SUBSET Artists, del : SUBSET Artists, seen : SUBSET Artists,
   missed : SUBSET Artists, import : BOOLEAN]

\* Every variable has its type.
TypeOK ==
  /\ rows \in [Shows -> Row \cup {NoRow}]
  /\ merged \in SUBSET Artists /\ embedded \in SUBSET Artists
  /\ follows \in [Users -> SUBSET Artists] /\ taste \in [Users -> SUBSET Artists]
  /\ reach \in [Users -> SUBSET Places] /\ dismissals \in SUBSET Pairs
  /\ handler \in [Handlers -> Requests]
  /\ \A h \in Handlers : handler[h].user = NoUser <=> handler[h].at = "idle"
  /\ deduped \in [Shows -> Seq(BOOLEAN)] /\ enrichedQ \in [Shows -> Seq(BOOLEAN)]
  /\ tasteQ \in [Users -> Seq(SUBSET Artists)]
  /\ matcher \in [at : {"poll", "publish"}, msg : Users \cup Shows \cup {NoMessage},
                  left : SUBSET Found]
  /\ proposals \in [Found -> Nat]
  /\ silent \in SUBSET Pairs /\ news \in SUBSET Shows
  /\ overtaken \in SUBSET (Users \X Artists)
  /\ requests \in Nat /\ listings \in Nat /\ faults \in Nat

\* The messages of a queue that the matcher has yet to read: all but the one in hand.
Unread(q, m) == {i \in DOMAIN q : ~ (i = 1 /\ matcher.msg = m)}

\* A message under way that says the show is new.
NewComing(e) ==
  \/ \E i \in DOMAIN deduped[e] : deduped[e][i]
  \/ \E i \in Unread(enrichedQ[e], e) : enrichedQ[e][i]

\* A message, or a request that has yet to publish it, that asks for the shows of an artist.
AskComing(u, a) ==
  \/ \E i \in Unread(tasteQ[u], u) : a \in tasteQ[u][i]
  \/ \E h \in Handlers :
       /\ handler[h].user = u
       /\ \/ handler[h].at = "moved"
          \/ handler[h].at = "publish" /\ a \in handler[h].artists

Leaving(u, e) == \E h \in Artists : <<u, e, h>> \in matcher.left

Coming(u, e, a) == Leaving(u, e) \/ NewComing(e) \/ AskComing(u, a)

Proposed(u, e) == \E h \in Artists : proposals[<<u, e, h>>] > 0

\* Whoever follows an artist of an upcoming show within reach has been matched with it, or
\* a message that will match them is under way, in whatever order the follow, the move and
\* the show committed and were read (services/matcher/src/main.py:103).  What is excepted
\* came about silently: a change to a show that was already announced, a merge, a crash of
\* the deduper before its publish, or a taste_updated that was never sent.
NobodyMissed ==
  \A p \in Pairs : \A a \in Artists :
    InReach(p[1], p[2]) /\ a \in rows[p[2]].lineup \cap follows[p[1]] =>
      Proposed(p[1], p[2]) \/ p \in silent \/ Coming(p[1], p[2], a)

\* A user's taste is the average of the artists they follow that have an embedding
\* (update_user_taste_embedding), in whatever order their requests read, wait for the
\* user's row and write.  It may be wrong about the artists that another request followed or
\* unfollowed between the read and the write, and about those that were merged or embedded
\* since the read: about no others, and the next request that nobody overtakes puts all right.
TasteFollowsFollows ==
  \A u \in Users, a \in Artists :
    <<u, a>> \notin overtaken => (a \in taste[u] <=> a \in follows[u] \cap embedded)

\* How many matches a show's announcement, a user's requests and repeated messages may bring.
Occasions(e) == (IF e \in news THEN 1 ELSE 0) + requests + faults

\* "Only a newly announced show alerts; re-scrapes of known shows stay quiet"
\* (services/matcher/src/main.py:102): each row of the matcher's query, one for every headliner,
\* is published once for the announcement of the show, at most once for each request of a
\* user, and once more for each message handled twice.
RescrapesStayQuiet == \A m \in Found : proposals[m] <= Occasions(m[2])

\* Every request ends: two requests of one user that wait for each other's rows are
\* no exception (services/gateway/src/routes/auth.py:213).
RequestsEnd == \A h \in Handlers : handler[h].at # "idle" ~> handler[h].at = "idle"

\* A match that some message will bring arrives, unless it is no match by then.
MatchesArrive ==
  \A p \in Pairs :
    Match(p[1], p[2]) /\ p \notin silent
      ~> Proposed(p[1], p[2]) \/ ~ Match(p[1], p[2]) \/ p \in silent
================================================================================
