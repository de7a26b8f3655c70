------------------------------- MODULE Deduper -------------------------------
(***************************************************************************)
(* services/deduper: one consumer that turns discovered listings into rows *)
(* of venues, events and event_artists, and announces what happened.       *)
(*                                                                         *)
(* Each message is one database transaction, then a publish to             *)
(* events.deduped, then for a changed status a publish to                  *)
(* events.status_changed, then the offset commit.  The process can die     *)
(* between any two of them; the message in hand is then delivered again    *)
(* and the transaction runs a second time over its own result.             *)
(*                                                                         *)
(* A listing is a (source, external_id) pair.  That pair is unique in the  *)
(* events table, so an event row is named here by the listing it came      *)
(* from.  A listing that another source already has is folded into the     *)
(* other row and gets none of its own.                                     *)
(***************************************************************************)
EXTENDS Integers, Sequences, FiniteSets

CONSTANTS
  Listings,
  Sources,
  SourceOf,      \* the source each listing comes from
  Titles,
  Similarity,    \* pg_trgm's similarity of two titles, in percent
  VenueNames, VenueIds,
  Artists,
  Scrapes,       \* the messages the scrapers may publish in this instance
  NoListing, NoRow, NoStatus, NoVenueId,
  MaxScrapes,    \* bound: messages published
  MaxFaults      \* bound: crashes

EventStatus ==
  {"announced", "on_sale", "sold_out", "cancelled", "rescheduled", "postponed"}

Row == [title : Titles, startsAt : Nat, venue : VenueNames, status : EventStatus]

Discovered ==
  [listing : Listings, title : Titles, startsAt : Nat, venueId : VenueIds,
   venueName : VenueNames, status : EventStatus, artists : Seq(Artists)]

ASSUME DeduperAssumption ==
  /\ SourceOf \in [Listings -> Sources]
  /\ Similarity \in [Titles -> [Titles -> 0..100]]
  /\ \A s, t \in Titles : Similarity[s][t] = Similarity[t][s]
  /\ Scrapes \subseteq Discovered
  /\ NoListing \notin Listings /\ NoRow \notin Row
  /\ NoStatus \notin EventStatus /\ NoVenueId \notin VenueIds
  /\ MaxScrapes \in Nat /\ MaxFaults \in Nat

VARIABLES
  discovered,   \* events.discovered: per listing, what lies past the committed offset
  rows,         \* events
  lineup,       \* event_artists: the billing of each artist on each row, or Off
  venueIds,     \* venues.source_ids: per venue and source
  loop,         \* where handle_message is
  \* what the rest of the system was told (never read by the code)
  announced,    \* how often events.deduped called the row new
  told,         \* the latest status published about the row
  \* what explains the rest (never read by the code)
  unannounced,  \* rows whose first announcement a crash cut off
  untold,       \* rows whose latest status change a crash cut off
  moved,        \* rows whose title, time or venue changed after they were made
  own,          \* the latest non-empty lineup from the row's own listing
  folded,       \* rows another source's lineup was linked to since then
  scrapes, faults

tables == <<rows, lineup, venueIds>>
history == <<announced, told, unannounced, untold, moved, own, folded>>

vars == <<discovered, tables, loop, history, scrapes, faults>>

\* The artist is not on the bill.
Off == -1

Steps == {"poll", "publishDeduped", "publishChange", "commit"}

Idle == [at |-> "poll", listing |-> NoListing, row |-> NoListing,
         isNew |-> FALSE, oldStatus |-> NoStatus]

Init ==
  /\ discovered = [l \in Listings |-> <<>>]
  /\ rows = [l \in Listings |-> NoRow]
  /\ lineup = [l \in Listings |-> [a \in Artists |-> Off]]
  /\ venueIds = [v \in VenueNames |-> [s \in Sources |-> NoVenueId]]
  /\ loop = Idle
  /\ announced = [l \in Listings |-> 0]
  /\ told = [l \in Listings |-> NoStatus]
  /\ unannounced = {} /\ untold = {} /\ moved = {}
  /\ own = [l \in Listings |-> <<>>]
  /\ folded = {}
  /\ scrapes = 0 /\ faults = 0

\* A scraper publishes one listing, keyed by source and external id.
Scrape(m) ==
  /\ scrapes < MaxScrapes
  /\ scrapes' = scrapes + 1
  /\ discovered' = [discovered EXCEPT ![m.listing] = Append(@, m)]
  /\ UNCHANGED <<tables, loop, history, faults>>

-------------------------------------------------------------------------------
(* upsert_venue *)

\* The venue that has the source's id, else the one of that name and city, which is
\* made if it is not there yet.
VenueOf(source, m) ==
  IF \E v \in VenueNames : venueIds[v][source] = m.venueId
    THEN CHOOSE v \in VenueNames : venueIds[v][source] = m.venueId
    ELSE m.venueName

\* A venue found by name learns the source's id unless it has one already.
WithVenueId(source, m) ==
  IF \/ \E v \in VenueNames : venueIds[v][source] = m.venueId
     \/ venueIds[m.venueName][source] # NoVenueId
    THEN venueIds
    ELSE [venueIds EXCEPT ![m.venueName][source] = m.venueId]

-------------------------------------------------------------------------------
(* find_cross_source_duplicate *)

Near(s, t) == s - t <= 20 /\ t - s <= 20

\* The same show from two sources.
SameShow(title1, time1, venue1, title2, time2, venue2) ==
  /\ venue1 = venue2
  /\ Near(time1, time2)
  /\ Similarity[title1][title2] > 60

\* The rows of other sources that the message's show may already be.  (Mutant: the
\* ends of the window do not count.)
CandidatesSooner(source, m) ==
  {r \in Listings :
     /\ rows[r] # NoRow
     /\ SourceOf[r] # source
     /\ m.startsAt # rows[r].startsAt + 20 /\ rows[r].startsAt # m.startsAt + 20
     /\ SameShow(m.title, m.startsAt, VenueOf(source, m),
                 rows[r].title, rows[r].startsAt, rows[r].venue)}

Candidates(source, m) ==
  {r \in Listings :
     /\ rows[r] # NoRow
     /\ SourceOf[r] # source
     /\ SameShow(m.title, m.startsAt, VenueOf(source, m),
                 rows[r].title, rows[r].startsAt, rows[r].venue)}

\* ORDER BY similarity DESC LIMIT 1: ties go either way.
BestMatches(source, m) ==
  {r \in Candidates(source, m) :
     \A q \in Candidates(source, m) :
       Similarity[m.title][rows[r].title] >= Similarity[m.title][rows[q].title]}

-------------------------------------------------------------------------------
(* link_lineup *)

\* An artist listed twice keeps the later place: the upsert overwrites billing.
BillingIn(artists, a) ==
  (CHOOSE i \in DOMAIN artists :
     /\ artists[i] = a
     /\ \A j \in DOMAIN artists : artists[j] = a => j <= i) - 1

OnBill(artists, a) == \E i \in DOMAIN artists : artists[i] = a

\* A fresh lineup displaces the artists it no longer names if prune is set and it is
\* not empty.  (Mutant: it always does.)
LinkLineupAndPrune(old, artists, prune) ==
  [a \in Artists |->
     IF OnBill(artists, a) THEN BillingIn(artists, a)
     ELSE IF artists # <<>> THEN Off
     ELSE old[a]]

LinkLineup(old, artists, prune) ==
  [a \in Artists |->
     IF OnBill(artists, a) THEN BillingIn(artists, a)
     ELSE IF prune /\ artists # <<>> THEN Off
     ELSE old[a]]

-------------------------------------------------------------------------------
(* handle_message *)

\* Worth announcing: the end of a sales window is not.  (Mutant: nor is anything that
\* happens to a show on sale.)
StatusChangedOffSale(old, new) == old # NoStatus /\ old # new /\ old # "on_sale"

StatusChanged(old, new) ==
  /\ old # NoStatus
  /\ old # new
  /\ ~(old = "on_sale" /\ new = "announced")

OldStatus(l) == IF rows[l] = NoRow THEN NoStatus ELSE rows[l].status

\* (Mutant: every upsert counts as new.)
IsNewAlways(l) == TRUE

IsNew(l) == OldStatus(l) = NoStatus

\* The transaction when another source already lists the show.
FoldIntoRow(l, r) ==
  /\ loop.at = "poll"
  /\ discovered[l] # <<>>
  /\ rows[l] = NoRow
  /\ LET m == Head(discovered[l])
         source == SourceOf[l]
     IN  /\ r \in BestMatches(source, m)
         /\ venueIds' = WithVenueId(source, m)
         /\ lineup' = [lineup EXCEPT ![r] = LinkLineup(@, m.artists, FALSE)]
         /\ folded' = IF m.artists = <<>> THEN folded ELSE folded \cup {r}
  /\ loop' = [at |-> "publishDeduped", listing |-> l, row |-> r,
              isNew |-> FALSE, oldStatus |-> NoStatus]
  /\ UNCHANGED <<discovered, rows, announced, told, unannounced, untold, moved, own,
                 scrapes, faults>>

\* The transaction otherwise: the row is made or overwritten.
UpsertRow(l) ==
  /\ loop.at = "poll"
  /\ discovered[l] # <<>>
  /\ LET m == Head(discovered[l])
         source == SourceOf[l]
         new == [title |-> m.title, startsAt |-> m.startsAt,
                 venue |-> VenueOf(source, m), status |-> m.status]
     IN  /\ rows[l] = NoRow => Candidates(source, m) = {}
         /\ venueIds' = WithVenueId(source, m)
         /\ rows' = [rows EXCEPT ![l] = new]
         /\ lineup' = [lineup EXCEPT ![l] = LinkLineup(@, m.artists, TRUE)]
         /\ loop' = [at |-> "publishDeduped", listing |-> l, row |-> l, isNew |-> IsNew(l),
                     oldStatus |-> IF StatusChanged(OldStatus(l), m.status)
                                     THEN OldStatus(l) ELSE NoStatus]
         /\ moved' = IF rows[l] # NoRow /\ [rows[l] EXCEPT !.status = m.status] # new
                       THEN moved \cup {l} ELSE moved
         /\ own' = IF m.artists = <<>> THEN own ELSE [own EXCEPT ![l] = m.artists]
         /\ folded' = IF m.artists = <<>> THEN folded ELSE folded \ {l}
  /\ UNCHANGED <<discovered, announced, told, unannounced, untold, scrapes, faults>>

PublishDeduped ==
  /\ loop.at = "publishDeduped"
  /\ IF loop.isNew
       THEN /\ announced' = [announced EXCEPT ![loop.row] = @ + 1]
            /\ told' = [told EXCEPT ![loop.row] = Head(discovered[loop.listing]).status]
       ELSE UNCHANGED <<announced, told>>
  /\ loop' = [loop EXCEPT !.at = IF loop.oldStatus = NoStatus THEN "commit" ELSE "publishChange"]
  /\ UNCHANGED <<discovered, tables, unannounced, untold, moved, own, folded, scrapes, faults>>

PublishStatusChanged ==
  /\ loop.at = "publishChange"
  /\ told' = [told EXCEPT ![loop.row] = Head(discovered[loop.listing]).status]
  /\ untold' = untold \ {loop.row}
  /\ loop' = [loop EXCEPT !.at = "commit"]
  /\ UNCHANGED <<discovered, tables, announced, unannounced, moved, own, folded, scrapes,
                 faults>>

\* (Mutants: the offset is committed before the outcome is published, with the rest of
\* the work forgotten; the offset is never committed.)
CommitOffsetForgetting ==
  /\ loop.at \in {"publishDeduped", "commit"}
  /\ discovered' = [discovered EXCEPT ![loop.listing] = Tail(@)]
  /\ loop' = Idle
  /\ UNCHANGED <<tables, history, scrapes, faults>>

CommitOffsetNever ==
  /\ loop.at = "commit"
  /\ loop' = Idle
  /\ UNCHANGED <<discovered, tables, history, scrapes, faults>>

CommitOffset ==
  /\ loop.at = "commit"
  /\ discovered' = [discovered EXCEPT ![loop.listing] = Tail(@)]
  /\ loop' = Idle
  /\ UNCHANGED <<tables, history, scrapes, faults>>

\* The process dies with a message in hand and starts over from the committed offset.
Crash ==
  /\ loop.at # "poll"
  /\ faults < MaxFaults
  /\ faults' = faults + 1
  /\ loop' = Idle
  /\ unannounced' =
       IF loop.at = "publishDeduped" /\ loop.isNew
         THEN unannounced \cup {loop.row} ELSE unannounced
  /\ untold' =
       IF loop.at \in {"publishDeduped", "publishChange"} /\ loop.oldStatus # NoStatus
         THEN untold \cup {loop.row} ELSE untold
  /\ UNCHANGED <<discovered, tables, announced, told, moved, own, folded, scrapes>>

Consume ==
  \/ \E l, r \in Listings : FoldIntoRow(l, r)
  \/ \E l \in Listings : UpsertRow(l)
  \/ PublishDeduped
  \/ PublishStatusChanged
  \/ CommitOffset

Next == (\E m \in Scrapes : Scrape(m)) \/ Consume \/ Crash

Spec == Init /\ [][Next]_vars

\* The consumer keeps polling; no scraper has to publish and nothing has to crash.
FairSpec == Spec /\ WF_vars(Consume)

-------------------------------------------------------------------------------
(* Properties *)

\* The shape of the state; the message in hand is always one a crash delivers again.
TypeOK ==
  /\ discovered \in [Listings -> Seq(Discovered)]
  /\ rows \in [Listings -> Row \cup {NoRow}]
  /\ lineup \in [Listings -> [Artists -> Nat \cup {Off}]]
  /\ venueIds \in [VenueNames -> [Sources -> VenueIds \cup {NoVenueId}]]
  /\ loop \in [at : Steps, listing : Listings \cup {NoListing},
               row : Listings \cup {NoListing}, isNew : BOOLEAN,
               oldStatus : EventStatus \cup {NoStatus}]
  /\ loop.at # "poll" => /\ loop.listing \in Listings /\ loop.row \in Listings
                         /\ discovered[loop.listing] # <<>>
  /\ announced \in [Listings -> Nat]
  /\ told \in [Listings -> EventStatus \cup {NoStatus}]
  /\ unannounced \subseteq Listings /\ untold \subseteq Listings
  /\ moved \subseteq Listings /\ folded \subseteq Listings
  /\ own \in [Listings -> Seq(Artists)]
  /\ scrapes \in Nat /\ faults \in Nat

\* The outcome for this row has yet to be published.
Unpublished(r) ==
  /\ loop.row = r
  /\ \/ loop.at = "publishDeduped" /\ (loop.isNew \/ loop.oldStatus # NoStatus)
     \/ loop.at = "publishChange"

\* The row has yet to be called new.
AboutToAnnounce(r) == loop.at = "publishDeduped" /\ loop.isNew /\ loop.row = r

\* No show is called new twice, whatever is redelivered or listed again: the first
\* call is what alerts the followers.
AnnouncedAtMostOnce == \A r \in Listings : announced[r] <= 1

\* Every row in the table has been called new, unless a crash cut that off.
NewShowsAnnounced ==
  \A r \in Listings :
    (rows[r] # NoRow /\ ~AboutToAnnounce(r)) => announced[r] > 0 \/ r \in unannounced

\* Downstream knows the status in the table, or last heard that the sale was on when
\* it has quietly ended, unless a crash cut the news off.
StatusFollowed ==
  \A r \in Listings :
    (rows[r] # NoRow /\ ~Unpublished(r)) =>
      \/ r \in unannounced \cup untold
      \/ told[r] = rows[r].status
      \/ told[r] = "on_sale" /\ rows[r].status = "announced"

\* Two sources have one show in two rows only if one of the rows was made for another
\* title, time or venue and has moved since.
TwinsOnlyAfterMove ==
  \A q, r \in Listings :
    (/\ rows[q] # NoRow /\ rows[r] # NoRow
     /\ SourceOf[q] # SourceOf[r]
     /\ SameShow(rows[q].title, rows[q].startsAt, rows[q].venue,
                 rows[r].title, rows[r].startsAt, rows[r].venue))
      => q \in moved \/ r \in moved

\* A row carries the latest lineup its own source named, exactly, unless another
\* source's listing was folded in since, and even then nobody is missing.
LineupFollowsSource ==
  \A r \in Listings :
    /\ r \notin folded =>
         lineup[r] = [a \in Artists |-> IF OnBill(own[r], a) THEN BillingIn(own[r], a) ELSE Off]
    /\ \A a \in Artists : OnBill(own[r], a) => lineup[r][a] # Off

\* No listing wedges its partition.
DiscoveriesDrain ==
  \A l \in Listings : (discovered[l] # <<>>) ~> (discovered[l] = <<>>)

\* docs/architecture.md: "replaying a message changes nothing.  Offsets are committed
\* after each message is handled", and README.md: "replays are safe".  The code does
\* not keep it: a replayed message finds its own status in the table, so the change
\* that the crash kept from being published never is.
ReplaysLoseNothing ==
  \A r \in Listings :
    (rows[r] # NoRow /\ \A l \in Listings : discovered[l] = <<>>)
      => /\ announced[r] > 0
         /\ told[r] = rows[r].status \/ (told[r] = "on_sale" /\ rows[r].status = "announced")

-------------------------------------------------------------------------------
(* Why the announcements are right: an inductive strengthening *)

\* The loop announces a row as new, or a change of its status, only after writing the
\* row from the message in hand, and never both.
LoopSpeaksForItsRow ==
  /\ loop.isNew => loop.oldStatus = NoStatus
  /\ loop.at = "publishChange" => loop.oldStatus # NoStatus
  /\ Unpublished(loop.row) =>
       /\ loop.row = loop.listing
       /\ rows[loop.row] # NoRow
       /\ rows[loop.row].status = Head(discovered[loop.listing]).status

\* A row that has been announced exists and is not about to be announced again.
AnnouncedRowsExist ==
  \A r \in Listings :
    announced[r] > 0 => rows[r] # NoRow /\ ~AboutToAnnounce(r)

AnnounceInv ==
  /\ LoopSpeaksForItsRow
  /\ AnnouncedRowsExist
  /\ AnnouncedAtMostOnce
  /\ NewShowsAnnounced
  /\ StatusFollowed
==============================================================================
