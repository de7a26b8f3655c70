------------------------------ MODULE MCProgress ------------------------------
(***************************************************************************)
(* What must eventually happen to whatever the services have in hand: a    *)
(* discovered listing, a request of the gateway, a message of the matcher, *)
(* an alert and a notice of the notifier.  A behaviour is one of one       *)
(* service, so that a run checks their union and not their product.        *)
(***************************************************************************)
EXTENDS MCNotifier

CONSTANTS a1, p1, h1, h2, l1, l2, s1, s2, v1, roxy, NoRow, NoListing, NoStatus, NoVenueId

VARIABLES
  service,       \* which one this behaviour is of
  \* the variables of Follows and of Deduper
  rows, merged, embedded, follows, taste, near, dismissals, handler, deduped, enrichedQ,
  tasteQ, matcher, proposed, silent, news, overtaken, requests, listings, followsFaults,
  discovered, events, lineup, venueIds, loop, announced, told, unannounced, untold, moved,
  own, folded, scrapes, deduperFaults

followsVars ==
  <<rows, merged, embedded, follows, taste, near, dismissals, handler, deduped, enrichedQ,
    tasteQ, matcher, proposed, silent, news, overtaken, requests, listings, followsFaults>>

deduperVars ==
  <<discovered, events, lineup, venueIds, loop, announced, told, unannounced, untold, moved,
    own, folded, scrapes, deduperFaults>>

\* A show of one artist, who is listed and may change.
OneRow == {[live |-> TRUE, place |-> p1, lineup |-> {a1}, headliners |-> {a1}]}

F == INSTANCE Follows
       WITH Users <- {u1}, Artists <- {a1}, Shows <- {e1}, Places <- {p1},
            Handlers <- {h1, h2}, ListedRows <- OneRow, MaxRequests <- 2, MaxListings <- 1,
            MaxFaults <- 1, reach <- near, proposals <- proposed, faults <- followsFaults

\* One show at two sources, whose status changes.
StatusScrapes ==
  {[listing |-> l, title |-> "show", startsAt |-> 0, venueId |-> v1, venueName |-> roxy,
    status |-> s, artists |-> <<a1>>] : l \in {l1, l2}, s \in {"announced", "cancelled"}}

D == INSTANCE Deduper
       WITH Listings <- {l1, l2}, Sources <- {s1, s2}, Artists <- {a1},
            SourceOf <- [l \in {l1, l2} |-> IF l = l1 THEN s1 ELSE s2],
            Titles <- {"show"}, Similarity <- [s \in {"show"} |-> [t \in {"show"} |-> 100]],
            VenueNames <- {roxy}, VenueIds <- {v1}, Scrapes <- StatusScrapes,
            MaxScrapes <- 3, MaxFaults <- 1, rows <- events, faults <- deduperFaults

ProgressInit ==
  /\ service \in {"notifier", "follows", "deduper"}
  /\ Init /\ F!Init /\ D!Init
  /\ service # "follows" => rows[e1] = NoRow /\ embedded = {}

ProgressNext ==
  /\ \/ service = "notifier" /\ Next /\ UNCHANGED <<followsVars, deduperVars>>
     \/ service = "follows" /\ F!Next /\ UNCHANGED <<vars, deduperVars>>
     \/ service = "deduper" /\ D!Next /\ UNCHANGED <<vars, followsVars>>
  /\ UNCHANGED service

\* The fairness of each one's FairSpec, in the behaviours that are its own.
ProgressSpec ==
  /\ ProgressInit /\ [][ProgressNext]_<<service, vars, followsVars, deduperVars>>
  /\ WF_vars(service = "notifier" /\ Consume)
  /\ WF_vars(service = "notifier" /\ RunDigest)
  /\ WF_followsVars(service = "follows" /\ F!Consume)
  /\ \A h \in {h1, h2} : WF_followsVars(service = "follows" /\ F!ServeRequest(h))
  /\ WF_followsVars(service = "follows" /\ F!SendOn(e1, FALSE))
  /\ WF_deduperVars(service = "deduper" /\ D!Consume)

\* Every request ends: two requests of one user that wait for each other's rows are
\* no exception (services/gateway/src/routes/auth.py:213).
RequestsEnd == F!RequestsEnd

\* A match that some message will bring arrives, unless it is no match by then.
MatchesArrive == F!MatchesArrive

\* Every listing's messages are consumed, through crashes and replays
\* (services/deduper/src/main.py:77).
DiscoveriesDrain == D!DiscoveriesDrain
===============================================================================
