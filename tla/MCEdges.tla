-------------------------------- MODULE MCEdges --------------------------------
(***************************************************************************)
(* The system's edges, which share no state: the live feed, the geocoder,  *)
(* the scraper, the enricher's lookups and discovery.  A behaviour is one  *)
(* of one of them, so that a run checks their union and not their product. *)
(***************************************************************************)
EXTENDS LiveFeed, Geocoder, Scraper, Lookups, Recommender, TLC

VARIABLE part    \* which one this behaviour is of

edgesVars == <<part, liveVars, geoVars, scrapeVars, lookVars, recVars>>

EdgesInit ==
  /\ part \in {"live", "geocoder", "scraper", "lookups", "discovery"}
  /\ LiveInit /\ GeoInit /\ ScrapeInit /\ LookInit /\ RecInit
  /\ part # "discovery" => /\ genre = [a \in Artists |-> "folk"] /\ located
                           /\ likeness = [a \in Artists |-> Unknown]

EdgesNext ==
  /\ \/ part = "live" /\ LiveNext
        /\ UNCHANGED <<geoVars, scrapeVars, lookVars, recVars>>
     \/ part = "geocoder" /\ GeoNext
        /\ UNCHANGED <<liveVars, scrapeVars, lookVars, recVars>>
     \/ part = "scraper" /\ ScrapeNext
        /\ UNCHANGED <<liveVars, geoVars, lookVars, recVars>>
     \/ part = "lookups" /\ LookNext
        /\ UNCHANGED <<liveVars, geoVars, scrapeVars, recVars>>
     \/ part = "discovery" /\ RecNext
        /\ UNCHANGED <<liveVars, geoVars, scrapeVars, lookVars>>
  /\ UNCHANGED part

EdgesSpec ==
  EdgesInit /\ [][EdgesNext]_edgesVars /\ (part = "live" => LiveFairness)

\* The types of the five.
EdgesTypeOK == LiveTypeOK /\ GeoTypeOK /\ ScrapeTypeOK /\ LookTypeOK /\ RecTypeOK

\* A listing that can be published, and one with a price that cannot be read.
Heard == [id |-> 1, start |-> "given", venue |-> "given", details |-> "given"]
Garbled == [Heard EXCEPT !.details = "garbled"]
TwoListings == {Heard, Garbled}

\* Two of four shows are by one artist.
FourHeadliners == [s \in 1..4 |-> IF s = 4 THEN 3 ELSE s]
AllAtOnce == [s \in 1..4 |-> 1]
===============================================================================
