------------------------------ MODULE MCDeduper ------------------------------
(* Instances of Deduper for TLC: two sources, whose titles "tour" and "live" are *)
(* both like "show" and not like each other.                                     *)
EXTENDS Deduper

CONSTANTS l1, l2, l3, s1, s2, roxy, fox, v1, v2, a1, a2

OneListing == {l1}
TwoListings == {l1, l2}
ThreeListings == {l1, l2, l3}
BothSources == {s1, s2}
MCSourceOf == [l \in Listings |-> IF l = l1 THEN s1 ELSE s2]
MCTitles == {"show", "tour", "live"}
MCSimilarity ==
  [s \in Titles |-> [t \in Titles |->
     IF s = t THEN 100
     ELSE IF {s, t} = {"show", "tour"} THEN 70
     ELSE IF {s, t} = {"show", "live"} THEN 65
     ELSE 40]]
MCVenueNames == {roxy, fox}
MCVenueIds == {v1, v2}
MCArtists == {a1, a2}

Listing(l, title, time, id, venue, status, artists) ==
  [listing |-> l, title |-> title, startsAt |-> time, venueId |-> id, venueName |-> venue,
   status |-> status, artists |-> artists]

\* One show whose status changes.
StatusScrapes ==
  {Listing(l, "show", 0, v1, roxy, s, <<a1>>) :
     l \in Listings, s \in {"announced", "on_sale", "cancelled"}}

\* Shows that move in time, title and venue, whose two venue ids name the same venue or
\* not, and whose lineups differ between the sources, are missing or name someone twice.
MovingScrapes ==
  {Listing(l1, t, m, i, roxy, "on_sale", <<a1, a2>>) :
     t \in {"show", "tour"}, m \in {0, 40}, i \in {v1, v2}}
  \cup {Listing(l, t, 20, v1, n, "on_sale", <<a2>>) :
          l \in Listings \ {l1}, t \in {"show", "live"}, n \in {roxy, fox}}
  \cup {Listing(l1, "show", 0, v1, roxy, "on_sale", as) :
          as \in {<<>>, <<a1>>, <<a1, a2, a1>>}}

\* A behaviour takes its listings from one of the two sets, and its crashes by its set, so
\* that a run checks the union of both instances and not their product.
VARIABLE set

BothScrapes == StatusScrapes \cup MovingScrapes

MCInit == Init /\ set \in {"status", "moving"}

MCNext ==
  /\ \/ set = "status" /\ \E m \in StatusScrapes : m.listing # l3 /\ Scrape(m)
     \/ set = "moving" /\ \E m \in MovingScrapes : Scrape(m)
     \/ Consume
     \/ (set = "status" \/ faults = 0) /\ Crash
  /\ UNCHANGED set

MCSpec == MCInit /\ [][MCNext]_<<vars, set>>
==============================================================================
