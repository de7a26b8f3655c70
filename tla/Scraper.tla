-------------------------------- MODULE Scraper --------------------------------
(***************************************************************************)
(* The Ticketmaster scraper (services/scraper-ticketmaster/src): a run     *)
(* fetches pages, archives each raw page and publishes its usable events.  *)
(*                                                                         *)
(* The Discovery API answers what it likes: pages may change, grow or      *)
(* disappear while a run goes through them.                                *)
(***************************************************************************)
EXTENDS Integers, Sequences, FiniteSets

CONSTANTS
  Runs,
  Listings,      \* what tells one listing from another
  Events,        \* listings as the API gives them
  Archiving,     \* whether s3_bucket is set
  MaxPages,      \* MAX_PAGES
  MaxAttempts,   \* MAX_ATTEMPTS
  Totals,        \* what the API may claim as totalPages, none read as 1
  MaxSecond      \* bound: clock

\* A listing, as far as parse_event tells: a start, a venue with an id, a name and coordinates,
\* and times and prices.  What is garbled is there but cannot be read.
Listing ==
  [id : Listings, start : {"none", "garbled", "given"}, venue : {"none", "garbled", "given"},
   details : {"garbled", "given"}]

ASSUME ScrapeAssumption ==
  /\ Events \subseteq Listing
  /\ Archiving \in BOOLEAN
  /\ {MaxPages, MaxAttempts} \subseteq Nat \ {0} /\ Totals \subseteq Nat \ {0} /\ MaxSecond \in Nat

VARIABLES
  run,           \* per run, where it is
  second,        \* the clock the archive's prefix is made from
  archived,      \* the bucket: what is stored under <<second, page>>
  discovered,    \* events.discovered: which event of which page of which run
  received       \* history: per run, the pages the API answered

scrapeVars == <<run, second, archived, discovered, received>>

NotStarted ==
  [at |-> "idle", second |-> 0, page |-> 0, total |-> 1, attempt |-> 1, events |-> {}]

ScrapeInit ==
  /\ run = [r \in Runs |-> NotStarted]
  /\ second = 0
  /\ archived = <<>> /\ discovered = {}
  /\ received = [r \in Runs |-> <<>>]

Running(r) == run[r].at \in {"fetch", "upload", "publish"}

\* The archive stamps the run's start time, to the second, and the producer connects.
StartRun(r) ==
  /\ run[r].at = "idle"
  /\ run' = [run EXCEPT ![r].at = "fetch", ![r].second = second]
  /\ UNCHANGED <<second, archived, discovered, received>>

\* No API key, or no Kafka: nothing is scraped.
StartRefused(r) ==
  /\ run[r].at = "idle"
  /\ run' = [run EXCEPT ![r].at = "failed"]
  /\ UNCHANGED <<second, archived, discovered, received>>

\* Any failed request, upload or publication ends the run, as the end of the process does.
Abort(r) ==
  /\ Running(r)
  /\ run' = [run EXCEPT ![r].at = "failed"]
  /\ UNCHANGED <<second, archived, discovered, received>>

\* 429: the page is asked for again, a few times.
RateLimited(r) ==
  /\ run[r].at = "fetch"
  /\ \/ run[r].attempt < MaxAttempts /\ run' = [run EXCEPT ![r].attempt = @ + 1]
     \/ run[r].attempt = MaxAttempts /\ run' = [run EXCEPT ![r].at = "failed"]
  /\ UNCHANGED <<second, archived, discovered, received>>

\* parse_event passes over a listing without a start or a venue, whatever else it says.
Skipped(e) == e.start = "none" \/ e.venue = "none"

\* ... and raises for any other with a value that cannot be read.
Unreadable == {e \in Events : ~ Skipped(e) /\ "garbled" \in {e.start, e.venue, e.details}}
Usable == {e \in Events : ~ Skipped(e)} \ Unreadable

\* parse_page reads the whole page before anything of it is published.
Parse(row, page) ==
  IF page \cap Unreadable # {}
  THEN [row EXCEPT !.at = "failed"]
  ELSE [row EXCEPT !.at = "publish", !.events = page \cap Usable]

\* A page arrives, and says how many there are by now.
Receive(r, page, total) ==
  /\ run[r].at = "fetch"
  /\ received' = [received EXCEPT ![r] = Append(@, page)]
  /\ LET row == [run[r] EXCEPT !.total = total, !.attempt = 1, !.events = page]
     IN run' = [run EXCEPT ![r] = IF Archiving THEN [row EXCEPT !.at = "upload"]
                                  ELSE Parse(row, page)]
  /\ UNCHANGED <<second, archived, discovered>>

\* put_page: under the run's second and the page number, over what is there.
Upload(r) ==
  /\ run[r].at = "upload"
  /\ LET key == <<run[r].second, run[r].page>>
     IN archived' = [k \in DOMAIN archived \cup {key} |->
                       IF k = key THEN run[r].events ELSE archived[k]]
  /\ run' = [run EXCEPT ![r] = Parse(@, @.events)]
  /\ UNCHANGED <<second, discovered, received>>

\* Mutant of UploadFails: the failure is logged and the page is published all the same.
UploadFailsOn(r) ==
  /\ run[r].at = "upload"
  /\ run' = [run EXCEPT ![r] = Parse(@, @.events)]
  /\ UNCHANGED <<second, archived, discovered, received>>

\* Nothing goes downstream without its raw page: the run is over.
UploadFails(r) ==
  /\ run[r].at = "upload"
  /\ run' = [run EXCEPT ![r].at = "failed"]
  /\ UNCHANGED <<second, archived, discovered, received>>

\* The broker has the event; the run hears of it or, with the reply lost, ends.
Publish(r, e, heard) ==
  /\ run[r].at = "publish" /\ e \in run[r].events
  /\ discovered' = discovered \cup {[run |-> r, page |-> run[r].page, event |-> e]}
  /\ run' = [run EXCEPT ![r].events = @ \ {e}, ![r].at = IF heard THEN @ ELSE "failed"]
  /\ UNCHANGED <<second, archived, received>>

\* Mutant of PageDone: the cap is not applied.
PageDoneUncapped(r) ==
  /\ run[r].at = "publish" /\ run[r].events = {}
  /\ run' = [run EXCEPT ![r].page = @ + 1,
                        ![r].at = IF run[r].page + 1 < run[r].total THEN "fetch" ELSE "done"]
  /\ UNCHANGED <<second, archived, discovered, received>>

\* On to the next page, up to the number last claimed and the cap.
PageDone(r) ==
  /\ run[r].at = "publish" /\ run[r].events = {}
  /\ run' = [run EXCEPT ![r].page = @ + 1,
                        ![r].at = IF run[r].page + 1 < run[r].total /\ run[r].page + 1 < MaxPages
                                  THEN "fetch" ELSE "done"]
  /\ UNCHANGED <<second, archived, discovered, received>>

SecondPasses ==
  /\ second < MaxSecond
  /\ second' = second + 1
  /\ UNCHANGED <<run, archived, discovered, received>>

ScrapeNext ==
  \/ \E r \in Runs :
       \/ StartRun(r) \/ StartRefused(r) \/ Abort(r) \/ RateLimited(r)
       \/ \E page \in SUBSET Events, total \in Totals : Receive(r, page, total)
       \/ Upload(r) \/ UploadFails(r) \/ PageDone(r)
       \/ \E e \in Events, heard \in BOOLEAN : Publish(r, e, heard)
  \/ SecondPasses

ScrapeSpec == ScrapeInit /\ [][ScrapeNext]_scrapeVars

-------------------------------------------------------------------------------
(* What a run promises *)

\* The type of every variable.
ScrapeTypeOK ==
  /\ run \in [Runs -> [at : {"idle", "fetch", "upload", "publish", "done", "failed"},
                       second : 0..MaxSecond, page : 0..MaxPages, total : Totals \cup {1},
                       attempt : 1..MaxAttempts, events : SUBSET Events]]
  /\ second \in 0..MaxSecond
  /\ DOMAIN archived \subseteq (0..MaxSecond) \X (0..MaxPages)
  /\ archived \in [DOMAIN archived -> SUBSET Events]
  /\ discovered \subseteq [run : Runs, page : 0..MaxPages, event : Events]
  /\ received \in [Runs -> Seq(SUBSET Events)]

\* No other run was started in the same second, which would write to the same keys.
Alone(r) ==
  \A other \in Runs \ {r} : run[other].at # "idle" => run[other].second # run[r].second

PublishedOf(r) ==
  {<<d.page, d.event>> : d \in {x \in discovered : x.run = r}}

\* A run publishes only events its archive has on record under the page they came from, and one
\* that ends well has published every usable event of every page up to the number last claimed
\* and the cap: what it was not able to archive or read is not passed over in silence.
PublishedAccountedFor ==
  \A r \in Runs :
    /\ Archiving /\ Alone(r) =>
         \A d \in discovered :
           d.run = r => /\ <<run[r].second, d.page>> \in DOMAIN archived
                        /\ d.event \in archived[<<run[r].second, d.page>>]
    /\ run[r].at = "done" =>
         /\ Len(received[r]) >= run[r].total \/ Len(received[r]) = MaxPages
         /\ PublishedOf(r) =
              UNION {{p - 1} \X (received[r][p] \cap Usable) : p \in DOMAIN received[r]}
===============================================================================
