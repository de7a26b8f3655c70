------------------------------- MODULE Geocoder -------------------------------
(***************************************************************************)
(* The gateway's client for Nominatim (services/gateway/src/geocode.py):   *)
(* searches from the settings page's location pickers share one cache and  *)
(* one lock, which also keeps requests at least an interval apart.         *)
(*                                                                         *)
(* Time is kept as what the code compares: how long ago the last request   *)
(* was, up to the interval.  Answers are abstracted to whether there is    *)
(* one.                                                                    *)
(***************************************************************************)
EXTENDS Integers, Sequences, FiniteSets, SequencesExt

CONSTANTS
  Pickers,       \* location pickers: each has one search at a time
  NoPicker,
  Places,        \* queries, lowercased and with single spaces
  Interval,      \* min_interval_s, in ticks
  CacheSize,     \* _CACHE_SIZE
  MaxSearches    \* bound: searches submitted

ASSUME GeoAssumption ==
  /\ NoPicker \notin Pickers
  /\ Interval \in Nat /\ CacheSize \in Nat \ {0} /\ MaxSearches \in Nat

VARIABLES
  search,        \* per picker, where its search is and for what
  waiting,       \* who waits for the lock, first come first served
  holder,        \* who has the lock
  since,         \* time since _last_request, up to Interval
  cache,         \* the queries in _cache, the least recently used first
  searches,
  quiet,         \* history: time since a request was under way, up to Interval
  asked, failed, dropped  \* history: per query, requests, failures, evictions

geoVars ==
  <<search, waiting, holder, since, cache, searches, quiet, asked, failed, dropped>>

Idle == [at |-> "idle"]

GeoInit ==
  /\ search = [p \in Pickers |-> Idle]
  /\ waiting = <<>> /\ holder = NoPicker
  /\ since = Interval /\ quiet = Interval
  /\ cache = <<>> /\ searches = 0
  /\ asked = [k \in Places |-> 0] /\ failed = asked /\ dropped = asked

\* _cached: a query that is found becomes the most recently used.
Cached(k) == k \in Range(cache)

Touched(k) ==
  LET i == CHOOSE i \in DOMAIN cache : cache[i] = k
  IN Append(RemoveAt(cache, i), k)

Stored(k) == IF Len(cache) < CacheSize THEN Append(cache, k) ELSE Append(Tail(cache), k)

\* A search is submitted: answered from the cache, or queued for the lock.
Search(p, k) ==
  /\ searches < MaxSearches /\ search[p] = Idle
  /\ searches' = searches + 1
  /\ IF Cached(k)
     THEN cache' = Touched(k) /\ UNCHANGED <<search, waiting>>
     ELSE /\ search' = [search EXCEPT ![p] = [at |-> "queued", key |-> k]]
          /\ waiting' = Append(waiting, p)
          /\ UNCHANGED cache
  /\ UNCHANGED <<holder, since, quiet, asked, failed, dropped>>

\* The request is sent at once, or after the rest of the interval.
Ask(p, k) ==
  IF since < Interval
  THEN search' = [search EXCEPT ![p] = [at |-> "sleeping", key |-> k]] /\ UNCHANGED <<asked, quiet>>
  ELSE /\ search' = [search EXCEPT ![p] = [at |-> "asking", key |-> k]]
       /\ asked' = [asked EXCEPT ![k] = @ + 1] /\ quiet' = 0

\* Mutant of Enter: the cache is not looked at again under the lock.
EnterUnchecked ==
  /\ holder = NoPicker /\ waiting # <<>>
  /\ LET p == Head(waiting)
     IN holder' = p /\ Ask(p, search[p].key)
  /\ waiting' = Tail(waiting)
  /\ UNCHANGED <<since, cache, searches, failed, dropped>>

\* The lock is taken: somebody else may have fetched this query meanwhile.
Enter ==
  /\ holder = NoPicker /\ waiting # <<>>
  /\ LET p == Head(waiting)
         k == search[p].key
     IN IF Cached(k)
        THEN /\ search' = [search EXCEPT ![p] = Idle]
             /\ cache' = Touched(k)
             /\ UNCHANGED <<holder, asked, quiet>>
        ELSE holder' = p /\ Ask(p, k) /\ UNCHANGED cache
  /\ waiting' = Tail(waiting)
  /\ UNCHANGED <<since, searches, failed, dropped>>

Wake(p) ==
  /\ search[p].at = "sleeping" /\ since = Interval
  /\ Ask(p, search[p].key)
  /\ UNCHANGED <<waiting, holder, since, cache, searches, failed, dropped>>

Leave(p) == holder' = NoPicker /\ search' = [search EXCEPT ![p] = Idle]

\* The lock is released and the answer stored with nothing in between.
Answered(p) ==
  LET k == search[p].key
  IN /\ search[p].at = "asking"
     /\ Leave(p) /\ since' = 0 /\ quiet' = 0
     /\ cache' = Stored(k)
     /\ dropped' = IF Len(cache) < CacheSize THEN dropped
                   ELSE [dropped EXCEPT ![Head(cache)] = @ + 1]
     /\ UNCHANGED <<waiting, searches, asked, failed>>

\* Mutant of Unavailable: a request that failed does not count for the interval.
UnavailableUntimed(p) ==
  /\ search[p].at = "asking"
  /\ Leave(p) /\ quiet' = 0
  /\ failed' = [failed EXCEPT ![search[p].key] = @ + 1]
  /\ UNCHANGED <<waiting, since, cache, searches, asked, dropped>>

\* Nominatim errs, times out or answers what cannot be read: nothing is stored.
Unavailable(p) ==
  /\ search[p].at = "asking"
  /\ Leave(p) /\ since' = 0 /\ quiet' = 0
  /\ failed' = [failed EXCEPT ![search[p].key] = @ + 1]
  /\ UNCHANGED <<waiting, cache, searches, asked, dropped>>

Later(t) == IF t < Interval THEN t + 1 ELSE Interval

GeoTick ==
  /\ since < Interval \/ quiet < Interval
  /\ since' = Later(since)
  /\ quiet' = IF \E p \in Pickers : search[p].at = "asking" THEN 0 ELSE Later(quiet)
  /\ UNCHANGED <<search, waiting, holder, cache, searches, asked, failed, dropped>>

GeoNext ==
  \/ \E p \in Pickers, k \in Places : Search(p, k)
  \/ Enter \/ GeoTick
  \/ \E p \in Pickers : Wake(p) \/ Answered(p) \/ Unavailable(p)

GeoSpec == GeoInit /\ [][GeoNext]_geoVars

-------------------------------------------------------------------------------
(* What the client promises Nominatim *)

\* The type of every variable.
GeoTypeOK ==
  /\ search \in [Pickers -> {Idle} \cup [at : {"queued", "sleeping", "asking"}, key : Places]]
  /\ waiting \in Seq(Pickers) /\ holder \in Pickers \cup {NoPicker}
  /\ {since, quiet} \subseteq 0..Interval
  /\ cache \in Seq(Places) /\ Len(cache) <= CacheSize
  /\ searches \in 0..MaxSearches
  /\ {asked, failed, dropped} \subseteq [Places -> Nat]

\* One request at a time, and each at least an interval after the end of the one before, failed
\* ones included: what Nominatim's policy allows, however many searches wait.
RequestsSpaced ==
  [][\A p \in Pickers :
       search'[p].at = "asking" /\ search[p].at # "asking" =>
         quiet >= Interval /\ \A q \in Pickers : search[q].at # "asking"]_geoVars

InFlight(k) == \E p \in Pickers : search[p].at = "asking" /\ search[p].key = k

\* A query costs one request for each time its answer was lost to a failure or an eviction, and
\* one for the answer that is kept or under way: concurrent searches for it share that one.
AskedOnce ==
  \A k \in Places :
    asked[k] = failed[k] + dropped[k] + (IF Cached(k) \/ InFlight(k) THEN 1 ELSE 0)
===============================================================================
