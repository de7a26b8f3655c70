-------------------------------- MODULE Lookups --------------------------------
(***************************************************************************)
(* The enricher's two clients: MusicBrainz, which is asked no more than    *)
(* once a second and again after a 503, and Spotify, whose token is kept   *)
(* until shortly before it expires.                                        *)
(*                                                                         *)
(* The enricher looks up one artist at a time, so neither client's lock is *)
(* ever waited for.  What a lookup finds is in Enricher; here it only      *)
(* matters what is sent, and when.                                         *)
(***************************************************************************)
EXTENDS Integers

CONSTANTS
  MinInterval,   \* min_interval, in ticks
  RetryDelay,    \* retry_delay
  MaxSearchAttempts,  \* MAX_ATTEMPTS
  SpotifyEnabled,     \* whether credentials are configured
  Margin,        \* how long before its end a token is not used any more
  Transit,       \* the longest a request or its answer is under way: the client's timeout
  Lifetimes,     \* what Spotify answers as expires_in
  MaxLookups     \* bound: artists looked up

ASSUME LookAssumption ==
  /\ {MinInterval, RetryDelay, Transit, Margin, MaxLookups} \subseteq Nat
  /\ MaxSearchAttempts \in Nat \ {0} /\ SpotifyEnabled \in BOOLEAN
  /\ 2 * Transit <= Margin
  /\ Lifetimes \subseteq Nat /\ \A l \in Lifetimes : 2 * Transit < l

VARIABLES
  step,          \* where the lookup is
  attempt,       \* _search's loop
  delay, pause,  \* what the next retry will sleep, and what is left of this sleep
  sinceRequest,  \* time since _last_request, up to MinInterval
  expiry,        \* time until _token_expires_at, 0 without a token
  term,          \* expires_in of the token under way
  took,          \* how long a token or a search has been under way
  lookups,
  life,          \* history: how long Spotify will honour the last token
  sinceSent,     \* history: time since a search was sent, up to MinInterval
  calm,          \* history: time since a 503, up to the next delay
  restarted      \* history: whether the process started anew since a search was sent

mbVars == <<attempt, delay, pause, sinceRequest>>
spotifyVars == <<expiry, term, took>>
lookVars == <<step, mbVars, spotifyVars, lookups, life, sinceSent, calm, restarted>>

LookInit ==
  /\ step = "idle" /\ attempt = 1 /\ delay = RetryDelay /\ pause = 0
  /\ sinceRequest = MinInterval /\ expiry = 0 /\ term = 0 /\ took = 0 /\ lookups = 0
  /\ life = 0 /\ sinceSent = MinInterval /\ calm = 0 /\ restarted = TRUE

-------------------------------------------------------------------------------
(* MusicBrainzClient *)

LookUp ==
  /\ step = "idle" /\ lookups < MaxLookups
  /\ step' = "throttle" /\ lookups' = lookups + 1
  /\ attempt' = 1 /\ delay' = RetryDelay /\ calm' = 0
  /\ UNCHANGED <<pause, sinceRequest, spotifyVars, life, sinceSent, restarted>>

\* Mutant of SendSearch: only the first attempt waits its turn.
SendSearchAtOnce ==
  /\ step = "throttle" /\ (attempt > 1 \/ sinceRequest = MinInterval)
  /\ step' = "asked"
  /\ sinceRequest' = 0 /\ sinceSent' = 0 /\ restarted' = FALSE
  /\ UNCHANGED <<attempt, delay, pause, spotifyVars, lookups, life, calm>>

\* _throttle sleeps for the rest of the interval, and the request is sent.
SendSearch ==
  /\ step = "throttle" /\ sinceRequest = MinInterval
  /\ step' = "asked"
  /\ sinceRequest' = 0 /\ sinceSent' = 0 /\ restarted' = FALSE
  /\ UNCHANGED <<attempt, delay, pause, spotifyVars, lookups, life, calm>>

\* 503: another attempt after a sleep that doubles each time.
Unready ==
  /\ step = "asked" /\ attempt < MaxSearchAttempts
  /\ step' = "backoff"
  /\ attempt' = attempt + 1 /\ pause' = delay /\ delay' = 2 * delay /\ calm' = 0
  /\ UNCHANGED <<sinceRequest, spotifyVars, lookups, life, sinceSent, restarted>>

TryAgain ==
  /\ step = "backoff" /\ pause = 0
  /\ step' = "throttle"
  /\ UNCHANGED <<mbVars, spotifyVars, lookups, life, sinceSent, calm, restarted>>

\* An answer, whether or not its top score is accepted; then Spotify is asked, with the token
\* at hand if it is not about to expire.
Found ==
  /\ step = "asked"
  /\ step' = IF ~ SpotifyEnabled THEN "idle" ELSE IF expiry > 0 THEN "search" ELSE "token"
  /\ took' = 0
  /\ UNCHANGED <<mbVars, expiry, term, lookups, life, sinceSent, calm, restarted>>

\* 503 on the last attempt, another error or an answer that cannot be read ends the process,
\* as a crash does at any time.  The next one knows neither the interval nor the token.
Die ==
  /\ step # "idle"
  /\ step' = "idle"
  /\ pause' = 0 /\ sinceRequest' = MinInterval /\ expiry' = 0 /\ term' = 0 /\ took' = 0
  /\ restarted' = TRUE
  /\ UNCHANGED <<attempt, delay, lookups, life, sinceSent, calm>>

-------------------------------------------------------------------------------
(* SpotifyClient *)

\* Spotify makes a token, good for l from now on.
Issue(l) ==
  /\ step = "token"
  /\ step' = "issued" /\ term' = l /\ life' = l /\ took' = 0
  /\ UNCHANGED <<mbVars, expiry, lookups, sinceSent, calm, restarted>>

\* Mutant of TokenArrives: the token is used until its end.
TokenArrivesWhole ==
  /\ step = "issued"
  /\ step' = "search" /\ took' = 0
  /\ expiry' = term
  /\ UNCHANGED <<mbVars, term, lookups, life, sinceSent, calm, restarted>>

\* The client counts from when the token arrives, and leaves a margin.
TokenArrives ==
  /\ step = "issued"
  /\ step' = "search" /\ took' = 0
  /\ expiry' = IF term > Margin THEN term - Margin ELSE 0
  /\ UNCHANGED <<mbVars, term, lookups, life, sinceSent, calm, restarted>>

\* An answer, an error or a timeout: the lookup goes on without Spotify, or with what it found.
SpotifyDone ==
  /\ step \in {"token", "issued", "search"}
  /\ step' = "idle"
  /\ UNCHANGED <<mbVars, spotifyVars, lookups, life, sinceSent, calm, restarted>>

-------------------------------------------------------------------------------

Less(t) == IF t > 0 THEN t - 1 ELSE 0
UpTo(t, bound) == IF t < bound THEN t + 1 ELSE t

\* A request that is under way for longer is given up, and is one that ended.
LookTick ==
  /\ step \in {"issued", "search"} => took < Transit
  /\ sinceRequest' = UpTo(sinceRequest, MinInterval) /\ sinceSent' = UpTo(sinceSent, MinInterval)
  /\ calm' = UpTo(calm, delay) /\ pause' = Less(pause)
  /\ expiry' = Less(expiry) /\ life' = Less(life)
  /\ took' = IF step \in {"issued", "search"} THEN took + 1 ELSE took
  /\ UNCHANGED <<step, attempt, delay, term, lookups, restarted>>

LookNext ==
  \/ LookUp \/ SendSearch \/ Unready \/ TryAgain \/ Found \/ Die
  \/ \E l \in Lifetimes : Issue(l)
  \/ TokenArrives \/ SpotifyDone \/ LookTick

LookSpec == LookInit /\ [][LookNext]_lookVars

-------------------------------------------------------------------------------
(* What the clients promise *)

\* The type of every variable.
LookTypeOK ==
  /\ step \in {"idle", "throttle", "asked", "backoff", "token", "issued", "search"}
  /\ attempt \in 1..MaxSearchAttempts
  /\ {delay, pause, calm, expiry, life, lookups} \subseteq Nat
  /\ {sinceRequest, sinceSent} \subseteq 0..MinInterval
  /\ term \in Lifetimes \cup {0} /\ took \in 0..Transit
  /\ restarted \in BOOLEAN

\* How long the retries sleep: retry_delay, and each time twice as long.
Backoff[n \in Nat] == IF n = 0 THEN RetryDelay ELSE 2 * Backoff[n - 1]

\* Searches are sent at least an interval apart, retries among them, unless the process was
\* started anew in between; and a retry is not sent before its backoff since the 503 it follows,
\* however long the throttle and the sleep overlap (enricher/src/musicbrainz.py:53).
SearchesPaced ==
  [][step # "asked" /\ step' = "asked" =>
       /\ sinceSent = MinInterval \/ restarted
       /\ attempt > 1 => calm >= Backoff[attempt - 2]]_lookVars

\* A search that reaches Spotify carries a token Spotify still honours, however long the token
\* and the search were under way and however short the token's life was
\* (enricher/src/spotify.py:67).
TokenHonoured == step = "search" => life > 0
===============================================================================
