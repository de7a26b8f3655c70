------------------------------ MODULE Recommender ------------------------------
(***************************************************************************)
(* Discovery: the gateway's GET /discover, its gRPC client, and the        *)
(* recommender that ranks shows by artists the user does not follow.       *)
(*                                                                         *)
(* A list is made by one query.  Its similarities are abstracted to their  *)
(* order, a radius and a date to whether a show is within reach, upcoming  *)
(* and still on sale.                                                      *)
(***************************************************************************)
EXTENDS Integers, Sequences, FiniteSets

CONSTANTS
  Artists,       \* artist ids, which end ties
  Shows,
  Headliner,     \* the artist with billing 0 of each show
  Starts,        \* when each show starts
  Genres,
  Closeness,     \* similarities, as numbers
  Unknown,       \* no embedding
  Callers,       \* requests to GET /discover that are served at once
  Limits,        \* limits the gateway is asked for
  PerGenre,      \* PER_GENRE
  DefaultLimit, MaxLimit,    \* DEFAULT_LIMIT and MAX_LIMIT
  Timeout,       \* recommender_timeout_s, in ticks
  Grace,         \* _SHUTDOWN_GRACE_S
  MaxDiscovers,  \* bound: requests
  MaxTurns       \* bound: changes to the tables and ends of the process

ASSUME DiscoverAssumption ==
  /\ Artists \subseteq Int
  /\ Headliner \in [Shows -> Artists]
  /\ Starts \in [Shows -> Nat] /\ IsFiniteSet(Shows)
  /\ Closeness \subseteq Int /\ Unknown \notin Closeness
  /\ Limits \subseteq Int
  /\ {PerGenre, DefaultLimit, MaxLimit} \subseteq Nat \ {0}
  /\ {Timeout, Grace, MaxDiscovers, MaxTurns} \subseteq Nat /\ Timeout < Grace

VARIABLES
  genre, likeness,   \* per artist: genres[1], and how close it is to the user's taste
  open,          \* shows in reach, upcoming and on sale or announced
  located,       \* whether the user has a home and a taste
  followed, hidden,  \* the user's follows and dismissals
  call,          \* requests, from the gateway to the recommender and back
  server, grace, \* the recommender's process, and what is left to calls after SIGTERM
  discovers, turns,
  cut            \* history: calls the shutdown cancelled

catalogue == <<genre, likeness, open, located, followed, hidden>>
recVars == <<catalogue, call, server, grace, discovers, turns, cut>>

\* from and close are history: the candidates and the similarities that were read.
NoCall ==
  [at |-> "idle", limit |-> 0, left |-> 0, list |-> <<>>, from |-> {}, close |-> <<>>]

RecInit ==
  /\ genre \in [Artists -> Genres] /\ likeness \in [Artists -> Closeness \cup {Unknown}]
  /\ open = Shows /\ located \in BOOLEAN
  /\ followed = {} /\ hidden = {}
  /\ call = [c \in Callers |-> NoCall]
  /\ server = "up" /\ grace = 0 /\ discovers = 0 /\ turns = 0 /\ cut = {}

-------------------------------------------------------------------------------
(* recommend: one candidate per headliner, its soonest show in reach *)

Wanted(s) ==
  /\ located /\ s \in open \ hidden
  /\ Headliner[s] \notin followed /\ likeness[Headliner[s]] # Unknown

Soonest(s) ==
  Wanted(s) /\ \A t \in Shows : Wanted(t) /\ Headliner[t] = Headliner[s] => Starts[s] <= Starts[t]

\* DISTINCT ON (a.id): of shows that start at once, either.
Candidates(from) ==
  /\ \A s \in from : Soonest(s)
  /\ \A s, t \in from : Headliner[s] = Headliner[t] => s = t
  /\ \A s \in Shows : Soonest(s) => \E t \in from : Headliner[t] = Headliner[s]

\* similarity DESC, artist_id
Better(s, t, close) ==
  LET a == Headliner[s]
      b == Headliner[t]
  IN close[a] > close[b] \/ (close[a] = close[b] /\ a < b)

SameGenre(s, t) == genre[Headliner[s]] = genre[Headliner[t]]

\* genre_rank > :per_genre
Spare(s, from, close) ==
  Cardinality({t \in from : SameGenre(s, t) /\ Better(t, s, close)}) >= PerGenre

\* Mutant of Before: the spare ones are not put last.
BeforeByCloseness(s, t, from, close) == Better(s, t, close)

\* ORDER BY genre_rank > :per_genre, similarity DESC, artist_id
Before(s, t, from, close) ==
  \/ ~ Spare(s, from, close) /\ Spare(t, from, close)
  \/ (Spare(s, from, close) <=> Spare(t, from, close)) /\ Better(s, t, close)

Place(s, from, close) == Cardinality({t \in from : Before(t, s, from, close)})

AtMost(m, n) == IF m < n THEN m ELSE n

\* LIMIT :limit
Recommended(from, close, limit) ==
  [i \in 1..AtMost(limit, Cardinality(from)) |->
     CHOOSE s \in from : Place(s, from, close) = i - 1]

\* GetRecommendations: 0 stands for the default.
Served(limit) == AtMost(IF limit = 0 THEN DefaultLimit ELSE limit, MaxLimit)

-------------------------------------------------------------------------------
(* A request: the gateway checks the limit, asks with a deadline, and answers *)
(* the list or 503.                                                           *)

Discover(c, limit) ==
  /\ discovers < MaxDiscovers /\ call[c].at = "idle"
  /\ discovers' = discovers + 1
  /\ call' = IF limit \in 1..MaxLimit
             THEN [call EXCEPT ![c] = [NoCall EXCEPT !.at = "sent", !.limit = limit,
                                                     !.left = Timeout]]
             ELSE call
  /\ UNCHANGED <<catalogue, server, grace, turns, cut>>

\* The handler starts; a server that is stopping or gone takes no calls.
TakeCall(c) ==
  /\ call[c].at = "sent"
  /\ call' = IF server = "up" THEN [call EXCEPT ![c].at = "handled"]
             ELSE [call EXCEPT ![c] = NoCall]
  /\ UNCHANGED <<catalogue, server, grace, discovers, turns, cut>>

Rank(c, from) ==
  /\ call[c].at = "handled" /\ Candidates(from)
  /\ call' = [call EXCEPT
       ![c].at = "ranked", ![c].from = from, ![c].close = likeness,
       ![c].list = Recommended(from, likeness, Served(call[c].limit))]
  /\ UNCHANGED <<catalogue, server, grace, discovers, turns, cut>>

\* The gateway answers the list, or 503 after any error and at the deadline.
Answer(c) ==
  /\ call[c].at # "idle"
  /\ call' = [call EXCEPT ![c] = NoCall]
  /\ UNCHANGED <<catalogue, server, grace, discovers, turns, cut>>

RecTick ==
  /\ \A c \in Callers : call[c].at # "idle" => call[c].left > 0
  /\ server = "stopping" => grace > 0
  /\ call' = [c \in Callers |-> IF call[c].at = "idle" THEN call[c]
                                ELSE [call[c] EXCEPT !.left = @ - 1]]
  /\ grace' = IF server = "stopping" THEN grace - 1 ELSE grace
  /\ UNCHANGED <<catalogue, server, discovers, turns, cut>>

-------------------------------------------------------------------------------
(* The recommender's process *)

Turn == turns < MaxTurns /\ turns' = turns + 1

Serving(c) == call[c].at \in {"handled", "ranked"}

\* Mutant of Sigterm: the calls get no grace.
SigtermAtOnce ==
  /\ Turn /\ server = "up"
  /\ server' = "stopping" /\ grace' = 0
  /\ UNCHANGED <<catalogue, call, discovers, cut>>

Sigterm ==
  /\ Turn /\ server = "up"
  /\ server' = "stopping" /\ grace' = Grace
  /\ UNCHANGED <<catalogue, call, discovers, cut>>

\* server.stop waits for the calls in flight, for as long as the grace lasts.
Stopped ==
  /\ server = "stopping" /\ (grace = 0 \/ \A c \in Callers : ~ Serving(c))
  /\ server' = "down" /\ grace' = 0
  /\ call' = [c \in Callers |-> IF Serving(c) THEN NoCall ELSE call[c]]
  /\ cut' = cut \cup {c \in Callers : Serving(c)}
  /\ UNCHANGED <<catalogue, discovers, turns>>

RecCrash ==
  /\ Turn /\ server \in {"up", "stopping"}
  /\ server' = "down" /\ grace' = 0
  /\ call' = [c \in Callers |-> IF Serving(c) THEN NoCall ELSE call[c]]
  /\ UNCHANGED <<catalogue, discovers, cut>>

StartServer ==
  /\ server = "down"
  /\ server' = "up"
  /\ UNCHANGED <<catalogue, call, grace, discovers, turns, cut>>

\* A follow or an unfollow, and the taste that comes of it, if any.
Follow(a, close, tasted) ==
  /\ Turn
  /\ followed' = (followed \ {a}) \cup ({a} \ followed)
  /\ likeness' = close /\ \A b \in Artists : close[b] = Unknown <=> likeness[b] = Unknown
  /\ located' = tasted
  /\ UNCHANGED <<genre, open, hidden, call, server, grace, discovers, cut>>

Dismiss(s) ==
  /\ Turn /\ s \notin hidden
  /\ hidden' = hidden \cup {s}
  /\ UNCHANGED <<genre, likeness, open, located, followed, call, server, grace, discovers, cut>>

\* A show starts or is called off, or goes on sale again.
ShowChanges(s) ==
  /\ Turn
  /\ open' = (open \ {s}) \cup ({s} \ open)
  /\ UNCHANGED <<genre, likeness, located, followed, hidden, call, server, grace, discovers, cut>>

RecNext ==
  \/ \E c \in Callers :
       \/ \E limit \in Limits : Discover(c, limit)
       \/ TakeCall(c) \/ Answer(c)
       \/ \E from \in SUBSET Shows : Rank(c, from)
  \/ RecTick \/ Sigterm \/ Stopped \/ RecCrash \/ StartServer
  \/ \E a \in Artists, close \in [Artists -> Closeness \cup {Unknown}], tasted \in BOOLEAN :
       Follow(a, close, tasted)
  \/ \E s \in Shows : Dismiss(s) \/ ShowChanges(s)

RecSpec == RecInit /\ [][RecNext]_recVars

-------------------------------------------------------------------------------
(* What discovery promises *)

Likenesses == [Artists -> Closeness \cup {Unknown}]

RecCall ==
  [at : {"idle", "sent", "handled", "ranked"}, limit : 0..MaxLimit, left : 0..Timeout,
   list : Seq(Shows), from : SUBSET Shows, close : Likenesses \cup {<<>>}]

\* The type of every variable.
RecTypeOK ==
  /\ genre \in [Artists -> Genres] /\ likeness \in Likenesses
  /\ open \subseteq Shows /\ located \in BOOLEAN
  /\ followed \subseteq Artists /\ hidden \subseteq Shows
  /\ call \in [Callers -> RecCall]
  /\ server \in {"up", "stopping", "down"} /\ grace \in 0..Grace
  /\ discovers \in Nat /\ turns \in Nat /\ cut \subseteq Callers

\* Whether the shows listed so far have their share of this one's genre.
Sated(s, past) == Cardinality({t \in past : SameGenre(s, t)}) >= PerGenre

\* Each show on a list is the one a person would pick next: of another artist than those before
\* it, and the closest to the user's taste among the genres that do not have their share yet, or
\* among all when every genre left has; and the list goes on while there is something to put on
\* it (recommender/src/recommend.py:13).
ListsAreDiverse ==
  \A c \in Callers : call[c].at = "ranked" =>
    LET list == call[c].list
        from == call[c].from
    IN /\ DOMAIN list = 1..AtMost(call[c].limit, Cardinality(from))
       /\ \A i \in DOMAIN list :
            LET past == {list[j] : j \in 1..(i - 1)}
            IN /\ list[i] \in from /\ \A s \in past : Headliner[s] # Headliner[list[i]]
               /\ \A s \in from \ (past \cup {list[i]}) :
                    \/ ~ Sated(list[i], past) /\ Sated(s, past)
                    \/ /\ Sated(list[i], past) <=> Sated(s, past)
                       /\ Better(list[i], s, call[c].close)

\* A restart of the recommender never cancels a call that has not passed its deadline: the calls
\* that were accepted get more time than their callers wait (recommender/src/main.py:24).
NoneCutShort == cut = {}
===============================================================================
