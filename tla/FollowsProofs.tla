---------------------------- MODULE FollowsProofs ----------------------------
(***************************************************************************)
(* Who is matched with what, for any users, artists, shows and requests,   *)
(* whatever the order in which they commit and are read.                   *)
(***************************************************************************)
EXTENDS Follows, FunctionTheorems, FiniteSetTheorems, SequenceTheorems, TLAPS

-----------------------------------------------------------------------------
(* Requests *)

\* A request that is idle, and one that has just been served but for its message.
LEMMA IdleRequest == Idle \in Requests /\ Idle.at = "idle" /\ Idle.user = NoUser
BY DEF Idle, Requests

\* To be overtaken changes nothing of a request but which artists its read is old about.
LEMMA OvertakenRequest ==
  ASSUME NEW g \in Requests, NEW users, NEW artists \in SUBSET Artists
  PROVE  /\ Overtake(g, users, artists) \in Requests
         /\ Overtake(g, users, artists).at = g.at
         /\ Overtake(g, users, artists).user = g.user
         /\ Overtake(g, users, artists).artists = g.artists
         /\ Overtake(g, users, artists).todo = g.todo
         /\ Overtake(g, users, artists).add = g.add
         /\ Overtake(g, users, artists).del = g.del
         /\ Overtake(g, users, artists).seen = g.seen
         /\ Overtake(g, users, artists).missed
              = g.missed \cup IF g.at = "write" /\ g.user \in users THEN artists ELSE {}
BY DEF Overtake, Requests

\* Overtaken requests are still typed.
LEMMA OvertakenRequests ==
  ASSUME TypeOK, NEW users, NEW artists \in SUBSET Artists,
         handler' = [g \in Handlers |-> Overtake(handler[g], users, artists)]
  PROVE  /\ handler' \in [Handlers -> Requests]
         /\ \A g \in Handlers : handler'[g].user = NoUser <=> handler'[g].at = "idle"
<1> SUFFICES ASSUME NEW g \in Handlers
             PROVE  handler'[g] \in Requests
                    /\ (handler'[g].user = NoUser <=> handler'[g].at = "idle")
  OBVIOUS
<1>1. handler'[g] = Overtake(handler[g], users, artists) /\ handler[g] \in Requests
      /\ (handler[g].user = NoUser <=> handler[g].at = "idle")
  BY DEF TypeOK
<1> QED
  BY <1>1, OvertakenRequest

\* The enricher's steps overtake requests.
LEMMA OvertakingSteps ==
  ASSUME \/ \E s, c \in Artists : MergeArtist(s, c)
         \/ \E a \in Artists : EmbedArtist(a)
  PROVE  \E users : \E artists \in SUBSET Artists :
           handler' = [h \in Handlers |-> Overtake(handler[h], users, artists)]
<1> DEFINE Some(users, artists) ==
             handler' = [h \in Handlers |-> Overtake(handler[h], users, artists)]
<1>1. ASSUME NEW s \in Artists, NEW c \in Artists, MergeArtist(s, c)
      PROVE  \E users : \E artists \in SUBSET Artists : Some(users, artists)
  <2> DEFINE moved == {u \in Users : s \in follows[u]}
             both == {s, c}
  <2>1. Some(moved, both) /\ both \in SUBSET Artists
    BY <1>1 DEF MergeArtist
  <2> HIDE DEF moved, both, Some
  <2> QED
    BY <2>1
<1>2. ASSUME NEW a \in Artists, EmbedArtist(a)
      PROVE  \E users : \E artists \in SUBSET Artists : Some(users, artists)
  <2> DEFINE one == {a}
  <2>1. Some(Users, one) /\ one \in SUBSET Artists
    BY <1>2 DEF EmbedArtist
  <2> HIDE DEF one, Some
  <2> QED
    BY <2>1
<1> QED
  BY <1>1, <1>2

\* A started or finished request in the place of another keeps the requests typed.
LEMMA RequestPut ==
  ASSUME TypeOK, NEW h \in Handlers, NEW r \in Requests,
         r.user = NoUser <=> r.at = "idle",
         handler' = [handler EXCEPT ![h] = r]
  PROVE  /\ handler' \in [Handlers -> Requests]
         /\ \A g \in Handlers : handler'[g].user = NoUser <=> handler'[g].at = "idle"
         /\ \A g \in Handlers : handler'[g] = IF g = h THEN r ELSE handler[g]
BY DEF TypeOK

-----------------------------------------------------------------------------
(* Types *)

\* The message in hand is the first of its queue, and the matches left to publish are
\* those of its show, if it is new, or of its user.
MatcherOK ==
  \/ matcher = Polling
  \/ /\ matcher.at = "publish" /\ matcher.msg \in Shows
     /\ enrichedQ[matcher.msg] # <<>>
     /\ \A m \in matcher.left : m[2] = matcher.msg /\ Head(enrichedQ[matcher.msg])
  \/ /\ matcher.at = "publish" /\ matcher.msg \in Users
     /\ tasteQ[matcher.msg] # <<>>
     /\ \A m \in matcher.left : m[1] = matcher.msg

\* At the start every variable has its type.
LEMMA InitTypeOK == Init => TypeOK
<1> SUFFICES ASSUME Init PROVE TypeOK
  OBVIOUS
<1>1. handler \in [Handlers -> Requests] /\ \A h \in Handlers : handler[h] = Idle
  BY IdleRequest DEF Init
<1>2. matcher \in [at : {"poll", "publish"}, msg : Users \cup Shows \cup {NoMessage},
                   left : SUBSET Found]
  BY DEF Init, Polling
<1>3. rows \in [Shows -> Row \cup {NoRow}]
  BY FollowsAssumption DEF Init, FollowsAssumption
<1>4. deduped \in [Shows -> Seq(BOOLEAN)] /\ enrichedQ \in [Shows -> Seq(BOOLEAN)]
      /\ tasteQ \in [Users -> Seq(SUBSET Artists)]
  BY DEF Init
<1> QED
  BY <1>1, <1>2, <1>3, <1>4, IdleRequest DEF Init, TypeOK

\* The queue of the message in hand is not empty.
LEMMA InHandIsFirst ==
  ASSUME MatcherOK, matcher.at = "publish"
  PROVE  /\ \A e \in Shows : e = matcher.msg => enrichedQ[e] # <<>>
         /\ \A u \in Users : u = matcher.msg => tasteQ[u] # <<>>
<1>1. matcher # Polling
  BY DEF Polling
<1> QED
  BY <1>1, FollowsAssumption DEF MatcherOK, FollowsAssumption

\* Between two messages there is none in hand.
LEMMA PollingHoldsNone ==
  ASSUME MatcherOK, matcher.at = "poll"
  PROVE  matcher.left = {} /\ matcher.msg \notin Users \cup Shows
<1>1. matcher = Polling
  BY DEF MatcherOK
<1>2. NoMessage \notin Users \cup Shows
  BY FollowsAssumption DEF FollowsAssumption
<1> QED
  BY <1>1, <1>2 DEF Polling

\* A new request leaves every variable typed.
LEMMA RequestKeepsTypeOK ==
  ASSUME TypeOK, NEW h \in Handlers, NEW r \in Requests, r.at # "idle", r.user # NoUser,
         Request(h, r), UNCHANGED <<events, topics, matcher, proposals, history, listings, faults>>,
         UNCHANGED <<follows, taste, dismissals>>, reach' \in [Users -> SUBSET Places]
  PROVE  TypeOK'
<1>1. handler' = [handler EXCEPT ![h] = r] /\ requests' = requests + 1
  BY DEF Request
<1>2. /\ handler' \in [Handlers -> Requests]
      /\ \A g \in Handlers : handler'[g].user = NoUser <=> handler'[g].at = "idle"
  BY <1>1, RequestPut
<1> QED
  BY <1>1, <1>2 DEF TypeOK, events, topics, history

\* So does a request that goes on.
LEMMA ServedKeepsTypeOK ==
  ASSUME TypeOK, NEW h \in Handlers, NEW r \in Requests, r.user = NoUser <=> r.at = "idle",
         handler' = [handler EXCEPT ![h] = r],
         UNCHANGED <<events, people, deduped, enrichedQ, matcher, proposals, news, overtaken,
                     requests, listings>>,
         tasteQ' \in [Users -> Seq(SUBSET Artists)], silent' \in SUBSET Pairs, faults' \in Nat
  PROVE  TypeOK'
<1>1. /\ handler' \in [Handlers -> Requests]
      /\ \A g \in Handlers : handler'[g].user = NoUser <=> handler'[g].at = "idle"
  BY RequestPut
<1> QED
  BY <1>1 DEF TypeOK, events, people

\* And so does every step.
LEMMA TypeStep == TypeOK /\ MatcherOK /\ [Next]_vars => TypeOK'
<1> SUFFICES ASSUME TypeOK, MatcherOK, [Next]_vars PROVE TypeOK'
  OBVIOUS
<1> USE FollowsAssumption
<1>1. ASSUME NEW h \in Handlers, NEW u \in Users, NewRequest(h, u) PROVE TypeOK'
  <2>1. ASSUME NEW a \in Artists, CreateFollow(h, u, a) PROVE TypeOK'
    <3> DEFINE r == [Idle EXCEPT !.at = "insert", !.user = u, !.artists = {a},
                                 !.add = {a} \ follows[u]]
    <3>1. r \in Requests /\ r.at = "insert" /\ r.user = u
      BY DEF Idle, Requests
    <3>2. Request(h, r)
      BY <2>1 DEF CreateFollow
    <3> HIDE DEF r
    <3> QED
      BY <2>1, <3>1, <3>2, RequestKeepsTypeOK
         DEF CreateFollow, people, TypeOK, FollowsAssumption
  <2>2. ASSUME NEW a \in Artists, DeleteFollow(h, u, a) PROVE TypeOK'
    <3> DEFINE r == [Idle EXCEPT !.at = "insert", !.user = u, !.del = {a} \cap follows[u]]
    <3>1. r \in Requests /\ r.at = "insert" /\ r.user = u
      BY DEF Idle, Requests
    <3>2. Request(h, r)
      BY <2>2 DEF DeleteFollow
    <3> HIDE DEF r
    <3> QED
      BY <2>2, <3>1, <3>2, RequestKeepsTypeOK
         DEF DeleteFollow, people, TypeOK, FollowsAssumption
  <2>3. ASSUME NEW artists \in SUBSET Artists, StartImport(h, u, artists) PROVE TypeOK'
    <3> DEFINE r == [Idle EXCEPT !.at = "import", !.user = u, !.artists = artists,
                                 !.todo = artists, !.import = TRUE]
    <3>1. r \in Requests /\ r.at = "import" /\ r.user = u
      BY DEF Idle, Requests
    <3>2. Request(h, r)
      BY <2>3 DEF StartImport
    <3> HIDE DEF r
    <3> QED
      BY <2>3, <3>1, <3>2, RequestKeepsTypeOK
         DEF StartImport, people, TypeOK, FollowsAssumption
  <2>4. ASSUME NEW places \in SUBSET Places, UpdateArea(h, u, places) PROVE TypeOK'
    <3> DEFINE r == [Idle EXCEPT !.at = "moved", !.user = u]
    <3>1. r \in Requests /\ r.at = "moved" /\ r.user = u
      BY DEF Idle, Requests
    <3>2. Request(h, r)
      BY <2>4 DEF UpdateArea
    <3> HIDE DEF r
    <3>3. reach' \in [Users -> SUBSET Places]
      BY <2>4 DEF UpdateArea, TypeOK
    <3> QED
      BY <2>4, <3>1, <3>2, <3>3, RequestKeepsTypeOK
         DEF UpdateArea, TypeOK, FollowsAssumption
  <2> QED
    BY <1>1, <2>1, <2>2, <2>3, <2>4 DEF NewRequest
<1>2. ASSUME NEW h \in Handlers, ServeRequest(h) PROVE TypeOK'
  <2> DEFINE old == handler[h]
  <2>1. old \in Requests /\ (old.user = NoUser <=> old.at = "idle")
    BY DEF TypeOK
  <2>2. tasteQ \in [Users -> Seq(SUBSET Artists)] /\ silent \in SUBSET Pairs /\ faults \in Nat
    BY DEF TypeOK
  <2>3. ASSUME NEW a \in Artists, ImportArtist(h, a) PROVE TypeOK'
    <3> DEFINE r == [old EXCEPT !.todo = @ \ {a}, !.add = @ \cup ({a} \ follows[old.user])]
    <3>1. r \in Requests /\ (r.user = NoUser <=> r.at = "idle")
      BY <2>1 DEF Requests
    <3>2. handler' = [handler EXCEPT ![h] = r]
      BY <2>3 DEF ImportArtist, TypeOK
    <3> HIDE DEF r
    <3> QED
      BY <2>2, <2>3, <3>1, <3>2, ServedKeepsTypeOK
         DEF ImportArtist, topics, history, bounds
  <2>4. CASE ImportRefused(h) \/ DeadlockAbort(h)
    <3>1. handler' = [handler EXCEPT ![h] = Idle]
      BY <2>4 DEF ImportRefused, DeadlockAbort
    <3> QED
      BY <2>2, <2>4, <3>1, IdleRequest, ServedKeepsTypeOK
         DEF ImportRefused, DeadlockAbort, topics, history, bounds
  <2>5. CASE Recompute(h)
    <3> DEFINE r == [old EXCEPT !.at = "write",
                       !.seen = ((follows[old.user] \cup old.add) \ old.del) \cap embedded]
    <3>1. old.user \in Users
      BY <2>1, <2>5 DEF Recompute, Requests
    <3>2. r \in Requests /\ r.user = old.user /\ r.at = "write"
      BY <2>1, <3>1 DEF Requests, TypeOK
    <3>3. handler' = [handler EXCEPT ![h] = r]
      BY <2>5 DEF Recompute, TypeOK
    <3>4. r.user = NoUser <=> r.at = "idle"
      BY <2>1, <2>5, <3>2 DEF Recompute
    <3> HIDE DEF r
    <3> QED
      BY <2>2, <2>5, <3>2, <3>3, <3>4, ServedKeepsTypeOK
         DEF Recompute, topics, history, bounds
  <2>6. CASE CommitFollow(h)
    <3> DEFINE r == [Idle EXCEPT !.at = "publish", !.user = old.user, !.artists = old.artists]
    <3>1. /\ old.user \in Users /\ old.seen \in SUBSET Artists
          /\ old.add \cup old.del \in SUBSET Artists /\ old.missed \in SUBSET Artists
      BY <2>1, <2>6 DEF CommitFollow, Requests
    <3>2. r \in Requests /\ r.user = old.user /\ r.at = "publish"
      BY <2>1, <3>1 DEF Idle, Requests
    <3>3. handler' = [g \in Handlers |-> IF g = h THEN r
                        ELSE Overtake(handler[g], {old.user}, old.add \cup old.del)]
      BY <2>6 DEF CommitFollow
    <3> HIDE DEF r
    <3>4. /\ handler' \in [Handlers -> Requests]
          /\ \A g \in Handlers : handler'[g].user = NoUser <=> handler'[g].at = "idle"
      <4> SUFFICES ASSUME NEW g \in Handlers
                   PROVE  handler'[g] \in Requests
                          /\ (handler'[g].user = NoUser <=> handler'[g].at = "idle")
        BY <3>3
      <4>1. CASE g = h
        <5>1. handler'[g] = r
          BY <3>3, <4>1
        <5> QED
          BY <3>1, <3>2, <5>1
      <4>2. CASE g # h
        <5>1. handler'[g] = Overtake(handler[g], {old.user}, old.add \cup old.del)
              /\ handler[g] \in Requests /\ (handler[g].user = NoUser <=> handler[g].at = "idle")
          BY <3>3, <4>2 DEF TypeOK
        <5> QED
          BY <3>1, <5>1, OvertakenRequest
      <4> QED
        BY <4>1, <4>2
    <3>5. /\ follows' \in [Users -> SUBSET Artists] /\ taste' \in [Users -> SUBSET Artists]
          /\ overtaken' \in SUBSET (Users \X Artists)
      <4>1. (follows[old.user] \cup old.add) \ old.del \in SUBSET Artists
        BY <2>1, <3>1 DEF TypeOK, Requests
      <4> QED
        BY <2>6, <3>1, <4>1 DEF CommitFollow, TypeOK
    <3> QED
      BY <2>6, <3>4, <3>5 DEF CommitFollow, TypeOK, events, topics, bounds
  <2>7. CASE ReadFollowed(h)
    <3> DEFINE r == [old EXCEPT !.at = "publish", !.artists = follows[old.user]]
    <3>1. old.user \in Users
      BY <2>1, <2>7 DEF ReadFollowed, Requests
    <3>2. r \in Requests /\ r.user = old.user /\ r.at = "publish"
      BY <2>1, <3>1 DEF Requests, TypeOK
    <3>3. handler' = [handler EXCEPT ![h] = IF follows[old.user] = {} THEN Idle ELSE r]
      BY <2>7 DEF ReadFollowed
    <3> HIDE DEF r
    <3> DEFINE next == IF follows[old.user] = {} THEN Idle ELSE r
    <3>4. next \in Requests /\ (next.user = NoUser <=> next.at = "idle")
      BY <3>1, <3>2, IdleRequest DEF FollowsAssumption
    <3> HIDE DEF next
    <3>5. handler' = [handler EXCEPT ![h] = next]
      BY <3>3 DEF next
    <3> QED
      BY <2>2, <2>7, <3>4, <3>5, ServedKeepsTypeOK
         DEF ReadFollowed, topics, history, bounds
  <2>8. CASE PublishTaste(h)
    <3>1. old.user \in Users /\ old.artists \in SUBSET Artists
      BY <2>1, <2>8 DEF PublishTaste, Requests
    <3>2. tasteQ' \in [Users -> Seq(SUBSET Artists)]
      <4>1. Append(tasteQ[old.user], old.artists) \in Seq(SUBSET Artists)
        BY <2>2, <3>1
      <4> QED
        BY <2>2, <2>8, <3>1, <4>1 DEF PublishTaste
    <3>3. handler' = [handler EXCEPT ![h] = Idle]
      BY <2>8 DEF PublishTaste
    <3> QED
      BY <2>2, <2>8, <3>2, <3>3, IdleRequest, ServedKeepsTypeOK
         DEF PublishTaste, history, bounds
  <2> QED
    BY <1>2, <2>3, <2>4, <2>5, <2>6, <2>7, <2>8 DEF ServeRequest
<1>3. ASSUME NEW h \in Handlers, PublishFails(h) PROVE TypeOK'
  <2>1. Unasked(h) \subseteq Pairs
    BY DEF Unasked
  <2>2. silent' \in SUBSET Pairs /\ faults' \in Nat /\ handler' = [handler EXCEPT ![h] = Idle]
        /\ tasteQ' \in [Users -> Seq(SUBSET Artists)]
    BY <1>3, <2>1 DEF PublishFails, TypeOK, topics
  <2> QED
    BY <1>3, <2>2, IdleRequest, ServedKeepsTypeOK DEF PublishFails, topics
<1>4. CASE GatewayCrash
  <2>1. \A h \in Handlers : Unasked(h) \subseteq Pairs
    BY DEF Unasked
  <2>2. silent' \in SUBSET Pairs
    BY <1>4, <2>1 DEF GatewayCrash, TypeOK
  <2> QED
    BY <1>4, <2>2, IdleRequest DEF GatewayCrash, TypeOK, events, people, topics
<1>5. ASSUME NEW u \in Users, NEW e \in Shows, DismissEvent(u, e) PROVE TypeOK'
  BY <1>5 DEF DismissEvent, TypeOK, Pairs, events, topics, history
<1>6. ASSUME NEW e \in Shows, ListingChanges(e) \/ SendOn(e, FALSE) PROVE TypeOK'
  <2>1. NowMatching(e) \subseteq Pairs
    BY DEF NowMatching
  <2>2. ASSUME NEW row \in ListedRows, ListShow(e, row) \/ LoseAnnouncement(e, row)
        PROVE  TypeOK'
    <3>1. WriteRow(e, row)
      BY <2>2 DEF ListShow, LoseAnnouncement
    <3>2. rows' \in [Shows -> Row \cup {NoRow}] /\ listings' \in Nat
      BY <3>1 DEF WriteRow, TypeOK, FollowsAssumption
    <3>3. deduped' \in [Shows -> Seq(BOOLEAN)] /\ silent' \in SUBSET Pairs
          /\ news' \in SUBSET Shows /\ faults' \in Nat
      <4>1. \A b \in BOOLEAN : Append(deduped[e], b) \in Seq(BOOLEAN)
        BY DEF TypeOK
      <4> QED
        <5>1. CASE ListShow(e, row)
          <6>1. (rows[e] = NoRow) \in BOOLEAN /\ faults' = faults
            BY <5>1 DEF ListShow
          <6>2. deduped' = [deduped EXCEPT ![e] = Append(@, rows[e] = NoRow)]
            BY <5>1 DEF ListShow
          <6>3. deduped' \in [Shows -> Seq(BOOLEAN)]
            BY <4>1, <6>1, <6>2 DEF TypeOK
          <6> QED
            BY <2>1, <5>1, <6>1, <6>3 DEF ListShow, TypeOK
        <5>2. CASE LoseAnnouncement(e, row)
          BY <2>1, <4>1, <5>2 DEF LoseAnnouncement, TypeOK
        <5> QED
          BY <2>2, <5>1, <5>2
    <3> QED
      <4>1. CASE ListShow(e, row)
        BY <3>2, <3>3, <4>1 DEF ListShow, TypeOK, people
      <4>2. CASE LoseAnnouncement(e, row)
        BY <3>2, <3>3, <4>2 DEF LoseAnnouncement, TypeOK, people
      <4> QED
        BY <2>2, <4>1, <4>2
  <2>3. CASE ShowStarts(e)
    <3>1. rows[e] \in Row
      BY <2>3 DEF ShowStarts, TypeOK
    <3> DEFINE row == [rows[e] EXCEPT !.live = FALSE]
    <3>2. row \in Row
      BY <3>1 DEF Row
    <3>3. rows' = [rows EXCEPT ![e] = row] /\ listings' = listings + 1
      BY <2>3 DEF ShowStarts, TypeOK
    <3> HIDE DEF row
    <3>4. rows' \in [Shows -> Row \cup {NoRow}] /\ listings' \in Nat
      BY <3>2, <3>3 DEF TypeOK
    <3> QED
      BY <2>3, <3>4 DEF ShowStarts, TypeOK, people, topics, history
  <2>4. ASSUME NEW again \in BOOLEAN, SendOn(e, again) PROVE TypeOK'
    <3>1. Head(deduped[e]) \in BOOLEAN /\ Tail(deduped[e]) \in Seq(BOOLEAN)
          /\ Append(enrichedQ[e], Head(deduped[e])) \in Seq(BOOLEAN)
      BY <2>4, HeadTailProperties DEF SendOn, TypeOK
    <3> QED
      BY <2>4, <3>1 DEF SendOn, TypeOK, events, people, history
  <2> QED
    BY <1>6, <2>2, <2>3, <2>4 DEF ListingChanges
<1>7. ASSUME NEW s \in Artists, NEW c \in Artists, MergeArtist(s, c) PROVE TypeOK'
  <2>1. rows' \in [Shows -> Row \cup {NoRow}]
    <3> SUFFICES ASSUME NEW e \in Shows PROVE MergedRow(rows[e], s, c) \in Row \cup {NoRow}
      BY <1>7 DEF MergeArtist
    <3>1. CASE rows[e] = NoRow
      BY <3>1 DEF MergedRow
    <3>2. CASE rows[e] # NoRow
      <4>1. rows[e] \in Row
        BY <3>2 DEF TypeOK
      <4> QED
        BY <3>2, <4>1 DEF MergedRow, Renamed, Row
    <3> QED
      BY <3>1, <3>2
  <2>2. follows' \in [Users -> SUBSET Artists]
    BY <1>7 DEF MergeArtist, Renamed, TypeOK
  <2> DEFINE both == {s, c}
  <2>3. PICK moved \in SUBSET Users :
          /\ handler' = [h \in Handlers |-> Overtake(handler[h], moved, both)]
          /\ overtaken' = overtaken \cup (moved \X both)
    BY <1>7 DEF MergeArtist
  <2>0. both \in SUBSET Artists
    OBVIOUS
  <2> HIDE DEF both
  <2>4. /\ handler' \in [Handlers -> Requests]
        /\ \A g \in Handlers : handler'[g].user = NoUser <=> handler'[g].at = "idle"
    BY <2>0, <2>3, OvertakenRequests
  <2>5. /\ silent' \in SUBSET Pairs /\ merged' \in SUBSET Artists
        /\ embedded' \in SUBSET Artists
    BY <1>7 DEF MergeArtist, TypeOK
  <2>6. overtaken' \in SUBSET (Users \X Artists)
    BY <2>0, <2>3 DEF TypeOK
  <2> QED
    BY <1>7, <2>1, <2>2, <2>4, <2>5, <2>6 DEF MergeArtist, TypeOK, topics, bounds
<1>8. CASE Consume
  <2>1. ASSUME NEW msg \in Users \cup Shows, NEW left \in SUBSET Found,
               matcher' = [at |-> "publish", msg |-> msg, left |-> left],
               UNCHANGED <<events, people, handler, topics, proposals, history, bounds>>
        PROVE  TypeOK'
    BY <2>1 DEF TypeOK, events, people, topics, history, bounds
  <2>2. ASSUME NEW e \in Shows, ReadEnriched(e) PROVE TypeOK'
    BY <2>1, <2>2 DEF ReadEnriched, PerHeadliner
  <2>3. ASSUME NEW u \in Users, ReadTaste(u) PROVE TypeOK'
    BY <2>1, <2>3 DEF ReadTaste, PerHeadliner
  <2>4. ASSUME NEW m \in matcher.left, PublishMatch(m) PROVE TypeOK'
    <3>1. m \in Found /\ proposals[m] + 1 \in Nat
          /\ proposals' = [proposals EXCEPT ![m] = @ + 1]
      BY <2>4 DEF PublishMatch, TypeOK
    <3>2. proposals' \in [Found -> Nat]
      BY <3>1 DEF TypeOK
    <3>3. matcher' \in [at : {"poll", "publish"}, msg : Users \cup Shows \cup {NoMessage},
                        left : SUBSET Found]
      BY <2>4 DEF PublishMatch, TypeOK
    <3> QED
      BY <2>4, <3>2, <3>3 DEF PublishMatch, TypeOK, events, people, topics, history, bounds
  <2>5. CASE CommitMessage
    <3>1. enrichedQ' \in [Shows -> Seq(BOOLEAN)]
      <4>1. ASSUME NEW e \in Shows, e = matcher.msg PROVE Tail(enrichedQ[e]) \in Seq(BOOLEAN)
        <5>1. enrichedQ[e] # <<>> /\ enrichedQ[e] \in Seq(BOOLEAN)
          BY <4>1, <2>5, InHandIsFirst DEF CommitMessage, TypeOK
        <5> QED
          BY <5>1, HeadTailProperties
      <4> QED
        BY <2>5, <4>1 DEF CommitMessage, TypeOK
    <3>2. tasteQ' \in [Users -> Seq(SUBSET Artists)]
      <4>1. ASSUME NEW u \in Users, u = matcher.msg
            PROVE  Tail(tasteQ[u]) \in Seq(SUBSET Artists)
        <5>1. tasteQ[u] # <<>> /\ tasteQ[u] \in Seq(SUBSET Artists)
          BY <4>1, <2>5, InHandIsFirst DEF CommitMessage, TypeOK
        <5> QED
          BY <5>1, HeadTailProperties
      <4> QED
        BY <2>5, <4>1 DEF CommitMessage, TypeOK
    <3> QED
      BY <2>5, <3>1, <3>2
         DEF CommitMessage, Polling, TypeOK, events, people, history, bounds
  <2> QED
    BY <1>8, <2>2, <2>3, <2>4, <2>5 DEF Consume
<1>9. CASE MatcherCrash
  BY <1>9 DEF MatcherCrash, Polling, TypeOK, events, people, topics, history
<1>10. CASE UNCHANGED vars
  BY <1>10 DEF vars, TypeOK, events, people, topics, history, bounds
<1>11. ASSUME NEW a \in Artists, EmbedArtist(a) PROVE TypeOK'
  <2> DEFINE one == {a}
  <2>0. one \in SUBSET Artists
    OBVIOUS
  <2>1. handler' = [h \in Handlers |-> Overtake(handler[h], Users, one)]
        /\ embedded' = embedded \cup one
    BY <1>11 DEF EmbedArtist
  <2>2. overtaken' \in SUBSET (Users \X Artists)
    BY <1>11 DEF EmbedArtist, TypeOK
  <2> HIDE DEF one
  <2>3. /\ handler' \in [Handlers -> Requests]
        /\ \A g \in Handlers : handler'[g].user = NoUser <=> handler'[g].at = "idle"
    BY <2>0, <2>1, OvertakenRequests
  <2> QED
    BY <1>11, <2>0, <2>1, <2>2, <2>3 DEF EmbedArtist, TypeOK, people, topics, bounds
<1> QED
  BY <1>1, <1>2, <1>3, <1>4, <1>5, <1>6, <1>7, <1>8, <1>9, <1>10, <1>11 DEF Next

-----------------------------------------------------------------------------
(* The message in hand *)

\* What follows from the end of a queue staying behind its first message.
LEMMA AppendFacts ==
  \A S : \A q \in Seq(S) : \A x \in S :
    /\ Append(q, x) \in Seq(S) /\ Append(q, x) # <<>> /\ Len(Append(q, x)) = Len(q) + 1
    /\ DOMAIN Append(q, x) = 1 .. Len(q) + 1 /\ DOMAIN q = 1 .. Len(q)
    /\ \A i \in DOMAIN q : Append(q, x)[i] = q[i]
    /\ Append(q, x)[Len(q) + 1] = x
    /\ q # <<>> => Head(Append(q, x)) = Head(q) /\ Len(q) > 0
BY AppendProperties

\* What is left of a queue when its first message is taken.
LEMMA TailFacts ==
  \A S : \A q \in Seq(S) :
    q # <<>> => /\ Tail(q) \in Seq(S) /\ Head(q) \in S /\ Head(q) = q[1]
                /\ Len(q) \in Nat /\ Len(q) > 0 /\ Len(Tail(q)) = Len(q) - 1
                /\ DOMAIN Tail(q) = 1 .. Len(q) - 1 /\ DOMAIN q = 1 .. Len(q)
                /\ \A i \in 1 .. Len(q) - 1 : Tail(q)[i] = q[i + 1]
BY HeadTailProperties

\* Every action but these leaves the matcher and its queues alone.
LEMMA OtherSteps ==
  ASSUME [Next]_vars
  PROVE  \/ UNCHANGED <<matcher, enrichedQ, tasteQ>>
         \/ \E h \in Handlers : PublishTaste(h)
         \/ \E e \in Shows : SendOn(e, TRUE) \/ SendOn(e, FALSE)
         \/ Consume \/ MatcherCrash
<1>1. ASSUME NEW h \in Handlers, ServeRequest(h)
      PROVE  PublishTaste(h) \/ UNCHANGED <<matcher, enrichedQ, tasteQ>>
  BY <1>1 DEF ServeRequest, ImportArtist, ImportRefused, Recompute, CommitFollow,
              DeadlockAbort, ReadFollowed, topics
<1>2. ASSUME NEW h \in Handlers, NEW u \in Users, NewRequest(h, u)
      PROVE  UNCHANGED <<matcher, enrichedQ, tasteQ>>
  BY <1>2 DEF NewRequest, CreateFollow, DeleteFollow, StartImport, UpdateArea, topics
<1>3. ASSUME NEW e \in Shows, ListingChanges(e)
      PROVE  SendOn(e, TRUE) \/ UNCHANGED <<matcher, enrichedQ, tasteQ>>
  BY <1>3 DEF ListingChanges, ListShow, LoseAnnouncement, ShowStarts, topics
<1>4. ASSUME \/ \E h \in Handlers : PublishFails(h)
             \/ GatewayCrash
             \/ \E u \in Users, e \in Shows : DismissEvent(u, e)
             \/ \E s, c \in Artists : MergeArtist(s, c)
             \/ \E a \in Artists : EmbedArtist(a)
             \/ UNCHANGED vars
      PROVE  UNCHANGED <<matcher, enrichedQ, tasteQ>>
  BY <1>4 DEF PublishFails, GatewayCrash, DismissEvent, MergeArtist, EmbedArtist, topics, vars
<1> QED
  BY <1>1, <1>2, <1>3, <1>4 DEF Next

\* Every step keeps the message in hand where it is: others only append to its queue.
LEMMA MatcherStep == TypeOK /\ MatcherOK /\ [Next]_vars => MatcherOK'
<1> SUFFICES ASSUME TypeOK, MatcherOK, [Next]_vars PROVE MatcherOK'
  OBVIOUS
<1>1. CASE UNCHANGED <<matcher, enrichedQ, tasteQ>>
  BY <1>1 DEF MatcherOK
<1>2. ASSUME NEW h \in Handlers, PublishTaste(h) PROVE MatcherOK'
  <2> DEFINE u == handler[h].user
  <2>1. u \in Users /\ handler[h].artists \in SUBSET Artists /\ tasteQ[u] \in Seq(SUBSET Artists)
    BY <1>2 DEF PublishTaste, TypeOK, Requests
  <2>2. tasteQ' = [tasteQ EXCEPT ![u] = Append(@, handler[h].artists)]
        /\ UNCHANGED <<matcher, enrichedQ>>
    BY <1>2 DEF PublishTaste
  <2>3. Append(tasteQ[u], handler[h].artists) # <<>>
    BY <2>1, AppendFacts
  <2> QED
    BY <2>1, <2>2, <2>3 DEF MatcherOK, TypeOK
<1>3. ASSUME NEW e \in Shows, NEW again \in BOOLEAN, SendOn(e, again) PROVE MatcherOK'
  <2>1. enrichedQ[e] \in Seq(BOOLEAN) /\ Head(deduped[e]) \in BOOLEAN
    BY <1>3, TailFacts DEF SendOn, TypeOK
  <2>2. /\ Append(enrichedQ[e], Head(deduped[e])) # <<>>
        /\ enrichedQ[e] # <<>> =>
             Head(Append(enrichedQ[e], Head(deduped[e]))) = Head(enrichedQ[e])
    BY <2>1, AppendFacts
  <2>3. enrichedQ' = [enrichedQ EXCEPT ![e] = Append(@, Head(deduped[e]))]
        /\ UNCHANGED <<matcher, tasteQ>>
    BY <1>3 DEF SendOn
  <2> QED
    BY <2>2, <2>3 DEF MatcherOK, TypeOK
<1>4. CASE Consume
  <2>1. ASSUME NEW e \in Shows, ReadEnriched(e) PROVE MatcherOK'
    <3>1. /\ matcher'.at = "publish" /\ matcher'.msg = e /\ enrichedQ' = enrichedQ
          /\ enrichedQ[e] # <<>>
          /\ matcher'.left
               = IF Head(enrichedQ[e]) THEN PerHeadliner(MatchesForEvent(e)) ELSE {}
      BY <2>1 DEF ReadEnriched, topics
    <3>2. \A m \in matcher'.left : m[2] = e /\ Head(enrichedQ[e])
      BY <3>1 DEF PerHeadliner, MatchesForEvent
    <3> QED
      BY <3>1, <3>2 DEF MatcherOK
  <2>2. ASSUME NEW u \in Users, ReadTaste(u) PROVE MatcherOK'
    <3>1. /\ matcher'.at = "publish" /\ matcher'.msg = u /\ tasteQ' = tasteQ
          /\ tasteQ[u] # <<>>
          /\ matcher'.left = PerHeadliner(MatchesForFollowedArtists(u, Head(tasteQ[u])))
      BY <2>2 DEF ReadTaste, topics
    <3>2. \A m \in matcher'.left : m[1] = u
      BY <3>1 DEF PerHeadliner, MatchesForFollowedArtists
    <3> QED
      BY <3>1, <3>2 DEF MatcherOK
  <2>3. ASSUME NEW m \in matcher.left, PublishMatch(m) PROVE MatcherOK'
    <3>1. /\ matcher'.at = matcher.at /\ matcher'.msg = matcher.msg
          /\ matcher'.left = matcher.left \ {m} /\ UNCHANGED <<enrichedQ, tasteQ>>
      BY <2>3 DEF PublishMatch, TypeOK, topics
    <3>2. matcher # Polling
      BY DEF Polling
    <3> QED
      BY <3>1, <3>2 DEF MatcherOK
  <2>4. CASE CommitMessage
    BY <2>4 DEF CommitMessage, MatcherOK
  <2> QED
    BY <1>4, <2>1, <2>2, <2>3, <2>4 DEF Consume
<1>5. CASE MatcherCrash
  BY <1>5 DEF MatcherCrash, MatcherOK
<1> QED
  BY <1>1, <1>2, <1>3, <1>4, <1>5, OtherSteps

\* Every variable has its type, and the matcher holds the first message of a queue
\* (services/matcher/src/main.py:95).
THEOREM TypeCorrect == Spec => [](TypeOK /\ MatcherOK)
<1>1. Init => TypeOK /\ MatcherOK
  BY InitTypeOK DEF Init, MatcherOK
<1>2. TypeOK /\ MatcherOK /\ [Next]_vars => (TypeOK /\ MatcherOK)'
  BY TypeStep, MatcherStep
<1> QED
  BY <1>1, <1>2, PTL DEF Spec

-----------------------------------------------------------------------------
(* The taste *)

\* A new request takes an idle handler and leaves the others alone.
LEMMA RequestStarts ==
  ASSUME TypeOK, NEW h \in Handlers, NEW u \in Users, NewRequest(h, u)
  PROVE  /\ handler[h].at = "idle" /\ handler'[h].user = u
         /\ handler'[h].at \in {"insert", "import", "moved"}
         /\ handler'[h].at # "moved" =>
              handler'[h].add \cup handler'[h].todo \subseteq handler'[h].artists
         /\ handler'[h].at # "moved" => reach' = reach
         /\ \A v \in Users \ {u} : reach'[v] = reach[v]
         /\ \A g \in Handlers \ {h} : handler'[g] = handler[g]
         /\ requests' = requests + 1
<1>1. ASSUME NEW a \in Artists, CreateFollow(h, u, a)
      PROVE  handler'[h] = [Idle EXCEPT !.at = "insert", !.user = u, !.artists = {a},
                                        !.add = {a} \ follows[u]]
             /\ reach' = reach
  BY <1>1 DEF CreateFollow, Request, TypeOK, people
<1>2. ASSUME NEW a \in Artists, DeleteFollow(h, u, a)
      PROVE  handler'[h] = [Idle EXCEPT !.at = "insert", !.user = u, !.del = {a} \cap follows[u]]
             /\ reach' = reach
  BY <1>2 DEF DeleteFollow, Request, TypeOK, people
<1>3. ASSUME NEW artists \in SUBSET Artists, StartImport(h, u, artists)
      PROVE  handler'[h] = [Idle EXCEPT !.at = "import", !.user = u, !.artists = artists,
                                        !.todo = artists, !.import = TRUE]
             /\ reach' = reach
  BY <1>3 DEF StartImport, Request, TypeOK, people
<1>4. ASSUME NEW places \in SUBSET Places, UpdateArea(h, u, places)
      PROVE  handler'[h] = [Idle EXCEPT !.at = "moved", !.user = u]
             /\ \A v \in Users \ {u} : reach'[v] = reach[v]
  BY <1>4 DEF UpdateArea, Request, TypeOK
<1>5. handler[h].at = "idle" /\ requests' = requests + 1
      /\ \A g \in Handlers \ {h} : handler'[g] = handler[g]
  BY DEF NewRequest, CreateFollow, DeleteFollow, StartImport, UpdateArea, Request, TypeOK
<1> DEFINE Started == /\ handler'[h].user = u /\ handler'[h].at \in {"insert", "import", "moved"}
                      /\ handler'[h].at # "moved" =>
                           handler'[h].add \cup handler'[h].todo \subseteq handler'[h].artists
                      /\ handler'[h].at # "moved" => reach' = reach
                      /\ \A v \in Users \ {u} : reach'[v] = reach[v]
<1>6. ASSUME NEW a \in Artists, CreateFollow(h, u, a) PROVE Started
  <2>1. /\ handler'[h].at = "insert" /\ handler'[h].user = u /\ handler'[h].todo = {}
        /\ handler'[h].artists = {a} /\ handler'[h].add = {a} \ follows[u]
    BY <1>1, <1>6 DEF Idle
  <2> QED
    BY <1>1, <1>6, <2>1
<1>7. ASSUME NEW a \in Artists, DeleteFollow(h, u, a) PROVE Started
  <2>1. /\ handler'[h].at = "insert" /\ handler'[h].user = u /\ handler'[h].todo = {}
        /\ handler'[h].artists = {} /\ handler'[h].add = {}
    BY <1>2, <1>7 DEF Idle
  <2> QED
    BY <1>2, <1>7, <2>1
<1>8. ASSUME NEW artists \in SUBSET Artists, StartImport(h, u, artists) PROVE Started
  <2>1. /\ handler'[h].at = "import" /\ handler'[h].user = u /\ handler'[h].todo = artists
        /\ handler'[h].artists = artists /\ handler'[h].add = {}
    BY <1>3, <1>8 DEF Idle
  <2> QED
    BY <1>3, <1>8, <2>1
<1>9. ASSUME NEW places \in SUBSET Places, UpdateArea(h, u, places) PROVE Started
  <2>1. handler'[h].at = "moved" /\ handler'[h].user = u
    BY <1>4, <1>9 DEF Idle
  <2> QED
    BY <1>4, <1>9, <2>1
<1>10. Started
  BY <1>6, <1>7, <1>8, <1>9 DEF NewRequest
<1> QED
  BY <1>5, <1>10

\* What a request read for a taste is right about every artist but those it missed: they are
\* in it if they are followed, with what the request itself adds and deletes, and embedded.
SeenRight(h, a) ==
  a \in handler[h].seen <=>
    a \in ((follows[handler[h].user] \cup handler[h].add) \ handler[h].del) \cap embedded

TasteSeen ==
  \A h \in Handlers :
    handler[h].at = "write" => \A a \in Artists \ handler[h].missed : SeenRight(h, a)

\* A step that writes neither follows nor taste, and no request to be written.
LEMMA NothingWritten ==
  ASSUME TypeOK, TasteFollowsFollows, TasteSeen,
         UNCHANGED <<follows, taste, overtaken, embedded>>,
         \A g \in Handlers : handler'[g] = handler[g] \/ handler'[g].at # "write"
  PROVE  (TasteFollowsFollows /\ TasteSeen)'
BY DEF TasteFollowsFollows, TasteSeen, SeenRight

\* Another request's step: what was read stays right about the artists it does not miss.
LEMMA SeenOvertaken ==
  ASSUME TypeOK, TasteSeen, NEW users, NEW artists \in SUBSET Artists,
         NEW g \in Handlers, handler'[g] = Overtake(handler[g], users, artists),
         handler'[g].at = "write",
         \A a \in Artists : (handler[g].user \in users /\ a \in artists)
            \/ (a \in (follows'[handler[g].user] \cup handler[g].add) \cap embedded'
                  <=> a \in (follows[handler[g].user] \cup handler[g].add) \cap embedded)
  PROVE  \A a \in Artists \ handler'[g].missed : SeenRight(g, a)'
<1>1. handler[g] \in Requests
  BY DEF TypeOK
<1>2. /\ handler[g].at = "write" /\ handler'[g].user = handler[g].user
      /\ handler'[g].add = handler[g].add /\ handler'[g].del = handler[g].del
      /\ handler'[g].seen = handler[g].seen
      /\ handler[g].missed \subseteq handler'[g].missed
      /\ handler[g].user \in users => artists \subseteq handler'[g].missed
  BY <1>1, OvertakenRequest
<1> SUFFICES ASSUME NEW a \in Artists \ handler'[g].missed PROVE SeenRight(g, a)'
  OBVIOUS
<1>3. SeenRight(g, a) /\ ~ (handler[g].user \in users /\ a \in artists)
  BY <1>2 DEF TasteSeen
<1> QED
  BY <1>2, <1>3 DEF SeenRight

\* Every step keeps what was read for a taste current, or marks it overtaken.
LEMMA TasteStep ==
  TypeOK /\ TasteFollowsFollows /\ TasteSeen /\ [Next]_vars => (TasteFollowsFollows /\ TasteSeen)'
<1> SUFFICES ASSUME TypeOK, TasteFollowsFollows, TasteSeen, [Next]_vars
             PROVE  (TasteFollowsFollows /\ TasteSeen)'
  OBVIOUS
<1> DEFINE Same == UNCHANGED <<follows, taste, overtaken, embedded>>
           Put(h, at) == handler'[h].at = at /\ \A g \in Handlers \ {h} : handler'[g] = handler[g]
<1>1. ASSUME NEW h \in Handlers, NEW u \in Users, NewRequest(h, u)
      PROVE  (TasteFollowsFollows /\ TasteSeen)'
  <2>1. \E at \in {"insert", "import", "moved"} : Put(h, at)
    BY <1>1, RequestStarts
  <2>2. Same
    BY <1>1 DEF NewRequest, CreateFollow, DeleteFollow, StartImport, UpdateArea, people, history, events
  <2> QED
    BY <2>1, <2>2, NothingWritten
<1>2. ASSUME NEW h \in Handlers, ServeRequest(h) PROVE (TasteFollowsFollows /\ TasteSeen)'
  <2> DEFINE r == handler[h]
  <2>1. r \in Requests
    BY DEF TypeOK
  <2>2. ASSUME NEW a \in Artists, ImportArtist(h, a) PROVE (TasteFollowsFollows /\ TasteSeen)'
    <3>1. Put(h, "import")
      BY <2>1, <2>2 DEF ImportArtist, TypeOK
    <3> QED
      BY <2>2, <3>1, NothingWritten DEF ImportArtist, people, history, events
  <2>3. CASE ImportRefused(h) \/ DeadlockAbort(h) \/ PublishTaste(h)
    <3>1. Put(h, "idle")
      BY <2>3, IdleRequest DEF ImportRefused, DeadlockAbort, PublishTaste, TypeOK
    <3> QED
      BY <2>3, <3>1, NothingWritten
         DEF ImportRefused, DeadlockAbort, PublishTaste, people, history, events
  <2>4. CASE ReadFollowed(h)
    <3>1. handler'[h].at # "write"
      BY <2>1, <2>4, IdleRequest DEF ReadFollowed, TypeOK, Requests
    <3>2. \A g \in Handlers \ {h} : handler'[g] = handler[g]
      BY <2>4 DEF ReadFollowed, TypeOK
    <3> QED
      BY <2>4, <3>1, <3>2, NothingWritten DEF ReadFollowed, people, history, events
  <2>5. CASE Recompute(h)
    <3>1. /\ handler'[h].seen = ((follows[r.user] \cup r.add) \ r.del) \cap embedded
          /\ handler'[h].user = r.user /\ handler'[h].add = r.add /\ handler'[h].del = r.del
          /\ \A g \in Handlers \ {h} : handler'[g] = handler[g]
          /\ UNCHANGED <<follows, taste, overtaken, embedded>>
      BY <2>1, <2>5 DEF Recompute, TypeOK, Requests, people, history, events
    <3> QED
      BY <3>1 DEF TasteFollowsFollows, TasteSeen, SeenRight
  <2>6. CASE CommitFollow(h)
    <3> DEFINE written == r.add \cup r.del
    <3>1. /\ r.user \in Users /\ r.at = "write" /\ written \in SUBSET Artists
          /\ r.missed \in SUBSET Artists
      BY <2>1, <2>6 DEF CommitFollow, TypeOK, Requests
    <3>2. /\ follows' = [follows EXCEPT ![r.user] = (@ \cup r.add) \ r.del]
          /\ taste' = [taste EXCEPT ![r.user] = r.seen]
          /\ overtaken' = {x \in overtaken : x[1] # r.user} \cup ({r.user} \X r.missed)
          /\ embedded' = embedded
      BY <2>6 DEF CommitFollow, events
    <3>3. handler'[h].at = "publish"
      BY <2>6 DEF CommitFollow, Idle
    <3>4. \A g \in Handlers \ {h} : handler'[g] = Overtake(handler[g], {r.user}, written)
      BY <2>6 DEF CommitFollow
    <3>5. TasteFollowsFollows'
      <4> SUFFICES ASSUME NEW u \in Users, NEW a \in Artists, <<u, a>> \notin overtaken'
                   PROVE  a \in taste'[u] <=> a \in follows'[u] \cap embedded'
        BY DEF TasteFollowsFollows
      <4>1. CASE u = r.user
        <5>1. a \notin r.missed
          BY <3>2, <4>1
        <5>2. SeenRight(h, a)
          BY <3>1, <5>1 DEF TasteSeen
        <5>3. taste'[u] = r.seen /\ follows'[u] = (follows[u] \cup r.add) \ r.del
          BY <3>1, <3>2, <4>1 DEF TypeOK
        <5> QED
          BY <3>2, <4>1, <5>2, <5>3 DEF SeenRight
      <4>2. CASE u # r.user
        <5>1. taste'[u] = taste[u] /\ follows'[u] = follows[u] /\ <<u, a>> \notin overtaken
          BY <3>2, <4>2 DEF TypeOK
        <5> QED
          BY <3>2, <5>1 DEF TasteFollowsFollows
      <4> QED
        BY <4>1, <4>2
    <3> HIDE DEF written
    <3>6. TasteSeen'
      <4> SUFFICES ASSUME NEW g \in Handlers, handler'[g].at = "write"
                   PROVE  \A a \in Artists \ handler'[g].missed : SeenRight(g, a)'
        BY DEF TasteSeen
      <4>1. g # h /\ handler'[g] = Overtake(handler[g], {r.user}, written)
        BY <3>3, <3>4
      <4>2. handler[g].at = "write" /\ handler[g] \in Requests
        BY <3>1, <4>1, OvertakenRequest DEF TypeOK
      <4>3. handler[g].user \in Users
        BY <4>2 DEF TypeOK, Requests
      <4> DEFINE u == handler[g].user
                 one == {r.user}
      <4>4. \A a \in Artists : (u = r.user /\ a \in written)
              \/ (a \in follows'[u] <=> a \in follows[u])
        BY <3>2, <4>3 DEF TypeOK, written
      <4>5. \A a \in Artists : (u \in one /\ a \in written)
              \/ (a \in (follows'[u] \cup handler[g].add) \cap embedded'
                    <=> a \in (follows[u] \cup handler[g].add) \cap embedded)
        BY <3>2, <4>4
      <4>6. handler'[g] = Overtake(handler[g], one, written)
        BY <4>1
      <4> HIDE DEF one
      <4> QED
        BY <3>1, <4>5, <4>6, SeenOvertaken
    <3> QED
      BY <3>5, <3>6
  <2> QED
    BY <1>2, <2>2, <2>3, <2>4, <2>5, <2>6 DEF ServeRequest
<1>3. ASSUME NEW h \in Handlers, PublishFails(h) PROVE (TasteFollowsFollows /\ TasteSeen)'
  <2>1. Put(h, "idle") /\ Same
    BY <1>3, IdleRequest DEF PublishFails, TypeOK, people, events
  <2> QED
    BY <2>1, NothingWritten
<1>4. CASE GatewayCrash
  <2>1. \A h \in Handlers : handler'[h].at = "idle"
    BY <1>4, IdleRequest DEF GatewayCrash
  <2> QED
    BY <1>4, <2>1, NothingWritten DEF GatewayCrash, people, events
<1>5. ASSUME NEW s \in Artists, NEW c \in Artists, MergeArtist(s, c)
      PROVE  (TasteFollowsFollows /\ TasteSeen)'
  <2> DEFINE moved == {u \in Users : s \in follows[u]}
             both == {s, c}
  <2>1. /\ handler' = [h \in Handlers |-> Overtake(handler[h], moved, both)]
        /\ overtaken' = overtaken \cup (moved \X both) /\ taste' = taste
        /\ follows' = [u \in Users |-> Renamed(follows[u], s, c)]
        /\ embedded' = embedded \ {s}
    BY <1>5 DEF MergeArtist
  <2>2. \A u \in Users \ moved : follows'[u] = follows[u] /\ s \notin follows[u]
    BY <2>1 DEF Renamed
  <2>3. \A u \in Users, a \in Artists \ both :
          a \in follows'[u] \cap embedded' <=> a \in follows[u] \cap embedded
    BY <2>1 DEF Renamed
  <2>4. both \in SUBSET Artists /\ moved \subseteq Users
    OBVIOUS
  <2>5. \A a \in Artists \ both : a # s
    OBVIOUS
  <2> HIDE DEF moved, both
  <2>6. TasteFollowsFollows'
    <3> SUFFICES ASSUME NEW u \in Users, NEW a \in Artists, <<u, a>> \notin overtaken'
                 PROVE  a \in taste'[u] <=> a \in follows'[u] \cap embedded'
      BY DEF TasteFollowsFollows
    <3>1. <<u, a>> \notin overtaken /\ ~ (u \in moved /\ a \in both)
      BY <2>1
    <3>2. a \in follows'[u] \cap embedded' <=> a \in follows[u] \cap embedded
      BY <2>1, <2>2, <2>3, <3>1
    <3> QED
      BY <2>1, <3>1, <3>2 DEF TasteFollowsFollows
  <2>7. TasteSeen'
    <3> SUFFICES ASSUME NEW g \in Handlers, handler'[g].at = "write"
                 PROVE  \A a \in Artists \ handler'[g].missed : SeenRight(g, a)'
      BY DEF TasteSeen
    <3> DEFINE u == handler[g].user
    <3>1. handler'[g] = Overtake(handler[g], moved, both) /\ handler[g] \in Requests
      BY <2>1 DEF TypeOK
    <3>0. handler[g].at = "write"
      BY <2>4, <3>1, OvertakenRequest
    <3>2. handler[g].at = "write" /\ u \in Users
      BY <3>0, <3>1 DEF TypeOK, Requests
    <3>3. s \notin handler[g].add
      BY <1>5, <3>2 DEF MergeArtist, Added, Open
    <3>4. \A a \in Artists : (u \in moved /\ a \in both)
            \/ (a \in (follows'[u] \cup handler[g].add) \cap embedded'
                  <=> a \in (follows[u] \cup handler[g].add) \cap embedded)
      <4> SUFFICES ASSUME NEW a \in Artists, ~ (u \in moved /\ a \in both)
                   PROVE  a \in (follows'[u] \cup handler[g].add) \cap embedded'
                            <=> a \in (follows[u] \cup handler[g].add) \cap embedded
        OBVIOUS
      <4>1. CASE u \in moved
        <5>1. a \in Artists \ both /\ a # s
          BY <2>5, <4>1
        <5> QED
          BY <2>1, <2>3, <3>2, <5>1
      <4>2. CASE u \notin moved
        BY <2>1, <2>2, <3>2, <3>3, <4>2
      <4> QED
        BY <4>1, <4>2
    <3> HIDE DEF u
    <3> QED
      BY <2>4, <3>1, <3>4, SeenOvertaken DEF u
  <2> QED
    BY <2>6, <2>7
<1>6. ASSUME NEW u \in Users, NEW e \in Shows, DismissEvent(u, e)
      PROVE  (TasteFollowsFollows /\ TasteSeen)'
  BY <1>6, NothingWritten DEF DismissEvent, history, events
<1>7. ASSUME NEW e \in Shows, ListingChanges(e) \/ SendOn(e, FALSE)
      PROVE  (TasteFollowsFollows /\ TasteSeen)'
  <2>1. handler' = handler /\ Same
    BY <1>7 DEF ListingChanges, ListShow, LoseAnnouncement, ShowStarts, SendOn, people, history,
                events
  <2> QED
    BY <2>1, NothingWritten
<1>8. CASE Consume \/ MatcherCrash
  <2>1. handler' = handler /\ Same
    BY <1>8 DEF Consume, ReadEnriched, ReadTaste, PublishMatch, CommitMessage, MatcherCrash,
                people, history, events
  <2> QED
    BY <2>1, NothingWritten
<1>9. CASE UNCHANGED vars
  BY <1>9, NothingWritten DEF vars, people, history, events
<1>10. ASSUME NEW a \in Artists, EmbedArtist(a) PROVE (TasteFollowsFollows /\ TasteSeen)'
  <2> DEFINE one == {a}
  <2>1. /\ handler' = [h \in Handlers |-> Overtake(handler[h], Users, one)]
        /\ overtaken' = overtaken \cup {x \in Users \X one : a \in follows[x[1]]}
        /\ embedded' = embedded \cup one
        /\ UNCHANGED <<follows, taste>>
    BY <1>10 DEF EmbedArtist, people
  <2>2. TasteFollowsFollows'
    <3> SUFFICES ASSUME NEW u \in Users, NEW b \in Artists, <<u, b>> \notin overtaken'
                 PROVE  b \in taste'[u] <=> b \in follows'[u] \cap embedded'
      BY DEF TasteFollowsFollows
    <3>1. <<u, b>> \notin overtaken
      BY <2>1
    <3>2. b = a => a \notin follows[u]
      BY <2>1
    <3> QED
      BY <2>1, <3>1, <3>2 DEF TasteFollowsFollows
  <2>3. one \in SUBSET Artists /\ \A b \in Artists \ one : b \in embedded' <=> b \in embedded
    BY <2>1
  <2> HIDE DEF one
  <2>4. TasteSeen'
    <3> SUFFICES ASSUME NEW g \in Handlers, handler'[g].at = "write"
                 PROVE  \A b \in Artists \ handler'[g].missed : SeenRight(g, b)'
      BY DEF TasteSeen
    <3>1. handler'[g] = Overtake(handler[g], Users, one) /\ handler[g] \in Requests
      BY <2>1 DEF TypeOK
    <3>0. handler[g].at = "write"
      BY <2>3, <3>1, OvertakenRequest
    <3>2. handler[g].user \in Users
      BY <3>0, <3>1 DEF TypeOK, Requests
    <3> QED
      BY <2>1, <2>3, <3>1, <3>2, SeenOvertaken
  <2> QED
    BY <2>2, <2>4
<1> QED
  BY <1>1, <1>2, <1>3, <1>4, <1>5, <1>6, <1>7, <1>8, <1>9, <1>10 DEF Next

\* Whatever the order in which a user's requests read, wait and write, the taste is the average
\* of the embedded artists the user follows: it can be wrong only about an artist that was
\* followed, unfollowed, merged or embedded between a read and its write, or merged or embedded
\* after it (db/migrations/0008_functions.sql:17).
THEOREM TasteFollows == Spec => []TasteFollowsFollows
<1>1. Init => TasteFollowsFollows /\ TasteSeen
  <2> SUFFICES ASSUME Init PROVE TasteFollowsFollows /\ TasteSeen
    OBVIOUS
  <2>1. \A h \in Handlers : handler[h].at = "idle"
    BY IdleRequest DEF Init
  <2> QED
    BY <2>1 DEF Init, TasteFollowsFollows, TasteSeen
<1>2. TypeOK /\ TasteFollowsFollows /\ TasteSeen /\ [Next]_vars
        => (TasteFollowsFollows /\ TasteSeen)'
  BY TasteStep
<1>3. Spec => []TypeOK
  BY TypeCorrect, PTL
<1> QED
  BY <1>1, <1>2, <1>3, PTL DEF Spec

-----------------------------------------------------------------------------
(* Nobody is missed *)

\* What a request follows, it will ask for once it has committed.
RequestsOK ==
  \A h \in Handlers :
    handler[h].at \in {"insert", "import", "write"} =>
      handler[h].add \cup handler[h].todo \subseteq handler[h].artists

\* The messages of a queue that have a match left to bring: those the matcher has yet to
\* read, and the one in hand as long as the match is among those left.
Due(q, m, p) == {i \in DOMAIN q : i = 1 /\ matcher.msg = m => Leaving(p[1], p[2])}

NewDue(p) ==
  \/ \E i \in DOMAIN deduped[p[2]] : deduped[p[2]][i]
  \/ \E i \in Due(enrichedQ[p[2]], p[2], p) : enrichedQ[p[2]][i]

Asks(h, u, a) ==
  /\ handler[h].user = u
  /\ \/ handler[h].at = "moved"
     \/ handler[h].at = "publish" /\ a \in handler[h].artists

AskDue(p, a) ==
  \/ \E i \in Due(tasteQ[p[1]], p[1], p) : a \in tasteQ[p[1]][i]
  \/ \E h \in Handlers : Asks(h, p[1], a)

Covered(p, a) == Proposed(p[1], p[2]) \/ p \in silent \/ NewDue(p) \/ AskDue(p, a)

Wants(p, a) == InReach(p[1], p[2]) /\ a \in rows[p[2]].lineup \cap follows[p[1]]

\* NobodyMissed as every step keeps it: the match in hand counts only for the artist it is
\* asked for, so that a crash of the matcher brings it back.
AllCovered == \A p \in Pairs : \A a \in Artists : Wants(p, a) => Covered(p, a)

\* A pair that is covered has been matched, is silent, or has a message under way.
LEMMA CoveredIsComing == TypeOK /\ MatcherOK /\ AllCovered => NobodyMissed
<1> SUFFICES ASSUME TypeOK, AllCovered, NEW p \in Pairs, NEW a \in Artists, Covered(p, a)
             PROVE  Proposed(p[1], p[2]) \/ p \in silent \/ Coming(p[1], p[2], a)
  BY DEF NobodyMissed, AllCovered, Wants
<1>2. ASSUME NEW q, NEW m, NEW i \in Due(q, m, p), ~ Leaving(p[1], p[2])
      PROVE  i \in Unread(q, m)
  BY <1>2 DEF Due, Unread
<1>3. CASE Leaving(p[1], p[2])
  BY <1>3 DEF Coming
<1>4. CASE ~ Leaving(p[1], p[2])
  <2>1. NewDue(p) => NewComing(p[2])
    BY <1>2, <1>4 DEF NewDue, NewComing
  <2>2. AskDue(p, a) => AskComing(p[1], a)
    BY <1>2, <1>4 DEF AskDue, Asks, AskComing
  <2> QED
    BY <2>1, <2>2 DEF Covered, Coming
<1> QED
  BY <1>3, <1>4

\* Every step keeps what a request will publish a superset of what it follows.
LEMMA RequestsStep == TypeOK /\ RequestsOK /\ [Next]_vars => RequestsOK'
<1> SUFFICES ASSUME TypeOK, RequestsOK, [Next]_vars PROVE RequestsOK'
  OBVIOUS
<1> DEFINE Good(r) == r.at \in {"insert", "import", "write"} => r.add \cup r.todo \subseteq r.artists
<1>0. ASSUME \A g \in Handlers : handler'[g] = handler[g] \/ Good(handler'[g]) PROVE RequestsOK'
  BY <1>0 DEF RequestsOK
<1>1. ASSUME NEW h \in Handlers, NEW u \in Users, NewRequest(h, u) PROVE RequestsOK'
  BY <1>0, <1>1, RequestStarts
<1>2. ASSUME NEW h \in Handlers, ServeRequest(h) PROVE RequestsOK'
  <2> DEFINE r == handler[h]
  <2>1. r \in Requests
    BY DEF TypeOK
  <2>2. ASSUME NEW a \in Artists, ImportArtist(h, a) PROVE RequestsOK'
    <3>1. /\ handler'[h].todo = r.todo \ {a} /\ a \in r.todo /\ r.at = "import"
          /\ handler'[h].add = r.add \cup ({a} \ follows[r.user])
          /\ handler'[h].artists = r.artists /\ handler'[h].at = r.at
          /\ \A g \in Handlers \ {h} : handler'[g] = handler[g]
      BY <2>1, <2>2 DEF ImportArtist, TypeOK, Requests
    <3>2. Good(handler'[h])
      BY <3>1 DEF RequestsOK
    <3> QED
      BY <1>0, <3>1, <3>2
  <2>3. CASE ImportRefused(h) \/ DeadlockAbort(h) \/ PublishTaste(h)
    <3>1. handler' = [handler EXCEPT ![h] = Idle]
      BY <2>3 DEF ImportRefused, DeadlockAbort, PublishTaste
    <3> QED
      BY <1>0, <3>1, IdleRequest DEF TypeOK
  <2>4. CASE ReadFollowed(h)
    <3>1. handler'[h].at \in {"idle", "publish"}
          /\ \A g \in Handlers \ {h} : handler'[g] = handler[g]
      BY <2>1, <2>4, IdleRequest DEF ReadFollowed, TypeOK, Requests
    <3> QED
      BY <1>0, <3>1
  <2>5. CASE Recompute(h)
    <3>1. /\ handler'[h].todo = r.todo /\ handler'[h].add = r.add
          /\ handler'[h].artists = r.artists /\ r.at \in {"insert", "import"}
          /\ \A g \in Handlers \ {h} : handler'[g] = handler[g]
      BY <2>1, <2>5 DEF Recompute, TypeOK, Requests
    <3>2. Good(handler'[h])
      BY <3>1 DEF RequestsOK
    <3> QED
      BY <1>0, <3>1, <3>2
  <2>6. CASE CommitFollow(h)
    <3>1. handler'[h].at = "publish"
      BY <2>6 DEF CommitFollow, Idle
    <3> DEFINE written == r.add \cup r.del
    <3>2. \A g \in Handlers \ {h} : handler'[g] = Overtake(handler[g], {r.user}, written)
      BY <2>6 DEF CommitFollow
    <3>4. written \in SUBSET Artists
      BY <2>1 DEF Requests
    <3> HIDE DEF written
    <3>3. ASSUME NEW g \in Handlers \ {h} PROVE Good(handler'[g])
      <4>1. handler[g] \in Requests /\ Good(handler[g])
        BY DEF RequestsOK, TypeOK
      <4> QED
        BY <3>2, <3>4, <4>1, OvertakenRequest
    <3> QED
      BY <1>0, <3>1, <3>3
  <2> QED
    BY <1>2, <2>2, <2>3, <2>4, <2>5, <2>6 DEF ServeRequest
<1>3. ASSUME NEW h \in Handlers, PublishFails(h) PROVE RequestsOK'
  BY <1>0, <1>3, IdleRequest DEF PublishFails, TypeOK
<1>4. CASE GatewayCrash
  BY <1>0, <1>4, IdleRequest DEF GatewayCrash
<1>5. CASE \/ \E s, c \in Artists : MergeArtist(s, c)
           \/ \E a \in Artists : EmbedArtist(a)
  <2>0. PICK moved : \E artists \in SUBSET Artists :
          handler' = [h \in Handlers |-> Overtake(handler[h], moved, artists)]
    BY <1>5, OvertakingSteps
  <2>1. PICK artists \in SUBSET Artists :
          handler' = [h \in Handlers |-> Overtake(handler[h], moved, artists)]
    BY <2>0
  <2>2. ASSUME NEW g \in Handlers PROVE Good(handler'[g])
    <3>1. handler[g] \in Requests /\ Good(handler[g])
      BY DEF RequestsOK, TypeOK
    <3>2. handler'[g] = Overtake(handler[g], moved, artists)
      BY <2>1
    <3> QED
      BY <3>1, <3>2, OvertakenRequest
  <2> QED
    BY <1>0, <2>2
<1>6. ASSUME \/ \E u \in Users, e \in Shows : DismissEvent(u, e)
             \/ \E e \in Shows : ListingChanges(e) \/ SendOn(e, FALSE)
             \/ Consume \/ MatcherCrash \/ UNCHANGED vars
      PROVE  RequestsOK'
  <2>1. handler' = handler
    BY <1>6 DEF DismissEvent, ListingChanges, ListShow, LoseAnnouncement, ShowStarts, SendOn,
                Consume, ReadEnriched, ReadTaste, PublishMatch, CommitMessage, MatcherCrash, vars
  <2> QED
    BY <1>0, <2>1
<1> QED
  BY <1>1, <1>2, <1>3, <1>4, <1>5, <1>6 DEF Next

\* A step of the requests that leaves queues, matcher and matches alone keeps what is
\* covered, if the requests that asked still ask, or are given up for silent.
LEMMA CoverKept ==
  ASSUME UNCHANGED <<topics, matcher, proposals>>, silent \subseteq silent',
         NEW p \in Pairs, NEW a \in Artists, Covered(p, a),
         \A g \in Handlers : Asks(g, p[1], a) => Asks(g, p[1], a)' \/ p \in silent'
  PROVE  Covered(p, a)'
<1>1. NewDue(p) => NewDue(p)'
  BY DEF NewDue, Due, Leaving, topics
<1>2. (\E i \in Due(tasteQ[p[1]], p[1], p) : a \in tasteQ[p[1]][i])
        => (\E i \in Due(tasteQ[p[1]], p[1], p) : a \in tasteQ[p[1]][i])'
  BY DEF Due, Leaving, topics
<1>3. Proposed(p[1], p[2]) => Proposed(p[1], p[2])'
  BY DEF Proposed
<1> QED
  BY <1>1, <1>2, <1>3 DEF Covered, AskDue

\* What is wanted does not change with the requests.
LEMMA WantsKept ==
  ASSUME UNCHANGED <<events, people>>, NEW p \in Pairs, NEW a \in Artists
  PROVE  Wants(p, a)' <=> Wants(p, a)
BY DEF Wants, InReach, events, people

\* A new request changes no follow yet, and one that moves the user asks for all of them.
LEMMA NewRequestCovered ==
  ASSUME TypeOK, AllCovered, NEW h \in Handlers, NEW u \in Users, NewRequest(h, u)
  PROVE  AllCovered'
<1> SUFFICES ASSUME NEW p \in Pairs, NEW a \in Artists, Wants(p, a)' PROVE Covered(p, a)'
  BY DEF AllCovered
<1>1. /\ UNCHANGED <<topics, matcher, proposals, silent>>
      /\ UNCHANGED <<rows, follows, dismissals>>
  BY DEF NewRequest, CreateFollow, DeleteFollow, StartImport, UpdateArea, events, people, history
<1>2. CASE Wants(p, a)
  <2>1. \A g \in Handlers : Asks(g, p[1], a) => Asks(g, p[1], a)'
    BY RequestStarts DEF Asks
  <2>2. Covered(p, a)
    BY <1>2 DEF AllCovered
  <2> QED
    BY <1>1, <2>1, <2>2, CoverKept
<1>3. CASE ~ Wants(p, a)
  <2>1. p[1] \in Users
    BY DEF Pairs
  <2>2. reach'[p[1]] # reach[p[1]]
    BY <1>1, <1>3 DEF Wants, InReach
  <2>3. p[1] = u /\ handler'[h].at = "moved"
    BY <2>1, <2>2, RequestStarts
  <2>4. Asks(h, p[1], a)'
    BY <2>3, RequestStarts DEF Asks
  <2> QED
    BY <2>4 DEF Covered, AskDue
<1> QED
  BY <1>2, <1>3

\* A request that goes on without publishing or committing.
LEMMA ServedCovered ==
  ASSUME AllCovered, NEW h \in Handlers,
         UNCHANGED <<events, people, topics, matcher, proposals, silent>>,
         \A g \in Handlers \ {h} : handler'[g] = handler[g],
         handler[h].at \notin {"moved", "publish"}
  PROVE  AllCovered'
<1> SUFFICES ASSUME NEW p \in Pairs, NEW a \in Artists, Wants(p, a)' PROVE Covered(p, a)'
  BY DEF AllCovered
<1>1. Covered(p, a)
  BY WantsKept DEF AllCovered
<1>2. \A g \in Handlers : Asks(g, p[1], a) => Asks(g, p[1], a)'
  BY DEF Asks
<1> QED
  BY <1>1, <1>2, CoverKept

\* A follow that commits is asked for by its own request.
LEMMA CommitCovered ==
  ASSUME TypeOK, RequestsOK, AllCovered, NEW h \in Handlers, CommitFollow(h)
  PROVE  AllCovered'
<1> SUFFICES ASSUME NEW p \in Pairs, NEW a \in Artists, Wants(p, a)' PROVE Covered(p, a)'
  BY DEF AllCovered
<1> DEFINE r == handler[h]
<1>1. p[1] \in Users /\ r \in Requests /\ r.at = "write"
  BY DEF Pairs, TypeOK, CommitFollow
<1>2. follows' = [follows EXCEPT ![r.user] = (@ \cup r.add) \ r.del]
      /\ UNCHANGED <<rows, reach, dismissals, topics, matcher, proposals, silent>>
  BY DEF CommitFollow, events
<1>3. handler'[h].at = "publish" /\ handler'[h].user = r.user /\ handler'[h].artists = r.artists
  BY DEF CommitFollow, Idle
<1>4. \A g \in Handlers \ {h} : /\ handler'[g].at = handler[g].at
                                /\ handler'[g].user = handler[g].user
                                /\ handler'[g].artists = handler[g].artists
  <2> DEFINE written == r.add \cup r.del
  <2>1. \A g \in Handlers \ {h} : handler'[g] = Overtake(handler[g], {r.user}, written)
                                  /\ handler[g] \in Requests
    BY DEF CommitFollow, TypeOK
  <2>2. written \in SUBSET Artists
    BY <1>1 DEF Requests
  <2> HIDE DEF written
  <2> QED
    BY <2>1, <2>2, OvertakenRequest
<1>5. CASE Wants(p, a)
  <2>1. Covered(p, a)
    BY <1>5 DEF AllCovered
  <2>2. \A g \in Handlers : Asks(g, p[1], a) => Asks(g, p[1], a)'
    BY <1>1, <1>4 DEF Asks
  <2> QED
    BY <1>2, <2>1, <2>2, CoverKept
<1>6. CASE ~ Wants(p, a)
  <2>1. a \in follows'[p[1]] \ follows[p[1]]
    BY <1>2, <1>6 DEF Wants, InReach
  <2>2. p[1] = r.user /\ a \in r.add
    BY <1>1, <1>2, <2>1 DEF TypeOK
  <2>3. a \in r.artists
    BY <1>1, <2>2 DEF RequestsOK
  <2>4. Asks(h, p[1], a)'
    BY <1>3, <2>2, <2>3 DEF Asks
  <2> QED
    BY <2>4 DEF Covered, AskDue
<1> QED
  BY <1>5, <1>6

\* A move asks for every follow the user has when it reads them.
LEMMA ReadFollowedCovered ==
  ASSUME TypeOK, AllCovered, NEW h \in Handlers, ReadFollowed(h)
  PROVE  AllCovered'
<1> SUFFICES ASSUME NEW p \in Pairs, NEW a \in Artists, Wants(p, a)' PROVE Covered(p, a)'
  BY DEF AllCovered
<1> DEFINE r == handler[h]
<1>1. UNCHANGED <<events, people, topics, matcher, proposals, silent>>
  BY DEF ReadFollowed, history
<1>2. Wants(p, a) /\ Covered(p, a)
  BY <1>1, WantsKept DEF AllCovered
<1>3. a \in follows[p[1]]
  BY <1>2 DEF Wants
<1>4. r \in Requests /\ \A g \in Handlers \ {h} : handler'[g] = handler[g]
  BY DEF ReadFollowed, TypeOK
<1>5. handler[h].user = p[1] =>
        handler'[h] = [r EXCEPT !.at = "publish", !.artists = follows[p[1]]]
  BY <1>3 DEF ReadFollowed, TypeOK
<1>6. Asks(h, p[1], a) => Asks(h, p[1], a)'
  BY <1>3, <1>4, <1>5 DEF Asks, Requests
<1>7. \A g \in Handlers : Asks(g, p[1], a) => Asks(g, p[1], a)'
  BY <1>4, <1>6 DEF Asks
<1> QED
  BY <1>1, <1>2, <1>7, CoverKept

\* What the request asked for, its message asks for.
LEMMA PublishTasteCovered ==
  ASSUME TypeOK, MatcherOK, AllCovered, NEW h \in Handlers, PublishTaste(h)
  PROVE  AllCovered'
<1> SUFFICES ASSUME NEW p \in Pairs, NEW a \in Artists, Wants(p, a)' PROVE Covered(p, a)'
  BY DEF AllCovered
<1> DEFINE r == handler[h]
           u == p[1]
           q == tasteQ[u]
<1>1. /\ UNCHANGED <<events, people, deduped, enrichedQ, matcher, proposals, silent>>
      /\ tasteQ' = [tasteQ EXCEPT ![r.user] = Append(@, r.artists)]
      /\ \A g \in Handlers \ {h} : handler'[g] = handler[g]
      /\ r.at = "publish"
  BY DEF PublishTaste, TypeOK, history
<1>2. Covered(p, a)
  BY <1>1, WantsKept DEF AllCovered
<1>3. u \in Users /\ q \in Seq(SUBSET Artists) /\ r.artists \in SUBSET Artists
  BY DEF Pairs, TypeOK, Requests
<1>4. q = <<>> => matcher.msg # u
  <2>1. matcher.at = "poll" => matcher.msg # u
    BY <1>3, PollingHoldsNone
  <2> QED
    BY <1>3, <2>1, InHandIsFirst DEF TypeOK
<1>5. CASE r.user = u
  <2>1. tasteQ'[u] = Append(q, r.artists)
    BY <1>1, <1>3, <1>5 DEF TypeOK
  <2> HIDE DEF q
  <2>2. \A i \in DOMAIN q : i \in DOMAIN tasteQ'[u] /\ tasteQ'[u][i] = q[i]
    BY <1>3, <2>1, AppendFacts
  <2>3. Len(q) + 1 \in DOMAIN tasteQ'[u] /\ tasteQ'[u][Len(q) + 1] = r.artists
        /\ (q # <<>> => Len(q) + 1 # 1)
    BY <1>3, <2>1, AppendFacts
  <2>4. ASSUME Asks(h, u, a) PROVE AskDue(p, a)'
    <3>1. a \in r.artists
      BY <1>1, <2>4 DEF Asks
    <3> QED
      BY <1>1, <1>4, <2>3, <3>1 DEF AskDue, Due, Leaving
  <2>5. AskDue(p, a) => AskDue(p, a)'
    <3>1. (\E i \in Due(q, u, p) : a \in q[i]) => AskDue(p, a)'
      BY <1>1, <2>2 DEF AskDue, Due, Leaving
    <3>2. \A g \in Handlers \ {h} : Asks(g, u, a) => Asks(g, u, a)'
      BY <1>1 DEF Asks
    <3> QED
      BY <2>4, <3>1, <3>2 DEF AskDue, q
  <2>6. NewDue(p) => NewDue(p)'
    BY <1>1 DEF NewDue, Due, Leaving
  <2>7. (Proposed(p[1], p[2]) => Proposed(p[1], p[2])') /\ silent' = silent
    BY <1>1 DEF Proposed
  <2> QED
    BY <1>2, <2>5, <2>6, <2>7 DEF Covered
<1>6. CASE r.user # u
  <2>1. tasteQ'[u] = q
    BY <1>1, <1>3, <1>6 DEF TypeOK
  <2>2. \A g \in Handlers : Asks(g, u, a) => Asks(g, u, a)'
    BY <1>1, <1>6 DEF Asks
  <2>3. AskDue(p, a) => AskDue(p, a)'
    BY <1>1, <2>1, <2>2 DEF AskDue, Due, Leaving
  <2>4. NewDue(p) => NewDue(p)'
    BY <1>1 DEF NewDue, Due, Leaving
  <2>5. (Proposed(p[1], p[2]) => Proposed(p[1], p[2])') /\ silent' = silent
    BY <1>1 DEF Proposed
  <2> QED
    BY <1>2, <2>3, <2>4, <2>5 DEF Covered
<1> QED
  BY <1>5, <1>6

\* What a request that dies would have asked for is silent.
LEMMA GivenUpCovered ==
  ASSUME TypeOK, AllCovered, UNCHANGED <<events, people, topics, matcher, proposals>>,
         NEW lost \in SUBSET Handlers,
         \A g \in Handlers \ lost : handler'[g] = handler[g],
         silent' = silent \cup UNION {Unasked(g) : g \in lost}
  PROVE  AllCovered'
<1> SUFFICES ASSUME NEW p \in Pairs, NEW a \in Artists, Wants(p, a)' PROVE Covered(p, a)'
  BY DEF AllCovered
<1>1. Wants(p, a) /\ Covered(p, a)
  BY WantsKept DEF AllCovered
<1>2. ASSUME NEW g \in Handlers, Asks(g, p[1], a), g \in lost PROVE p \in silent'
  <2>1. p[1] \in Users /\ p \in MatchesForFollowedArtists(p[1], {a})
    BY <1>1 DEF Wants, MatchesForFollowedArtists, Features, InReach, Pairs
  <2>2. p \in Unasked(g)
    BY <1>1, <1>2 DEF Unasked, Asks, Wants, Match, Features, MatchesForFollowedArtists, InReach
  <2> QED
    BY <1>2, <2>2
<1>3. \A g \in Handlers : Asks(g, p[1], a) => Asks(g, p[1], a)' \/ p \in silent'
  BY <1>2 DEF Asks
<1> QED
  BY <1>1, <1>3, CoverKept

\* A dismissal only takes pairs out of reach.
LEMMA DismissCovered ==
  ASSUME AllCovered, NEW u \in Users, NEW e \in Shows, DismissEvent(u, e)
  PROVE  AllCovered'
<1> SUFFICES ASSUME NEW p \in Pairs, NEW a \in Artists, Wants(p, a)' PROVE Covered(p, a)'
  BY DEF AllCovered
<1>1. UNCHANGED <<topics, matcher, proposals, silent, handler>>
      /\ UNCHANGED <<rows, reach, follows>> /\ dismissals \subseteq dismissals'
  BY DEF DismissEvent, events, history
<1>2. Covered(p, a)
  BY <1>1 DEF AllCovered, Wants, InReach
<1> QED
  BY <1>1, <1>2, CoverKept DEF Asks

\* Another show's row and messages are not touched by a listing.
LEMMA ListingCovered ==
  ASSUME TypeOK, AllCovered, NEW e \in Shows, NEW row \in ListedRows,
         ListShow(e, row) \/ LoseAnnouncement(e, row)
  PROVE  AllCovered'
<1> SUFFICES ASSUME NEW p \in Pairs, NEW a \in Artists, Wants(p, a)' PROVE Covered(p, a)'
  BY DEF AllCovered
<1> DEFINE q == deduped[e]
<1>1. /\ UNCHANGED <<people, handler, enrichedQ, tasteQ, matcher, proposals>>
      /\ rows' = [rows EXCEPT ![e] = row]
      /\ silent \subseteq silent'
  BY DEF ListShow, LoseAnnouncement, WriteRow
<1>2. PICK b \in BOOLEAN :
        /\ deduped' = [deduped EXCEPT ![e] = Append(@, b)]
        /\ b => rows[e] = NoRow
        /\ ~ b => silent' = silent \cup NowMatching(e)
  <2>1. CASE ListShow(e, row)
    BY <2>1 DEF ListShow
  <2>2. CASE LoseAnnouncement(e, row)
    BY <2>2 DEF LoseAnnouncement
  <2> QED
    BY <2>1, <2>2
<1>3. p[2] \in Shows /\ p[1] \in Users /\ q \in Seq(BOOLEAN)
  BY DEF Pairs, TypeOK
<1> HIDE DEF q
<1>4. Wants(p, a) => Covered(p, a)'
  <2>1. \A i \in DOMAIN deduped[p[2]] :
          i \in DOMAIN deduped'[p[2]] /\ deduped'[p[2]][i] = deduped[p[2]][i]
    <3>1. CASE p[2] = e
      <4>1. deduped[p[2]] = q /\ deduped'[p[2]] = Append(q, b)
        BY <1>2, <1>3, <3>1 DEF TypeOK, q
      <4> QED
        BY <1>3, <4>1, AppendFacts
    <3>2. CASE p[2] # e
      BY <1>2, <1>3, <3>2 DEF TypeOK
    <3> QED
      BY <3>1, <3>2
  <2>2. NewDue(p) => NewDue(p)'
    BY <1>1, <2>1 DEF NewDue, Due, Leaving
  <2>3. AskDue(p, a) => AskDue(p, a)'
    BY <1>1 DEF AskDue, Asks, Due, Leaving
  <2>4. (Proposed(p[1], p[2]) => Proposed(p[1], p[2])') /\ silent \subseteq silent'
    BY <1>1 DEF Proposed
  <2> QED
    BY <2>2, <2>3, <2>4 DEF AllCovered, Covered
<1>5. ASSUME ~ Wants(p, a) PROVE Covered(p, a)'
  <2>1. p[2] = e /\ p = <<p[1], e>>
    BY <1>1, <1>3, <1>5 DEF Wants, InReach, TypeOK, people, Pairs
  <2>2. CASE b
    <3>1. deduped'[p[2]] = Append(q, b)
      BY <1>2, <2>1 DEF TypeOK, q
    <3>2. NewDue(p)'
      BY <1>3, <2>2, <3>1, AppendFacts DEF NewDue
    <3> QED
      BY <3>2 DEF Covered
  <2>3. CASE ~ b
    <3>1. Match(p[1], e)'
      BY <2>1 DEF Match, Features, Wants, InReach
    <3>2. a \in rows'[e].lineup \cap follows[p[1]]
      BY <1>1, <2>1 DEF Wants, people
    <3>3. ~ Match(p[1], e) \/ a \notin rows[e].lineup
      BY <1>5, <2>1, <3>2 DEF Wants, Match
    <3>4. p \in NowMatching(e)
      BY <2>1, <3>1, <3>2, <3>3 DEF NowMatching
    <3> QED
      BY <1>2, <2>3, <3>4 DEF Covered
  <2> QED
    BY <2>2, <2>3
<1> QED
  BY <1>4, <1>5

\* A show that has started is out of everybody's reach.
LEMMA ShowStartsCovered ==
  ASSUME TypeOK, AllCovered, NEW e \in Shows, ShowStarts(e)
  PROVE  AllCovered'
<1> SUFFICES ASSUME NEW p \in Pairs, NEW a \in Artists, Wants(p, a)' PROVE Covered(p, a)'
  BY DEF AllCovered
<1>1. /\ UNCHANGED <<people, handler, topics, matcher, proposals, silent>>
      /\ rows' = [rows EXCEPT ![e].live = FALSE] /\ rows[e] \in Row
  BY DEF ShowStarts, history, TypeOK
<1>2. rows'[e].live = FALSE /\ \A d \in Shows \ {e} : rows'[d] = rows[d]
  BY <1>1 DEF TypeOK, Row
<1>3. p[2] \in Shows \ {e}
  BY <1>2 DEF Wants, InReach, Pairs
<1>4. Covered(p, a)
  BY <1>1, <1>2, <1>3 DEF AllCovered, Wants, InReach, people
<1> QED
  BY <1>1, <1>4, CoverKept DEF Asks

\* The news of a show goes on with its message.
LEMMA SendOnCovered ==
  ASSUME TypeOK, MatcherOK, AllCovered, NEW e \in Shows, NEW again \in BOOLEAN, SendOn(e, again)
  PROVE  AllCovered'
<1> SUFFICES ASSUME NEW p \in Pairs, NEW a \in Artists, Wants(p, a)' PROVE Covered(p, a)'
  BY DEF AllCovered
<1> DEFINE d == deduped[e]
           q == enrichedQ[e]
<1>1. /\ UNCHANGED <<events, people, handler, tasteQ, matcher, proposals, silent>>
      /\ d # <<>> /\ enrichedQ' = [enrichedQ EXCEPT ![e] = Append(@, Head(d))]
      /\ deduped' = IF again THEN deduped ELSE [deduped EXCEPT ![e] = Tail(@)]
  BY DEF SendOn, history
<1>2. Covered(p, a)
  BY <1>1, WantsKept DEF AllCovered
<1>3. p[2] \in Shows /\ d \in Seq(BOOLEAN) /\ q \in Seq(BOOLEAN) /\ Head(d) \in BOOLEAN
  BY <1>1, TailFacts DEF Pairs, TypeOK
<1>4. q = <<>> => matcher.msg # e
  BY InHandIsFirst, PollingHoldsNone DEF TypeOK
<1>5. enrichedQ'[e] = Append(q, Head(d)) /\ deduped'[e] \in {d, Tail(d)}
  BY <1>1, <1>3 DEF TypeOK
<1>6. p[2] # e => enrichedQ'[p[2]] = enrichedQ[p[2]] /\ deduped'[p[2]] = deduped[p[2]]
  BY <1>1, <1>3 DEF TypeOK
<1>7. NewDue(p) => NewDue(p)'
  <2>1. CASE p[2] # e
    BY <1>1, <1>6, <2>1 DEF NewDue, Due, Leaving
  <2>2. CASE p[2] = e
    <3> HIDE DEF d, q
    <3>1. \A i \in DOMAIN q : i \in DOMAIN enrichedQ'[e] /\ enrichedQ'[e][i] = q[i]
      BY <1>3, <1>5, AppendFacts
    <3>2. (\E i \in Due(q, e, p) : q[i]) => NewDue(p)'
      BY <1>1, <2>2, <3>1 DEF NewDue, Due, Leaving
    <3>3. /\ Len(q) + 1 \in DOMAIN enrichedQ'[e] /\ enrichedQ'[e][Len(q) + 1] = Head(d)
          /\ q # <<>> => Len(q) + 1 # 1
      BY <1>3, <1>5, AppendFacts
    <3>4. Head(d) => NewDue(p)'
      BY <1>1, <1>4, <2>2, <3>3 DEF NewDue, Due, Leaving
    <3>5. ASSUME NEW i \in DOMAIN d, d[i] PROVE NewDue(p)'
      <4>1. CASE i = 1
        BY <1>1, <1>3, <3>4, <3>5, <4>1, TailFacts
      <4>2. CASE deduped'[e] = d
        BY <2>2, <3>5, <4>2 DEF NewDue
      <4>3. CASE i # 1 /\ deduped'[e] = Tail(d)
        <5>1. Len(d) \in Nat /\ DOMAIN d = 1 .. Len(d) /\ DOMAIN Tail(d) = 1 .. Len(d) - 1
              /\ \A j \in 1 .. Len(d) - 1 : Tail(d)[j] = d[j + 1]
          BY <1>1, <1>3, TailFacts
        <5>2. i - 1 \in DOMAIN Tail(d) /\ Tail(d)[i - 1] = d[i]
          BY <4>3, <5>1
        <5> QED
          BY <2>2, <3>5, <4>3, <5>2 DEF NewDue
      <4> QED
        BY <1>5, <4>1, <4>2, <4>3
    <3> QED
      BY <2>2, <3>2, <3>5 DEF NewDue, d, q
  <2> QED
    BY <2>1, <2>2
<1>8. AskDue(p, a) => AskDue(p, a)'
  BY <1>1 DEF AskDue, Asks, Due, Leaving
<1>9. (Proposed(p[1], p[2]) => Proposed(p[1], p[2])') /\ silent' = silent
  BY <1>1 DEF Proposed
<1> QED
  BY <1>2, <1>7, <1>8, <1>9 DEF Covered

\* A request that is overtaken asks for what it asked for.
LEMMA OvertakenAsk ==
  ASSUME TypeOK, NEW users, NEW artists \in SUBSET Artists,
         handler' = [h \in Handlers |-> Overtake(handler[h], users, artists)],
         NEW u, NEW a
  PROVE  \A g \in Handlers : Asks(g, u, a) => Asks(g, u, a)'
<1> SUFFICES ASSUME NEW g \in Handlers, Asks(g, u, a) PROVE Asks(g, u, a)'
  OBVIOUS
<1>1. handler'[g] = Overtake(handler[g], users, artists) /\ handler[g] \in Requests
  BY DEF TypeOK
<1> QED
  BY <1>1, OvertakenRequest DEF Asks

\* An embedding brings nobody a match.
LEMMA EmbedCovered ==
  ASSUME TypeOK, AllCovered, NEW b \in Artists, EmbedArtist(b)
  PROVE  AllCovered'
<1> SUFFICES ASSUME NEW p \in Pairs, NEW a \in Artists, Wants(p, a)' PROVE Covered(p, a)'
  BY DEF AllCovered
<1> DEFINE one == {b}
<1>1. /\ UNCHANGED <<rows, people, topics, matcher, proposals, silent>>
      /\ handler' = [h \in Handlers |-> Overtake(handler[h], Users, one)]
  BY DEF EmbedArtist
<1>2. one \in SUBSET Artists
  OBVIOUS
<1> HIDE DEF one
<1>3. Covered(p, a)
  BY <1>1 DEF AllCovered, Wants, InReach, people
<1>4. \A g \in Handlers : Asks(g, p[1], a) => Asks(g, p[1], a)'
  BY <1>1, <1>2, OvertakenAsk
<1> QED
  BY <1>1, <1>3, <1>4, CoverKept

\* What a merge brings to whom is silent.
LEMMA MergeCovered ==
  ASSUME TypeOK, AllCovered, NEW s \in Artists, NEW c \in Artists, MergeArtist(s, c)
  PROVE  AllCovered'
<1> SUFFICES ASSUME NEW p \in Pairs, NEW a \in Artists, Wants(p, a)' PROVE Covered(p, a)'
  BY DEF AllCovered
<1> DEFINE moved == {u \in Users : s \in follows[u]}
           both == {s, c}
<1>1. /\ UNCHANGED <<reach, dismissals, topics, matcher, proposals>>
      /\ rows' = [e \in Shows |-> MergedRow(rows[e], s, c)]
      /\ follows' = [u \in Users |-> Renamed(follows[u], s, c)]
      /\ handler' = [h \in Handlers |-> Overtake(handler[h], moved, both)]
      /\ silent' = silent \cup
           {x \in Pairs : Match(x[1], x[2])' /\ (x[1] \in moved \/ s \in rows[x[2]].lineup)}
  BY DEF MergeArtist
<1>2. p[1] \in Users /\ p[2] \in Shows
  BY DEF Pairs
<1>6. both \in SUBSET Artists
  OBVIOUS
<1> HIDE DEF both
<1>3. Match(p[1], p[2])'
  BY DEF Wants, Match, Features, InReach
<1>4. CASE p[1] \in moved \/ s \in rows[p[2]].lineup
  <2>1. p \in silent'
    BY <1>1, <1>3, <1>4
  <2> QED
    BY <2>1 DEF Covered
<1>5. CASE p[1] \notin moved /\ s \notin rows[p[2]].lineup
  <2>1. follows'[p[1]] = follows[p[1]]
    BY <1>1, <1>2, <1>5 DEF Renamed
  <2>2. rows'[p[2]] = MergedRow(rows[p[2]], s, c)
    BY <1>1, <1>2
  <2>3. rows'[p[2]] # NoRow /\ rows[p[2]] # NoRow
    BY <2>2 DEF Wants, InReach, MergedRow
  <2>4. rows[p[2]] \in Row
    BY <1>2, <2>3 DEF TypeOK
  <2>5. /\ rows'[p[2]].live = rows[p[2]].live /\ rows'[p[2]].place = rows[p[2]].place
        /\ rows'[p[2]].lineup = rows[p[2]].lineup
        /\ rows'[p[2]].headliners # {} => rows[p[2]].headliners # {}
    BY <1>5, <2>2, <2>3, <2>4, FollowsAssumption DEF MergedRow, Renamed, Row, FollowsAssumption
  <2>6. Wants(p, a)
    BY <1>1, <2>1, <2>3, <2>5 DEF Wants, InReach
  <2>7. Covered(p, a)
    BY <2>6 DEF AllCovered
  <2>8. \A g \in Handlers : Asks(g, p[1], a) => Asks(g, p[1], a)'
    BY <1>1, <1>6, OvertakenAsk
  <2> QED
    BY <1>1, <2>7, <2>8, CoverKept
<1> QED
  BY <1>4, <1>5

\* The matcher reads all that its message is to bring.
LEMMA ReadCovered ==
  ASSUME TypeOK, MatcherOK, AllCovered,
         (\E e \in Shows : ReadEnriched(e)) \/ (\E u \in Users : ReadTaste(u))
  PROVE  AllCovered'
<1> SUFFICES ASSUME NEW p \in Pairs, NEW a \in Artists, Wants(p, a)' PROVE Covered(p, a)'
  BY DEF AllCovered
<1>1. UNCHANGED <<events, people, handler, topics, proposals, silent>> /\ matcher.at = "poll"
  BY DEF ReadEnriched, ReadTaste, history
<1>2. Wants(p, a) /\ Covered(p, a)
  BY <1>1, WantsKept DEF AllCovered
<1>3. p[1] \in Users /\ p[2] \in Shows /\ p = <<p[1], p[2]>>
  BY DEF Pairs
<1>4. Match(p[1], p[2]) /\ Features(p[1], p[2], {a})
  BY <1>2 DEF Wants, Match, Features, InReach
<1>8. ASSUME NEW pairs, p \in pairs, matcher'.left = PerHeadliner(pairs)
      PROVE  Leaving(p[1], p[2])'
  <2>1. PICK h \in Artists : h \in rows[p[2]].headliners
    BY <1>2, <1>3 DEF Wants, InReach, TypeOK, Row
  <2>2. <<p[1], p[2], h>> \in matcher'.left
    BY <1>3, <1>8, <2>1 DEF PerHeadliner, Found
  <2> QED
    BY <2>2 DEF Leaving
<1>5. NewDue(p) => NewDue(p)'
  <2>1. ASSUME NEW i \in DOMAIN enrichedQ[p[2]], enrichedQ[p[2]][i]
        PROVE  i = 1 /\ matcher'.msg = p[2] => Leaving(p[1], p[2])'
    <3>1. SUFFICES ASSUME i = 1, matcher'.msg = p[2] PROVE Leaving(p[1], p[2])'
      OBVIOUS
    <3>2. matcher'.left = PerHeadliner(MatchesForEvent(p[2]))
      <4>1. PICK e \in Shows : ReadEnriched(e)
        BY <1>3, <3>1, FollowsAssumption DEF ReadTaste, FollowsAssumption
      <4>2. e = p[2] /\ enrichedQ[e] \in Seq(BOOLEAN) /\ enrichedQ[e] # <<>>
        BY <3>1, <4>1 DEF ReadEnriched, TypeOK
      <4>3. Head(enrichedQ[e])
        BY <2>1, <3>1, <4>2, TailFacts
      <4> QED
        BY <4>1, <4>2, <4>3 DEF ReadEnriched
    <3>3. p \in MatchesForEvent(p[2])
      BY <1>4 DEF MatchesForEvent
    <3> QED
      BY <1>8, <3>2, <3>3
  <2> QED
    BY <1>1, <2>1 DEF NewDue, Due, Leaving, topics
<1>6. AskDue(p, a) => AskDue(p, a)'
  <2>1. ASSUME NEW i \in DOMAIN tasteQ[p[1]], a \in tasteQ[p[1]][i]
        PROVE  i = 1 /\ matcher'.msg = p[1] => Leaving(p[1], p[2])'
    <3>1. SUFFICES ASSUME i = 1, matcher'.msg = p[1] PROVE Leaving(p[1], p[2])'
      OBVIOUS
    <3>2. PICK u \in Users : ReadTaste(u)
      <4>1. ASSUME NEW e \in Shows, ReadEnriched(e) PROVE matcher'.msg = e
        <5>1. matcher' = [at |-> "publish", msg |-> e,
                          left |-> IF Head(enrichedQ[e])
                                     THEN PerHeadliner(MatchesForEvent(e)) ELSE {}]
          BY <4>1 DEF ReadEnriched
        <5> QED
          BY <5>1
      <4>2. p[1] \notin Shows
        BY <1>3, FollowsAssumption DEF FollowsAssumption
      <4> QED
        BY <3>1, <4>1, <4>2
    <3>3. u = p[1] /\ tasteQ[u] \in Seq(SUBSET Artists) /\ tasteQ[u] # <<>>
      BY <3>1, <3>2 DEF ReadTaste, TypeOK
    <3>4. a \in Head(tasteQ[u])
      BY <2>1, <3>1, <3>3, TailFacts
    <3>5. matcher'.left = PerHeadliner(MatchesForFollowedArtists(u, Head(tasteQ[u])))
      BY <3>2 DEF ReadTaste
    <3>6. p \in MatchesForFollowedArtists(u, Head(tasteQ[u]))
      BY <1>3, <1>4, <3>3, <3>4 DEF MatchesForFollowedArtists, Features, Match
    <3> QED
      BY <1>8, <3>5, <3>6
  <2> QED
    BY <1>1, <2>1 DEF AskDue, Asks, Due, Leaving, topics
<1>7. (Proposed(p[1], p[2]) => Proposed(p[1], p[2])') /\ silent' = silent
  BY <1>1 DEF Proposed
<1> QED
  BY <1>2, <1>5, <1>6, <1>7 DEF Covered

\* A match that is published needs no message any more.
LEMMA PublishMatchCovered ==
  ASSUME TypeOK, AllCovered, NEW m \in matcher.left, PublishMatch(m)
  PROVE  AllCovered'
<1> SUFFICES ASSUME NEW p \in Pairs, NEW a \in Artists, Wants(p, a)' PROVE Covered(p, a)'
  BY DEF AllCovered
<1>1. /\ UNCHANGED <<events, people, handler, topics, silent>>
      /\ proposals' = [proposals EXCEPT ![m] = @ + 1]
      /\ matcher'.msg = matcher.msg /\ matcher'.left = matcher.left \ {m}
  BY DEF PublishMatch, history, TypeOK
<1>2. Covered(p, a)
  BY <1>1, WantsKept DEF AllCovered
<1>3. /\ m \in Found /\ m = <<m[1], m[2], m[3]>>
      /\ proposals \in [Found -> Nat]
      /\ \A h \in Artists : <<p[1], p[2], h>> \in Found
  BY DEF TypeOK, Found, Pairs
<1>4. Proposed(p[1], p[2]) => Proposed(p[1], p[2])'
  BY <1>1, <1>3 DEF Proposed
<1>5. CASE p[1] = m[1] /\ p[2] = m[2]
  <2>1. proposals'[m] > 0 /\ m[3] \in Artists
    BY <1>1, <1>3 DEF Found
  <2>2. Proposed(p[1], p[2])'
    BY <1>3, <1>5, <2>1 DEF Proposed
  <2> QED
    BY <2>2 DEF Covered
<1>6. CASE ~ (p[1] = m[1] /\ p[2] = m[2])
  <2>1. Leaving(p[1], p[2]) => Leaving(p[1], p[2])'
    BY <1>1, <1>6 DEF Leaving
  <2>2. NewDue(p) => NewDue(p)'
    BY <1>1, <2>1 DEF NewDue, Due, topics
  <2>3. AskDue(p, a) => AskDue(p, a)'
    BY <1>1, <2>1 DEF AskDue, Asks, Due, topics
  <2> QED
    BY <1>1, <1>2, <1>4, <2>2, <2>3 DEF Covered
<1> QED
  BY <1>5, <1>6

\* A message whose matches are all out is owed nothing.
LEMMA CommitMessageCovered ==
  ASSUME TypeOK, MatcherOK, AllCovered, CommitMessage
  PROVE  AllCovered'
<1> SUFFICES ASSUME NEW p \in Pairs, NEW a \in Artists, Wants(p, a)' PROVE Covered(p, a)'
  BY DEF AllCovered
<1> DEFINE e == p[2]
           u == p[1]
<1>1. /\ UNCHANGED <<events, people, handler, deduped, proposals, silent>>
      /\ matcher.at = "publish" /\ matcher.left = {} /\ matcher' = Polling
      /\ enrichedQ' = [x \in Shows |-> IF x = matcher.msg THEN Tail(enrichedQ[x]) ELSE enrichedQ[x]]
      /\ tasteQ' = [x \in Users |-> IF x = matcher.msg THEN Tail(tasteQ[x]) ELSE tasteQ[x]]
  BY DEF CommitMessage, history
<1>2. Covered(p, a)
  BY <1>1, WantsKept DEF AllCovered
<1>3. u \in Users /\ e \in Shows
  BY DEF Pairs
<1>4. matcher'.msg # e /\ matcher'.msg # u
  BY <1>1, <1>3, FollowsAssumption DEF Polling, FollowsAssumption
<1>5. ASSUME NEW S, NEW q \in Seq(S), q # <<>>, NEW i \in DOMAIN q, i # 1
      PROVE  i - 1 \in DOMAIN Tail(q) /\ Tail(q)[i - 1] = q[i]
  <2>1. Len(q) \in Nat /\ DOMAIN q = 1 .. Len(q) /\ DOMAIN Tail(q) = 1 .. Len(q) - 1
        /\ \A j \in 1 .. Len(q) - 1 : Tail(q)[j] = q[j + 1]
    BY <1>5, TailFacts
  <2> QED
    BY <1>5, <2>1
<1>6. ASSUME NEW i \in Due(enrichedQ[e], e, p), enrichedQ[e][i] PROVE NewDue(p)'
  <2>1. enrichedQ[e] \in Seq(BOOLEAN) /\ i \in DOMAIN enrichedQ[e]
    BY <1>3 DEF TypeOK, Due, Leaving
  <2>2. \E j \in DOMAIN enrichedQ'[e] : enrichedQ'[e][j]
    <3>1. CASE matcher.msg = e
      <4>1. enrichedQ'[e] = Tail(enrichedQ[e]) /\ enrichedQ[e] # <<>> /\ i # 1
        BY <1>1, <1>3, <3>1, <1>6, InHandIsFirst DEF Due, Leaving
      <4> QED
        <5>1. i - 1 \in DOMAIN enrichedQ'[e] /\ enrichedQ'[e][i - 1] = enrichedQ[e][i]
          BY <1>5, <2>1, <4>1
        <5> QED
          BY <1>6, <5>1
    <3>2. CASE matcher.msg # e
      <4>1. enrichedQ'[e] = enrichedQ[e]
        BY <1>1, <1>3, <3>2
      <4>2. i \in DOMAIN enrichedQ'[e] /\ enrichedQ'[e][i]
        BY <1>6, <2>1, <4>1
      <4> QED
        BY <4>2
    <3> QED
      BY <3>1, <3>2
  <2> QED
    BY <1>4, <2>2 DEF NewDue, Due, Leaving
<1>7. NewDue(p) => NewDue(p)'
  <2>1. (\E i \in DOMAIN deduped[e] : deduped[e][i]) => NewDue(p)'
    BY <1>1 DEF NewDue
  <2> QED
    BY <1>6, <2>1 DEF NewDue
<1>8. ASSUME NEW i \in Due(tasteQ[u], u, p), a \in tasteQ[u][i] PROVE AskDue(p, a)'
  <2>1. tasteQ[u] \in Seq(SUBSET Artists) /\ i \in DOMAIN tasteQ[u]
    BY <1>3 DEF TypeOK, Due, Leaving
  <2>2. \E j \in DOMAIN tasteQ'[u] : a \in tasteQ'[u][j]
    <3>1. CASE matcher.msg = u
      <4>1. tasteQ'[u] = Tail(tasteQ[u]) /\ tasteQ[u] # <<>> /\ i # 1
        BY <1>1, <1>3, <3>1, <1>8, InHandIsFirst DEF Due, Leaving
      <4> QED
        <5>1. i - 1 \in DOMAIN tasteQ'[u] /\ tasteQ'[u][i - 1] = tasteQ[u][i]
          BY <1>5, <2>1, <4>1
        <5> QED
          BY <1>8, <5>1
    <3>2. CASE matcher.msg # u
      <4>1. tasteQ'[u] = tasteQ[u]
        BY <1>1, <1>3, <3>2
      <4> QED
        BY <1>8, <2>1, <4>1
    <3> QED
      BY <3>1, <3>2
  <2> QED
    BY <1>4, <2>2 DEF AskDue, Due, Leaving
<1>9. AskDue(p, a) => AskDue(p, a)'
  <2>1. (\E h \in Handlers : Asks(h, u, a)) => AskDue(p, a)'
    BY <1>1 DEF AskDue, Asks
  <2> QED
    BY <1>8, <2>1 DEF AskDue
<1>10. (Proposed(p[1], p[2]) => Proposed(p[1], p[2])') /\ silent' = silent
  BY <1>1 DEF Proposed
<1> QED
  BY <1>2, <1>7, <1>9, <1>10 DEF Covered

\* A crash hands the message in hand back.
LEMMA MatcherCrashCovered ==
  ASSUME AllCovered, MatcherCrash
  PROVE  AllCovered'
<1> SUFFICES ASSUME NEW p \in Pairs, NEW a \in Artists, Wants(p, a)' PROVE Covered(p, a)'
  BY DEF AllCovered
<1>1. UNCHANGED <<events, people, handler, topics, proposals, silent>> /\ matcher' = Polling
  BY DEF MatcherCrash, history
<1>2. Covered(p, a)
  BY <1>1, WantsKept DEF AllCovered
<1>3. p[1] # matcher'.msg /\ p[2] # matcher'.msg
  BY <1>1, FollowsAssumption DEF Polling, FollowsAssumption, Pairs
<1>4. NewDue(p) => NewDue(p)'
  BY <1>1, <1>3 DEF NewDue, Due, Leaving, topics
<1>5. AskDue(p, a) => AskDue(p, a)'
  BY <1>1, <1>3 DEF AskDue, Asks, Due, Leaving, topics
<1>6. (Proposed(p[1], p[2]) => Proposed(p[1], p[2])') /\ silent' = silent
  BY <1>1 DEF Proposed
<1> QED
  BY <1>2, <1>4, <1>5, <1>6 DEF Covered

\* Every step keeps every wanted pair covered.
LEMMA CoveredStep ==
  TypeOK /\ MatcherOK /\ RequestsOK /\ AllCovered /\ [Next]_vars => AllCovered'
<1> SUFFICES ASSUME TypeOK, MatcherOK, RequestsOK, AllCovered, [Next]_vars PROVE AllCovered'
  OBVIOUS
<1>1. ASSUME NEW h \in Handlers, NEW u \in Users, NewRequest(h, u) PROVE AllCovered'
  BY <1>1, NewRequestCovered
<1>2. ASSUME NEW h \in Handlers, ServeRequest(h) PROVE AllCovered'
  <2>1. CASE CommitFollow(h)
    BY <2>1, CommitCovered
  <2>2. CASE ReadFollowed(h)
    BY <2>2, ReadFollowedCovered
  <2>3. CASE PublishTaste(h)
    BY <2>3, PublishTasteCovered
  <2>4. ASSUME \/ \E a \in Artists : ImportArtist(h, a)
               \/ ImportRefused(h) \/ Recompute(h) \/ DeadlockAbort(h)
        PROVE  AllCovered'
    <3>1. UNCHANGED <<events, people, topics, matcher, proposals, silent>>
          /\ \A g \in Handlers \ {h} : handler'[g] = handler[g]
      BY <2>4 DEF ImportArtist, ImportRefused, Recompute, DeadlockAbort, TypeOK, history
    <3>2. handler[h].at \notin {"moved", "publish"}
      BY <2>4 DEF ImportArtist, ImportRefused, Recompute, DeadlockAbort, WaitsFor
    <3> QED
      BY <3>1, <3>2, ServedCovered
  <2> QED
    BY <1>2, <2>1, <2>2, <2>3, <2>4 DEF ServeRequest
<1>3. ASSUME NEW h \in Handlers, PublishFails(h) PROVE AllCovered'
  <2> DEFINE lost == {h}
  <2>1. /\ UNCHANGED <<events, people, topics, matcher, proposals>>
        /\ \A g \in Handlers \ lost : handler'[g] = handler[g]
        /\ silent' = silent \cup UNION {Unasked(g) : g \in lost}
        /\ lost \in SUBSET Handlers
    BY <1>3 DEF PublishFails, TypeOK
  <2> HIDE DEF lost
  <2> QED
    BY <2>1, GivenUpCovered
<1>4. CASE GatewayCrash
  <2>1. /\ UNCHANGED <<events, people, topics, matcher, proposals>>
        /\ silent' = silent \cup UNION {Unasked(g) : g \in Handlers}
    BY <1>4 DEF GatewayCrash
  <2> QED
    BY <2>1, GivenUpCovered
<1>5. ASSUME NEW u \in Users, NEW e \in Shows, DismissEvent(u, e) PROVE AllCovered'
  BY <1>5, DismissCovered
<1>6. ASSUME NEW e \in Shows, ListingChanges(e) \/ SendOn(e, FALSE) PROVE AllCovered'
  BY <1>6, ListingCovered, ShowStartsCovered, SendOnCovered DEF ListingChanges
<1>7. ASSUME NEW s \in Artists, NEW c \in Artists, MergeArtist(s, c) PROVE AllCovered'
  BY <1>7, MergeCovered
<1>11. ASSUME NEW a \in Artists, EmbedArtist(a) PROVE AllCovered'
  BY <1>11, EmbedCovered
<1>8. CASE Consume
  BY <1>8, ReadCovered, PublishMatchCovered, CommitMessageCovered DEF Consume
<1>9. CASE MatcherCrash
  BY <1>9, MatcherCrashCovered
<1>10. CASE UNCHANGED vars
  <2>1. UNCHANGED <<events, people, topics, matcher, proposals, silent, handler>>
    BY <1>10 DEF vars, history
  <2>2. AllCovered'
    <3> SUFFICES ASSUME NEW p \in Pairs, NEW a \in Artists, Wants(p, a)' PROVE Covered(p, a)'
      BY DEF AllCovered
    <3>1. Covered(p, a)
      BY <2>1, WantsKept DEF AllCovered
    <3> QED
      BY <2>1, <3>1, CoverKept DEF Asks
  <2> QED
    BY <2>2
<1> QED
  BY <1>1, <1>2, <1>3, <1>4, <1>5, <1>6, <1>7, <1>8, <1>9, <1>10, <1>11 DEF Next

\* Whoever follows an artist of an upcoming show within reach has been matched with it, or
\* a message that will match them is under way, unless the match came about silently
\* (services/matcher/src/main.py:103).
THEOREM Missed == Spec => []NobodyMissed
<1>1. Init => RequestsOK /\ AllCovered
  <2> SUFFICES ASSUME Init PROVE RequestsOK /\ AllCovered
    OBVIOUS
  <2>1. RequestsOK
    BY IdleRequest DEF Init, RequestsOK
  <2>2. \A p \in Pairs : follows[p[1]] = {}
    BY DEF Init, Pairs
  <2> QED
    BY <2>1, <2>2 DEF AllCovered, Wants
<1>2. TypeOK /\ MatcherOK /\ RequestsOK /\ AllCovered /\ [Next]_vars
        => (RequestsOK /\ AllCovered)'
  BY RequestsStep, CoveredStep
<1>3. TypeOK /\ MatcherOK /\ RequestsOK /\ AllCovered => NobodyMissed
  BY CoveredIsComing
<1>4. Spec => [](TypeOK /\ MatcherOK)
  BY TypeCorrect
<1> QED
  BY <1>1, <1>2, <1>3, <1>4, PTL DEF Spec

-----------------------------------------------------------------------------
(* Re-scrapes stay quiet *)

\* The messages of a queue that say the show is new.
Trues(q) == {i \in DOMAIN q : q[i]}

RequestsOf(u) == {h \in Handlers : handler[h].user = u}

Bit(b) == IF b THEN 1 ELSE 0

\* The message in hand has no match left to bring of the user, the show and the headliner p.
Spent(p) ==
  /\ p \notin matcher.left
  /\ matcher.msg = p[1] \/ (matcher.msg = p[2] /\ Head(enrichedQ[p[2]]))

Done(p) == IF Spent(p) THEN 1 ELSE 0

\* The match that the announcement of the show may bring.
Fresh(p) == IF p[2] \in news THEN 1 ELSE 0

\* The messages and requests that may each bring one match more.
Announcing(p) == Cardinality(Trues(deduped[p[2]])) + Cardinality(Trues(enrichedQ[p[2]]))
Asking(p) == Len(tasteQ[p[1]]) + Cardinality(RequestsOf(p[1]))

\* A match more for each request, and for each message handled twice.
Extra == requests + faults

Debt(p) == proposals[p] + Announcing(p) + Asking(p)
Credit(p) == Fresh(p) + Done(p) + Extra

\* RescrapesStayQuiet as every step keeps it: what is still to come is counted too.
WithinBudget(p) == Debt(p) <= Credit(p)

Budget == \A p \in Found : WithinBudget(p)

NewsListed == \A e \in news : rows[e] # NoRow

\* The news in a queue can be counted.
LEMMA CountFinite ==
  ASSUME NEW q \in Seq(BOOLEAN)
  PROVE  IsFiniteSet(Trues(q)) /\ Cardinality(Trues(q)) \in Nat
<1>1. DOMAIN q = 1 .. Len(q) /\ Len(q) \in Nat
  BY LenProperties
<1>2. Trues(q) \in SUBSET (1 .. Len(q)) /\ IsFiniteSet(1 .. Len(q))
  BY <1>1, FS_Interval DEF Trues
<1> QED
  BY <1>2, FS_Subset, FS_CardinalityType

\* A message adds to them if it is news,
LEMMA CountAppend ==
  ASSUME NEW q \in Seq(BOOLEAN), NEW b \in BOOLEAN
  PROVE  Cardinality(Trues(Append(q, b))) = Cardinality(Trues(q)) + Bit(b)
<1>1. Len(q) \in Nat
  BY LenProperties
<1>2. CASE b
  <2>1. Trues(Append(q, b)) = Trues(q) \cup {Len(q) + 1} /\ Len(q) + 1 \notin Trues(q)
    BY <1>1, <1>2, AppendFacts DEF Trues
  <2> QED
    BY <1>2, <2>1, CountFinite, FS_AddElement DEF Bit
<1>3. CASE ~ b
  <2>1. Trues(Append(q, b)) = Trues(q)
    BY <1>1, <1>3, AppendFacts DEF Trues
  <2> QED
    BY <1>3, <2>1, CountFinite DEF Bit
<1> QED
  BY <1>2, <1>3

\* and takes from them likewise.
LEMMA CountTail ==
  ASSUME NEW q \in Seq(BOOLEAN), q # <<>>
  PROVE  Cardinality(Trues(q)) = Cardinality(Trues(Tail(q))) + Bit(Head(q))
<1> DEFINE later == Trues(q) \ {1}
           f == [i \in later |-> i - 1]
<1>1. /\ Tail(q) \in Seq(BOOLEAN) /\ Head(q) = q[1] /\ Len(q) \in Nat /\ Len(q) > 0
      /\ DOMAIN Tail(q) = 1 .. Len(q) - 1 /\ DOMAIN q = 1 .. Len(q)
      /\ \A i \in 1 .. Len(q) - 1 : Tail(q)[i] = q[i + 1]
  BY TailFacts
<1>2. \A i \in later : i \in 2 .. Len(q) /\ q[i]
  BY <1>1 DEF Trues
<1>3. \A i \in later : i - 1 \in Trues(Tail(q))
  <2> SUFFICES ASSUME NEW i \in later PROVE i - 1 \in Trues(Tail(q))
    OBVIOUS
  <2>1. i \in 2 .. Len(q) /\ q[i]
    BY <1>2
  <2>2. PICK j \in 1 .. Len(q) - 1 : i = j + 1
    <3>1. i - 1 \in 1 .. Len(q) - 1 /\ i = (i - 1) + 1
      BY <1>1, <2>1
    <3> QED
      BY <3>1
  <2>3. j \in DOMAIN Tail(q) /\ Tail(q)[j] = q[i]
    BY <1>1, <2>2
  <2>4. j \in Trues(Tail(q))
    BY <2>1, <2>3 DEF Trues
  <2> QED
    BY <2>2, <2>4
<1>4. \A j \in Trues(Tail(q)) : j + 1 \in later /\ j = (j + 1) - 1
  <2> SUFFICES ASSUME NEW j \in Trues(Tail(q)) PROVE j + 1 \in later /\ j = (j + 1) - 1
    OBVIOUS
  <2>1. j \in 1 .. Len(q) - 1 /\ Tail(q)[j]
    BY <1>1 DEF Trues
  <2>2. j + 1 \in DOMAIN q /\ q[j + 1] /\ j + 1 # 1
    BY <1>1, <2>1
  <2> QED
    BY <2>1, <2>2 DEF Trues
<1>5. f \in Bijection(later, Trues(Tail(q)))
  <2>1. f \in [later -> Trues(Tail(q))]
    BY <1>3
  <2>2. \A i, j \in later : f[i] = f[j] => i = j
    BY <1>2
  <2>3. \A j \in Trues(Tail(q)) : \E i \in later : f[i] = j
    BY <1>4
  <2> HIDE DEF f, later
  <2> QED
    BY <2>1, <2>2, <2>3, Fun_IsBij
<1>6. IsFiniteSet(later) /\ Cardinality(Trues(Tail(q))) = Cardinality(later)
  <2>1. IsFiniteSet(later)
    BY CountFinite, FS_RemoveElement
  <2>2. ExistsBijection(later, Trues(Tail(q)))
    BY <1>5 DEF ExistsBijection
  <2> QED
    BY <2>1, <2>2, FS_Bijection
<1>7. Cardinality(later) = IF 1 \in Trues(q) THEN Cardinality(Trues(q)) - 1
                           ELSE Cardinality(Trues(q))
  BY CountFinite, FS_RemoveElement
<1>8. Bit(Head(q)) = IF 1 \in Trues(q) THEN 1 ELSE 0
  <2>1. 1 \in DOMAIN q
    BY <1>1
  <2>2. 1 \in Trues(q) <=> q[1]
    BY <2>1 DEF Trues
  <2>3. Bit(Head(q)) = Bit(q[1])
    BY <1>1
  <2> QED
    BY <2>2, <2>3 DEF Bit
<1> QED
  BY <1>6, <1>7, <1>8, CountFinite

\* So can the requests of a user.
LEMMA RequestsFinite ==
  ASSUME NEW u
  PROVE  /\ IsFiniteSet(RequestsOf(u)) /\ Cardinality(RequestsOf(u)) \in Nat
         /\ IsFiniteSet(RequestsOf(u)') /\ Cardinality(RequestsOf(u)') \in Nat
<1>1. RequestsOf(u) \in SUBSET Handlers /\ RequestsOf(u)' \in SUBSET Handlers
  BY DEF RequestsOf
<1>2. IsFiniteSet(Handlers)
  BY FollowsAssumption DEF FollowsAssumption
<1>3. IsFiniteSet(RequestsOf(u)) /\ IsFiniteSet(RequestsOf(u)')
  BY <1>1, <1>2, FS_Subset
<1> QED
  BY <1>3, FS_CardinalityType

\* A step adds no request to a user's but a new one.
LEMMA RequestsCount ==
  ASSUME NEW u, NEW h \in Handlers,
         \A g \in Handlers \ {h} : handler'[g].user = u => handler[g].user = u
  PROVE  /\ handler'[h].user = u => Cardinality(RequestsOf(u)') <= Cardinality(RequestsOf(u)) + 1
         /\ handler'[h].user # u => Cardinality(RequestsOf(u)') <= Cardinality(RequestsOf(u))
         /\ handler'[h].user # u /\ handler[h].user = u
              => Cardinality(RequestsOf(u)') <= Cardinality(RequestsOf(u)) - 1
<1>1. CASE handler'[h].user = u
  <2>1. RequestsOf(u)' \in SUBSET (RequestsOf(u) \cup {h})
    BY DEF RequestsOf
  <2>2. Cardinality(RequestsOf(u)') <= Cardinality(RequestsOf(u) \cup {h})
        /\ Cardinality(RequestsOf(u) \cup {h}) <= Cardinality(RequestsOf(u)) + 1
    BY <2>1, RequestsFinite, FS_AddElement, FS_Subset
  <2> QED
    BY <1>1, <2>2, RequestsFinite, FS_AddElement, FS_CardinalityType
<1>2. CASE handler'[h].user # u
  <2>1. RequestsOf(u)' \in SUBSET (RequestsOf(u) \ {h})
    BY <1>2 DEF RequestsOf
  <2>2. IsFiniteSet(RequestsOf(u) \ {h})
        /\ Cardinality(RequestsOf(u) \ {h}) =
             IF h \in RequestsOf(u) THEN Cardinality(RequestsOf(u)) - 1 ELSE Cardinality(RequestsOf(u))
    BY RequestsFinite, FS_RemoveElement
  <2>3. Cardinality(RequestsOf(u)') <= Cardinality(RequestsOf(u) \ {h})
    BY <2>1, <2>2, FS_Subset
  <2>4. h \in RequestsOf(u) <=> handler[h].user = u
    BY DEF RequestsOf
  <2> QED
    BY <1>2, <2>2, <2>3, <2>4, RequestsFinite
<1> QED
  BY <1>1, <1>2

\* Without a new request they become no more.
LEMMA RequestsShrink ==
  ASSUME NEW u, \A g \in Handlers : handler'[g].user = u => handler[g].user = u
  PROVE  Cardinality(RequestsOf(u)') <= Cardinality(RequestsOf(u))
<1>1. RequestsOf(u)' \in SUBSET RequestsOf(u)
  BY DEF RequestsOf
<1> QED
  BY <1>1, RequestsFinite, FS_Subset

\* The bounds count what has happened.
LEMMA ExtraNat == (TypeOK => Extra \in Nat) /\ (TypeOK' => Extra' \in Nat)
  BY DEF TypeOK, Extra

\* The numbers of a pair's budget.
CountNats(p) ==
  /\ Cardinality(Trues(deduped[p[2]])) \in Nat /\ Cardinality(Trues(enrichedQ[p[2]])) \in Nat
  /\ Len(tasteQ[p[1]]) \in Nat /\ Cardinality(RequestsOf(p[1])) \in Nat
DebtNats(p) == proposals[p] \in Nat /\ Announcing(p) \in Nat /\ Asking(p) \in Nat
CreditNats(p) == Fresh(p) \in Nat /\ Done(p) \in Nat /\ Done(p) <= 1 /\ Extra \in Nat
SumNats(p) == Debt(p) \in Nat /\ Credit(p) \in Nat
BudgetNats(p) == CountNats(p) /\ DebtNats(p) /\ CreditNats(p) /\ SumNats(p)

\* Every number of a budget is a natural number,
LEMMA BudgetTypes ==
  ASSUME TypeOK, NEW p \in Found
  PROVE  /\ p[1] \in Users /\ p[2] \in Shows
         /\ deduped[p[2]] \in Seq(BOOLEAN) /\ enrichedQ[p[2]] \in Seq(BOOLEAN)
         /\ tasteQ[p[1]] \in Seq(SUBSET Artists)
         /\ BudgetNats(p)
<1>1. p[1] \in Users /\ p[2] \in Shows
  BY DEF Found
<1>2. deduped[p[2]] \in Seq(BOOLEAN) /\ enrichedQ[p[2]] \in Seq(BOOLEAN)
      /\ tasteQ[p[1]] \in Seq(SUBSET Artists)
  BY <1>1 DEF TypeOK
<1>3. /\ Cardinality(Trues(deduped[p[2]])) \in Nat
      /\ Cardinality(Trues(enrichedQ[p[2]])) \in Nat
      /\ Len(tasteQ[p[1]]) \in Nat /\ Cardinality(RequestsOf(p[1])) \in Nat
  BY <1>2, CountFinite, RequestsFinite, LenProperties
<1>4. Announcing(p) \in Nat /\ Asking(p) \in Nat
  BY <1>3 DEF Announcing, Asking
<1>5. Fresh(p) \in Nat /\ Done(p) \in Nat /\ Done(p) <= 1
  BY DEF Fresh, Done
<1>6. proposals[p] \in Nat /\ requests \in Nat /\ faults \in Nat
  BY DEF TypeOK
<1>7. Extra \in Nat
  BY ExtraNat
<1>8. Debt(p) \in Nat /\ Credit(p) \in Nat
  BY <1>4, <1>5, <1>6, <1>7 DEF Debt, Credit
<1> QED
  BY <1>1, <1>2, <1>3, <1>4, <1>5, <1>6, <1>7, <1>8
     DEF BudgetNats, CountNats, DebtNats, CreditNats, SumNats

\* and stays one.
LEMMA NextBudgetTypes ==
  ASSUME TypeOK', NEW p \in Found
  PROVE  BudgetNats(p)'
<1>1. p[1] \in Users /\ p[2] \in Shows
  BY DEF Found
<1>2. deduped'[p[2]] \in Seq(BOOLEAN) /\ enrichedQ'[p[2]] \in Seq(BOOLEAN)
      /\ tasteQ'[p[1]] \in Seq(SUBSET Artists)
  BY <1>1 DEF TypeOK
<1>3. /\ Cardinality(Trues(deduped'[p[2]])) \in Nat
      /\ Cardinality(Trues(enrichedQ'[p[2]])) \in Nat
      /\ Len(tasteQ'[p[1]]) \in Nat /\ Cardinality(RequestsOf(p[1])') \in Nat
  BY <1>2, CountFinite, RequestsFinite, LenProperties
<1>4. Announcing(p)' \in Nat /\ Asking(p)' \in Nat
  BY <1>3 DEF Announcing, Asking
<1>5. Fresh(p)' \in Nat /\ Done(p)' \in Nat /\ Done(p)' <= 1
  BY DEF Fresh, Done
<1>6. proposals'[p] \in Nat /\ requests' \in Nat /\ faults' \in Nat
  BY DEF TypeOK
<1>7. Extra' \in Nat
  BY ExtraNat
<1>8. Debt(p)' \in Nat /\ Credit(p)' \in Nat
  BY <1>4, <1>5, <1>6, <1>7 DEF Debt, Credit
<1> QED
  BY <1>3, <1>4, <1>5, <1>6, <1>7, <1>8
     DEF BudgetNats, CountNats, DebtNats, CreditNats, SumNats

\* What a step does to the bounds is what it adds to a budget.
LEMMA ExtraGrows ==
  ASSUME TypeOK, TypeOK'
  PROVE  /\ requests' \in {requests, requests + 1} /\ faults' \in {faults, faults + 1}
              => Extra <= Extra'
         /\ UNCHANGED <<requests, faults>> => Extra' = Extra
         /\ requests' = requests + 1 /\ faults' = faults => Extra' = Extra + 1
         /\ requests' = requests /\ faults' = faults + 1 => Extra' = Extra + 1
<1>1. requests \in Int /\ requests' \in Int /\ faults \in Int /\ faults' \in Int
  BY DEF TypeOK
<1>2. ASSUME requests' \in {requests, requests + 1}, faults' \in {faults, faults + 1}
      PROVE  Extra <= Extra'
  <2>1. requests' = requests /\ faults' = faults => Extra' = Extra
    BY DEF Extra
  <2>2. requests' = requests + 1 /\ faults' = faults => Extra' = Extra + 1
    BY <1>1 DEF Extra
  <2>3. requests' = requests /\ faults' = faults + 1 => Extra' = Extra + 1
    BY <1>1 DEF Extra
  <2>4. requests' = requests + 1 /\ faults' = faults + 1 => Extra' = Extra + 2
    BY <1>1 DEF Extra
  <2>5. Extra' = Extra \/ Extra' = Extra + 1 \/ Extra' = Extra + 2
    BY <1>2, <2>1, <2>2, <2>3, <2>4
  <2>6. Extra \in Nat
    BY ExtraNat
  <2> QED
    BY <2>5, <2>6
<1>3. UNCHANGED <<requests, faults>> => Extra' = Extra
  BY DEF Extra
<1>4. requests' = requests + 1 /\ faults' = faults => Extra' = Extra + 1
  BY <1>1 DEF Extra
<1>5. requests' = requests /\ faults' = faults + 1 => Extra' = Extra + 1
  BY <1>1 DEF Extra
<1> QED
  BY <1>2, <1>3, <1>4, <1>5

\* A budget is kept by a step that adds no more to the debt than to the credit.
LEMMA StillWithin ==
  ASSUME TypeOK, TypeOK', Budget, NEW p \in Found,
         Debt(p)' + Credit(p) <= Debt(p) + Credit(p)'
  PROVE  WithinBudget(p)'
<1>1. Debt(p) <= Credit(p)
  BY DEF Budget, WithinBudget
<1>2. Debt(p) \in Nat /\ Debt(p)' \in Nat /\ Credit(p) \in Nat /\ Credit(p)' \in Nat
  BY BudgetTypes, NextBudgetTypes DEF BudgetNats, SumNats
<1>3. Debt(p)' <= Credit(p)'
  BY <1>1, <1>2
<1> QED
  BY <1>3 DEF WithinBudget

\* A step of the gateway alone: what it adds to the requests it adds to the credit.
LEMMA RequestsBudget ==
  ASSUME TypeOK, TypeOK', Budget, UNCHANGED <<topics, matcher, proposals, news>>,
         NEW p \in Found,
         Cardinality(RequestsOf(p[1])') + Extra <= Cardinality(RequestsOf(p[1])) + Extra'
  PROVE  WithinBudget(p)'
<1>0. BudgetNats(p) /\ BudgetNats(p)'
  BY BudgetTypes, NextBudgetTypes
<1>1. /\ proposals'[p] = proposals[p] /\ Announcing(p)' = Announcing(p)
      /\ Fresh(p)' = Fresh(p) /\ Done(p)' = Done(p)
  BY DEF topics, Announcing, Fresh, Done, Spent
<1>2. Asking(p)' + Extra <= Asking(p) + Extra'
  <2>1. Asking(p) = Len(tasteQ[p[1]]) + Cardinality(RequestsOf(p[1]))
        /\ Asking(p)' = Len(tasteQ[p[1]]) + Cardinality(RequestsOf(p[1])')
    BY DEF Asking, topics
  <2>2. /\ Cardinality(RequestsOf(p[1])) \in Nat /\ Cardinality(RequestsOf(p[1])') \in Nat
        /\ Len(tasteQ[p[1]]) \in Nat /\ Extra \in Nat /\ Extra' \in Nat
    BY <1>0, RequestsFinite, ExtraNat DEF BudgetNats, CountNats
  <2> QED
    BY <2>1, <2>2
<1>a. Extra \in Nat /\ Extra' \in Nat
  BY ExtraNat
<1>3. Debt(p)' + Extra <= Debt(p) + Extra'
  BY <1>0, <1>1, <1>2, <1>a DEF Debt, BudgetNats, DebtNats
<1>4. Credit(p)' + Extra = Credit(p) + Extra'
  BY <1>0, <1>1 DEF Credit, BudgetNats, CreditNats
<1>5. Debt(p)' + Credit(p) <= Debt(p) + Credit(p)'
  BY <1>0, <1>3, <1>4, <1>a DEF BudgetNats, SumNats
<1> QED
  BY <1>5, StillWithin

\* No request is new, and none is published.
LEMMA NoNewRequest ==
  ASSUME TypeOK, TypeOK', Budget, UNCHANGED <<topics, matcher, proposals, news>>,
         \A g \in Handlers : handler'[g].user \in {handler[g].user, NoUser},
         requests' \in {requests, requests + 1}, faults' \in {faults, faults + 1}
  PROVE  Budget'
<1> SUFFICES ASSUME NEW p \in Found PROVE WithinBudget(p)'
  BY DEF Budget
<1> DEFINE u == p[1]
<1>1. Cardinality(RequestsOf(u)') + Extra <= Cardinality(RequestsOf(u)) + Extra'
  <2>1. u # NoUser
    BY FollowsAssumption DEF FollowsAssumption, Found
  <2>2. Cardinality(RequestsOf(u)') <= Cardinality(RequestsOf(u))
    BY <2>1, RequestsShrink
  <2>3. Extra <= Extra' /\ Extra \in Nat /\ Extra' \in Nat
    BY ExtraGrows, ExtraNat
  <2> QED
    BY <2>2, <2>3, RequestsFinite
<1> QED
  BY <1>1, RequestsBudget

\* A new request is one more on both sides.
LEMMA NewRequestBudget ==
  ASSUME TypeOK, TypeOK', Budget, NEW h \in Handlers, NEW v \in Users, NewRequest(h, v)
  PROVE  Budget'
<1>1. UNCHANGED <<topics, matcher, proposals, news, faults>>
  BY DEF NewRequest, CreateFollow, DeleteFollow, StartImport, UpdateArea, history
<1> SUFFICES ASSUME NEW p \in Found PROVE WithinBudget(p)'
  BY DEF Budget
<1> DEFINE u == p[1]
<1>2. Cardinality(RequestsOf(u)') + Extra <= Cardinality(RequestsOf(u)) + Extra'
  <2>1. Cardinality(RequestsOf(u)') <= Cardinality(RequestsOf(u)) + 1
    BY RequestStarts, RequestsCount, RequestsFinite
  <2>2. Extra' = Extra + 1 /\ Extra \in Nat
    BY <1>1, RequestStarts, ExtraGrows, ExtraNat
  <2> QED
    BY <2>1, <2>2, RequestsFinite
<1> QED
  BY <1>1, <1>2, RequestsBudget

\* A request that publishes becomes a message.
LEMMA PublishTasteBudget ==
  ASSUME TypeOK, TypeOK', Budget, NEW h \in Handlers, PublishTaste(h)
  PROVE  Budget'
<1> SUFFICES ASSUME NEW p \in Found PROVE WithinBudget(p)'
  BY DEF Budget
<1>0. BudgetNats(p) /\ BudgetNats(p)'
  BY BudgetTypes, NextBudgetTypes
<1> DEFINE r == handler[h]
           u == p[1]
<1>1. /\ UNCHANGED <<deduped, enrichedQ, matcher, proposals, news, requests, faults>>
      /\ tasteQ' = [tasteQ EXCEPT ![r.user] = Append(@, r.artists)]
      /\ handler' = [handler EXCEPT ![h] = Idle]
  BY DEF PublishTaste, history, bounds
<1>2. /\ proposals'[p] = proposals[p] /\ Announcing(p)' = Announcing(p)
      /\ Fresh(p)' = Fresh(p) /\ Done(p)' = Done(p)
      /\ Extra' = Extra
  BY <1>1, ExtraGrows DEF Announcing, Fresh, Done, Spent
<1>3. u \in Users /\ u # NoUser
  BY FollowsAssumption DEF Found, FollowsAssumption
<1>4. handler'[h].user = NoUser /\ \A g \in Handlers \ {h} : handler'[g] = handler[g]
  BY <1>1, IdleRequest DEF TypeOK
<1>5. Asking(p)' <= Asking(p)
  <2>1. CASE r.user = u
    <3>1. r.artists \in SUBSET Artists
      BY DEF TypeOK, Requests
    <3>2. tasteQ'[u] = Append(tasteQ[u], r.artists)
      BY <1>1, <1>3, <2>1 DEF TypeOK
    <3>3. Len(tasteQ'[u]) = Len(tasteQ[u]) + 1
      BY <3>1, <3>2, AppendFacts, BudgetTypes
    <3>4. Cardinality(RequestsOf(u)') <= Cardinality(RequestsOf(u)) - 1
      BY <1>3, <1>4, <2>1, RequestsCount
    <3>5. Cardinality(RequestsOf(u)) \in Nat /\ Cardinality(RequestsOf(u)') \in Nat
          /\ Len(tasteQ[u]) \in Nat
      BY <1>0, RequestsFinite DEF BudgetNats, CountNats
    <3>6. Asking(p) = Len(tasteQ[u]) + Cardinality(RequestsOf(u))
          /\ Asking(p)' = Len(tasteQ'[u]) + Cardinality(RequestsOf(u)')
      BY DEF Asking
    <3> QED
      BY <3>3, <3>4, <3>5, <3>6
  <2>2. CASE r.user # u
    <3>1. tasteQ'[u] = tasteQ[u]
      BY <1>1, <1>3, <2>2 DEF TypeOK
    <3>2. Cardinality(RequestsOf(u)') <= Cardinality(RequestsOf(u))
      BY <1>3, <1>4, RequestsCount
    <3>3. Cardinality(RequestsOf(u)) \in Nat /\ Cardinality(RequestsOf(u)') \in Nat
          /\ Len(tasteQ[u]) \in Nat
      BY <1>0, RequestsFinite DEF BudgetNats, CountNats
    <3>4. Asking(p) = Len(tasteQ[u]) + Cardinality(RequestsOf(u))
          /\ Asking(p)' = Len(tasteQ[u]) + Cardinality(RequestsOf(u)')
      BY <3>1 DEF Asking
    <3> QED
      BY <3>2, <3>3, <3>4
  <2> QED
    BY <2>1, <2>2
<1>11. Debt(p)' <= Debt(p)
  BY <1>0, <1>2, <1>5 DEF Debt, BudgetNats, DebtNats
<1>12. Credit(p)' = Credit(p)
  BY <1>0, <1>2 DEF Credit, BudgetNats, CreditNats
<1>13. Debt(p)' + Credit(p) <= Debt(p) + Credit(p)'
  BY <1>0, <1>11, <1>12 DEF BudgetNats, SumNats
<1> QED
  BY <1>13, StillWithin

\* A listing makes a row, and says so to the enricher at most once.
LEMMA ListingBudget ==
  ASSUME TypeOK, TypeOK', NewsListed, Budget, NEW e \in Shows, NEW row \in ListedRows,
         ListShow(e, row) \/ LoseAnnouncement(e, row)
  PROVE  Budget'
<1> SUFFICES ASSUME NEW p \in Found PROVE WithinBudget(p)'
  BY DEF Budget
<1>0. BudgetNats(p) /\ BudgetNats(p)'
  BY BudgetTypes, NextBudgetTypes
<1>1. /\ UNCHANGED <<handler, enrichedQ, tasteQ, matcher, proposals, requests>>
      /\ faults' \in {faults, faults + 1}
  BY DEF ListShow, LoseAnnouncement
<1>a. Fresh(p) \in Nat /\ Fresh(p)' \in Nat
  BY <1>0 DEF BudgetNats, CreditNats
<1>b. Announcing(p) \in Nat /\ Announcing(p)' \in Nat
  BY <1>0 DEF BudgetNats, DebtNats
<1>2. /\ proposals'[p] = proposals[p] /\ Asking(p)' = Asking(p) /\ Done(p)' = Done(p)
  BY <1>1 DEF Asking, RequestsOf, Done, Spent
<1>3. PICK b \in BOOLEAN :
        /\ deduped' = [deduped EXCEPT ![e] = Append(@, b)]
        /\ b => e \notin news
        /\ news' = IF b THEN news \cup {e} ELSE news
  <2>1. CASE ListShow(e, row)
    BY <2>1 DEF ListShow, NewsListed
  <2>2. CASE LoseAnnouncement(e, row)
    BY <2>2 DEF LoseAnnouncement
  <2> QED
    BY <2>1, <2>2
<1>4. Announcing(p)' + Fresh(p) = Announcing(p) + Fresh(p)'
  <2>1. CASE p[2] = e
    <3>1. deduped'[e] = Append(deduped[e], b) /\ deduped[e] \in Seq(BOOLEAN)
      BY <1>3 DEF TypeOK
    <3>2. Cardinality(Trues(deduped'[e])) = Cardinality(Trues(deduped[e])) + Bit(b)
      BY <3>1, CountAppend
    <3>3. Announcing(p)' = Announcing(p) + Bit(b)
      <4>1. Announcing(p)' = Cardinality(Trues(deduped'[e])) + Cardinality(Trues(enrichedQ[e]))
            /\ Announcing(p) = Cardinality(Trues(deduped[e])) + Cardinality(Trues(enrichedQ[e]))
        BY <1>1, <2>1 DEF Announcing
      <4>2. Bit(b) \in Int
        BY DEF Bit
      <4>3. Cardinality(Trues(deduped[e])) \in Nat /\ Cardinality(Trues(enrichedQ[e])) \in Nat
        BY <1>0, <2>1 DEF BudgetNats, CountNats
      <4> QED
        BY <3>2, <4>1, <4>2, <4>3
    <3>4. CASE b
      <4>1. Bit(b) = 1 /\ Fresh(p) = 0 /\ Fresh(p)' = 1
        BY <1>3, <2>1, <3>4 DEF Bit, Fresh
      <4> QED
        BY <1>b, <3>3, <4>1
    <3>5. CASE ~ b
      <4>1. Bit(b) = 0 /\ Fresh(p)' = Fresh(p)
        BY <1>3, <2>1, <3>5 DEF Bit, Fresh
      <4> QED
        BY <1>b, <3>3, <4>1
    <3> QED
      BY <3>4, <3>5
  <2>2. CASE p[2] # e
    <3>1. deduped'[p[2]] = deduped[p[2]] /\ (p[2] \in news' <=> p[2] \in news)
      BY <1>3, <2>2, BudgetTypes DEF TypeOK
    <3>2. Announcing(p)' = Announcing(p) /\ Fresh(p)' = Fresh(p)
      BY <1>1, <3>1 DEF Announcing, Fresh
    <3> QED
      BY <3>2
  <2> QED
    BY <2>1, <2>2
<1>6. Extra <= Extra'
  BY <1>1, ExtraGrows
<1>10. Debt(p)' + Fresh(p) = Debt(p) + Fresh(p)'
  BY <1>0, <1>2, <1>4, <1>a DEF Debt, BudgetNats, DebtNats
<1>11. Credit(p) + Fresh(p)' <= Credit(p)' + Fresh(p)
  BY <1>0, <1>2, <1>6 DEF Credit, BudgetNats, CreditNats
<1>12. Debt(p)' + Credit(p) <= Debt(p) + Credit(p)'
  BY <1>0, <1>10, <1>11, <1>a DEF BudgetNats, SumNats
<1> QED
  BY <1>12, StillWithin

\* The enricher moves a message, or copies it and that is a fault.
LEMMA SendOnBudget ==
  ASSUME TypeOK, TypeOK', MatcherOK, Budget, NEW e \in Shows, NEW again \in BOOLEAN,
         SendOn(e, again)
  PROVE  Budget'
<1> SUFFICES ASSUME NEW p \in Found PROVE WithinBudget(p)'
  BY DEF Budget
<1>0. BudgetNats(p) /\ BudgetNats(p)'
  BY BudgetTypes, NextBudgetTypes
<1>a. Extra \in Nat /\ Extra' \in Nat
  BY ExtraNat
<1>b. Announcing(p) \in Nat /\ Announcing(p)' \in Nat
  BY <1>0 DEF BudgetNats, DebtNats
<1>1. PICK b \in BOOLEAN : b = Head(deduped[e])
  BY TailFacts DEF SendOn, TypeOK
<1>2. /\ UNCHANGED <<handler, tasteQ, matcher, proposals, news, requests>>
      /\ deduped[e] # <<>> /\ enrichedQ' = [enrichedQ EXCEPT ![e] = Append(@, b)]
      /\ deduped' = IF again THEN deduped ELSE [deduped EXCEPT ![e] = Tail(@)]
      /\ faults' = IF again THEN faults + 1 ELSE faults
  BY <1>1 DEF SendOn, history
<1>3. /\ proposals'[p] = proposals[p] /\ Asking(p)' = Asking(p) /\ Fresh(p)' = Fresh(p)
  BY <1>2 DEF Asking, RequestsOf, Fresh
<1>4. Done(p)' = Done(p)
  <2>1. CASE p[2] # e \/ matcher.msg # e
    <3>1. p[2] # e => enrichedQ'[p[2]] = enrichedQ[p[2]]
      BY <1>2, BudgetTypes DEF TypeOK
    <3> QED
      BY <1>2, <2>1, <3>1 DEF Done, Spent
  <2>2. CASE p[2] = e /\ matcher.msg = e
    <3>1. enrichedQ[e] # <<>> /\ enrichedQ[e] \in Seq(BOOLEAN)
      BY <2>2, InHandIsFirst, PollingHoldsNone DEF TypeOK
    <3>2. enrichedQ'[e] = Append(enrichedQ[e], b)
      BY <1>2 DEF TypeOK
    <3>3. Head(enrichedQ'[e]) = Head(enrichedQ[e])
      BY <3>1, <3>2, AppendFacts
    <3> QED
      BY <1>2, <2>2, <3>3 DEF Done, Spent
  <2> QED
    BY <2>1, <2>2
<1>5. Announcing(p)' + Extra <= Announcing(p) + Extra'
  <2>1. CASE p[2] = e
    <3>1. enrichedQ'[e] = Append(enrichedQ[e], b)
          /\ deduped'[e] = IF again THEN deduped[e] ELSE Tail(deduped[e])
      BY <1>2 DEF TypeOK
    <3>2. Cardinality(Trues(enrichedQ'[e])) = Cardinality(Trues(enrichedQ[e])) + Bit(b)
      BY <2>1, <3>1, CountAppend, BudgetTypes
    <3>3. Cardinality(Trues(deduped[e])) = Cardinality(Trues(Tail(deduped[e]))) + Bit(b)
      BY <1>1, <1>2, <2>1, CountTail, BudgetTypes
    <3>4. Bit(b) \in 0 .. 1
      BY DEF Bit
    <3>5. /\ Announcing(p) = Cardinality(Trues(deduped[e])) + Cardinality(Trues(enrichedQ[e]))
          /\ Announcing(p)' = Cardinality(Trues(deduped'[e])) + Cardinality(Trues(enrichedQ'[e]))
      BY <2>1 DEF Announcing
    <3>a. Cardinality(Trues(deduped[e])) \in Nat /\ Cardinality(Trues(enrichedQ[e])) \in Nat
      BY <1>0, <2>1 DEF BudgetNats, CountNats
    <3>6. CASE again
      <4>1. Announcing(p)' = Announcing(p) + Bit(b)
        BY <3>1, <3>2, <3>4, <3>5, <3>6, <3>a
      <4>2. Extra' = Extra + 1
        BY <1>2, <3>6, ExtraGrows
      <4> QED
        BY <1>a, <1>b, <3>4, <4>1, <4>2
    <3>7. CASE ~ again
      <4>b. Cardinality(Trues(Tail(deduped[e]))) \in Nat
        BY <1>2, <2>1, TailFacts, CountFinite, BudgetTypes
      <4>1. Cardinality(Trues(deduped'[e])) + Bit(b) = Cardinality(Trues(deduped[e]))
            /\ Cardinality(Trues(deduped'[e])) \in Nat
        BY <3>1, <3>3, <3>7, <4>b
      <4>2. Announcing(p)' = Announcing(p)
        BY <3>2, <3>4, <3>5, <3>a, <4>1
      <4>3. Extra' = Extra
        BY <1>2, <3>7, ExtraGrows
      <4> QED
        BY <1>a, <1>b, <4>2, <4>3
    <3> QED
      BY <3>6, <3>7
  <2>2. CASE p[2] # e
    <3>1. enrichedQ'[p[2]] = enrichedQ[p[2]] /\ deduped'[p[2]] = deduped[p[2]]
      BY <1>2, <2>2, BudgetTypes DEF TypeOK
    <3>2. Announcing(p)' = Announcing(p)
      BY <3>1 DEF Announcing
    <3>3. Extra <= Extra'
      BY <1>2, ExtraGrows
    <3> QED
      BY <1>a, <1>b, <3>2, <3>3
  <2> QED
    BY <2>1, <2>2
<1>11. Debt(p)' + Extra <= Debt(p) + Extra'
  BY <1>0, <1>3, <1>5, <1>a DEF Debt, BudgetNats, DebtNats
<1>12. Credit(p)' + Extra = Credit(p) + Extra'
  BY <1>0, <1>3, <1>4 DEF Credit, BudgetNats, CreditNats
<1>13. Debt(p)' + Credit(p) <= Debt(p) + Credit(p)'
  BY <1>0, <1>11, <1>12, <1>a DEF BudgetNats, SumNats
<1> QED
  BY <1>13, StillWithin

\* A message that has yet to be read is not spent.
LEMMA ReadBudget ==
  ASSUME TypeOK, TypeOK', MatcherOK, Budget, matcher.at = "poll",
         UNCHANGED <<handler, topics, proposals, news, requests, faults>>
  PROVE  Budget'
<1> SUFFICES ASSUME NEW p \in Found PROVE WithinBudget(p)'
  BY DEF Budget
<1>0. BudgetNats(p) /\ BudgetNats(p)'
  BY BudgetTypes, NextBudgetTypes
<1>1. /\ proposals'[p] = proposals[p] /\ Announcing(p)' = Announcing(p)
      /\ Asking(p)' = Asking(p) /\ Fresh(p)' = Fresh(p)
      /\ Extra' = Extra
  BY ExtraGrows DEF Announcing, Asking, RequestsOf, Fresh, topics
<1>2. ~ Spent(p)
  BY PollingHoldsNone, BudgetTypes DEF Spent
<1>3. Done(p) = 0
  BY <1>2 DEF Done
<1>9. Debt(p)' = Debt(p)
  BY <1>0, <1>1 DEF Debt, BudgetNats, DebtNats
<1>10. Credit(p) <= Credit(p)'
  BY <1>0, <1>1, <1>3 DEF Credit, BudgetNats, CreditNats
<1>11. Debt(p)' + Credit(p) <= Debt(p) + Credit(p)'
  BY <1>0, <1>9, <1>10 DEF BudgetNats, SumNats
<1> QED
  BY <1>11, StillWithin

\* A match that is published spends the message in hand.
LEMMA PublishMatchBudget ==
  ASSUME TypeOK, TypeOK', MatcherOK, Budget, NEW m \in matcher.left, PublishMatch(m)
  PROVE  Budget'
<1> SUFFICES ASSUME NEW p \in Found PROVE WithinBudget(p)'
  BY DEF Budget
<1>0. BudgetNats(p) /\ BudgetNats(p)'
  BY BudgetTypes, NextBudgetTypes
<1>a. Done(p) \in Nat /\ Done(p)' \in Nat
  BY <1>0 DEF BudgetNats, CreditNats
<1>b. proposals[p] \in Nat
  BY <1>0 DEF BudgetNats, DebtNats
<1>1. /\ UNCHANGED <<handler, topics, news, requests, faults>>
      /\ proposals' = [proposals EXCEPT ![m] = @ + 1]
      /\ matcher'.msg = matcher.msg /\ matcher'.left = matcher.left \ {m}
  BY DEF PublishMatch, TypeOK, history, bounds
<1>2. /\ Announcing(p)' = Announcing(p) /\ Asking(p)' = Asking(p) /\ Fresh(p)' = Fresh(p)
      /\ Extra' = Extra
  BY <1>1, ExtraGrows DEF Announcing, Asking, RequestsOf, Fresh, topics
<1>3. proposals'[p] + Done(p) <= proposals[p] + Done(p)'
  <2>1. CASE p = m
    <3>1. matcher.msg = p[1] \/ (matcher.msg = p[2] /\ Head(enrichedQ[p[2]]))
      <4>1. matcher # Polling
        BY DEF Polling
      <4> QED
        BY <2>1, <4>1 DEF MatcherOK
    <3>2. enrichedQ' = enrichedQ
      BY <1>1 DEF topics
    <3>3. ~ Spent(p) /\ Spent(p)'
      BY <1>1, <2>1, <3>1, <3>2 DEF Spent
    <3>4. Done(p) = 0 /\ Done(p)' = 1
      BY <3>3 DEF Done
    <3>5. proposals'[p] = proposals[p] + 1
      BY <1>1, <2>1 DEF TypeOK
    <3> QED
      BY <1>b, <3>4, <3>5
  <2>2. CASE p # m
    <3>1. Done(p)' = Done(p)
      BY <1>1, <2>2 DEF Done, Spent, topics
    <3>2. proposals'[p] = proposals[p]
      BY <1>1, <2>2 DEF TypeOK
    <3> QED
      BY <1>a, <1>b, <3>1, <3>2
  <2> QED
    BY <2>1, <2>2
<1>9. Debt(p)' + Done(p) <= Debt(p) + Done(p)'
  BY <1>0, <1>2, <1>3, <1>a DEF Debt, BudgetNats, DebtNats
<1>10. Credit(p)' + Done(p) = Credit(p) + Done(p)'
  BY <1>0, <1>2 DEF Credit, BudgetNats, CreditNats
<1>11. Debt(p)' + Credit(p) <= Debt(p) + Credit(p)'
  BY <1>0, <1>9, <1>10, <1>a DEF BudgetNats, SumNats
<1> QED
  BY <1>11, StillWithin

\* A message is committed when it is spent.
LEMMA CommitMessageBudget ==
  ASSUME TypeOK, TypeOK', MatcherOK, Budget, CommitMessage
  PROVE  Budget'
<1> SUFFICES ASSUME NEW p \in Found PROVE WithinBudget(p)'
  BY DEF Budget
<1>0. BudgetNats(p) /\ BudgetNats(p)'
  BY BudgetTypes, NextBudgetTypes
<1>a. Done(p) \in Nat
  BY <1>0 DEF BudgetNats, CreditNats
<1>b. Announcing(p) \in Nat /\ Asking(p) \in Nat
  BY <1>0 DEF BudgetNats, DebtNats
<1>c. Announcing(p)' \in Nat /\ Asking(p)' \in Nat
  BY <1>0 DEF BudgetNats, DebtNats
<1> DEFINE e == p[2]
           u == p[1]
<1>1. /\ UNCHANGED <<handler, deduped, proposals, news, requests, faults>>
      /\ matcher.at = "publish" /\ matcher.left = {} /\ matcher' = Polling
      /\ enrichedQ' = [x \in Shows |-> IF x = matcher.msg THEN Tail(enrichedQ[x]) ELSE enrichedQ[x]]
      /\ tasteQ' = [x \in Users |-> IF x = matcher.msg THEN Tail(tasteQ[x]) ELSE tasteQ[x]]
  BY DEF CommitMessage, history, bounds
<1>2. /\ proposals'[p] = proposals[p] /\ Fresh(p)' = Fresh(p)
      /\ Extra' = Extra
  BY <1>1, ExtraGrows DEF Fresh
<1>3. u \in Users /\ e \in Shows /\ u # e /\ NoMessage # u /\ NoMessage # e
  BY BudgetTypes, FollowsAssumption DEF FollowsAssumption
<1>4. Done(p)' = 0
  BY <1>1, <1>3 DEF Spent, Done, Polling
<1>5. Announcing(p)' + Asking(p)' + Done(p) = Announcing(p) + Asking(p)
  <2>1. CASE matcher.msg = e
    <3>1. enrichedQ[e] # <<>> /\ enrichedQ'[e] = Tail(enrichedQ[e]) /\ tasteQ'[u] = tasteQ[u]
      BY <1>1, <1>3, <2>1, InHandIsFirst
    <3>2. Asking(p)' = Asking(p)
      BY <1>1, <3>1 DEF Asking, RequestsOf
    <3>3. PICK b \in BOOLEAN : b = Head(enrichedQ[e])
      BY <3>1, TailFacts, BudgetTypes
    <3>4. Done(p) = Bit(b)
      BY <1>1, <1>3, <2>1, <3>3 DEF Done, Spent, Bit
    <3>5. Cardinality(Trues(enrichedQ[e])) = Cardinality(Trues(enrichedQ'[e])) + Bit(b)
      BY <3>1, <3>3, CountTail, BudgetTypes
    <3>6. /\ Announcing(p) = Cardinality(Trues(deduped[e])) + Cardinality(Trues(enrichedQ[e]))
          /\ Announcing(p)' = Cardinality(Trues(deduped[e])) + Cardinality(Trues(enrichedQ'[e]))
      BY <1>1 DEF Announcing
    <3>a. Cardinality(Trues(deduped[e])) \in Nat /\ Cardinality(Trues(enrichedQ'[e])) \in Nat
      BY <1>0 DEF BudgetNats, CountNats
    <3>b. Bit(b) \in Nat
      BY DEF Bit
    <3>7. Announcing(p)' + Done(p) = Announcing(p)
      BY <3>4, <3>5, <3>6, <3>a, <3>b
    <3> QED
      BY <1>a, <1>b, <1>c, <3>2, <3>7
  <2>2. CASE matcher.msg = u
    <3>1. tasteQ[u] # <<>> /\ tasteQ'[u] = Tail(tasteQ[u]) /\ enrichedQ'[e] = enrichedQ[e]
      BY <1>1, <1>3, <2>2, InHandIsFirst
    <3>2. Announcing(p)' = Announcing(p)
      BY <1>1, <3>1 DEF Announcing
    <3>3. Done(p) = 1
      BY <1>1, <2>2 DEF Spent, Done
    <3>4. Len(tasteQ'[u]) = Len(tasteQ[u]) - 1
      BY <3>1, TailFacts, BudgetTypes
    <3>5. /\ Asking(p) = Len(tasteQ[u]) + Cardinality(RequestsOf(u))
          /\ Asking(p)' = Len(tasteQ'[u]) + Cardinality(RequestsOf(u))
      BY <1>1 DEF Asking, RequestsOf
    <3>a. Len(tasteQ[u]) \in Nat /\ Cardinality(RequestsOf(u)) \in Nat
      BY <1>0 DEF BudgetNats, CountNats
    <3>6. Asking(p)' + 1 = Asking(p)
      BY <3>4, <3>5, <3>a
    <3> QED
      BY <1>b, <1>c, <3>2, <3>3, <3>6
  <2>3. CASE matcher.msg # e /\ matcher.msg # u
    <3>1. tasteQ'[u] = tasteQ[u] /\ enrichedQ'[e] = enrichedQ[e]
      BY <1>1, <1>3, <2>3
    <3>2. Done(p) = 0
      BY <2>3 DEF Spent, Done
    <3>3. Announcing(p)' = Announcing(p) /\ Asking(p)' = Asking(p)
      BY <1>1, <3>1 DEF Announcing, Asking, RequestsOf
    <3> QED
      BY <1>b, <3>2, <3>3
  <2> QED
    BY <2>1, <2>2, <2>3
<1>11. Debt(p)' + Done(p) = Debt(p)
  <2>1. Debt(p) = proposals[p] + Announcing(p) + Asking(p)
        /\ Debt(p)' = proposals[p] + Announcing(p)' + Asking(p)'
    BY <1>2 DEF Debt
  <2>2. proposals[p] \in Nat
    BY <1>0 DEF BudgetNats, DebtNats
  <2> QED
    BY <1>5, <1>a, <1>b, <1>c, <2>1, <2>2
<1>12. Credit(p)' + Done(p) = Credit(p)
  BY <1>0, <1>2, <1>4 DEF Credit, BudgetNats, CreditNats
<1>13. Debt(p)' + Credit(p) <= Debt(p) + Credit(p)'
  BY <1>0, <1>11, <1>12, <1>a DEF BudgetNats, SumNats
<1> QED
  BY <1>13, StillWithin

\* A crash may bring every match of the message once more, and is a fault.
LEMMA MatcherCrashBudget ==
  ASSUME TypeOK, TypeOK', Budget, MatcherCrash
  PROVE  Budget'
<1> SUFFICES ASSUME NEW p \in Found PROVE WithinBudget(p)'
  BY DEF Budget
<1>0. BudgetNats(p) /\ BudgetNats(p)'
  BY BudgetTypes, NextBudgetTypes
<1>1. UNCHANGED <<handler, topics, proposals, news, requests>> /\ faults' = faults + 1
  BY DEF MatcherCrash, history
<1>2. /\ proposals'[p] = proposals[p] /\ Announcing(p)' = Announcing(p)
      /\ Asking(p)' = Asking(p) /\ Fresh(p)' = Fresh(p)
  BY <1>1 DEF Announcing, Asking, RequestsOf, Fresh, topics
<1>4. Extra' = Extra + 1
  BY <1>1, ExtraGrows
<1>8. Debt(p)' = Debt(p)
  BY <1>0, <1>2 DEF Debt, BudgetNats, DebtNats
<1>9. Credit(p) <= Credit(p)'
  BY <1>0, <1>2, <1>4 DEF Credit, BudgetNats, CreditNats
<1>10. Debt(p)' + Credit(p) <= Debt(p) + Credit(p)'
  BY <1>0, <1>8, <1>9 DEF BudgetNats, SumNats
<1> QED
  BY <1>10, StillWithin

\* A show that was announced keeps its row.
LEMMA NewsStep == TypeOK /\ NewsListed /\ [Next]_vars => NewsListed'
<1> SUFFICES ASSUME TypeOK, NewsListed, [Next]_vars PROVE NewsListed'
  OBVIOUS
<1>1. NoRow \notin Row /\ ListedRows \subseteq Row
  BY FollowsAssumption DEF FollowsAssumption
<1>2. ASSUME NEW e \in Shows, \E row \in ListedRows : ListShow(e, row) \/ LoseAnnouncement(e, row)
      PROVE  NewsListed'
  <2>1. PICK row \in ListedRows : ListShow(e, row) \/ LoseAnnouncement(e, row)
    BY <1>2
  <2>2. rows' = [rows EXCEPT ![e] = row] /\ news' \in SUBSET (news \cup {e})
    BY <2>1 DEF ListShow, LoseAnnouncement, WriteRow
  <2>3. rows'[e] = row /\ \A d \in Shows \ {e} : rows'[d] = rows[d]
    BY <2>2 DEF TypeOK
  <2>4. news \in SUBSET Shows
    BY DEF TypeOK
  <2> QED
    BY <1>1, <2>2, <2>3, <2>4 DEF NewsListed
<1>3. ASSUME NEW e \in Shows, ShowStarts(e) PROVE NewsListed'
  <2>1. rows' = [rows EXCEPT ![e].live = FALSE] /\ rows[e] \in Row /\ news' = news
    BY <1>3 DEF ShowStarts, TypeOK, history
  <2>2. [rows[e] EXCEPT !.live = FALSE] \in Row
    BY <2>1 DEF Row
  <2>3. rows'[e] \in Row /\ \A d \in Shows \ {e} : rows'[d] = rows[d]
    BY <2>1, <2>2 DEF TypeOK
  <2>4. news \in SUBSET Shows
    BY DEF TypeOK
  <2> QED
    BY <1>1, <2>1, <2>3, <2>4 DEF NewsListed
<1>4. ASSUME NEW s \in Artists, NEW c \in Artists, MergeArtist(s, c) PROVE NewsListed'
  <2>1. rows' = [e \in Shows |-> MergedRow(rows[e], s, c)] /\ news' = news
    BY <1>4 DEF MergeArtist
  <2> SUFFICES ASSUME NEW e \in news PROVE rows'[e] # NoRow
    BY <2>1 DEF NewsListed
  <2>2. e \in Shows /\ rows[e] \in Row
    BY DEF TypeOK, NewsListed
  <2>3. MergedRow(rows[e], s, c) \in Row
    <3> DEFINE lineup == Renamed(rows[e].lineup, s, c)
               headliners == IF c \in rows[e].lineup THEN rows[e].headliners \ {s}
                             ELSE Renamed(rows[e].headliners, s, c)
    <3>2. lineup \in SUBSET Artists /\ headliners \in SUBSET Artists
      BY <2>2 DEF Renamed, Row
    <3>3. MergedRow(rows[e], s, c) = [rows[e] EXCEPT !.lineup = lineup, !.headliners = headliners]
      BY <1>1, <2>2 DEF MergedRow
    <3> HIDE DEF lineup, headliners
    <3>4. [rows[e] EXCEPT !.lineup = lineup, !.headliners = headliners] \in Row
      BY <2>2, <3>2 DEF Row
    <3> QED
      BY <3>3, <3>4
  <2> QED
    BY <1>1, <2>1, <2>2, <2>3
<1>5. ASSUME UNCHANGED <<rows, news>> PROVE NewsListed'
  BY <1>5 DEF NewsListed
<1>6. ASSUME \/ \E h \in Handlers : ServeRequest(h) \/ PublishFails(h)
             \/ \E h \in Handlers, u \in Users : NewRequest(h, u)
             \/ \E u \in Users, e \in Shows : DismissEvent(u, e)
             \/ \E e \in Shows : SendOn(e, TRUE) \/ SendOn(e, FALSE)
             \/ \E a \in Artists : EmbedArtist(a)
             \/ Consume \/ GatewayCrash \/ MatcherCrash \/ UNCHANGED vars
      PROVE  UNCHANGED <<rows, news>>
  <2>1. ASSUME NEW h \in Handlers, ServeRequest(h) \/ PublishFails(h)
        PROVE  UNCHANGED <<rows, news>>
    BY <2>1 DEF ServeRequest, ImportArtist, ImportRefused, Recompute, CommitFollow,
                DeadlockAbort, ReadFollowed, PublishTaste, PublishFails, events, history
  <2>2. ASSUME NEW h \in Handlers, NEW u \in Users, NewRequest(h, u)
        PROVE  UNCHANGED <<rows, news>>
    BY <2>2 DEF NewRequest, CreateFollow, DeleteFollow, StartImport, UpdateArea, events, history
  <2>3. ASSUME \/ \E u \in Users, e \in Shows : DismissEvent(u, e)
               \/ \E e \in Shows : SendOn(e, TRUE) \/ SendOn(e, FALSE)
               \/ \E a \in Artists : EmbedArtist(a)
        PROVE  UNCHANGED <<rows, news>>
    BY <2>3 DEF DismissEvent, SendOn, EmbedArtist, events, history
  <2>4. ASSUME Consume \/ GatewayCrash \/ MatcherCrash \/ UNCHANGED vars
        PROVE  UNCHANGED <<rows, news>>
    BY <2>4 DEF Consume, ReadEnriched, ReadTaste, PublishMatch, CommitMessage, GatewayCrash,
                MatcherCrash, events, history, vars
  <2> QED
    BY <1>6, <2>1, <2>2, <2>3, <2>4
<1> QED
  BY <1>2, <1>3, <1>4, <1>5, <1>6 DEF Next, ListingChanges

\* Every step keeps every pair within its budget.
LEMMA BudgetStep ==
  TypeOK /\ TypeOK' /\ MatcherOK /\ NewsListed /\ Budget /\ [Next]_vars => Budget'
<1> SUFFICES ASSUME TypeOK, TypeOK', MatcherOK, NewsListed, Budget, [Next]_vars PROVE Budget'
  OBVIOUS
<1>1. ASSUME NEW h \in Handlers, NEW u \in Users, NewRequest(h, u) PROVE Budget'
  BY <1>1, NewRequestBudget
<1>2. ASSUME NEW h \in Handlers, ServeRequest(h) PROVE Budget'
  <2>1. CASE PublishTaste(h)
    BY <2>1, PublishTasteBudget
  <2>2. CASE CommitFollow(h)
    <3> DEFINE r == handler[h]
               written == r.add \cup r.del
    <3>1. /\ UNCHANGED <<topics, matcher, proposals, news, requests, faults>>
          /\ handler' = [g \in Handlers |->
                           IF g = h THEN [Idle EXCEPT !.at = "publish", !.user = r.user,
                                                      !.artists = r.artists]
                           ELSE Overtake(handler[g], {r.user}, written)]
      BY <2>2 DEF CommitFollow, bounds
    <3>2. handler'[h].user = r.user
      BY <3>1 DEF Idle
    <3>4. written \in SUBSET Artists
      BY DEF TypeOK, Requests
    <3> HIDE DEF written
    <3>3. ASSUME NEW g \in Handlers \ {h} PROVE handler'[g].user = handler[g].user
      <4>1. handler'[g] = Overtake(handler[g], {r.user}, written) /\ handler[g] \in Requests
        BY <3>1 DEF TypeOK
      <4> QED
        BY <3>4, <4>1, OvertakenRequest
    <3> QED
      BY <3>1, <3>2, <3>3, NoNewRequest
  <2>3. ASSUME \/ \E a \in Artists : ImportArtist(h, a)
               \/ ImportRefused(h) \/ Recompute(h) \/ DeadlockAbort(h) \/ ReadFollowed(h)
        PROVE  Budget'
    <3>1. UNCHANGED <<topics, matcher, proposals, news, requests, faults>>
          /\ \A g \in Handlers \ {h} : handler'[g] = handler[g]
      BY <2>3 DEF ImportArtist, ImportRefused, Recompute, DeadlockAbort, ReadFollowed, TypeOK,
                  history, bounds
    <3>2. handler[h] \in Requests /\ handler \in [Handlers -> Requests]
      BY DEF TypeOK
    <3>3. handler'[h].user \in {handler[h].user, NoUser}
      <4>1. ASSUME NEW a \in Artists, ImportArtist(h, a) PROVE handler'[h].user = handler[h].user
        BY <3>2, <4>1 DEF ImportArtist, Requests
      <4>2. ASSUME Recompute(h) PROVE handler'[h].user = handler[h].user
        BY <3>2, <4>2 DEF Recompute, Requests
      <4>3. ASSUME ImportRefused(h) \/ DeadlockAbort(h) PROVE handler'[h].user = NoUser
        BY <3>2, <4>3, IdleRequest DEF ImportRefused, DeadlockAbort
      <4>4. ASSUME ReadFollowed(h) PROVE handler'[h].user \in {handler[h].user, NoUser}
        BY <3>2, <4>4, IdleRequest DEF ReadFollowed, Requests
      <4> QED
        BY <2>3, <4>1, <4>2, <4>3, <4>4
    <3> QED
      BY <3>1, <3>3, NoNewRequest
  <2> QED
    BY <1>2, <2>1, <2>2, <2>3 DEF ServeRequest
<1>3. ASSUME (\E h \in Handlers : PublishFails(h)) \/ GatewayCrash PROVE Budget'
  <2>1. UNCHANGED <<topics, matcher, proposals, news, requests>> /\ faults' = faults + 1
    BY <1>3 DEF PublishFails, GatewayCrash
  <2>2. \A g \in Handlers : handler'[g] \in {handler[g], Idle}
    BY <1>3 DEF PublishFails, GatewayCrash, TypeOK
  <2>3. \A g \in Handlers : handler'[g].user \in {handler[g].user, NoUser}
    BY <2>2, IdleRequest
  <2> QED
    BY <2>1, <2>3, NoNewRequest
<1>4. ASSUME NEW u \in Users, NEW e \in Shows, DismissEvent(u, e) PROVE Budget'
  <2>1. UNCHANGED <<topics, matcher, proposals, news, handler, faults>> /\ requests' = requests + 1
    BY <1>4 DEF DismissEvent, history
  <2> QED
    BY <2>1, NoNewRequest
<1>5. ASSUME NEW e \in Shows, ListingChanges(e) \/ SendOn(e, FALSE) PROVE Budget'
  <2>1. ASSUME NEW row \in ListedRows, ListShow(e, row) \/ LoseAnnouncement(e, row) PROVE Budget'
    BY <2>1, ListingBudget
  <2>2. CASE ShowStarts(e)
    <3>1. UNCHANGED <<topics, matcher, proposals, news, handler, requests, faults>>
      BY <2>2 DEF ShowStarts, history
    <3> QED
      BY <3>1, NoNewRequest
  <2>3. ASSUME SendOn(e, TRUE) \/ SendOn(e, FALSE) PROVE Budget'
    BY <2>3, SendOnBudget
  <2> QED
    BY <1>5, <2>1, <2>2, <2>3 DEF ListingChanges
<1>6. CASE \/ \E s, c \in Artists : MergeArtist(s, c)
           \/ \E a \in Artists : EmbedArtist(a)
  <2>1. UNCHANGED <<topics, matcher, proposals, news, requests, faults>>
    BY <1>6 DEF MergeArtist, EmbedArtist, bounds
  <2>0. PICK users : \E artists \in SUBSET Artists :
          handler' = [h \in Handlers |-> Overtake(handler[h], users, artists)]
    BY <1>6, OvertakingSteps
  <2>3. PICK artists \in SUBSET Artists :
          handler' = [h \in Handlers |-> Overtake(handler[h], users, artists)]
    BY <2>0
  <2>2. ASSUME NEW g \in Handlers PROVE handler'[g].user = handler[g].user
    <3>1. handler'[g] = Overtake(handler[g], users, artists) /\ handler[g] \in Requests
      BY <2>3 DEF TypeOK
    <3> QED
      BY <3>1, OvertakenRequest
  <2> QED
    BY <2>1, <2>2, NoNewRequest
<1>7. CASE Consume
  <2>1. ASSUME (\E e \in Shows : ReadEnriched(e)) \/ (\E u \in Users : ReadTaste(u)) PROVE Budget'
    <3>1. /\ matcher.at = "poll"
          /\ UNCHANGED <<handler, topics, proposals, news, requests, faults>>
      BY <2>1 DEF ReadEnriched, ReadTaste, history, bounds
    <3> QED
      BY <3>1, ReadBudget
  <2> QED
    BY <1>7, <2>1, PublishMatchBudget, CommitMessageBudget DEF Consume
<1>8. CASE MatcherCrash
  BY <1>8, MatcherCrashBudget
<1>9. CASE UNCHANGED vars
  <2>1. UNCHANGED <<topics, matcher, proposals, news, handler, requests, faults>>
    BY <1>9 DEF vars, history, bounds
  <2> QED
    BY <2>1, NoNewRequest
<1> QED
  BY <1>1, <1>2, <1>3, <1>4, <1>5, <1>6, <1>7, <1>8, <1>9 DEF Next

\* What the message in hand has spent, it still counts for.
LEMMA SpentCounts ==
  ASSUME TypeOK, MatcherOK, NEW p \in Found, Spent(p)
  PROVE  Announcing(p) + Asking(p) >= 1
<1>0. BudgetNats(p)
  BY BudgetTypes
<1>1. p[1] \in Users /\ p[2] \in Shows /\ enrichedQ[p[2]] \in Seq(BOOLEAN)
      /\ tasteQ[p[1]] \in Seq(SUBSET Artists)
  BY BudgetTypes
<1>2. Announcing(p) \in Nat /\ Asking(p) \in Nat
  BY <1>0 DEF BudgetNats, DebtNats
<1>a. matcher.at = "publish"
  BY <1>1, PollingHoldsNone DEF Spent, TypeOK
<1>3. CASE matcher.msg = p[1]
  <2>1. tasteQ[p[1]] # <<>>
    BY <1>1, <1>a, <1>3, InHandIsFirst
  <2>2. Len(tasteQ[p[1]]) > 0 /\ Len(tasteQ[p[1]]) \in Nat /\ Cardinality(RequestsOf(p[1])) \in Nat
    BY <1>1, <2>1, TailFacts, RequestsFinite
  <2>3. Asking(p) >= 1
    BY <2>2 DEF Asking
  <2> QED
    BY <1>2, <2>3
<1>4. CASE matcher.msg = p[2] /\ Head(enrichedQ[p[2]])
  <2>1. enrichedQ[p[2]] # <<>>
    BY <1>1, <1>a, <1>4, InHandIsFirst
  <2>2. Bit(Head(enrichedQ[p[2]])) = 1
    BY <1>4 DEF Bit
  <2>3. Cardinality(Trues(enrichedQ[p[2]])) = Cardinality(Trues(Tail(enrichedQ[p[2]]))) + 1
    BY <1>1, <2>1, <2>2, CountTail
  <2>4. Cardinality(Trues(Tail(enrichedQ[p[2]]))) \in Nat
    BY <1>1, <2>1, TailFacts, CountFinite
  <2>5. Cardinality(Trues(deduped[p[2]])) \in Nat
    BY <1>0 DEF BudgetNats, CountNats
  <2>6. Announcing(p) >= 1
    BY <2>3, <2>4, <2>5 DEF Announcing
  <2> QED
    BY <1>2, <2>6
<1> QED
  BY <1>3, <1>4 DEF Spent

\* Within the budget, a listing of a known show matches nobody.
LEMMA BudgetIsQuiet == TypeOK /\ MatcherOK /\ Budget => RescrapesStayQuiet
<1> SUFFICES ASSUME TypeOK, MatcherOK, Budget, NEW p \in Found
             PROVE  proposals[p] <= (IF p[2] \in news THEN 1 ELSE 0) + requests + faults
  BY DEF RescrapesStayQuiet, Occasions
<1>0. BudgetNats(p)
  BY BudgetTypes
<1>1. proposals[p] + (Announcing(p) + Asking(p)) <= Fresh(p) + Done(p) + Extra
  <2>1. Debt(p) <= Credit(p)
    BY DEF Budget, WithinBudget
  <2>2. Debt(p) = proposals[p] + (Announcing(p) + Asking(p))
    BY <1>0 DEF Debt, BudgetNats, DebtNats
  <2> QED
    BY <2>1, <2>2 DEF Credit
<1>2. Done(p) <= Announcing(p) + Asking(p)
  <2>1. CASE Spent(p)
    BY <2>1, SpentCounts DEF Done
  <2>2. CASE ~ Spent(p)
    <3>1. Done(p) = 0
      BY <2>2 DEF Done
    <3> QED
      BY <1>0, <3>1 DEF BudgetNats, DebtNats
  <2> QED
    BY <2>1, <2>2
<1>3. proposals[p] <= Fresh(p) + Extra
  <2> DEFINE coming == Announcing(p) + Asking(p)
  <2>1. coming \in Nat /\ proposals[p] \in Nat
    BY <1>0 DEF BudgetNats, DebtNats
  <2>2. proposals[p] + coming <= Fresh(p) + Done(p) + Extra /\ Done(p) <= coming
    BY <1>1, <1>2
  <2> HIDE DEF coming
  <2> QED
    BY <1>0, <2>1, <2>2 DEF BudgetNats, CreditNats
<1>4. (IF p[2] \in news THEN 1 ELSE 0) + requests + faults = Fresh(p) + Extra
  <2>1. requests \in Int /\ faults \in Int
    BY DEF TypeOK
  <2>2. Fresh(p) \in Int
    BY DEF Fresh
  <2>3. Fresh(p) + requests + faults = Fresh(p) + Extra
    BY <2>1, <2>2 DEF Extra
  <2> QED
    BY <2>3 DEF Fresh
<1> QED
  BY <1>3, <1>4

\* A row of the matcher's query, of which a user and a show have one for each headliner, is
\* published once for the show's announcement, at most once for each request, and once more
\* for each message handled twice: a listing of a show that is already known matches nobody,
\* however many headliners the show has (services/matcher/src/main.py:102).
THEOREM Quiet == Spec => []RescrapesStayQuiet
<1>1. Init => NewsListed /\ Budget
  <2> SUFFICES ASSUME Init PROVE NewsListed /\ Budget
    OBVIOUS
  <2>1. NewsListed
    BY DEF Init, NewsListed
  <2>2. ASSUME NEW p \in Found PROVE WithinBudget(p)
    <3>1. p[1] \in Users /\ p[2] \in Shows
      BY DEF Found
    <3>2. /\ deduped[p[2]] = <<>> /\ enrichedQ[p[2]] = <<>> /\ tasteQ[p[1]] = <<>>
          /\ proposals[p] = 0 /\ matcher = Polling /\ handler = [h \in Handlers |-> Idle]
          /\ news = {} /\ requests = 0 /\ faults = 0
      BY <3>1 DEF Init
    <3>3. Trues(<<>>) = {}
      BY DEF Trues
    <3>4. RequestsOf(p[1]) = {}
      BY <3>1, <3>2, IdleRequest, FollowsAssumption DEF RequestsOf, FollowsAssumption
    <3>5. Cardinality({}) = 0
      BY FS_EmptySet
    <3>6. Announcing(p) = 0
      <4>1. Trues(deduped[p[2]]) = {} /\ Trues(enrichedQ[p[2]]) = {}
        BY <3>2, <3>3
      <4>2. Announcing(p) = Cardinality({}) + Cardinality({})
        BY <4>1 DEF Announcing
      <4> QED
        BY <3>5, <4>2
    <3>7. Asking(p) = 0
      BY <3>2, <3>4, <3>5 DEF Asking
    <3>8. Debt(p) = 0
      BY <3>2, <3>6, <3>7 DEF Debt
    <3>9. Fresh(p) = 0 /\ Extra = 0 /\ Done(p) \in Nat
      BY <3>2 DEF Fresh, Extra, Done
    <3>10. Credit(p) >= 0
      BY <3>9 DEF Credit
    <3> QED
      BY <3>8, <3>10 DEF WithinBudget
  <2> QED
    BY <2>1, <2>2 DEF Budget
<1>2. TypeOK /\ TypeOK' /\ MatcherOK /\ NewsListed /\ Budget /\ [Next]_vars
        => (NewsListed /\ Budget)'
  BY NewsStep, BudgetStep
<1>3. TypeOK /\ MatcherOK /\ Budget => RescrapesStayQuiet
  BY BudgetIsQuiet
<1>4. Spec => [](TypeOK /\ MatcherOK)
  BY TypeCorrect
<1> QED
  BY <1>1, <1>2, <1>3, <1>4, PTL DEF Spec

=============================================================================
