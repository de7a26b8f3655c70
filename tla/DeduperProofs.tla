---------------------------- MODULE DeduperProofs ----------------------------
(***************************************************************************)
(* What holds of the deduper for any sources, listings, messages and       *)
(* crashes.                                                                *)
(***************************************************************************)
EXTENDS Deduper, Recursion, SequenceTheorems, TLAPS

USE DeduperAssumption DEF Steps

-----------------------------------------------------------------------------
(* Queues and lineups *)

\* A queue, what an arrival leaves at its head, and what a commit leaves of it.
LEMMA QueueFacts ==
  ASSUME NEW S, NEW s \in Seq(S)
  PROVE  /\ s # <<>> => Head(s) \in S /\ Tail(s) \in Seq(S)
         /\ \A x \in S : /\ Append(s, x) \in Seq(S) /\ Append(s, x) # <<>>
                         /\ s # <<>> => Head(Append(s, x)) = Head(s)
<1>1. s # <<>> => Head(s) \in S /\ Tail(s) \in Seq(S)
  BY HeadTailProperties
<1>2. ASSUME NEW x \in S
      PROVE  /\ Append(s, x) \in Seq(S) /\ Append(s, x) # <<>>
             /\ s # <<>> => Head(Append(s, x)) = Head(s)
  <2>1. Append(s, x) \in Seq(S) /\ Append(s, x) # <<>> /\ Len(Append(s, x)) = Len(s) + 1
    BY AppendProperties
  <2>2. ASSUME s # <<>>
        PROVE  Head(Append(s, x)) = Head(s)
    <3>1. Len(s) > 0 /\ Len(s) \in Nat
      BY <2>2, EmptySeq, LenProperties
    <3>2. Append(s, x)[1] = s[1]
      BY <3>1, AppendProperties
    <3> QED
      BY <3>2
  <2> QED
    BY <2>1, <2>2
<1> QED
  BY <1>1, <1>2

\* An artist on a lineup has a last place in it, and that place is a billing.
LEMMA BillingIsAPlace ==
  ASSUME NEW artists \in Seq(Artists), NEW a, OnBill(artists, a)
  PROVE  BillingIn(artists, a) \in Nat
<1> DEFINE places == {i \in DOMAIN artists : artists[i] = a}
           left == {Len(artists) - i : i \in places}
<1>1. DOMAIN artists = 1..Len(artists) /\ Len(artists) \in Nat
  BY LenProperties
<1>2. left \subseteq Nat /\ left # {}
  BY <1>1 DEF OnBill
<1>3. PICK d \in left : \A e \in left : ~ (e < d)
  <2> HIDE DEF left
  <2> QED
    BY <1>2, NatMin
<1>4. d \in left /\ \A e \in left : d <= e
  <2> HIDE DEF left
  <2>1. d \in Nat /\ \A e \in left : e \in Nat
    BY <1>2
  <2> QED
    BY <1>3, <2>1
<1>5. PICK i \in places : d = Len(artists) - i
  BY <1>4
<1>6. ASSUME NEW j \in places
      PROVE  j <= i
  <2>1. i \in Int /\ j \in Int /\ Len(artists) \in Int
    BY <1>1
  <2>2. d <= Len(artists) - j
    BY <1>4
  <2> QED
    BY ONLY <1>5, <2>1, <2>2
<1>7. \E k \in DOMAIN artists :
        artists[k] = a /\ \A j \in DOMAIN artists : artists[j] = a => j <= k
  BY <1>6
<1>8. BillingIn(artists, a) + 1 \in DOMAIN artists
  BY <1>1, <1>7 DEF BillingIn
<1> QED
  BY <1>1, <1>7 DEF BillingIn

\* What link_lineup leaves on the bill of a row.
LEMMA LinkedLineup ==
  ASSUME NEW old \in [Artists -> Nat \cup {Off}], NEW artists \in Seq(Artists),
         NEW prune \in BOOLEAN
  PROVE  /\ LinkLineup(old, artists, prune) \in [Artists -> Nat \cup {Off}]
         /\ \A a \in Artists :
              OnBill(artists, a) => LinkLineup(old, artists, prune)[a] # Off
         /\ artists = <<>> => LinkLineup(old, artists, prune) = old
<1>1. \A a \in Artists : OnBill(artists, a) => BillingIn(artists, a) \in Nat
  BY BillingIsAPlace
<1>2. artists = <<>> => \A a \in Artists : ~OnBill(artists, a)
  BY DEF OnBill
<1> QED
  BY <1>1, <1>2 DEF LinkLineup, Off
-----------------------------------------------------------------------------
(* The shape of the state *)

\* The venue a message resolves to is a known name.
LEMMA VenueIsKnown ==
  ASSUME TypeOK, NEW source \in Sources, NEW m \in Discovered
  PROVE  /\ VenueOf(source, m) \in VenueNames
         /\ WithVenueId(source, m)
              \in [VenueNames -> [Sources -> VenueIds \cup {NoVenueId}]]
<1>1. m.venueId \in VenueIds /\ m.venueName \in VenueNames
  BY DEF Discovered
<1> QED
  BY <1>1 DEF VenueOf, WithVenueId, TypeOK

\* The message at the head of a queue is a discovered listing, and its source exists.
LEMMA HeadIsDiscovered ==
  ASSUME TypeOK, NEW l \in Listings, discovered[l] # <<>>
  PROVE  /\ Head(discovered[l]) \in Discovered
         /\ SourceOf[l] \in Sources
<1>1. discovered[l] \in Seq(Discovered)
  BY DEF TypeOK
<1> QED
  BY <1>1, QueueFacts

\* Every variable keeps its shape in every reachable state: queues hold listings, rows
\* hold real statuses and venues, billings are places in a lineup, and the message in
\* hand is one a crash would deliver again.
THEOREM TypeCorrect == Spec => []TypeOK
<1>1. Init => TypeOK
  BY DEF Init, TypeOK, Idle
<1>2. TypeOK /\ [Next]_vars => TypeOK'
  <2> SUFFICES ASSUME TypeOK, [Next]_vars PROVE TypeOK'
    OBVIOUS
  <2> USE DEF tables, history
  <2>1. ASSUME NEW m \in Scrapes, Scrape(m)
        PROVE  TypeOK'
    <3>1. m \in Discovered /\ m.listing \in Listings
      BY DEF Discovered
    <3>2. /\ Append(discovered[m.listing], m) \in Seq(Discovered)
          /\ Append(discovered[m.listing], m) # <<>>
      <4>1. discovered[m.listing] \in Seq(Discovered)
        BY <3>1 DEF TypeOK
      <4> QED
        BY <3>1, <4>1, QueueFacts
    <3>3. /\ discovered' \in [Listings -> Seq(Discovered)]
          /\ \A l \in Listings : discovered[l] # <<>> => discovered'[l] # <<>>
      BY <2>1, <3>1, <3>2 DEF Scrape, TypeOK
    <3>4. UNCHANGED <<rows, lineup, venueIds, loop, announced, told, unannounced, untold,
                      moved, own, folded, faults>> /\ scrapes' \in Nat
      BY <2>1 DEF Scrape, TypeOK
    <3>5. loop.at # "poll" => loop.listing \in Listings /\ loop.row \in Listings
                              /\ discovered'[loop.listing] # <<>>
      BY <3>3 DEF TypeOK
    <3> QED
      BY <3>3, <3>4, <3>5 DEF TypeOK
  <2>2. ASSUME NEW l \in Listings, NEW r \in Listings, FoldIntoRow(l, r)
        PROVE  TypeOK'
    <3>1. Head(discovered[l]) \in Discovered /\ SourceOf[l] \in Sources
      BY <2>2, HeadIsDiscovered DEF FoldIntoRow
    <3> DEFINE m == Head(discovered[l])
    <3>2. m.artists \in Seq(Artists)
      BY <3>1 DEF Discovered
    <3>3. venueIds' \in [VenueNames -> [Sources -> VenueIds \cup {NoVenueId}]]
      BY <2>2, <3>1, VenueIsKnown DEF FoldIntoRow
    <3>4. LinkLineup(lineup[r], m.artists, FALSE) \in [Artists -> Nat \cup {Off}]
      BY <3>2, LinkedLineup DEF TypeOK
    <3>5. lineup' \in [Listings -> [Artists -> Nat \cup {Off}]]
      BY <2>2, <3>4 DEF FoldIntoRow, TypeOK
    <3>6. loop' \in [at : Steps, listing : Listings \cup {NoListing},
                     row : Listings \cup {NoListing}, isNew : BOOLEAN,
                     oldStatus : EventStatus \cup {NoStatus}]
          /\ loop'.listing = l /\ loop'.row = r /\ discovered'[l] # <<>>
      BY <2>2 DEF FoldIntoRow
    <3>7. folded' \subseteq Listings
      BY <2>2 DEF FoldIntoRow, TypeOK
    <3> QED
      BY <2>2, <3>3, <3>5, <3>6, <3>7 DEF FoldIntoRow, TypeOK
  <2>3. ASSUME NEW l \in Listings, UpsertRow(l)
        PROVE  TypeOK'
    <3>1. Head(discovered[l]) \in Discovered /\ SourceOf[l] \in Sources
      BY <2>3, HeadIsDiscovered DEF UpsertRow
    <3> DEFINE m == Head(discovered[l])
               new == [title |-> m.title, startsAt |-> m.startsAt,
                       venue |-> VenueOf(SourceOf[l], m), status |-> m.status]
    <3>2. m.artists \in Seq(Artists) /\ m.status \in EventStatus
      BY <3>1 DEF Discovered
    <3>3. venueIds' \in [VenueNames -> [Sources -> VenueIds \cup {NoVenueId}]]
      BY <2>3, <3>1, VenueIsKnown DEF UpsertRow
    <3>4. LinkLineup(lineup[l], m.artists, TRUE) \in [Artists -> Nat \cup {Off}]
      BY <3>2, LinkedLineup DEF TypeOK
    <3>5. lineup' \in [Listings -> [Artists -> Nat \cup {Off}]]
      BY <2>3, <3>4 DEF UpsertRow, TypeOK
    <3>6. new \in Row
      BY <3>1, VenueIsKnown DEF Row, Discovered
    <3>7. rows' \in [Listings -> Row \cup {NoRow}]
      BY <2>3, <3>6 DEF UpsertRow, TypeOK
    <3>8. OldStatus(l) \in EventStatus \cup {NoStatus} /\ IsNew(l) \in BOOLEAN
      BY DEF OldStatus, IsNew, TypeOK, Row
    <3>9. /\ loop' \in [at : Steps, listing : Listings \cup {NoListing},
                        row : Listings \cup {NoListing}, isNew : BOOLEAN,
                        oldStatus : EventStatus \cup {NoStatus}]
          /\ loop'.listing = l /\ loop'.row = l /\ discovered'[l] # <<>>
      BY <2>3, <3>8 DEF UpsertRow
    <3>10. own' \in [Listings -> Seq(Artists)]
      BY <2>3, <3>2 DEF UpsertRow, TypeOK
    <3>11. moved' \subseteq Listings /\ folded' \subseteq Listings
      BY <2>3 DEF UpsertRow, TypeOK
    <3> QED
      BY <2>3, <3>3, <3>5, <3>7, <3>9, <3>10, <3>11 DEF UpsertRow, TypeOK
  <2>4. CASE PublishDeduped
    <3>1. Head(discovered[loop.listing]).status \in EventStatus
      BY <2>4, HeadIsDiscovered DEF PublishDeduped, TypeOK, Discovered
    <3>2. announced' \in [Listings -> Nat] /\ told' \in [Listings -> EventStatus \cup {NoStatus}]
      <4>1. CASE loop.isNew
        <5>1. loop.row \in Listings /\ announced \in [Listings -> Nat]
              /\ told \in [Listings -> EventStatus \cup {NoStatus}]
          BY <2>4 DEF PublishDeduped, TypeOK
        <5>2. /\ announced' = [announced EXCEPT ![loop.row] = @ + 1]
              /\ told' = [told EXCEPT ![loop.row] = Head(discovered[loop.listing]).status]
          BY <2>4, <4>1 DEF PublishDeduped
        <5> QED
          BY <3>1, <5>1, <5>2
      <4>2. CASE ~loop.isNew
        BY <2>4, <4>2 DEF PublishDeduped, TypeOK
      <4> QED
        BY <4>1, <4>2
    <3> QED
      BY <2>4, <3>2 DEF PublishDeduped, TypeOK
  <2>5. CASE PublishStatusChanged
    <3>1. Head(discovered[loop.listing]).status \in EventStatus
      BY <2>5, HeadIsDiscovered DEF PublishStatusChanged, TypeOK, Discovered
    <3> QED
      BY <2>5, <3>1 DEF PublishStatusChanged, TypeOK
  <2>6. CASE CommitOffset
    <3>1. Tail(discovered[loop.listing]) \in Seq(Discovered)
      BY <2>6, QueueFacts DEF CommitOffset, TypeOK
    <3> QED
      BY <2>6, <3>1 DEF CommitOffset, TypeOK, Idle
  <2>7. CASE Crash
    BY <2>7 DEF Crash, TypeOK, Idle
  <2>8. CASE UNCHANGED vars
    BY <2>8 DEF vars, TypeOK
  <2> QED
    BY <2>1, <2>2, <2>3, <2>4, <2>5, <2>6, <2>7, <2>8 DEF Next, Consume
<1>3. QED
  BY <1>1, <1>2, PTL DEF Spec
-----------------------------------------------------------------------------
(* What the rest of the system is told *)

\* Every row is announced as new at most once; it is, and its status is followed,
\* unless a crash came between the transaction and the publish.
THEOREM AnnouncementsCorrect == Spec => []AnnounceInv
<1>1. Init => AnnounceInv
  BY DEF Init, AnnounceInv, AboutToAnnounce, LoopSpeaksForItsRow, AnnouncedRowsExist, AnnouncedAtMostOnce,
         NewShowsAnnounced, StatusFollowed, Unpublished, AboutToAnnounce, Idle
<1>2. TypeOK /\ AnnounceInv /\ [Next]_vars => AnnounceInv'
  <2> SUFFICES ASSUME TypeOK, AnnounceInv, [Next]_vars PROVE AnnounceInv'
    OBVIOUS
  <2> USE DEF tables, history, AnnounceInv
  <2>1. ASSUME NEW m \in Scrapes, Scrape(m)
        PROVE  AnnounceInv'
    <3>1. UNCHANGED <<rows, loop, announced, told, unannounced, untold>>
      BY <2>1 DEF Scrape
    <3>2. ASSUME Unpublished(loop.row)
          PROVE  Head(discovered'[loop.listing]) = Head(discovered[loop.listing])
      <4>1. loop.listing \in Listings /\ discovered[loop.listing] # <<>>
        BY <3>2 DEF Unpublished, TypeOK
      <4>2. discovered[loop.listing] \in Seq(Discovered) /\ m \in Discovered
        BY <4>1 DEF TypeOK
      <4>3. discovered'[loop.listing] \in {discovered[loop.listing], Append(discovered[loop.listing], m)}
        BY <2>1, <4>1 DEF Scrape, TypeOK
      <4> QED
        BY SMTT(30), <4>1, <4>2, <4>3, QueueFacts
    <3>3. LoopSpeaksForItsRow'
      BY <3>1, <3>2 DEF LoopSpeaksForItsRow, Unpublished
    <3>4. AnnouncedRowsExist' /\ AnnouncedAtMostOnce'
      BY <3>1 DEF AboutToAnnounce, AnnouncedRowsExist, AnnouncedAtMostOnce
    <3>5. NewShowsAnnounced' /\ StatusFollowed'
      BY <3>1 DEF NewShowsAnnounced, StatusFollowed, Unpublished, AboutToAnnounce
    <3> QED
      BY <3>3, <3>4, <3>5
  <2>2. ASSUME NEW l \in Listings, NEW r \in Listings, FoldIntoRow(l, r)
        PROVE  AnnounceInv'
    <3>1. /\ UNCHANGED <<discovered, rows, announced, told, unannounced, untold>>
          /\ loop.at = "poll"
          /\ loop' = [at |-> "publishDeduped", listing |-> l, row |-> r,
                      isNew |-> FALSE, oldStatus |-> NoStatus]
      BY <2>2 DEF FoldIntoRow
    <3>2. \A q : ~Unpublished(q) /\ ~Unpublished(q)'
      BY <3>1 DEF Unpublished
    <3>3. LoopSpeaksForItsRow'
      BY <3>1, <3>2 DEF LoopSpeaksForItsRow, Unpublished
    <3>4. AnnouncedRowsExist' /\ AnnouncedAtMostOnce'
      BY <3>1 DEF AboutToAnnounce, AnnouncedRowsExist, AnnouncedAtMostOnce
    <3>5. NewShowsAnnounced' /\ StatusFollowed'
      BY <3>1, <3>2 DEF NewShowsAnnounced, StatusFollowed, AboutToAnnounce, Idle
    <3> QED
      BY <3>3, <3>4, <3>5
  <2>3. ASSUME NEW l \in Listings, UpsertRow(l)
        PROVE  AnnounceInv'
    <3> DEFINE m == Head(discovered[l])
    <3>1. /\ UNCHANGED <<discovered, announced, told, unannounced, untold>>
          /\ loop.at = "poll"
          /\ loop'.at = "publishDeduped" /\ loop'.listing = l /\ loop'.row = l
          /\ loop'.isNew = IsNew(l)
          /\ loop'.oldStatus = IF StatusChanged(OldStatus(l), m.status)
                                 THEN OldStatus(l) ELSE NoStatus
      BY <2>3 DEF UpsertRow
    <3>2. /\ \A q \in Listings \ {l} : rows'[q] = rows[q]
          /\ rows'[l] # NoRow /\ rows'[l].status = m.status
      <4>1. m \in Discovered /\ SourceOf[l] \in Sources
        BY <2>3, HeadIsDiscovered DEF UpsertRow
      <4>2. [title |-> m.title, startsAt |-> m.startsAt,
             venue |-> VenueOf(SourceOf[l], m), status |-> m.status] \in Row
        BY <4>1, VenueIsKnown DEF Row, Discovered
      <4> QED
        BY <2>3, <4>2 DEF UpsertRow, TypeOK
    <3>3. IsNew(l) <=> rows[l] = NoRow
      BY DEF IsNew, OldStatus, TypeOK, Row
    <3>4. \A q : ~Unpublished(q)
      BY <3>1 DEF Unpublished
    <3>5. \A q \in Listings \ {l} : ~Unpublished(q)'
      BY <3>1 DEF Unpublished
    <3>6. LoopSpeaksForItsRow'
      BY <3>1, <3>2 DEF LoopSpeaksForItsRow, Unpublished, IsNew, StatusChanged
    <3>7. AnnouncedRowsExist' /\ AnnouncedAtMostOnce'
      BY <3>1, <3>2, <3>3 DEF AboutToAnnounce, AnnouncedRowsExist, AnnouncedAtMostOnce
    <3>8. NewShowsAnnounced'
      BY <3>1, <3>2, <3>3, <3>4 DEF NewShowsAnnounced, AboutToAnnounce
    <3>9. ASSUME ~Unpublished(l)'
          PROVE  \/ l \in unannounced \cup untold
                 \/ told[l] = m.status
                 \/ told[l] = "on_sale" /\ m.status = "announced"
      <4>1. rows[l] # NoRow /\ OldStatus(l) = rows[l].status /\ rows[l].status \in EventStatus
        BY <3>1, <3>3, <3>9 DEF Unpublished, OldStatus, TypeOK, Row
      <4>2. ~StatusChanged(rows[l].status, m.status)
        BY <3>1, <3>9, <4>1 DEF Unpublished, StatusChanged
      <4>3. \/ rows[l].status = m.status
            \/ rows[l].status = "on_sale" /\ m.status = "announced"
        BY <4>1, <4>2 DEF StatusChanged
      <4>4. \/ l \in unannounced \cup untold
            \/ told[l] = rows[l].status
            \/ told[l] = "on_sale" /\ rows[l].status = "announced"
        BY <3>4, <4>1 DEF StatusFollowed
      <4> QED
        BY <4>3, <4>4
    <3>10. StatusFollowed'
      BY <3>1, <3>2, <3>4, <3>9 DEF StatusFollowed
    <3> QED
      BY <3>6, <3>7, <3>8, <3>10
  <2>4. CASE PublishDeduped
    <3>1. /\ UNCHANGED <<discovered, rows, unannounced, untold>>
          /\ loop.row \in Listings /\ loop.at = "publishDeduped"
          /\ loop'.row = loop.row /\ loop'.listing = loop.listing
          /\ loop'.isNew = loop.isNew /\ loop'.oldStatus = loop.oldStatus
          /\ loop'.at = IF loop.oldStatus = NoStatus THEN "commit" ELSE "publishChange"
      BY <2>4 DEF PublishDeduped, TypeOK
    <3>2. /\ \A q \in Listings \ {loop.row} : announced'[q] = announced[q] /\ told'[q] = told[q]
          /\ loop.isNew => /\ announced'[loop.row] = announced[loop.row] + 1
                           /\ told'[loop.row] = Head(discovered[loop.listing]).status
          /\ ~loop.isNew => announced' = announced /\ told' = told
      BY <2>4, <3>1 DEF PublishDeduped, TypeOK
    <3>3. announced[loop.row] \in Nat /\ (loop.isNew => announced[loop.row] = 0)
      BY <3>1 DEF AboutToAnnounce, AnnouncedRowsExist, TypeOK
    <3>4. loop.isNew => /\ loop.oldStatus = NoStatus
                        /\ rows[loop.row] # NoRow
                        /\ rows[loop.row].status = Head(discovered[loop.listing]).status
      BY <3>1 DEF LoopSpeaksForItsRow, Unpublished
    <3>5. \A q : ~Unpublished(q)' => ~Unpublished(q) \/ (q = loop.row /\ loop.isNew)
      BY <3>1 DEF Unpublished
    <3>6. LoopSpeaksForItsRow'
      BY <3>1 DEF LoopSpeaksForItsRow, Unpublished
    <3>7. AnnouncedRowsExist'
      BY <3>1, <3>2, <3>4 DEF AboutToAnnounce, AnnouncedRowsExist
    <3>8. AnnouncedAtMostOnce'
      BY <3>2, <3>3 DEF AnnouncedAtMostOnce
    <3>9. NewShowsAnnounced'
      BY <3>1, <3>2, <3>3, <3>5 DEF NewShowsAnnounced, AboutToAnnounce
    <3>10. StatusFollowed'
      BY <3>1, <3>2, <3>4, <3>5 DEF StatusFollowed
    <3> QED
      BY <3>6, <3>7, <3>8, <3>9, <3>10
  <2>5. CASE PublishStatusChanged
    <3>1. /\ UNCHANGED <<discovered, rows, announced, unannounced>>
          /\ loop.row \in Listings /\ loop.at = "publishChange"
          /\ loop' = [loop EXCEPT !.at = "commit"]
          /\ untold' = untold \ {loop.row}
          /\ told'[loop.row] = Head(discovered[loop.listing]).status
          /\ \A q \in Listings \ {loop.row} : told'[q] = told[q]
      BY <2>5 DEF PublishStatusChanged, TypeOK
    <3>2. loop'.at = "commit" /\ loop'.isNew = loop.isNew /\ loop'.oldStatus = loop.oldStatus
      BY <3>1 DEF TypeOK
    <3>3. rows[loop.row].status = Head(discovered[loop.listing]).status
          /\ ~loop.isNew
      BY <3>1 DEF LoopSpeaksForItsRow, Unpublished
    <3>4. LoopSpeaksForItsRow'
      BY <3>2 DEF LoopSpeaksForItsRow, Unpublished
    <3>5. AnnouncedRowsExist' /\ AnnouncedAtMostOnce'
      BY <3>1, <3>2 DEF AboutToAnnounce, AnnouncedRowsExist, AnnouncedAtMostOnce
    <3>6. \A q : Unpublished(q) <=> q = loop.row
      BY <3>1 DEF Unpublished
    <3>8. NewShowsAnnounced'
      BY <3>1, <3>2 DEF NewShowsAnnounced, AboutToAnnounce
    <3>9. StatusFollowed'
      BY <3>1, <3>2, <3>3, <3>6 DEF StatusFollowed
    <3> QED
      BY <3>4, <3>5, <3>8, <3>9
  <2>6. CASE CommitOffset
    <3>1. /\ UNCHANGED <<rows, announced, told, unannounced, untold>>
          /\ loop' = Idle /\ loop.at = "commit"
      BY <2>6 DEF CommitOffset
    <3>2. \A q : ~Unpublished(q) /\ ~Unpublished(q)'
      BY <3>1 DEF Unpublished, Idle
    <3>3. LoopSpeaksForItsRow'
      BY <3>1, <3>2 DEF LoopSpeaksForItsRow, Unpublished, Idle
    <3>4. AnnouncedRowsExist' /\ AnnouncedAtMostOnce'
      BY <3>1 DEF AboutToAnnounce, AnnouncedRowsExist, AnnouncedAtMostOnce, Idle
    <3>5. NewShowsAnnounced' /\ StatusFollowed'
      BY <3>1, <3>2 DEF NewShowsAnnounced, StatusFollowed, AboutToAnnounce, Idle
    <3> QED
      BY <3>3, <3>4, <3>5
  <2>7. CASE Crash
    <3>1. /\ UNCHANGED <<rows, announced, told>>
          /\ loop' = Idle
          /\ unannounced \subseteq unannounced' /\ untold \subseteq untold'
      BY <2>7 DEF Crash
    <3>2. \A q : ~Unpublished(q)'
      BY <3>1 DEF Unpublished, Idle
    <3>3. \A q : Unpublished(q) => q \in unannounced' \cup untold'
      BY <2>7 DEF Crash, Unpublished, LoopSpeaksForItsRow
    <3>4. LoopSpeaksForItsRow'
      BY <3>1, <3>2 DEF LoopSpeaksForItsRow, Unpublished, Idle
    <3>5. AnnouncedRowsExist' /\ AnnouncedAtMostOnce'
      BY <3>1 DEF AboutToAnnounce, AnnouncedRowsExist, AnnouncedAtMostOnce, Idle
    <3>6. NewShowsAnnounced'
      BY <2>7 DEF Crash, NewShowsAnnounced, AboutToAnnounce
    <3>7. StatusFollowed'
      BY <3>1, <3>3 DEF StatusFollowed
    <3> QED
      BY <3>4, <3>5, <3>6, <3>7
  <2>8. CASE UNCHANGED vars
    <3> USE <2>8 DEF vars
    <3>1. LoopSpeaksForItsRow' /\ AnnouncedRowsExist' /\ AnnouncedAtMostOnce'
      BY DEF LoopSpeaksForItsRow, Unpublished, AboutToAnnounce, AnnouncedRowsExist, AnnouncedAtMostOnce
    <3>2. NewShowsAnnounced' /\ StatusFollowed'
      BY DEF NewShowsAnnounced, StatusFollowed, Unpublished, AboutToAnnounce
    <3> QED
      BY <3>1, <3>2
  <2> QED
    BY <2>1, <2>2, <2>3, <2>4, <2>5, <2>6, <2>7, <2>8 DEF Next, Consume
<1>3. QED
  BY <1>1, <1>2, TypeCorrect, PTL DEF Spec

\* A show is called new at most once, whatever is redelivered, listed again or folded.
THEOREM NewOnce == Spec => []AnnouncedAtMostOnce
<1>1. AnnounceInv => AnnouncedAtMostOnce
  BY DEF AnnounceInv
<1> QED
  BY <1>1, AnnouncementsCorrect, PTL

\* Every row in the table was called new, or a crash cut its announcement off.
THEOREM NewShowsAreAnnounced == Spec => []NewShowsAnnounced
<1>1. AnnounceInv => NewShowsAnnounced
  BY DEF AnnounceInv
<1> QED
  BY <1>1, AnnouncementsCorrect, PTL

\* Only a crash, or a sale that quietly ends, lets the status last published of a row
\* differ from the one in the table.
THEOREM StatusIsFollowed == Spec => []StatusFollowed
<1>1. AnnounceInv => StatusFollowed
  BY DEF AnnounceInv
<1> QED
  BY <1>1, AnnouncementsCorrect, PTL
-----------------------------------------------------------------------------
(* One show, one row *)

\* Being the same show is mutual.
LEMMA SameShowSymmetric ==
  ASSUME NEW x \in Row, NEW y \in Row,
         SameShow(x.title, x.startsAt, x.venue, y.title, y.startsAt, y.venue)
  PROVE  SameShow(y.title, y.startsAt, y.venue, x.title, x.startsAt, x.venue)
<1>1. /\ x.title \in Titles /\ y.title \in Titles
      /\ x.startsAt \in Nat /\ y.startsAt \in Nat
  BY DEF Row
<1>2. Similarity[x.title][y.title] = Similarity[y.title][x.title]
  BY <1>1
<1> QED
  BY <1>1, <1>2 DEF SameShow, Near

\* However many sources list a show, and in whatever order, it is in two rows only after
\* one of them moved: a new row is compared with every row of the other sources, and an
\* old one that stays put keeps the outcome.
THEOREM TwinsHaveMoved == Spec => []TwinsOnlyAfterMove
<1> DEFINE Twins(x, y) ==
      SameShow(x.title, x.startsAt, x.venue, y.title, y.startsAt, y.venue)
<1>1. Init => TwinsOnlyAfterMove
  BY DEF Init, TwinsOnlyAfterMove
<1>2. TypeOK /\ TwinsOnlyAfterMove /\ [Next]_vars => TwinsOnlyAfterMove'
  <2> SUFFICES ASSUME TypeOK, TwinsOnlyAfterMove, [Next]_vars PROVE TwinsOnlyAfterMove'
    OBVIOUS
  <2> USE DEF tables, history
  <2>1. ASSUME NEW l \in Listings, UpsertRow(l)
        PROVE  TwinsOnlyAfterMove'
    <3> DEFINE m == Head(discovered[l])
               new == [title |-> m.title, startsAt |-> m.startsAt,
                       venue |-> VenueOf(SourceOf[l], m), status |-> m.status]
    <3>1. m \in Discovered /\ SourceOf[l] \in Sources
      BY <2>1, HeadIsDiscovered DEF UpsertRow
    <3>2. new \in Row
      BY <3>1, VenueIsKnown DEF Row, Discovered
    <3>3. rows' = [rows EXCEPT ![l] = new] /\ moved \subseteq moved'
      BY <2>1 DEF UpsertRow
    <3>4. \A q \in Listings \ {l} : rows'[q] = rows[q]
      BY <3>3 DEF TypeOK
    <3>5. rows'[l] = new
      BY <3>3 DEF TypeOK
    <3>6. ASSUME NEW q \in Listings, q # l, SourceOf[q] # SourceOf[l], rows[q] # NoRow,
                 Twins(new, rows[q])
          PROVE  q \in moved' \/ l \in moved'
      <4>1. CASE rows[l] = NoRow
        <5>1. Candidates(SourceOf[l], m) = {}
          BY <2>1, <4>1 DEF UpsertRow
        <5>2. q \in Candidates(SourceOf[l], m)
          BY <3>6 DEF Candidates
        <5> QED
          BY <5>1, <5>2
      <4>2. CASE rows[l] # NoRow
        <5>1. CASE [rows[l] EXCEPT !.status = m.status] = new
          <6>1. rows[l] \in Row
            BY <4>2 DEF TypeOK
          <6>2. /\ rows[l].title = new.title /\ rows[l].startsAt = new.startsAt
                /\ rows[l].venue = new.venue
            BY <5>1, <6>1 DEF Row
          <6>3. Twins(rows[l], rows[q])
            BY <3>6, <6>2
          <6>4. q \in moved \/ l \in moved
            BY <3>6, <4>2, <6>3 DEF TwinsOnlyAfterMove
          <6> QED
            BY <3>3, <6>4
        <5>2. CASE [rows[l] EXCEPT !.status = m.status] # new
          BY <2>1, <4>2, <5>2 DEF UpsertRow
        <5> QED
          BY <5>1, <5>2
      <4> QED
        BY <4>1, <4>2
    <3>7. ASSUME NEW q \in Listings, NEW r \in Listings,
                 rows'[q] # NoRow, rows'[r] # NoRow, SourceOf[q] # SourceOf[r],
                 Twins(rows'[q], rows'[r])
          PROVE  q \in moved' \/ r \in moved'
      <4>1. CASE q = l
        BY <3>4, <3>5, <3>6, <3>7, <4>1
      <4>2. CASE r = l
        <5>1. q # l /\ rows'[q] = rows[q] /\ rows[q] # NoRow /\ rows[q] \in Row
          BY <3>4, <3>7, <4>2 DEF TypeOK
        <5>2. Twins(rows[q], new)
          BY <3>5, <3>7, <4>2, <5>1
        <5>3. Twins(new, rows[q])
          BY <3>2, <5>1, <5>2, SameShowSymmetric
        <5> QED
          BY <3>6, <3>7, <4>2, <5>1, <5>3
      <4>3. CASE q # l /\ r # l
        <5>1. rows'[q] = rows[q] /\ rows'[r] = rows[r]
          BY <3>4, <4>3
        <5>2. q \in moved \/ r \in moved
          BY <3>7, <5>1 DEF TwinsOnlyAfterMove
        <5> QED
          BY <3>3, <5>2
      <4> QED
        BY <4>1, <4>2, <4>3
    <3> QED
      BY <3>7 DEF TwinsOnlyAfterMove
  <2>2. ASSUME UNCHANGED <<rows, moved>>
        PROVE  TwinsOnlyAfterMove'
    BY <2>2 DEF TwinsOnlyAfterMove
  <2>3. ASSUME NEW m \in Scrapes, Scrape(m)
        PROVE  UNCHANGED <<rows, moved>>
    BY <2>3 DEF Scrape
  <2>4. ASSUME NEW l \in Listings, NEW r \in Listings, FoldIntoRow(l, r)
        PROVE  UNCHANGED <<rows, moved>>
    BY <2>4 DEF FoldIntoRow
  <2>5. PublishDeduped \/ PublishStatusChanged \/ CommitOffset \/ Crash \/ UNCHANGED vars
          => UNCHANGED <<rows, moved>>
    BY DEF PublishDeduped, PublishStatusChanged, CommitOffset, Crash, vars
  <2> QED
    BY <2>1, <2>2, <2>3, <2>4, <2>5 DEF Next, Consume
<1>3. QED
  BY <1>1, <1>2, TypeCorrect, PTL DEF Spec
-----------------------------------------------------------------------------
(* Who is on the bill *)

\* A row's lineup is the latest its own source named, and what other sources fold in
\* adds to it: nobody the source names is ever off the bill.
THEOREM LineupsFollowSources == Spec => []LineupFollowsSource
<1> DEFINE Bill(artists) ==
      [a \in Artists |-> IF OnBill(artists, a) THEN BillingIn(artists, a) ELSE Off]
<1>1. Init => LineupFollowsSource
  <2> SUFFICES ASSUME Init, NEW r \in Listings
               PROVE  /\ lineup[r] = Bill(own[r])
                      /\ \A a \in Artists : OnBill(own[r], a) => lineup[r][a] # Off
    BY DEF LineupFollowsSource
  <2>1. own[r] = <<>> /\ lineup[r] = [a \in Artists |-> Off]
    BY DEF Init
  <2>2. \A a \in Artists : ~OnBill(own[r], a)
    BY <2>1 DEF OnBill
  <2> QED
    BY <2>1, <2>2
<1>2. TypeOK /\ LineupFollowsSource /\ [Next]_vars => LineupFollowsSource'
  <2> SUFFICES ASSUME TypeOK, LineupFollowsSource, [Next]_vars PROVE LineupFollowsSource'
    OBVIOUS
  <2> USE DEF tables, history
  <2>1. ASSUME NEW l \in Listings, NEW r \in Listings, FoldIntoRow(l, r)
        PROVE  LineupFollowsSource'
    <3> DEFINE m == Head(discovered[l])
               linked == LinkLineup(lineup[r], m.artists, FALSE)
    <3>1. m.artists \in Seq(Artists)
      BY <2>1, HeadIsDiscovered DEF FoldIntoRow, Discovered
    <3>2. lineup[r] \in [Artists -> Nat \cup {Off}]
      BY DEF TypeOK
    <3>3. /\ \A a \in Artists : OnBill(m.artists, a) => linked[a] # Off
          /\ m.artists = <<>> => linked = lineup[r]
      BY <3>1, <3>2, LinkedLineup
    <3>4. \A a \in Artists : ~OnBill(m.artists, a) => linked[a] = lineup[r][a]
      BY DEF LinkLineup
    <3>5. /\ lineup' = [lineup EXCEPT ![r] = linked]
          /\ own' = own /\ folded \subseteq folded'
          /\ m.artists = <<>> \/ r \in folded'
      BY <2>1 DEF FoldIntoRow
    <3>6. lineup'[r] = linked /\ \A q \in Listings \ {r} : lineup'[q] = lineup[q]
      BY <3>5 DEF TypeOK
    <3> HIDE DEF linked
    <3>7. \A a \in Artists : OnBill(own[r], a) => lineup'[r][a] # Off
      <4> SUFFICES ASSUME NEW a \in Artists, OnBill(own[r], a)
                   PROVE  linked[a] # Off
        BY <3>6
      <4>1. lineup[r][a] # Off
        BY DEF LineupFollowsSource
      <4>2. CASE OnBill(m.artists, a)
        BY <3>3, <4>2
      <4>3. CASE ~OnBill(m.artists, a)
        BY <3>4, <4>1, <4>3
      <4> QED
        BY <4>2, <4>3
    <3>8. r \notin folded' => lineup'[r] = Bill(own[r])
      BY <3>3, <3>5, <3>6 DEF LineupFollowsSource
    <3>9. ASSUME NEW q \in Listings
          PROVE  /\ q \notin folded' => lineup'[q] = Bill(own[q])
                 /\ \A a \in Artists : OnBill(own[q], a) => lineup'[q][a] # Off
      <4>1. CASE q = r
        BY <3>7, <3>8, <4>1
      <4>2. CASE q # r
        BY <3>5, <3>6, <4>2 DEF LineupFollowsSource
      <4> QED
        BY <4>1, <4>2
    <3> QED
      BY <3>5, <3>9 DEF LineupFollowsSource
  <2>2. ASSUME NEW l \in Listings, UpsertRow(l)
        PROVE  LineupFollowsSource'
    <3> DEFINE m == Head(discovered[l])
               linked == LinkLineup(lineup[l], m.artists, TRUE)
    <3>1. m.artists \in Seq(Artists)
      BY <2>2, HeadIsDiscovered DEF UpsertRow, Discovered
    <3>2. lineup[l] \in [Artists -> Nat \cup {Off}]
      BY DEF TypeOK
    <3>3. /\ \A a \in Artists : OnBill(m.artists, a) => linked[a] # Off
          /\ m.artists = <<>> => linked = lineup[l]
      BY <3>1, <3>2, LinkedLineup
    <3>4. m.artists # <<>> => linked = Bill(m.artists)
      BY DEF LinkLineup
    <3>5. /\ lineup' = [lineup EXCEPT ![l] = linked]
          /\ m.artists = <<>> => own' = own /\ folded' = folded
          /\ m.artists # <<>> => /\ own' = [own EXCEPT ![l] = m.artists]
                                 /\ folded' = folded \ {l}
      BY <2>2 DEF UpsertRow
    <3>6. /\ lineup'[l] = linked
          /\ \A q \in Listings \ {l} : /\ lineup'[q] = lineup[q] /\ own'[q] = own[q]
                                       /\ q \in folded' <=> q \in folded
          /\ m.artists # <<>> => own'[l] = m.artists
      BY <3>5 DEF TypeOK
    <3> HIDE DEF linked
    <3>7. /\ l \notin folded' => lineup'[l] = Bill(own'[l])
          /\ \A a \in Artists : OnBill(own'[l], a) => lineup'[l][a] # Off
      <4>1. CASE m.artists = <<>>
        BY <3>3, <3>5, <3>6, <4>1 DEF LineupFollowsSource
      <4>2. CASE m.artists # <<>>
        BY <3>3, <3>4, <3>6, <4>2
      <4> QED
        BY <4>1, <4>2
    <3>8. ASSUME NEW q \in Listings
          PROVE  /\ q \notin folded' => lineup'[q] = Bill(own'[q])
                 /\ \A a \in Artists : OnBill(own'[q], a) => lineup'[q][a] # Off
      <4>1. CASE q = l
        BY <3>7, <4>1
      <4>2. CASE q # l
        BY <3>6, <4>2 DEF LineupFollowsSource
      <4> QED
        BY <4>1, <4>2
    <3> QED
      BY <3>8 DEF LineupFollowsSource
  <2>3. ASSUME UNCHANGED <<lineup, own, folded>>
        PROVE  LineupFollowsSource'
    BY <2>3 DEF LineupFollowsSource
  <2>4. ASSUME NEW m \in Scrapes, Scrape(m)
        PROVE  UNCHANGED <<lineup, own, folded>>
    BY <2>4 DEF Scrape
  <2>5. PublishDeduped \/ PublishStatusChanged \/ CommitOffset \/ Crash \/ UNCHANGED vars
          => UNCHANGED <<lineup, own, folded>>
    BY DEF PublishDeduped, PublishStatusChanged, CommitOffset, Crash, vars
  <2> QED
    BY <2>1, <2>2, <2>3, <2>4, <2>5 DEF Next, Consume
<1>3. QED
  BY <1>1, <1>2, TypeCorrect, PTL DEF Spec
=============================================================================
