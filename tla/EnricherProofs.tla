---------------------------- MODULE EnricherProofs ----------------------------
(***************************************************************************)
(* What holds of a merge for any users, shows, artists, searches and       *)
(* writers that come in between.                                           *)
(***************************************************************************)
EXTENDS Enricher, SequenceTheorems, TLAPS

USE EnricherAssumption

-----------------------------------------------------------------------------
(* Rows *)

\* A new row gets an id that was never given out, and changes no other row.
LEMMA NewRowIsNew ==
  ASSUME TypeOK, NEW i, NEW name \in Names, NEW spotifyId \in SpotifyIds \cup {NoId},
         NEW genres \in BOOLEAN, NewRow(i, name, spotifyId, genres)
  PROVE  /\ i \in Ids \ born /\ i \notin Rows
         /\ born' = born \cup {i}
         /\ artists' \in [Ids -> Artist \cup {NoArtist}]
         /\ \A j \in Ids : j # i => artists'[j] = artists[j]
         /\ ~artists'[i].embedded
         /\ Rows' = Rows \cup {i}
<1> DEFINE row == [name |-> name, mbid |-> NoId, spotifyId |-> spotifyId,
                   genres |-> genres, embedded |-> FALSE]
<1>1. i \in Ids \ born
  BY DEF NewRow
<1>2. row \in Artist /\ row # NoArtist /\ ~row.embedded
  <2>1. row \in Artist
    BY DEF Artist
  <2> QED
    BY <2>1 DEF EnricherAssumption
<1>3. artists' = [artists EXCEPT ![i] = row] /\ born' = born \cup {i}
  BY DEF NewRow
<1> HIDE DEF row
<1>4. artists' \in [Ids -> Artist \cup {NoArtist}] /\ artists'[i] = row
      /\ \A j \in Ids : j # i => artists'[j] = artists[j]
  BY <1>1, <1>2, <1>3 DEF TypeOK, TablesOK
<1> QED
  BY <1>1, <1>2, <1>3, <1>4 DEF TypeOK, TablesOK, Rows

\* What the import adds to a row it found: neither the row nor what is on it goes away.
LEMMA AttachedRow ==
  ASSUME TypeOK, NEW i \in Rows, NEW spotifyId \in SpotifyIds \cup {NoId},
         NEW genres \in BOOLEAN, artists' = AttachSpotify(i, spotifyId, genres)
  PROVE  /\ artists' \in [Ids -> Artist \cup {NoArtist}]
         /\ Rows' = Rows
         /\ \A j \in Rows : /\ artists'[j].mbid = artists[j].mbid
                            /\ artists[j].spotifyId # NoId => artists'[j].spotifyId # NoId
                            /\ artists'[j].embedded = artists[j].embedded
                            /\ artists[j].genres => artists'[j].genres
<1> DEFINE row == [artists[i] EXCEPT !.spotifyId = IF @ = NoId THEN spotifyId ELSE @,
                                     !.genres = @ \/ genres]
<1>1. i \in Ids /\ artists[i] \in Artist /\ artists \in [Ids -> Artist \cup {NoArtist}]
  BY DEF TypeOK, TablesOK, Rows
<1>2. artists' = [artists EXCEPT ![i] = row]
  BY <1>1 DEF AttachSpotify
<1>3. /\ row \in Artist /\ row # NoArtist
      /\ row.mbid = artists[i].mbid /\ row.embedded = artists[i].embedded
      /\ artists[i].spotifyId # NoId => row.spotifyId # NoId
      /\ artists[i].genres => row.genres
  BY <1>1 DEF Artist
<1> HIDE DEF row
<1>4. /\ artists' \in [Ids -> Artist \cup {NoArtist}] /\ artists'[i] = row
      /\ \A j \in Ids : j # i => artists'[j] = artists[j]
  BY <1>1, <1>2, <1>3
<1> QED
  BY <1>1, <1>3, <1>4 DEF Rows

\* What the enricher writes on a row that is there.
LEMMA FilledRow ==
  ASSUME TypeOK, EnrichArtist
  PROVE  /\ enricher.id \in Rows
         /\ artists' \in [Ids -> Artist \cup {NoArtist}]
         /\ Rows' = Rows
         /\ \A j \in Ids : j # enricher.id => artists'[j] = artists[j]
         /\ artists'[enricher.id] = Filled(artists[enricher.id])
<1>1. enricher.id \in Rows /\ enricher.id \in Ids
  BY DEF TypeOK, InHand, EnrichArtist, Rows
<1>2. artists[enricher.id] \in Artist /\ artists \in [Ids -> Artist \cup {NoArtist}]
  BY <1>1 DEF TypeOK, TablesOK, Rows
<1>3. /\ enricher.mbid \in Mbids \cup {NoId} /\ enricher.spotifyId \in SpotifyIds \cup {NoId}
      /\ enricher.genres \in BOOLEAN
  BY DEF TypeOK, ServicesOK
<1>4. Filled(artists[enricher.id]) \in Artist
  BY <1>2, <1>3 DEF Filled, Artist
<1>5. artists' = [artists EXCEPT ![enricher.id] = Filled(artists[enricher.id])]
  BY DEF EnrichArtist
<1>6. /\ artists' \in [Ids -> Artist \cup {NoArtist}]
      /\ \A j \in Ids : j # enricher.id => artists'[j] = artists[j]
      /\ artists'[enricher.id] = Filled(artists[enricher.id])
  BY <1>1, <1>2, <1>4, <1>5
<1> QED
  BY <1>1, <1>4, <1>6 DEF Rows
-----------------------------------------------------------------------------
(* The shape of the state *)

\* The fields of the record the enricher carries.
Hands ==
  [at : EnricherSteps, show : Shows \cup {NoShow}, id : Ids \cup {NoId},
   had : BOOLEAN, mbid : Mbids \cup {NoId}, spotifyId : SpotifyIds \cup {NoId},
   genres : BOOLEAN, canonical : Ids \cup {NoId},
   addLinks : SUBSET (Shows \X Ids), delLinks : SUBSET (Shows \X Ids),
   addFollows : SUBSET (Users \X Ids), delFollows : SUBSET (Users \X Ids)]

\* The parts of InHand about the enricher and about the other services.
EnricherInHand ==
  /\ enricher.at # "poll" =>
       enricher.show \in Shows /\ deduped[enricher.show] # <<>> /\ enricher.id \in Ids
  /\ enricher.at \notin {"poll", "publish", "commit"} => enricher.id \in Rows
  /\ enricher.at \in {"dropLineups", "relinkFollows", "dropFollows", "dropArtist"} =>
       enricher.canonical \in Rows \ {enricher.id}

OthersOK ==
  /\ deduper \in [show : Shows \cup {NoShow}, name : Names \cup {NoName},
                  id : Ids \cup {NoId}]
  /\ gateway \in [user : Users \cup {NoUser}, name : Names \cup {NoName},
                  id : Ids \cup {NoId}, byName : BOOLEAN]
  /\ deduper # NotLinking => deduper.show \in Shows /\ deduper.name \in Names
  /\ gateway # NotImporting => gateway.user \in Users /\ gateway.name \in Names

\* The type invariant in the parts that the steps disturb separately.
LEMMA TypeInParts ==
  /\ TypeOK <=> /\ TablesOK /\ enricher \in Hands /\ EnricherInHand /\ OthersOK
                /\ deduped \in [Shows -> Seq(Ids)] /\ enriched \subseteq Shows
                /\ late \subseteq Users \cup Shows /\ listings \in Nat /\ edits \in Nat
  /\ TypeOK' <=> /\ TablesOK' /\ (enricher \in Hands)' /\ EnricherInHand' /\ OthersOK'
                 /\ (deduped \in [Shows -> Seq(Ids)])' /\ (enriched \subseteq Shows)'
                 /\ (late \subseteq Users \cup Shows)'
                 /\ (listings \in Nat)' /\ (edits \in Nat)'
  BY Zenon DEF TypeOK, ServicesOK, InHand, Hands, EnricherInHand, OthersOK

\* A consumer with no message in hand and no transaction open.
LEMMA PollingOK ==
  Polling \in Hands /\ Polling.at = "poll" /\ NotLinking.id = NoId /\ NotImporting.id = NoId
  BY DEF Polling, Hands, EnricherSteps, NotLinking, NotImporting

\* The services other than the enricher keep the shape of the tables, and no row goes away.
LEMMA OthersKeepShape ==
  ASSUME TypeOK, Others
  PROVE  /\ TablesOK' /\ Rows \subseteq Rows' /\ OthersOK'
         /\ (deduped \in [Shows -> Seq(Ids)])'
         /\ \A s \in Shows : deduped[s] # <<>> => deduped'[s] # <<>>
         /\ UNCHANGED <<enricher, enriched>>
         /\ late' \subseteq Users \cup Shows
         /\ listings' \in Nat /\ edits' \in Nat
<1> DEFINE Shape == /\ TablesOK' /\ Rows \subseteq Rows' /\ OthersOK'
                    /\ (deduped \in [Shows -> Seq(Ids)])'
                    /\ \A s \in Shows : deduped[s] # <<>> => deduped'[s] # <<>>
                    /\ UNCHANGED <<enricher, enriched>>
                    /\ late' \subseteq Users \cup Shows
                    /\ listings' \in Nat /\ edits' \in Nat
<1> USE DEF tables, bounds
<1>0. TablesOK /\ OthersOK /\ deduped \in [Shows -> Seq(Ids)]
      /\ late \subseteq Users \cup Shows /\ listings \in Nat /\ edits \in Nat
  BY TypeInParts
<1>1. ASSUME NEW s \in Shows, NEW n \in Names, LookUpListed(s, n)
      PROVE  Shape
  BY <1>0, <1>1 DEF LookUpListed, TablesOK, OthersOK, Rows
<1>2. ASSUME NEW i \in Ids, NEW prune \in BOOLEAN, NEW genres \in BOOLEAN,
             LinkListed(i, prune, genres)
      PROVE  Shape
  <2>1. deduper.show \in Shows /\ deduper.name \in Names
    BY <1>0, <1>2 DEF LinkListed, OthersOK
  <2>2. /\ (artists \in [Ids -> Artist \cup {NoArtist}])' /\ born' \subseteq Ids
        /\ Rows' \subseteq born' /\ Rows \subseteq Rows'
    <3>1. CASE deduper.id = NoId
      <4>0. PICK name \in Names : name = deduper.name
        BY <2>1
      <4>1. NewRow(i, name, NoId, genres)
        BY <1>2, <3>1, <4>0 DEF LinkListed, NewRow
      <4>2. /\ i \in Ids /\ born' = born \cup {i} /\ Rows' = Rows \cup {i}
            /\ artists' \in [Ids -> Artist \cup {NoArtist}]
        BY <2>1, <4>1, NoId \in SpotifyIds \cup {NoId}, NewRowIsNew DEF NewRow
      <4> QED
        BY <1>0, <4>2 DEF TablesOK
    <3>2. CASE deduper.id # NoId
      BY <1>0, <1>2, <3>2 DEF LinkListed, TablesOK, Rows
    <3> QED
      BY <3>1, <3>2
  <2>3. links' \subseteq Shows \X Ids /\ follows' = follows
    BY <1>0, <1>2, <2>1 DEF LinkListed, TablesOK
  <2>4. Append(deduped[deduper.show], i) \in Seq(Ids)
        /\ Append(deduped[deduper.show], i) # <<>>
    BY <1>0, <2>1, AppendProperties
  <2>5. /\ (deduped \in [Shows -> Seq(Ids)])'
        /\ \A s \in Shows : deduped[s] # <<>> => deduped'[s] # <<>>
    BY <1>0, <1>2, <2>1, <2>4 DEF LinkListed
  <2>6. OthersOK' /\ UNCHANGED <<enricher, enriched>>
    BY <1>0, <1>2 DEF LinkListed, OthersOK, NotLinking
  <2>7. late' \subseteq Users \cup Shows /\ listings' \in Nat /\ edits' \in Nat
    BY <1>0, <1>2, <2>1 DEF LinkListed
  <2> QED
    BY <1>0, <2>2, <2>3, <2>5, <2>6, <2>7 DEF TablesOK
<1>3. CASE LinkFails
  BY <1>0, <1>3 DEF LinkFails, TablesOK, OthersOK, Rows, NotLinking
<1>4. ASSUME NEW u \in Users, NEW i \in Ids, CreateFollow(u, i) \/ DeleteFollow(u, i)
      PROVE  Shape
  BY <1>0, <1>4 DEF CreateFollow, InsertFollow, DeleteFollow, TablesOK, OthersOK, Rows
<1>5. ASSUME NEW u \in Users, NEW n \in Names, LookUpImported(u, n)
      PROVE  Shape
  BY <1>0, <1>5 DEF LookUpImported, TablesOK, OthersOK, Rows
<1>6. ASSUME NEW i \in Ids, NEW genres \in BOOLEAN, FinishImport(i, genres)
      PROVE  Shape
  <2>1. /\ gateway.user \in Users /\ gateway.name \in Names
        /\ SpotifyOf[gateway.name] \in SpotifyIds \cup {NoId}
    BY <1>0, <1>6 DEF FinishImport, OthersOK, EnricherAssumption
  <2>2. /\ (artists \in [Ids -> Artist \cup {NoArtist}])' /\ born' \subseteq Ids
        /\ Rows' \subseteq born' /\ Rows \subseteq Rows'
    <3>1. CASE gateway.id = NoId
      <4>0. PICK name \in Names : name = gateway.name
        BY <2>1
      <4>1. NewRow(i, name, SpotifyOf[name], genres)
        BY <1>6, <3>1, <4>0 DEF FinishImport, NewRow
      <4>2. /\ i \in Ids /\ born' = born \cup {i} /\ Rows' = Rows \cup {i}
            /\ artists' \in [Ids -> Artist \cup {NoArtist}]
        BY <2>1, <4>0, <4>1, NewRowIsNew DEF NewRow
      <4> QED
        BY <1>0, <4>2 DEF TablesOK
    <3>2. CASE gateway.id # NoId /\ gateway.byName
      <4>1. i \in Rows /\ artists' = AttachSpotify(i, SpotifyOf[gateway.name], genres)
            /\ born' = born
        BY <1>6, <3>2 DEF FinishImport, InsertFollow, MayInsert
      <4> QED
        BY <1>0, <2>1, <4>1, AttachedRow DEF TablesOK
    <3>3. CASE gateway.id # NoId /\ ~gateway.byName
      BY <1>0, <1>6, <3>3 DEF FinishImport, TablesOK, Rows
    <3> QED
      BY <3>1, <3>2, <3>3
  <2>3. follows' \subseteq Users \X Ids /\ links' = links
        /\ late' \subseteq Users \cup Shows
    BY <1>0, <1>6, <2>1 DEF FinishImport, InsertFollow, TablesOK
  <2>4. OthersOK' /\ UNCHANGED <<enricher, enriched, deduped, listings, edits>>
    BY <1>0, <1>6 DEF FinishImport, OthersOK, NotImporting
  <2> QED
    BY <1>0, <2>2, <2>3, <2>4 DEF TablesOK
<1>7. CASE ImportFails
  BY <1>0, <1>7 DEF ImportFails, TablesOK, OthersOK, Rows, NotImporting
<1> QED
  BY <1>1, <1>2, <1>3, <1>4, <1>5, <1>6, <1>7 DEF Others

\* A row goes away only when a merge commits, and then it is the stub.
LEMMA OnlyMergesDrop ==
  ASSUME TypeOK, [Next]_vars
  PROVE  \A i \in Rows \ Rows' : DropArtist /\ i = enricher.id
<1> USE DEF tables
<1>1. CASE Others
  BY <1>1, OthersKeepShape
<1>2. CASE EnrichArtist
  BY <1>2, FilledRow
<1>3. CASE DropArtist
  BY <1>3 DEF DropArtist, Rows, TypeOK, TablesOK
<1>4. CASE UNCHANGED artists
  BY <1>4 DEF Rows
<1>5. Others \/ EnrichArtist \/ DropArtist \/ UNCHANGED artists
  BY DEF Next, Consume, vars, FetchArtist, Search, EnrichClashes, RelinkLineups,
         DropLineups, RelinkFollows, DropFollows, DropRefused, PublishEnriched,
         CommitOffset, Crash
<1> QED
  BY <1>1, <1>2, <1>3, <1>4, <1>5

\* What the statements of a merge add and delete are links and follows.
LEMMA RepointedRows ==
  ASSUME NEW X, NEW rel \in SUBSET (X \X Ids), NEW stub \in Ids, NEW canonical \in Ids
  PROVE  /\ Repointed(rel, stub, canonical) \in SUBSET (X \X Ids)
         /\ RowsOf(rel, stub) \in SUBSET (X \X Ids)
  BY DEF Repointed, RowsOf

\* A step of the enricher that leaves the tables alone moves on with the same message.
LEMMA StepInHand ==
  ASSUME TypeOK, UNCHANGED <<tables, deduped, enriched, deduper, gateway, listings>>,
         edits' \in Nat, late' \subseteq Users \cup Shows,
         enricher' \in Hands, EnricherInHand'
  PROVE  TypeOK'
<1>1. /\ TablesOK /\ OthersOK /\ deduped \in [Shows -> Seq(Ids)] /\ enriched \subseteq Shows
      /\ listings \in Nat
  BY TypeInParts
<1>2. TablesOK' /\ OthersOK' /\ (deduped \in [Shows -> Seq(Ids)])'
      /\ (enriched \subseteq Shows)' /\ listings' \in Nat
  BY <1>1 DEF TablesOK, OthersOK, Rows, tables
<1> QED
  BY <1>2, TypeInParts

\* Every variable keeps its shape in every reachable state; the artist the enricher works
\* on and the canonical row of an open merge exist throughout, whatever the deduper and
\* the gateway do meanwhile.
THEOREM TypeCorrect == Spec => []TypeOK
<1>1. Init => TypeOK
  <2> SUFFICES ASSUME Init PROVE TypeOK
    OBVIOUS
  <2>1. TablesOK /\ EnricherInHand /\ OthersOK
    BY PollingOK DEF Init, TablesOK, EnricherInHand, OthersOK, Rows, NotLinking, NotImporting
  <2>2. deduped \in [Shows -> Seq(Ids)]
    BY DEF Init
  <2> QED
    BY <2>1, <2>2, PollingOK, TypeInParts DEF Init
<1>2. TypeOK /\ [Next]_vars => TypeOK'
  <2> SUFFICES ASSUME TypeOK, [Next]_vars PROVE TypeOK'
    OBVIOUS
  <2> USE DEF tables, bounds
  <2>0. /\ TablesOK /\ enricher \in Hands /\ EnricherInHand /\ OthersOK
        /\ deduped \in [Shows -> Seq(Ids)] /\ enriched \subseteq Shows
        /\ late \subseteq Users \cup Shows /\ listings \in Nat /\ edits \in Nat
    BY TypeInParts
  <2>1. CASE Others
    <3>1. EnricherInHand'
      BY <2>0, <2>1, OthersKeepShape DEF EnricherInHand
    <3> QED
      BY <2>0, <2>1, <3>1, OthersKeepShape, TypeInParts
  <2>2. ASSUME NEW s \in Shows, FetchArtist(s)
        PROVE  TypeOK'
    <3>1. Head(deduped[s]) \in Ids
      BY <2>0, <2>2, HeadTailProperties DEF FetchArtist
    <3>2. artists[Head(deduped[s])] # NoArtist =>
            Head(deduped[s]) \in Rows /\ artists[Head(deduped[s])] \in Artist
      BY <2>0, <3>1 DEF TablesOK, Rows
    <3>3. enricher' \in Hands
      BY ZenonT(30), <2>2, <3>1, <3>2 DEF FetchArtist, Polling, Hands, EnricherSteps, Artist
    <3>4. EnricherInHand'
      BY <2>2, <3>1, <3>2 DEF FetchArtist, Polling, EnricherInHand, Rows
    <3> QED
      BY <2>0, <2>2, <3>3, <3>4, StepInHand DEF FetchArtist
  <2>3. ASSUME NEW mbid \in Mbids \cup {NoId}, NEW spotifyId \in SpotifyIds \cup {NoId},
               NEW found \in BOOLEAN, Search(mbid, spotifyId, found)
        PROVE  TypeOK'
    <3>1. enricher' \in Hands /\ EnricherInHand'
      BY ZenonT(30), <2>0, <2>3 DEF Search, Hands, EnricherSteps, EnricherInHand, PickGenres, Rows
    <3> QED
      BY <2>0, <2>3, <3>1, StepInHand DEF Search
  <2>4. CASE EnrichArtist
    <3>1. enricher' \in Hands /\ EnricherInHand'
      BY <2>0, <2>4, FilledRow DEF EnrichArtist, Hands, EnricherSteps, EnricherInHand
    <3>2. TablesOK' /\ OthersOK'
      BY <2>0, <2>4, FilledRow DEF EnrichArtist, TablesOK, OthersOK
    <3> QED
      BY <2>0, <2>4, <3>1, <3>2, TypeInParts DEF EnrichArtist
  <2>5. CASE EnrichClashes \/ DropRefused \/ Crash
    <3>1. enricher' \in Hands /\ EnricherInHand'
      BY <2>5, PollingOK DEF EnrichClashes, DropRefused, Crash, EnricherInHand
    <3> QED
      BY <2>0, <2>5, <3>1, StepInHand DEF EnrichClashes, DropRefused, Crash
  <2>6. ASSUME NEW canonical \in Ids, RelinkLineups(canonical)
        PROVE  TypeOK'
    <3>1. canonical \in Rows \ {enricher.id} /\ enricher.id \in Ids /\ enricher.id \in Rows
      BY <2>0, <2>6 DEF RelinkLineups, Owners, EnricherInHand
    <3>2. Repointed(links, enricher.id, canonical) \in SUBSET (Shows \X Ids)
      BY <2>0, <3>1, RepointedRows DEF TablesOK
    <3>3. enricher' \in Hands /\ EnricherInHand'
      BY <2>0, <2>6, <3>1, <3>2
         DEF RelinkLineups, Hands, EnricherSteps, EnricherInHand, Rows
    <3> QED
      BY <2>0, <2>6, <3>3, StepInHand DEF RelinkLineups
  <2>7. CASE DropLineups \/ RelinkFollows \/ DropFollows
    <3>1. enricher.id \in Ids /\ enricher.canonical \in Ids
      BY <2>0, <2>7 DEF DropLineups, RelinkFollows, DropFollows, EnricherInHand, Rows
    <3>2. /\ RowsOf(links, enricher.id) \in SUBSET (Shows \X Ids)
          /\ RowsOf(follows, enricher.id) \in SUBSET (Users \X Ids)
          /\ Repointed(follows, enricher.id, enricher.canonical) \in SUBSET (Users \X Ids)
      BY <2>0, <3>1, RepointedRows DEF TablesOK
    <3>3. ASSUME DropLineups
          PROVE  enricher' \in Hands /\ EnricherInHand'
      BY <2>0, <3>2, <3>3 DEF DropLineups, Hands, EnricherSteps, EnricherInHand, Rows
    <3>4. ASSUME RelinkFollows
          PROVE  enricher' \in Hands /\ EnricherInHand'
      BY <2>0, <3>2, <3>4 DEF RelinkFollows, Hands, EnricherSteps, EnricherInHand, Rows
    <3>5. ASSUME DropFollows
          PROVE  enricher' \in Hands /\ EnricherInHand'
      BY <2>0, <3>2, <3>5 DEF DropFollows, Hands, EnricherSteps, EnricherInHand, Rows
    <3> QED
      BY <2>0, <2>7, <3>3, <3>4, <3>5, StepInHand DEF DropLineups, RelinkFollows, DropFollows
  <2>8. CASE DropArtist
    <3>1. enricher.id \in Ids /\ enricher.canonical \in Rows \ {enricher.id}
      BY <2>0, <2>8 DEF DropArtist, EnricherInHand, Rows
    <3>2. /\ enricher.addLinks \in SUBSET (Shows \X Ids)
          /\ enricher.addFollows \in SUBSET (Users \X Ids)
      BY <2>0 DEF Hands
    <3>3. TablesOK'
      BY <2>0, <2>8, <3>1, <3>2 DEF DropArtist, TablesOK, Rows
    <3>4. enricher' \in Hands /\ EnricherInHand'
      BY <2>0, <2>8, <3>1 DEF DropArtist, Hands, EnricherSteps, EnricherInHand
    <3> QED
      BY <2>0, <2>8, <3>3, <3>4, TypeInParts DEF DropArtist, OthersOK
  <2>9. CASE PublishEnriched
    <3>1. enricher' \in Hands /\ EnricherInHand' /\ enriched' \subseteq Shows
      BY <2>0, <2>9 DEF PublishEnriched, Hands, EnricherSteps, EnricherInHand
    <3>2. TablesOK' /\ OthersOK'
      BY <2>0, <2>9 DEF PublishEnriched, TablesOK, OthersOK, Rows
    <3> QED
      BY <2>0, <2>9, <3>1, <3>2, TypeInParts DEF PublishEnriched
  <2>10. CASE CommitOffset
    <3>1. enricher.show \in Shows /\ Tail(deduped[enricher.show]) \in Seq(Ids)
      BY <2>0, <2>10, HeadTailProperties DEF CommitOffset, EnricherInHand
    <3>2. (deduped \in [Shows -> Seq(Ids)])'
      BY <2>0, <2>10, <3>1 DEF CommitOffset
    <3>3. enricher' \in Hands /\ EnricherInHand'
      BY <2>10, PollingOK DEF CommitOffset, EnricherInHand
    <3>4. TablesOK' /\ OthersOK'
      BY <2>0, <2>10 DEF CommitOffset, TablesOK, OthersOK, Rows
    <3> QED
      BY <2>0, <2>10, <3>2, <3>3, <3>4, TypeInParts DEF CommitOffset
  <2>11. CASE UNCHANGED vars
    BY <2>0, <2>11, TypeInParts
       DEF vars, TablesOK, OthersOK, EnricherInHand, Hands, Rows
  <2> QED
    BY <2>1, <2>2, <2>3, <2>4, <2>5, <2>6, <2>7, <2>8, <2>9, <2>10, <2>11 DEF Next, Consume
<1> QED
  BY <1>1, <1>2, PTL DEF Spec
-----------------------------------------------------------------------------
(* A merge moves everything *)

\* What the other services do to the follows of the two rows of an open merge: they are
\* in the way of nothing it has deleted, and what it has copied already makes them late.
LEMMA FollowsEdited ==
  ASSUME TypeOK, Others
  PROVE  /\ late \subseteq late'
         /\ RowsOf(follows, enricher.id) \cap enricher.delFollows \subseteq follows'
         /\ \A u \in Users, i \in Ids :
              /\ OvertakesFollows(i)
              /\ u \notin late'
              => (<<u, i>> \in follows' <=> <<u, i>> \in follows)
<1> DEFINE Kept == /\ late \subseteq late'
                   /\ RowsOf(follows, enricher.id) \cap enricher.delFollows \subseteq follows'
                   /\ \A u \in Users, i \in Ids :
                        /\ OvertakesFollows(i)
                        /\ u \notin late'
                        => (<<u, i>> \in follows' <=> <<u, i>> \in follows)
<1> USE DEF tables
<1>1. ASSUME NEW v \in Users, NEW j \in Ids,
             InsertFollow(v, j) \/ (/\ follows' = follows \cup {<<v, j>>}
                                    /\ j \notin Rows /\ late' = late)
      PROVE  Kept
  <2>1. late \subseteq late' /\ follows \subseteq follows'
    BY <1>1 DEF InsertFollow
  <2>2. ASSUME NEW u \in Users, NEW i \in Ids, OvertakesFollows(i), u \notin late'
        PROVE  <<u, i>> \in follows' <=> <<u, i>> \in follows
    <3>1. i \in Rows
      BY <2>2 DEF OvertakesFollows, TypeOK, InHand
    <3> QED
      BY <1>1, <2>2, <3>1 DEF InsertFollow
  <2> QED
    BY <2>1, <2>2 DEF RowsOf
<1>2. ASSUME NEW v \in Users, NEW j \in Ids, DeleteFollow(v, j)
      PROVE  Kept
  <2>1. late \subseteq late' /\ follows' = follows \ {<<v, j>>}
        /\ <<v, j>> \notin enricher.delFollows
    BY <1>2 DEF DeleteFollow, MayDelete
  <2>2. ASSUME NEW u \in Users, NEW i \in Ids, OvertakesFollows(i), u \notin late'
        PROVE  <<u, i>> \in follows' <=> <<u, i>> \in follows
    BY <1>2, <2>1, <2>2 DEF DeleteFollow
  <2> QED
    BY <2>1, <2>2 DEF RowsOf
<1>3. ASSUME NEW i \in Ids, NEW genres \in BOOLEAN, FinishImport(i, genres)
      PROVE  Kept
  <2>1. PICK v \in Users : v = gateway.user
    BY <1>3 DEF FinishImport, TypeOK, InHand
  <2>2. CASE gateway.id = NoId
    <3>1. i \notin Rows
      BY <1>3, <2>2 DEF FinishImport, NewRow, TypeOK, TablesOK
    <3> QED
      BY <1>1, <1>3, <2>1, <2>2, <3>1 DEF FinishImport
  <2>3. CASE gateway.id # NoId
    <3>1. InsertFollow(v, i)
      BY <1>3, <2>1, <2>3 DEF FinishImport, InsertFollow, MayInsert
    <3> QED
      BY <1>1, <3>1
  <2> QED
    BY <2>2, <2>3
<1>4. ASSUME NEW u \in Users, NEW i \in Ids, CreateFollow(u, i)
      PROVE  Kept
  BY <1>1, <1>4 DEF CreateFollow
<1>5. CASE UNCHANGED follows /\ late \subseteq late'
  BY <1>5 DEF RowsOf
<1>6. ASSUME NEW i \in Ids, NEW prune \in BOOLEAN, NEW genres \in BOOLEAN,
             LinkListed(i, prune, genres)
      PROVE  UNCHANGED follows /\ late \subseteq late'
  BY <1>6 DEF LinkListed
<1> QED
  BY <1>2, <1>3, <1>4, <1>5, <1>6
     DEF Others, LookUpListed, LinkFails, LookUpImported, ImportFails

\* What the deduper does to the lineups of the two rows of an open merge.
LEMMA LinksEdited ==
  ASSUME TypeOK, Others
  PROVE  /\ RowsOf(links, enricher.id) \cap enricher.delLinks \subseteq links'
         /\ \A s \in Shows, i \in Ids :
              /\ OvertakesLinks(i)
              /\ s \notin late'
              => (<<s, i>> \in links' <=> <<s, i>> \in links)
<1> USE DEF tables
<1>1. ASSUME NEW i \in Ids, NEW prune \in BOOLEAN, NEW genres \in BOOLEAN,
             LinkListed(i, prune, genres)
      PROVE  /\ RowsOf(links, enricher.id) \cap enricher.delLinks \subseteq links'
             /\ \A s \in Shows, j \in Ids :
                  /\ OvertakesLinks(j)
                  /\ s \notin late'
                  => (<<s, j>> \in links' <=> <<s, j>> \in links)
  <2> DEFINE gone == Pruned(deduper.show, i, prune)
  <2>1. /\ links' = (links \ gone) \cup {<<deduper.show, i>>}
        /\ \A l \in gone : MayDelete(deduper.show, l[2])
        /\ <<deduper.show, i>> \notin links /\ OvertakesLinks(i) => deduper.show \in late'
        /\ (\E l \in gone : OvertakesLinks(l[2])) => deduper.show \in late'
    BY <1>1 DEF LinkListed
  <2>2. \A l \in gone : l = <<deduper.show, l[2]>> /\ l \in links
    BY DEF Pruned, TypeOK, TablesOK
  <2> HIDE DEF gone
  <2>3. RowsOf(links, enricher.id) \cap enricher.delLinks \subseteq links'
    BY <2>1, <2>2 DEF MayDelete, RowsOf
  <2>4. ASSUME NEW s \in Shows, NEW j \in Ids, OvertakesLinks(j), s \notin late'
        PROVE  <<s, j>> \in links' <=> <<s, j>> \in links
    <3>1. <<s, j>> \notin gone
      <4> SUFFICES ASSUME <<s, j>> \in gone
                   PROVE  FALSE
        OBVIOUS
      <4>1. s = deduper.show
        BY <2>2
      <4> QED
        BY <2>1, <2>4, <4>1
    <3>2. <<s, j>> = <<deduper.show, i>> => <<s, j>> \in links
      BY <2>1, <2>4
    <3> QED
      BY <2>1, <3>1, <3>2
  <2> QED
    BY <2>3, <2>4
<1>2. CASE UNCHANGED links
  BY <1>2 DEF RowsOf
<1> QED
  BY <1>1, <1>2 DEF Others, LookUpListed, LinkFails, CreateFollow, DeleteFollow,
     LookUpImported, FinishImport, ImportFails

\* The steps of a merge after it has found the canonical row.
Merging == {"dropLineups", "relinkFollows", "dropFollows", "dropArtist"}

\* An open merge has two different rows in hand.
LEMMA MergeInHand ==
  ASSUME TypeOK, enricher.at \in Merging
  PROVE  enricher.id \in Ids /\ enricher.canonical \in Ids
         /\ enricher.id # enricher.canonical
  BY DEF TypeOK, InHand, Rows, Merging

\* The other services leave the copies of an open merge as they should be.
LEMMA OthersKeepMerge ==
  ASSUME TypeOK, MergeInv, Others
  PROVE  MergeInv'
<1>1. UNCHANGED enricher /\ late \subseteq late'
  BY OthersKeepShape, FollowsEdited
<1>2. FollowsTracked'
  <2>1. ASSUME enricher.at = "dropFollows", NEW x \in Users, x \notin late'
        PROVE  <<x, enricher.canonical>> \in follows' \cup enricher.addFollows <=>
                 (<<x, enricher.id>> \in follows' \/ <<x, enricher.canonical>> \in follows')
    <3>1. /\ <<x, enricher.canonical>> \in follows \cup enricher.addFollows <=>
               (<<x, enricher.id>> \in follows \/ <<x, enricher.canonical>> \in follows)
      BY <1>1, <2>1 DEF MergeInv, FollowsTracked, Tracks
    <3>2. OvertakesFollows(enricher.id) /\ OvertakesFollows(enricher.canonical)
      BY <2>1 DEF OvertakesFollows
    <3> QED
      BY <2>1, <3>1, <3>2, MergeInHand, FollowsEdited DEF Merging
  <2>2. ASSUME enricher.at = "dropArtist", NEW x \in Users, x \notin late'
        PROVE  <<x, enricher.canonical>> \in follows' \cup enricher.addFollows <=>
                 (<<x, enricher.id>> \in enricher.delFollows
                    \/ <<x, enricher.canonical>> \in follows')
    <3>1. /\ <<x, enricher.canonical>> \in follows \cup enricher.addFollows <=>
               (<<x, enricher.id>> \in enricher.delFollows
                  \/ <<x, enricher.canonical>> \in follows)
      BY <1>1, <2>2 DEF MergeInv, FollowsTracked, Tracks
    <3>2. OvertakesFollows(enricher.canonical)
      BY <2>2 DEF OvertakesFollows
    <3> QED
      BY <2>2, <3>1, <3>2, MergeInHand, FollowsEdited DEF Merging
  <2> QED
    BY <1>1, <2>1, <2>2 DEF FollowsTracked, Tracks
<1>3. LineupsTracked'
  <2>1. ASSUME enricher.at = "dropLineups", NEW x \in Shows, x \notin late'
        PROVE  <<x, enricher.canonical>> \in links' \cup enricher.addLinks <=>
                 (<<x, enricher.id>> \in links' \/ <<x, enricher.canonical>> \in links')
    <3>1. /\ <<x, enricher.canonical>> \in links \cup enricher.addLinks <=>
               (<<x, enricher.id>> \in links \/ <<x, enricher.canonical>> \in links)
      BY <1>1, <2>1 DEF MergeInv, LineupsTracked, Tracks
    <3>2. OvertakesLinks(enricher.id) /\ OvertakesLinks(enricher.canonical)
      BY <2>1 DEF OvertakesLinks
    <3> QED
      BY <2>1, <3>1, <3>2, MergeInHand, LinksEdited DEF Merging
  <2>2. ASSUME enricher.at \in {"relinkFollows", "dropFollows", "dropArtist"},
               NEW x \in Shows, x \notin late'
        PROVE  <<x, enricher.canonical>> \in links' \cup enricher.addLinks <=>
                 (<<x, enricher.id>> \in enricher.delLinks
                    \/ <<x, enricher.canonical>> \in links')
    <3>1. /\ <<x, enricher.canonical>> \in links \cup enricher.addLinks <=>
               (<<x, enricher.id>> \in enricher.delLinks
                  \/ <<x, enricher.canonical>> \in links)
      BY <1>1, <2>2 DEF MergeInv, LineupsTracked, Tracks
    <3>2. OvertakesLinks(enricher.canonical)
      BY <2>2 DEF OvertakesLinks
    <3> QED
      BY <2>2, <3>1, <3>2, MergeInHand, LinksEdited DEF Merging
  <2> QED
    BY <1>1, <2>1, <2>2 DEF LineupsTracked, Tracks
<1>4. OpenRows'
  <2>1. /\ enricher.delLinks \subseteq RowsOf(links, enricher.id)
        /\ enricher.delFollows \subseteq RowsOf(follows, enricher.id)
    BY DEF MergeInv, OpenRows
  <2>2. /\ enricher.delLinks \subseteq RowsOf(links', enricher.id)
        /\ enricher.delFollows \subseteq RowsOf(follows', enricher.id)
    BY <2>1, FollowsEdited, LinksEdited DEF RowsOf
  <2> QED
    BY <1>1, <2>2 DEF MergeInv, OpenRows, RowsOf
<1> QED
  BY <1>2, <1>3, <1>4 DEF MergeInv

\* What a copying statement adds.
LEMMA RepointedTracks ==
  ASSUME NEW X, NEW rel \in SUBSET (X \X Ids), NEW stub \in Ids, NEW canonical \in Ids,
         NEW x \in X
  PROVE  /\ <<x, canonical>> \in rel \cup Repointed(rel, stub, canonical) <=>
              (<<x, stub>> \in rel \/ <<x, canonical>> \in rel)
         /\ \A r \in Repointed(rel, stub, canonical) : r[2] = canonical
  BY DEF Repointed, RowsOf

\* While a merge is open: what it has copied is what the stub had, and what it has
\* deleted is still there until it commits.
THEOREM MergeStaysOpen == Spec => []MergeInv
<1>1. Init => MergeInv
  BY DEF Init, Polling, MergeInv, FollowsTracked, LineupsTracked, OpenRows
<1>2. TypeOK /\ MergeInv /\ [Next]_vars => MergeInv'
  <2> SUFFICES ASSUME TypeOK, MergeInv, [Next]_vars PROVE MergeInv'
    OBVIOUS
  <2> USE DEF tables
  <2>0. /\ enricher \in Hands /\ links \in SUBSET (Shows \X Ids)
        /\ follows \in SUBSET (Users \X Ids)
    BY TypeInParts DEF TablesOK
  <2>1. CASE Others
    BY <2>1, OthersKeepMerge
  <2>2. ASSUME \/ \E s \in Shows : FetchArtist(s)
               \/ \E mbid \in Mbids \cup {NoId}, spotifyId \in SpotifyIds \cup {NoId},
                     found \in BOOLEAN : Search(mbid, spotifyId, found)
               \/ EnrichArtist \/ EnrichClashes \/ PublishEnriched \/ CommitOffset
               \/ DropRefused \/ Crash \/ DropArtist
        PROVE  MergeInv'
    <3> DEFINE Closed == /\ enricher'.at \notin Merging
                         /\ enricher'.addLinks = {} /\ enricher'.addFollows = {}
                         /\ enricher'.delLinks = {} /\ enricher'.delFollows = {}
    <3>1. Closed
      <4>1. ASSUME NEW s \in Shows, FetchArtist(s)
            PROVE  Closed
        BY <4>1 DEF FetchArtist, Polling, Merging
      <4>2. ASSUME NEW mbid \in Mbids \cup {NoId}, NEW spotifyId \in SpotifyIds \cup {NoId},
                   NEW found \in BOOLEAN, Search(mbid, spotifyId, found)
            PROVE  Closed
        BY <2>0, <4>2 DEF Search, Merging, MergeInv, OpenRows, Hands
      <4>3. ASSUME EnrichArtist \/ PublishEnriched
            PROVE  Closed
        BY <2>0, <4>3 DEF EnrichArtist, PublishEnriched, Merging, MergeInv, OpenRows, Hands
      <4>4. ASSUME EnrichClashes \/ CommitOffset \/ DropRefused \/ Crash
            PROVE  Closed
        BY <4>4 DEF EnrichClashes, CommitOffset, DropRefused, Crash, Polling, Merging
      <4>5. ASSUME DropArtist
            PROVE  Closed
        BY <2>0, <4>5 DEF DropArtist, Merging, Hands
      <4> QED
        BY <2>2, <4>1, <4>2, <4>3, <4>4, <4>5
    <3> QED
      BY <3>1 DEF MergeInv, FollowsTracked, LineupsTracked, OpenRows, Merging
  <2>3. ASSUME NEW canonical \in Ids, RelinkLineups(canonical)
        PROVE  MergeInv'
    <3>1. enricher.id \in Ids
      BY <2>3 DEF RelinkLineups, TypeOK, InHand
    <3>2. /\ enricher' = [enricher EXCEPT !.at = "dropLineups", !.canonical = canonical,
                            !.addLinks = Repointed(links, enricher.id, canonical)]
          /\ links' = links /\ follows' = follows
      BY <2>3 DEF RelinkLineups
    <3>3. /\ enricher'.at = "dropLineups" /\ enricher'.canonical = canonical
          /\ enricher'.id = enricher.id
          /\ enricher'.addLinks = Repointed(links, enricher.id, canonical)
          /\ enricher'.addFollows = {} /\ enricher'.delFollows = {} /\ enricher'.delLinks = {}
      BY <2>0, <2>3, <3>2 DEF RelinkLineups, Hands, MergeInv, OpenRows
    <3>4. \A x \in Shows :
            <<x, canonical>> \in links \cup Repointed(links, enricher.id, canonical) <=>
              (<<x, enricher.id>> \in links \/ <<x, canonical>> \in links)
      BY <2>0, <3>1, RepointedTracks
    <3>5. \A r \in Repointed(links, enricher.id, canonical) : r[2] = canonical
      BY DEF Repointed
    <3>6. FollowsTracked' /\ LineupsTracked'
      BY <3>2, <3>3, <3>4 DEF FollowsTracked, LineupsTracked, Tracks
    <3>7. OpenRows'
      BY <3>3, <3>5 DEF OpenRows
    <3> QED
      BY <3>6, <3>7 DEF MergeInv
  <2>4. ASSUME DropLineups
        PROVE  MergeInv'
    <3>1. /\ enricher'.at = "relinkFollows" /\ enricher'.canonical = enricher.canonical
          /\ enricher'.id = enricher.id /\ enricher'.addLinks = enricher.addLinks
          /\ enricher'.addFollows = {} /\ enricher'.delFollows = {}
          /\ enricher'.delLinks = RowsOf(links, enricher.id)
          /\ links' = links /\ follows' = follows /\ late' = late
      BY <2>0, <2>4 DEF DropLineups, Hands, MergeInv, OpenRows
    <3>2. \A x \in Shows \ late :
            <<x, enricher.canonical>> \in links \cup enricher.addLinks <=>
              (<<x, enricher.id>> \in links \/ <<x, enricher.canonical>> \in links)
      BY <2>4 DEF DropLineups, MergeInv, LineupsTracked, Tracks
    <3>3. \A x : <<x, enricher.id>> \in RowsOf(links, enricher.id) <=>
                   <<x, enricher.id>> \in links
      BY DEF RowsOf
    <3>4. FollowsTracked' /\ LineupsTracked'
      BY <3>1, <3>2, <3>3 DEF FollowsTracked, LineupsTracked, Tracks
    <3>5. OpenRows'
      BY <3>1 DEF OpenRows, MergeInv
    <3> QED
      BY <3>4, <3>5 DEF MergeInv
  <2>5. ASSUME RelinkFollows
        PROVE  MergeInv'
    <3>1. /\ enricher'.at = "dropFollows" /\ enricher'.canonical = enricher.canonical
          /\ enricher'.id = enricher.id /\ enricher'.addLinks = enricher.addLinks
          /\ enricher'.addFollows = Repointed(follows, enricher.id, enricher.canonical)
          /\ enricher'.delFollows = {} /\ enricher'.delLinks = enricher.delLinks
          /\ links' = links /\ follows' = follows /\ late' = late
      BY <2>0, <2>5 DEF RelinkFollows, Hands, MergeInv, OpenRows
    <3>2. enricher.id \in Ids /\ enricher.canonical \in Ids
      BY <2>5, MergeInHand DEF RelinkFollows, Merging
    <3>3. \A x \in Users :
            <<x, enricher.canonical>>
                \in follows \cup Repointed(follows, enricher.id, enricher.canonical) <=>
              (<<x, enricher.id>> \in follows \/ <<x, enricher.canonical>> \in follows)
      BY <2>0, <3>2, RepointedTracks
    <3>4. \A r \in Repointed(follows, enricher.id, enricher.canonical) :
            r[2] = enricher.canonical
      BY DEF Repointed
    <3>5. FollowsTracked' /\ LineupsTracked'
      BY <2>5, <3>1, <3>3
         DEF RelinkFollows, MergeInv, FollowsTracked, LineupsTracked, Tracks
    <3>6. OpenRows'
      BY <2>5, <3>1, <3>4 DEF RelinkFollows, OpenRows, MergeInv
    <3> QED
      BY <3>5, <3>6 DEF MergeInv
  <2>6. ASSUME DropFollows
        PROVE  MergeInv'
    <3>1. /\ enricher'.at = "dropArtist" /\ enricher'.canonical = enricher.canonical
          /\ enricher'.id = enricher.id /\ enricher'.addLinks = enricher.addLinks
          /\ enricher'.addFollows = enricher.addFollows
          /\ enricher'.delFollows = RowsOf(follows, enricher.id)
          /\ enricher'.delLinks = enricher.delLinks
          /\ links' = links /\ follows' = follows /\ late' = late
      BY <2>0, <2>6 DEF DropFollows, Hands
    <3>2. \A x : <<x, enricher.id>> \in RowsOf(follows, enricher.id) <=>
                   <<x, enricher.id>> \in follows
      BY DEF RowsOf
    <3>3. FollowsTracked' /\ LineupsTracked'
      BY <2>6, <3>1, <3>2
         DEF DropFollows, MergeInv, FollowsTracked, LineupsTracked, Tracks
    <3>4. OpenRows'
      BY <2>6, <3>1 DEF DropFollows, OpenRows, MergeInv
    <3> QED
      BY <3>3, <3>4 DEF MergeInv
  <2>7. CASE UNCHANGED vars
    BY <2>7 DEF vars, MergeInv, FollowsTracked, LineupsTracked, OpenRows, Tracks, RowsOf
  <2> QED
    BY <2>1, <2>2, <2>3, <2>4, <2>5, <2>6, <2>7 DEF Next, Consume
<1> QED
  BY <1>1, <1>2, TypeCorrect, PTL DEF Spec

\* What is known of the stub and the canonical row when a merge commits.
LEMMA MergeCommits ==
  ASSUME TypeOK, MergeInv, DropArtist
  PROVE  /\ enricher.id \in Ids /\ enricher.canonical \in Ids \ {enricher.id}
         /\ enricher.canonical \in Rows'
         /\ \A x \in Users \ late : Moved(follows, follows', enricher.id, enricher.canonical, {x})
         /\ \A x \in Shows \ late : Moved(links, links', enricher.id, enricher.canonical, {x})
<1>1. /\ enricher.at = "dropArtist" /\ References = {}
      /\ links' = (links \ enricher.delLinks) \cup enricher.addLinks
      /\ follows' = (follows \ enricher.delFollows) \cup enricher.addFollows
      /\ artists' = [artists EXCEPT ![enricher.id] = NoArtist]
  BY DEF DropArtist
<1>2. enricher.id \in Ids /\ enricher.canonical \in Ids \ {enricher.id}
      /\ enricher.canonical \in Rows
  BY <1>1, MergeInHand DEF Merging, TypeOK, InHand
<1>3. enricher.canonical \in Rows'
  BY <1>1, <1>2 DEF Rows, TypeOK, TablesOK
<1>4. /\ \A r \in enricher.addLinks : r[2] = enricher.canonical
      /\ \A r \in enricher.addFollows : r[2] = enricher.canonical
      /\ enricher.delLinks \subseteq RowsOf(links, enricher.id)
      /\ enricher.delFollows \subseteq RowsOf(follows, enricher.id)
      /\ RowsOf(links \ enricher.delLinks, enricher.id) = {}
      /\ RowsOf(follows \ enricher.delFollows, enricher.id) = {}
      /\ links \in SUBSET (Shows \X Ids) /\ follows \in SUBSET (Users \X Ids)
  BY <1>1 DEF MergeInv, OpenRows, References, TypeOK, TablesOK
<1>5. ASSUME NEW x \in Users \ late
      PROVE  Moved(follows, follows', enricher.id, enricher.canonical, {x})
  <2>1. <<x, enricher.canonical>> \in follows \cup enricher.addFollows <=>
          (<<x, enricher.id>> \in enricher.delFollows \/ <<x, enricher.canonical>> \in follows)
    BY <1>1 DEF MergeInv, FollowsTracked, Tracks
  <2>2. <<x, enricher.canonical>> \notin enricher.delFollows /\ <<x, enricher.id>> \notin enricher.addFollows
    BY <1>2, <1>4 DEF RowsOf
  <2>3. <<x, enricher.id>> \in follows <=> <<x, enricher.id>> \in enricher.delFollows
    BY <1>4 DEF RowsOf
  <2>4. /\ <<x, enricher.canonical>> \in follows' <=>
             (<<x, enricher.id>> \in follows \/ <<x, enricher.canonical>> \in follows)
        /\ <<x, enricher.id>> \notin follows'
    BY <1>1, <2>1, <2>2, <2>3
  <2> QED
    BY <2>4 DEF Moved
<1>6. ASSUME NEW x \in Shows \ late
      PROVE  Moved(links, links', enricher.id, enricher.canonical, {x})
  <2>1. <<x, enricher.canonical>> \in links \cup enricher.addLinks <=>
          (<<x, enricher.id>> \in enricher.delLinks \/ <<x, enricher.canonical>> \in links)
    BY <1>1 DEF MergeInv, LineupsTracked, Tracks
  <2>2. <<x, enricher.canonical>> \notin enricher.delLinks /\ <<x, enricher.id>> \notin enricher.addLinks
    BY <1>2, <1>4 DEF RowsOf
  <2>3. <<x, enricher.id>> \in links <=> <<x, enricher.id>> \in enricher.delLinks
    BY <1>4 DEF RowsOf
  <2>4. /\ <<x, enricher.canonical>> \in links' <=>
             (<<x, enricher.id>> \in links \/ <<x, enricher.canonical>> \in links)
        /\ <<x, enricher.id>> \notin links'
    BY <1>1, <2>1, <2>2, <2>3
  <2> QED
    BY <2>4 DEF Moved
<1> QED
  BY <1>2, <1>3, <1>5, <1>6

\* When an artist row disappears, the canonical row has exactly the followers of both,
\* except for users who followed or unfollowed one of them during the merge.
THEOREM FollowersMove == Spec => MergeMovesFollowers
<1>1. TypeOK /\ MergeInv /\ [Next]_vars =>
        [\A i \in Rows \ Rows' :
           /\ enricher.canonical \in Rows'
           /\ Moved(follows, follows', i, enricher.canonical, Users \ late)]_vars
  <2> SUFFICES ASSUME TypeOK, MergeInv, [Next]_vars, NEW i \in Rows \ Rows'
               PROVE  /\ enricher.canonical \in Rows'
                      /\ Moved(follows, follows', i, enricher.canonical, Users \ late)
    OBVIOUS
  <2>1. DropArtist /\ i = enricher.id
    BY OnlyMergesDrop
  <2> QED
    BY <2>1, MergeCommits DEF Moved
<1> QED
  BY <1>1, TypeCorrect, MergeStaysOpen, PTL DEF Spec, MergeMovesFollowers

\* When an artist row disappears, the canonical row is on exactly the bills of both,
\* except for shows listed with one of them during the merge.
THEOREM LineupsMove == Spec => MergeMovesLineups
<1>1. TypeOK /\ MergeInv /\ [Next]_vars =>
        [\A i \in Rows \ Rows' :
           Moved(links, links', i, enricher.canonical, Shows \ late)]_vars
  <2> SUFFICES ASSUME TypeOK, MergeInv, [Next]_vars, NEW i \in Rows \ Rows'
               PROVE  Moved(links, links', i, enricher.canonical, Shows \ late)
    OBVIOUS
  <2>1. DropArtist /\ i = enricher.id
    BY OnlyMergesDrop
  <2> QED
    BY <2>1, MergeCommits DEF Moved
<1> QED
  BY <1>1, TypeCorrect, MergeStaysOpen, PTL DEF Spec, MergeMovesLineups
-----------------------------------------------------------------------------
(* What was filled in stays *)

\* The other services keep what is on a row, except that an import adds genres and a
\* Spotify id; nobody but the enricher embeds an artist.
LEMMA OthersKeepRows ==
  ASSUME TypeOK, Others, NEW i \in Rows'
  PROVE  /\ i \in Rows =>
              /\ artists'[i].mbid = artists[i].mbid
              /\ artists[i].spotifyId # NoId => artists'[i].spotifyId # NoId
              /\ artists'[i].embedded = artists[i].embedded
              /\ artists[i].genres => artists'[i].genres
         /\ i \notin Rows => ~artists'[i].embedded
<1> DEFINE Kept == /\ i \in Rows =>
                        /\ artists'[i].mbid = artists[i].mbid
                        /\ artists[i].spotifyId # NoId => artists'[i].spotifyId # NoId
                        /\ artists'[i].embedded = artists[i].embedded
                        /\ artists[i].genres => artists'[i].genres
                   /\ i \notin Rows => ~artists'[i].embedded
<1> USE DEF tables
<1>0. i \in Ids
  BY DEF Rows
<1>1. ASSUME NEW j \in Ids, NEW prune \in BOOLEAN, NEW genres \in BOOLEAN,
             LinkListed(j, prune, genres)
      PROVE  Kept
  <2>1. CASE deduper.id = NoId
    <3>1. PICK name \in Names : name = deduper.name
      BY <1>1 DEF LinkListed, TypeOK, InHand
    <3>2. NewRow(j, name, NoId, genres)
      BY <1>1, <2>1, <3>1 DEF LinkListed, NewRow
    <3>3. /\ j \notin Rows /\ \A k \in Ids : k # j => artists'[k] = artists[k]
          /\ ~artists'[j].embedded /\ Rows' = Rows \cup {j}
      BY <3>2, NoId \in SpotifyIds \cup {NoId}, NewRowIsNew DEF NewRow
    <3> QED
      BY <1>0, <3>3
  <2>2. CASE deduper.id # NoId
    BY <1>1, <2>2 DEF LinkListed, Rows
  <2> QED
    BY <2>1, <2>2
<1>2. ASSUME NEW j \in Ids, NEW genres \in BOOLEAN, FinishImport(j, genres)
      PROVE  Kept
  <2>0. PICK name \in Names : name = gateway.name
    BY <1>2 DEF FinishImport, TypeOK, InHand
  <2>4. SpotifyOf[name] \in SpotifyIds \cup {NoId}
    BY DEF EnricherAssumption
  <2>1. CASE gateway.id = NoId
    <3>1. NewRow(j, name, SpotifyOf[name], genres)
      BY <1>2, <2>0, <2>1 DEF FinishImport, NewRow
    <3>2. /\ j \notin Rows /\ \A k \in Ids : k # j => artists'[k] = artists[k]
          /\ ~artists'[j].embedded /\ Rows' = Rows \cup {j}
      BY <2>4, <3>1, NewRowIsNew DEF NewRow
    <3> QED
      BY <1>0, <3>2
  <2>2. CASE gateway.id # NoId /\ gateway.byName
    <3>1. j \in Rows /\ artists' = AttachSpotify(j, SpotifyOf[name], genres)
      BY <1>2, <2>0, <2>2 DEF FinishImport, InsertFollow, MayInsert
    <3> QED
      BY <2>4, <3>1, AttachedRow
  <2>3. CASE gateway.id # NoId /\ ~gateway.byName
    BY <1>2, <2>3 DEF FinishImport, Rows
  <2> QED
    BY <2>1, <2>2, <2>3
<1>3. CASE UNCHANGED artists
  BY <1>3 DEF Rows
<1> QED
  BY <1>1, <1>2, <1>3 DEF Others, LookUpListed, LinkFails, CreateFollow, DeleteFollow,
     LookUpImported, ImportFails

\* The row the enricher searches for has no MusicBrainz id until it writes one; an embedded
\* row has genres, was read with them if the enricher is about to write it, and the genres
\* it is about to write include those it read.
THEOREM FillStaysSound == Spec => []FillInv
<1> DEFINE Embedded == \A i \in Rows : artists[i].embedded => artists[i].genres
           Working == {"search", "write", "embed"}
<1>1. Init => FillInv
  BY DEF Init, Polling, Rows, FillInv, GenresKept, IdsKept
<1>2. TypeOK /\ FillInv /\ [Next]_vars => FillInv'
  <2> SUFFICES ASSUME TypeOK, FillInv, [Next]_vars PROVE FillInv'
    OBVIOUS
  <2> USE DEF tables
  <2>0. /\ enricher \in Hands /\ (enricher.at \in Working => enricher.id \in Rows)
        /\ enricher.at # "poll" => enricher.id \in Ids
        /\ artists \in [Ids -> Artist \cup {NoArtist}]
    BY TypeInParts DEF EnricherInHand, TablesOK
  <2>1. CASE Others
    <3>1. enricher' = enricher /\ Rows \subseteq Rows'
      BY <2>1, OthersKeepShape
    <3>2. enricher.at \in Working =>
            /\ artists'[enricher.id].mbid = artists[enricher.id].mbid
            /\ artists'[enricher.id].embedded = artists[enricher.id].embedded
      BY <2>0, <2>1, <3>1, OthersKeepRows
    <3>3. Embedded'
      <4> SUFFICES ASSUME NEW i \in Rows', artists'[i].embedded
                   PROVE  artists'[i].genres
        OBVIOUS
      <4>1. i \in Rows /\ artists[i].embedded /\ (artists[i].genres => artists'[i].genres)
        BY <2>1, OthersKeepRows
      <4> QED
        BY <4>1 DEF FillInv, GenresKept
    <3> QED
      BY <3>1, <3>2, <3>3 DEF FillInv, GenresKept, IdsKept
  <2>2. CASE EnrichArtist
    <3>1. enricher'.at = "publish"
      BY <2>0, <2>2 DEF EnrichArtist, Hands
    <3>2. /\ Rows' = Rows /\ enricher.id \in Rows
          /\ \A j \in Ids : j # enricher.id => artists'[j] = artists[j]
          /\ artists'[enricher.id] = Filled(artists[enricher.id])
      BY <2>2, FilledRow
    <3>3. artists[enricher.id] \in Artist
      BY <2>0, <3>2 DEF Rows
    <3>4. /\ Filled(artists[enricher.id]).genres = enricher.genres
          /\ Filled(artists[enricher.id]).embedded
               = (artists[enricher.id].embedded \/ enricher.genres)
      BY <3>3 DEF Filled, Artist
    <3>5. artists[enricher.id].embedded => enricher.genres
      BY <2>2 DEF EnrichArtist, FillInv, GenresKept
    <3>6. Embedded'
      <4> SUFFICES ASSUME NEW i \in Rows', artists'[i].embedded
                   PROVE  artists'[i].genres
        OBVIOUS
      <4>1. CASE i = enricher.id
        BY <3>2, <3>4, <3>5, <4>1
      <4>2. CASE i # enricher.id
        BY <3>2, <4>2 DEF FillInv, GenresKept, Rows
      <4> QED
        BY <4>1, <4>2
    <3> QED
      BY <3>1, <3>6 DEF FillInv, GenresKept, IdsKept
  <2>3. CASE DropArtist
    <3>1. enricher'.at = "publish"
      BY <2>0, <2>3 DEF DropArtist, Hands
    <3>2. \A i \in Rows' : i \in Rows /\ artists'[i] = artists[i]
      BY <2>0, <2>3 DEF DropArtist, Rows
    <3>3. Embedded'
      BY <3>2 DEF FillInv, GenresKept
    <3> QED
      BY <3>1, <3>3 DEF FillInv, GenresKept, IdsKept
  <2>4. ASSUME UNCHANGED artists, enricher'.at \notin Working
        PROVE  FillInv'
    BY <2>4 DEF FillInv, GenresKept, IdsKept, Rows
  <2>5. ASSUME NEW s \in Shows, FetchArtist(s)
        PROVE  FillInv'
    <3> DEFINE a == Head(deduped[s])
    <3>1. UNCHANGED artists
      BY <2>5 DEF FetchArtist
    <3>2. CASE enricher'.at \in Working
      <4>1. /\ a \in Rows => artists[a] \in Artist
            /\ artists[a] # NoArtist => a \in Rows
        <5>1. a \in Ids
          BY <2>5, HeadTailProperties DEF FetchArtist, TypeOK
        <5> QED
          BY <2>0, <5>1 DEF Rows
      <4>2. /\ enricher'.id = a /\ artists[a] # NoArtist /\ enricher'.had = artists[a].genres
            /\ enricher'.at \in {"search", "embed"}
            /\ enricher'.at = "search" => artists[a].mbid = NoId
            /\ enricher'.at = "embed" => /\ enricher'.genres = artists[a].genres
                                          /\ enricher'.mbid = NoId /\ enricher'.spotifyId = NoId
        BY <2>5, <3>2 DEF FetchArtist, Polling
      <4> QED
        BY <3>1, <4>1, <4>2 DEF FillInv, GenresKept, IdsKept, Rows
    <3> QED
      BY <2>4, <3>1, <3>2
  <2>6. ASSUME NEW mbid \in Mbids \cup {NoId}, NEW spotifyId \in SpotifyIds \cup {NoId},
               NEW found \in BOOLEAN, Search(mbid, spotifyId, found)
        PROVE  FillInv'
    <3>1. /\ enricher.at = "search" /\ enricher'.at = "write" /\ UNCHANGED artists
          /\ enricher'.id = enricher.id /\ enricher'.had = enricher.had
          /\ enricher.had => enricher'.genres
      BY <2>0, <2>6 DEF Search, Hands, PickGenres
    <3> QED
      BY <3>1 DEF FillInv, GenresKept, IdsKept, Rows
  <2>7. CASE PublishEnriched \/ DropLineups \/ RelinkFollows \/ DropFollows
    <3>1. enricher'.at \notin Working /\ UNCHANGED artists
      BY ZenonT(30), <2>0, <2>7 DEF PublishEnriched, DropLineups, RelinkFollows, DropFollows,
                                    Hands
    <3> QED
      BY <2>4, <3>1
  <2>8. CASE EnrichClashes \/ CommitOffset \/ DropRefused \/ Crash
    BY <2>4, <2>8 DEF EnrichClashes, CommitOffset, DropRefused, Crash, Polling
  <2>9. ASSUME NEW canonical \in Ids, RelinkLineups(canonical)
        PROVE  FillInv'
    <3>1. enricher'.at = "dropLineups" /\ UNCHANGED artists
      BY <2>0, <2>9 DEF RelinkLineups, Hands
    <3> QED
      BY <2>4, <3>1
  <2>10. CASE UNCHANGED vars
    BY <2>10 DEF vars, FillInv, GenresKept, IdsKept, Rows
  <2> QED
    BY <2>1, <2>2, <2>3, <2>5, <2>6, <2>7, <2>8, <2>9, <2>10 DEF Next, Consume
<1> QED
  BY <1>1, <1>2, TypeCorrect, PTL DEF Spec

\* Nobody takes away a row's MusicBrainz id, its Spotify id, its embedding or the genres it
\* was embedded from, whatever the searches find and whoever writes to the row between the
\* enricher's read and its write.
THEOREM FilledInRemains == Spec => FilledInStays
<1> DEFINE Stays(i) ==
      /\ artists[i].mbid # NoId => artists'[i].mbid = artists[i].mbid
      /\ artists[i].spotifyId # NoId => artists'[i].spotifyId # NoId
      /\ artists[i].embedded => artists'[i].embedded /\ artists'[i].genres
<1>1. TypeOK /\ FillInv /\ [Next]_vars => [\A i \in Rows \cap Rows' : Stays(i)]_vars
  <2> SUFFICES ASSUME TypeOK, FillInv, [Next]_vars, NEW i \in Rows \cap Rows'
               PROVE  Stays(i)
    OBVIOUS
  <2> USE DEF tables
  <2>0. /\ i \in Ids /\ i \in Rows /\ artists[i] \in Artist
        /\ artists[i].embedded => artists[i].genres
    BY DEF Rows, TypeOK, TablesOK, FillInv, GenresKept
  <2>1. CASE Others
    BY <2>0, <2>1, OthersKeepRows
  <2>2. CASE EnrichArtist
    <3>1. CASE i = enricher.id
      <4>1. artists'[i] = Filled(artists[i])
        BY <2>2, <3>1, FilledRow
      <4>2. /\ enricher.at = "write" => artists[i].mbid = NoId
            /\ enricher.at = "embed" => enricher.mbid = NoId
            /\ enricher.at \in {"write", "embed"}
            /\ artists[i].embedded => enricher.genres
        BY <2>2, <3>1 DEF EnrichArtist, FillInv, GenresKept, IdsKept
      <4>3. /\ Filled(artists[i]).mbid
                 = IF enricher.mbid = NoId THEN artists[i].mbid ELSE enricher.mbid
            /\ Filled(artists[i]).spotifyId
                 = IF enricher.spotifyId = NoId THEN artists[i].spotifyId
                   ELSE enricher.spotifyId
            /\ Filled(artists[i]).genres = enricher.genres
            /\ Filled(artists[i]).embedded = (artists[i].embedded \/ enricher.genres)
        BY <2>0 DEF Filled, Artist
      <4> QED
        BY <2>0, <3>1, <4>1, <4>2, <4>3
    <3>2. CASE i # enricher.id
      BY <2>0, <2>2, <3>2, FilledRow
    <3> QED
      BY <3>1, <3>2
  <2>3. CASE DropArtist
    <3>1. i # enricher.id
      BY <2>0, <2>3 DEF DropArtist, Rows, TypeOK, TablesOK
    <3> QED
      BY <2>0, <2>3, <3>1 DEF DropArtist, TypeOK, TablesOK
  <2>4. CASE UNCHANGED artists
    BY <2>0, <2>4
  <2>5. Others \/ EnrichArtist \/ DropArtist \/ UNCHANGED artists
    BY DEF Next, Consume, vars, FetchArtist, Search, EnrichClashes, RelinkLineups,
           DropLineups, RelinkFollows, DropFollows, DropRefused, PublishEnriched,
           CommitOffset, Crash
  <2> QED
    BY <2>1, <2>2, <2>3, <2>4, <2>5
<1> QED
  BY <1>1, TypeCorrect, FillStaysSound, PTL DEF Spec, FilledInStays
=============================================================================
