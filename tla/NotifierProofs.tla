--------------------------- MODULE NotifierProofs ---------------------------
(***************************************************************************)
(* What holds of the notifier for any number of users, shows, messages,    *)
(* updates and failures.                                                   *)
(***************************************************************************)
EXTENDS Notifier, SequenceTheorems, TLAPS

USE NotifierAssumption DEF Pairs, ConsumerSteps, DigestSteps, Notification

\* Every variable keeps its shape in every reachable state, so the statements of
\* both loops always work on rows of known users and shows, and the message the
\* consumer works on is always one a crash would deliver again.
THEOREM TypeCorrect == Spec => []TypeOK
<1>1. Init => TypeOK
  <2> SUFFICES ASSUME Init PROVE TypeOK
    OBVIOUS
  <2> USE DEF Init
  <2>1. TablesOK
    BY DEF TablesOK, EventStatus, LiveStatuses
  <2>2. TopicsOK
    BY DEF TopicsOK, InHand
  <2>3. LoopsOK
    BY DEF LoopsOK, Polling, Asleep, NoNotices
  <2>4. HistoryOK /\ BoundsOK
    BY DEF HistoryOK, BoundsOK
  <2> QED
    BY <2>1, <2>2, <2>3, <2>4 DEF TypeOK
<1>2. TypeOK /\ [Next]_vars => TypeOK'
  <2> SUFFICES ASSUME TypeOK, [Next]_vars PROVE TypeOK'
    OBVIOUS
  <2> USE DEF TypeOK, world, tables, topics, history, bounds
  <2>1. ASSUME NEW e \in Shows, NEW s \in NewStatuses, UpsertShow(e, s)
        PROVE  TypeOK'
    <3> USE <2>1 DEF UpsertShow, Update
    <3>1. LoopsOK' /\ HistoryOK'
      BY DEF LoopsOK, HistoryOK
    <3>2. TablesOK'
      BY DEF TablesOK
    <3>3. TopicsOK'
      <4>1. changes' \in [Shows -> Seq(EventStatus)]
        BY DEF TopicsOK
      <4>2. \A d \in Shows : changes[d] # <<>> => changes'[d] # <<>>
        BY SMTT(30) DEF TopicsOK
      <4> QED
        BY <4>1, <4>2 DEF TopicsOK, InHand
    <3>4. BoundsOK'
      BY DEF BoundsOK
    <3> QED
      BY <3>1, <3>2, <3>3, <3>4
  <2>2. ASSUME NEW e \in Shows, ShowStarts(e)
        PROVE  TypeOK'
    <3> USE <2>2 DEF ShowStarts, Update
    <3>1. TopicsOK' /\ LoopsOK' /\ HistoryOK'
      BY DEF TopicsOK, LoopsOK, HistoryOK, InHand
    <3>2. TablesOK'
      BY DEF TablesOK
    <3>3. BoundsOK'
      BY DEF BoundsOK
    <3> QED
      BY <3>1, <3>2, <3>3
  <2>3. ASSUME NEW u \in Users, SetAlertEmail(u)
        PROVE  TypeOK'
    <3> USE <2>3 DEF SetAlertEmail, Update
    <3>1. TopicsOK' /\ LoopsOK' /\ HistoryOK'
      BY DEF TopicsOK, LoopsOK, HistoryOK, InHand
    <3>2. TablesOK'
      BY DEF TablesOK
    <3>3. BoundsOK'
      BY DEF BoundsOK
    <3> QED
      BY <3>1, <3>2, <3>3
  <2>4. ASSUME NEW u \in Users, NEW near \in SUBSET Shows, MoveHome(u, near)
        PROVE  TypeOK'
    <3> USE <2>4 DEF MoveHome, Update
    <3>1. TopicsOK' /\ LoopsOK' /\ HistoryOK'
      BY DEF TopicsOK, LoopsOK, HistoryOK, InHand
    <3>2. TablesOK'
      BY DEF TablesOK
    <3>3. BoundsOK'
      BY DEF BoundsOK
    <3> QED
      BY <3>1, <3>2, <3>3
  <2>5. ASSUME NEW u \in Users, NEW e \in Shows, DismissEvent(u, e)
        PROVE  TypeOK'
    <3> USE <2>5 DEF DismissEvent, Update
    <3>1. TopicsOK' /\ LoopsOK' /\ HistoryOK'
      BY DEF TopicsOK, LoopsOK, HistoryOK, InHand
    <3>2. TablesOK'
      BY DEF TablesOK
    <3>3. BoundsOK'
      BY DEF BoundsOK
    <3> QED
      BY <3>1, <3>2, <3>3
  <2>6. ASSUME NEW p \in Pairs, ProposeMatch(p)
        PROVE  TypeOK'
    <3> USE <2>6 DEF ProposeMatch
    <3>1. TablesOK' /\ LoopsOK' /\ HistoryOK'
      BY DEF TablesOK, LoopsOK, HistoryOK
    <3>2. TopicsOK'
      BY DEF TopicsOK, InHand
    <3>3. BoundsOK'
      BY DEF BoundsOK
    <3> QED
      BY <3>1, <3>2, <3>3
  <2>7. ASSUME NEW p \in Pairs, ReceiveMatch(p)
        PROVE  TypeOK'
    <3> USE <2>7 DEF ReceiveMatch
    <3>1. TablesOK' /\ HistoryOK' /\ BoundsOK'
      BY DEF TablesOK, HistoryOK, BoundsOK
    <3>2. TopicsOK'
      BY DEF TopicsOK, InHand, TablesOK
    <3>3. LoopsOK'
      BY DEF LoopsOK, TablesOK
    <3> QED
      BY <3>1, <3>2, <3>3
  <2>8. CASE CheckSent
    <3> USE <2>8 DEF CheckSent
    <3>1. TablesOK' /\ HistoryOK' /\ BoundsOK'
      BY DEF TablesOK, HistoryOK, BoundsOK
    <3>2. TopicsOK'
      BY DEF TopicsOK, InHand, AfterCheck, LoopsOK, Polling
    <3>3. LoopsOK'
      BY DEF LoopsOK, AfterCheck
    <3> QED
      BY <3>1, <3>2, <3>3
  <2>9. CASE QueueAlert
    <3> USE <2>9 DEF QueueAlert
    <3>1. HistoryOK' /\ BoundsOK'
      BY DEF HistoryOK, BoundsOK
    <3>2. TablesOK'
      BY DEF TablesOK, TopicsOK, InHand, Polling
    <3>3. TopicsOK'
      BY DEF TopicsOK, InHand, LoopsOK, Polling
    <3>4. LoopsOK'
      BY DEF LoopsOK
    <3> QED
      BY <3>1, <3>2, <3>3, <3>4
  <2>10. CASE CommitMatch
    <3> USE <2>10 DEF CommitMatch
    <3>1. TablesOK' /\ HistoryOK' /\ BoundsOK'
      BY DEF TablesOK, HistoryOK, BoundsOK
    <3>2. TopicsOK'
      BY DEF TopicsOK, InHand, LoopsOK, Polling
    <3>3. LoopsOK'
      BY DEF LoopsOK, Polling
    <3> QED
      BY <3>1, <3>2, <3>3
  <2>11. ASSUME NEW e \in Shows, HandleChange(e)
        PROVE  TypeOK'
    <3> USE <2>11 DEF HandleChange
    <3>1. HistoryOK' /\ BoundsOK'
      BY DEF HistoryOK, BoundsOK
    <3>2. TablesOK'
      BY DEF TablesOK, Informed
    <3>3. TopicsOK'
      BY DEF TopicsOK, InHand
    <3>4. LoopsOK'
      BY DEF LoopsOK
    <3> QED
      BY <3>1, <3>2, <3>3, <3>4
  <2>12. CASE CommitChange
    <3> USE <2>12 DEF CommitChange
    <3>1. TablesOK' /\ HistoryOK' /\ BoundsOK'
      BY DEF TablesOK, HistoryOK, BoundsOK
    <3>2. TopicsOK'
      BY DEF TopicsOK, InHand, LoopsOK, Polling
    <3>3. LoopsOK'
      BY DEF LoopsOK, Polling
    <3> QED
      BY <3>1, <3>2, <3>3
  <2>24. CASE DropStaleAlerts
    <3> USE <2>24 DEF DropStaleAlerts
    <3>1. TablesOK' /\ TopicsOK' /\ HistoryOK' /\ BoundsOK'
      BY DEF TablesOK, TopicsOK, HistoryOK, BoundsOK, InHand
    <3>2. LoopsOK'
      BY DEF LoopsOK, TablesOK
    <3> QED
      BY <3>1, <3>2
  <2>13. CASE DropStaleChanges
    <3> USE <2>13 DEF DropStaleChanges
    <3>1. TablesOK' /\ TopicsOK' /\ BoundsOK'
      BY DEF TablesOK, TopicsOK, BoundsOK, InHand
    <3>2. LoopsOK'
      BY DEF LoopsOK, TablesOK
    <3>3. HistoryOK'
      BY DEF HistoryOK, TablesOK
    <3> QED
      BY <3>1, <3>2, <3>3
  <2>14. CASE ListUsers
    <3> USE <2>14 DEF ListUsers
    <3>1. TopicsOK' /\ HistoryOK' /\ BoundsOK'
      BY DEF TopicsOK, HistoryOK, BoundsOK, InHand
    <3>2. TablesOK'
      BY DEF TablesOK
    <3>3. UsersWithPending(pendingAlerts', pendingChanges') \subseteq Users
      BY <3>2 DEF TablesOK, UsersWithPending
    <3>4. LoopsOK'
      BY <3>3 DEF LoopsOK
    <3> QED
      BY <3>1, <3>2, <3>4
  <2>15. ASSUME NEW u \in Users, ReadNewShows(u)
        PROVE  TypeOK'
    <3> USE <2>15 DEF ReadNewShows
    <3>1. TablesOK' /\ TopicsOK' /\ HistoryOK' /\ BoundsOK'
      BY DEF TablesOK, TopicsOK, HistoryOK, BoundsOK, InHand
    <3>2. LoopsOK'
      BY DEF LoopsOK
    <3> QED
      BY <3>1, <3>2
  <2>16. CASE ReadChanges
    <3> USE <2>16 DEF ReadChanges
    <3>1. TablesOK' /\ TopicsOK' /\ HistoryOK' /\ BoundsOK'
      BY DEF TablesOK, TopicsOK, HistoryOK, BoundsOK, InHand
    <3>2. LoopsOK'
      BY DEF LoopsOK, NoticesOf, TablesOK
    <3> QED
      BY <3>1, <3>2
  <2>17. CASE SendEmail
    <3> USE <2>17 DEF SendEmail
    <3>1. TablesOK' /\ TopicsOK' /\ BoundsOK'
      BY DEF TablesOK, TopicsOK, BoundsOK, InHand
    <3>2. LoopsOK'
      BY DEF LoopsOK
    <3>3. DigestAlerts \subseteq Pairs /\ DigestNotices \subseteq Pairs
      BY DEF DigestAlerts, DigestNotices, LoopsOK
    <3>4. \A e \in Shows : digest.notices[e] \in EventStatus \cup {"none"}
      BY DEF LoopsOK
    <3>5. lastTold' \in [Pairs -> EventStatus \cup {"nothing", "new_show"}]
      BY <3>4 DEF HistoryOK, DigestNotices
    <3>6. HistoryOK'
      BY <3>3, <3>5 DEF HistoryOK, Overtaken
    <3> QED
      BY <3>1, <3>2, <3>6
  <2>18. CASE CommitUserDigest
    <3> USE <2>18 DEF CommitUserDigest
    <3>1. TopicsOK' /\ BoundsOK'
      BY DEF TopicsOK, BoundsOK, InHand
    <3>2. TablesOK'
      BY DEF TablesOK, LoopsOK, RecordedAlerts, DigestAlerts
    <3>3. LoopsOK'
      <4>1. {NewShow(p) : p \in DigestAlerts} \cup {ShowChange(p) : p \in DigestNotices}
              \subseteq Notification
        BY DEF LoopsOK, NewShow, ShowChange, DigestAlerts, DigestNotices
      <4>2. NoNotices \in [Shows -> EventStatus \cup {"none"}]
        BY DEF NoNotices
      <4> QED
        BY <4>1, <4>2 DEF LoopsOK
    <3>4. HistoryOK'
      BY DEF HistoryOK, LoopsOK, Overtaken, DigestAlerts, DigestNotices
    <3> QED
      BY <3>1, <3>2, <3>3, <3>4
  <2>19. ASSUME NEW n \in Notification, PublishSent(n)
        PROVE  TypeOK'
    <3> USE <2>19 DEF PublishSent
    <3>1. TablesOK' /\ HistoryOK' /\ BoundsOK'
      BY DEF TablesOK, HistoryOK, BoundsOK
    <3>2. TopicsOK'
      BY DEF TopicsOK, InHand
    <3>3. LoopsOK'
      BY DEF LoopsOK
    <3> QED
      BY <3>1, <3>2, <3>3
  <2>20. CASE EndDigest
    <3> USE <2>20 DEF EndDigest
    <3>1. TablesOK' /\ TopicsOK' /\ HistoryOK' /\ BoundsOK'
      BY DEF TablesOK, TopicsOK, HistoryOK, BoundsOK, InHand
    <3>2. LoopsOK'
      BY DEF LoopsOK, Asleep, NoNotices
    <3> QED
      BY <3>1, <3>2
  <2>21. CASE DigestFails
    <3> USE <2>21 DEF DigestFails, RollBack
    <3>1. TablesOK' /\ TopicsOK'
      BY DEF TablesOK, TopicsOK, InHand
    <3>2. LoopsOK'
      BY DEF LoopsOK, Asleep, NoNotices
    <3>3. HistoryOK'
      BY DEF HistoryOK, DigestAlerts, LoopsOK
    <3>4. BoundsOK'
      BY DEF BoundsOK
    <3> QED
      BY <3>1, <3>2, <3>3, <3>4
  <2>22. CASE Crash
    <3> USE <2>22 DEF Crash, RollBack
    <3>1. TablesOK'
      BY DEF TablesOK
    <3>2. TopicsOK'
      BY DEF TopicsOK, InHand
    <3>3. LoopsOK'
      BY DEF LoopsOK, Asleep, NoNotices, Polling
    <3>4. HistoryOK'
      BY DEF HistoryOK, DigestAlerts, LoopsOK
    <3>5. BoundsOK'
      BY DEF BoundsOK
    <3> QED
      BY <3>1, <3>2, <3>3, <3>4, <3>5
  <2>23. CASE UNCHANGED vars
    BY <2>23 DEF vars, TablesOK, TopicsOK, InHand, LoopsOK, HistoryOK, BoundsOK
  <2> QED
    BY <2>1, <2>2, <2>3, <2>4, <2>5, <2>6, <2>7, <2>8, <2>9, <2>10, <2>11, <2>12, <2>13,
       <2>14, <2>15, <2>16, <2>17, <2>18, <2>19, <2>20, <2>21, <2>22, <2>23, <2>24
       DEF Next, Environment, Consume, RunDigest
<1>3. QED
  BY <1>1, <1>2, PTL DEF Spec
-----------------------------------------------------------------------------
(* Who is emailed, and how often *)

\* DeliveryInv reads neither the world, nor the topics to come, nor the bounds.
LEMMA DeliveryUndisturbed ==
  ASSUME DeliveryInv, UNCHANGED <<tables, published, consumer, digest, history>>
  PROVE  DeliveryInv'
<1> USE DEF tables, history, DeliveryInv
<1>1. DigestOwnsItsRows' /\ RequeuedWereRaced'
  BY DEF DigestOwnsItsRows, DigestAlerts, DigestNotices, RequeuedWereRaced
<1>2. EmailsAccountedFor'
  BY DEF EmailsAccountedFor, DigestAlerts
<1>3. NoticesAndReportsOnRecord' /\ OnceUnlessRacedOrInterrupted'
  BY DEF NoticesAndReportsOnRecord, OnceUnlessRacedOrInterrupted, DigestNotices
<1> QED
  BY <1>1, <1>2, <1>3

\* A digest that falls asleep owns no rows; its open transaction becomes interrupted.
LEMMA DeliveryAfterRollBack ==
  ASSUME TypeOK, DeliveryInv, RollBack, consumer' \in {consumer, Polling}
  PROVE  DeliveryInv'
<1> USE DEF tables, topics, DeliveryInv, RollBack
<1>0. DigestAlerts' = {} /\ DigestNotices' = {}
  BY DEF DigestAlerts, DigestNotices, Asleep, NoNotices
<1>1. DigestOwnsItsRows'
  BY <1>0 DEF DigestOwnsItsRows, Asleep
<1>2. RequeuedWereRaced'
  BY DEF RequeuedWereRaced, Polling
<1>3. EmailsAccountedFor'
  BY <1>0 DEF EmailsAccountedFor
<1>4. NoticesAndReportsOnRecord'
  BY DEF NoticesAndReportsOnRecord, Asleep
<1>5. OnceUnlessRacedOrInterrupted'
  BY DEF OnceUnlessRacedOrInterrupted
<1> QED
  BY <1>1, <1>2, <1>3, <1>4, <1>5

\* The bookkeeping around the emails is consistent in every reachable state: what
\* the digest works on still waits, a pair on record waits again only if a match
\* overtook the record, and every email is on record or was interrupted.
THEOREM DeliveryCorrect == Spec => []DeliveryInv
<1>1. Init => DeliveryInv
  <2> SUFFICES ASSUME Init PROVE DeliveryInv
    OBVIOUS
  <2> USE DEF Init, Asleep, NoNotices
  <2>1. DigestOwnsItsRows
    BY DEF DigestOwnsItsRows, DigestAlerts, DigestNotices
  <2>2. RequeuedWereRaced /\ NoticesAndReportsOnRecord
    BY DEF RequeuedWereRaced, NoticesAndReportsOnRecord
  <2>3. EmailsAccountedFor /\ OnceUnlessRacedOrInterrupted
    BY DEF EmailsAccountedFor, OnceUnlessRacedOrInterrupted
  <2> QED
    BY <2>1, <2>2, <2>3 DEF DeliveryInv
<1>2. TypeOK /\ DeliveryInv /\ [Next]_vars => DeliveryInv'
  <2> SUFFICES ASSUME TypeOK, DeliveryInv, [Next]_vars PROVE DeliveryInv'
    OBVIOUS
  <2> USE DEF TypeOK, DeliveryInv, tables, history
  <2>1. CASE Environment
    <3>1. UNCHANGED <<tables, published, consumer, digest, history>>
      BY <2>1 DEF Environment, Update, UpsertShow, ShowStarts, SetAlertEmail, MoveHome,
                  DismissEvent, ProposeMatch
    <3> QED
      BY <3>1, DeliveryUndisturbed
  <2>2. ASSUME NEW p \in Pairs, ReceiveMatch(p)
        PROVE  DeliveryInv'
    <3> USE <2>2 DEF ReceiveMatch
    <3>1. DigestOwnsItsRows' /\ RequeuedWereRaced'
      BY DEF DigestOwnsItsRows, DigestAlerts, DigestNotices, RequeuedWereRaced
    <3>2. EmailsAccountedFor'
      BY DEF EmailsAccountedFor, DigestAlerts
    <3>3. NoticesAndReportsOnRecord' /\ OnceUnlessRacedOrInterrupted'
      BY DEF NoticesAndReportsOnRecord, OnceUnlessRacedOrInterrupted, DigestNotices
    <3> QED
      BY <3>1, <3>2, <3>3
  <2>3. CASE CheckSent
    <3> USE <2>3 DEF CheckSent
    <3>1. DigestOwnsItsRows'
      BY DEF DigestOwnsItsRows, DigestAlerts, DigestNotices
    <3>2. RequeuedWereRaced'
      BY DEF RequeuedWereRaced, AfterCheck
    <3>3. EmailsAccountedFor'
      BY DEF EmailsAccountedFor, DigestAlerts
    <3>4. NoticesAndReportsOnRecord' /\ OnceUnlessRacedOrInterrupted'
      BY DEF NoticesAndReportsOnRecord, OnceUnlessRacedOrInterrupted, DigestNotices
    <3> QED
      BY <3>1, <3>2, <3>3, <3>4
  <2>4. CASE QueueAlert
    <3> USE <2>4 DEF QueueAlert
    <3>1. DigestOwnsItsRows'
      BY DEF DigestOwnsItsRows, DigestAlerts, DigestNotices
    <3>2. RequeuedWereRaced'
      BY DEF RequeuedWereRaced, LoopsOK
    <3>3. EmailsAccountedFor'
      BY DEF EmailsAccountedFor, DigestAlerts
    <3>4. NoticesAndReportsOnRecord' /\ OnceUnlessRacedOrInterrupted'
      BY DEF NoticesAndReportsOnRecord, OnceUnlessRacedOrInterrupted, DigestNotices
    <3> QED
      BY <3>1, <3>2, <3>3, <3>4
  <2>5. CASE CommitMatch \/ CommitChange
    <3> USE <2>5 DEF CommitMatch, CommitChange
    <3>1. DigestOwnsItsRows' /\ RequeuedWereRaced'
      BY DEF DigestOwnsItsRows, DigestAlerts, DigestNotices, RequeuedWereRaced, Polling
    <3>2. EmailsAccountedFor'
      BY DEF EmailsAccountedFor, DigestAlerts
    <3>3. NoticesAndReportsOnRecord' /\ OnceUnlessRacedOrInterrupted'
      BY DEF NoticesAndReportsOnRecord, OnceUnlessRacedOrInterrupted, DigestNotices
    <3> QED
      BY <3>1, <3>2, <3>3
  <2>6. ASSUME NEW e \in Shows, HandleChange(e)
        PROVE  DeliveryInv'
    <3> USE <2>6 DEF HandleChange
    <3>0. pendingChanges \subseteq pendingChanges' /\ pendingChanges' \subseteq pendingChanges \cup alertsSent
      BY DEF Informed
    <3>1. DigestOwnsItsRows' /\ RequeuedWereRaced'
      BY <3>0 DEF DigestOwnsItsRows, DigestAlerts, DigestNotices, RequeuedWereRaced
    <3>2. EmailsAccountedFor'
      BY DEF EmailsAccountedFor, DigestAlerts
    <3>3. NoticesAndReportsOnRecord' /\ OnceUnlessRacedOrInterrupted'
      BY <3>0 DEF NoticesAndReportsOnRecord, OnceUnlessRacedOrInterrupted, DigestNotices
    <3> QED
      BY <3>1, <3>2, <3>3
  <2>7. CASE DropStaleAlerts \/ DropStaleChanges
    <3> USE <2>7 DEF DropStaleAlerts, DropStaleChanges
    <3>0. digest \in [at : DigestSteps, dropAlerts : SUBSET Pairs, dropChanges : SUBSET Pairs,
                      todo : SUBSET Users, user : Users \cup {NoUser}, shows : SUBSET Shows,
                      notices : [Shows -> EventStatus \cup {"none"}],
                      outbox : SUBSET Notification]
      BY DEF LoopsOK
    <3>1. DigestOwnsItsRows'
      <4>1. CASE DropStaleAlerts
        BY <3>0, <4>1 DEF DropStaleAlerts, DigestOwnsItsRows, DigestAlerts, DigestNotices
      <4>2. CASE DropStaleChanges
        BY <3>0, <4>2 DEF DropStaleChanges, DigestOwnsItsRows, DigestAlerts, DigestNotices
      <4> QED
        BY <2>7, <4>1, <4>2
    <3>2. RequeuedWereRaced'
      BY DEF RequeuedWereRaced
    <3>3. EmailsAccountedFor'
      BY <3>0 DEF EmailsAccountedFor, DigestAlerts
    <3>4. NoticesAndReportsOnRecord' /\ OnceUnlessRacedOrInterrupted'
      BY ZenonT(30), <3>0 DEF NoticesAndReportsOnRecord, OnceUnlessRacedOrInterrupted, DigestNotices
    <3> QED
      BY <3>1, <3>2, <3>3, <3>4
  <2>8. CASE ListUsers
    <3> USE <2>8 DEF ListUsers, LoopsOK
    <3>1. DigestOwnsItsRows'
      BY DEF DigestOwnsItsRows, DigestAlerts, DigestNotices, NoNotices
    <3>2. RequeuedWereRaced'
      BY DEF RequeuedWereRaced
    <3>3. EmailsAccountedFor'
      BY DEF EmailsAccountedFor, DigestAlerts
    <3>4. NoticesAndReportsOnRecord' /\ OnceUnlessRacedOrInterrupted'
      BY DEF NoticesAndReportsOnRecord, OnceUnlessRacedOrInterrupted, DigestNotices
    <3> QED
      BY <3>1, <3>2, <3>3, <3>4
  <2>9. ASSUME NEW u \in Users, ReadNewShows(u)
        PROVE  DeliveryInv'
    <3> USE <2>9 DEF ReadNewShows, LoopsOK
    <3>0. DigestAlerts' \subseteq pendingAlerts
      BY DEF DigestAlerts
    <3>1. DigestOwnsItsRows'
      BY <3>0 DEF DigestOwnsItsRows, DigestNotices, NoNotices
    <3>2. RequeuedWereRaced'
      BY DEF RequeuedWereRaced
    <3>3. EmailsAccountedFor'
      BY DEF EmailsAccountedFor
    <3>4. NoticesAndReportsOnRecord' /\ OnceUnlessRacedOrInterrupted'
      BY DEF NoticesAndReportsOnRecord, OnceUnlessRacedOrInterrupted, DigestNotices
    <3> QED
      BY <3>1, <3>2, <3>3, <3>4
  <2>10. CASE ReadChanges
    <3> USE <2>10 DEF ReadChanges, LoopsOK
    <3>0. /\ DigestAlerts' \subseteq pendingAlerts
          /\ DigestNotices' \subseteq pendingChanges
      BY DEF DigestAlerts, DigestNotices, DigestOwnsItsRows, NoticesOf, NoNotices
    <3>1. DigestOwnsItsRows'
      BY <3>0 DEF DigestOwnsItsRows, NoNotices
    <3>2. RequeuedWereRaced'
      BY DEF RequeuedWereRaced
    <3>3. EmailsAccountedFor'
      BY DEF EmailsAccountedFor
    <3>4. NoticesAndReportsOnRecord' /\ OnceUnlessRacedOrInterrupted'
      BY DEF NoticesAndReportsOnRecord, OnceUnlessRacedOrInterrupted, DigestNotices
    <3> QED
      BY <3>1, <3>2, <3>3, <3>4
  <2>11. CASE SendEmail
    <3> USE <2>11 DEF SendEmail, LoopsOK
    <3>0. DigestAlerts' = DigestAlerts /\ DigestNotices' = DigestNotices
      BY DEF DigestAlerts, DigestNotices
    <3>1. DigestOwnsItsRows'
      BY <3>0 DEF DigestOwnsItsRows
    <3>2. RequeuedWereRaced'
      BY DEF RequeuedWereRaced
    <3>3. \A p \in Pairs : mailed[p] \in Nat
      BY DEF HistoryOK
    <3>4. EmailsAccountedFor'
      BY <3>0, <3>3 DEF EmailsAccountedFor
    <3>5. NoticesAndReportsOnRecord'
      BY <3>0 DEF NoticesAndReportsOnRecord, DigestOwnsItsRows
    <3>6. \A p \in DigestAlerts : mailed[p] > 0 => p \in raced \cup interrupted
      BY DEF EmailsAccountedFor, DigestOwnsItsRows, RequeuedWereRaced, TablesOK
    <3>7. OnceUnlessRacedOrInterrupted'
      BY <3>3, <3>6 DEF OnceUnlessRacedOrInterrupted
    <3> QED
      BY <3>1, <3>2, <3>4, <3>5, <3>7
  <2>12. CASE CommitUserDigest
    <3> USE <2>12 DEF CommitUserDigest, LoopsOK, RecordedAlerts, ClearedAlerts, ClearedChanges
    <3>0. DigestAlerts' = {} /\ DigestNotices' = {}
      BY DEF DigestAlerts, DigestNotices, NoNotices
    <3>1. DigestOwnsItsRows'
      BY <3>0 DEF DigestOwnsItsRows
    <3>2. RequeuedWereRaced'
      <4>1. consumer.at = "queueAlert" => consumer.message \in Pairs
        BY DEF TopicsOK, InHand, Polling
      <4> QED
        BY <4>1 DEF RequeuedWereRaced
    <3>3. EmailsAccountedFor'
      BY <3>0 DEF EmailsAccountedFor
    <3>4. DigestNotices \subseteq alertsSent
      BY DEF DigestOwnsItsRows, NoticesAndReportsOnRecord
    <3>5. \A n \in digest'.outbox : <<n.user, n.show>> \in alertsSent'
      <4>1. ASSUME NEW p \in DigestAlerts \cup DigestNotices
            PROVE  /\ <<NewShow(p).user, NewShow(p).show>> = p
                   /\ <<ShowChange(p).user, ShowChange(p).show>> = p
        BY DEF NewShow, ShowChange, DigestAlerts, DigestNotices
      <4>2. digest'.outbox = digest.outbox \cup {NewShow(p) : p \in DigestAlerts}
                                           \cup {ShowChange(p) : p \in DigestNotices}
        OBVIOUS
      <4>3. DigestAlerts \cup DigestNotices \subseteq alertsSent'
        BY <3>4
      <4>4. \A n \in digest.outbox : <<n.user, n.show>> \in alertsSent'
        BY DEF NoticesAndReportsOnRecord
      <4> QED
        BY ONLY <4>1, <4>2, <4>3, <4>4
    <3>6. NoticesAndReportsOnRecord'
      BY <3>5 DEF NoticesAndReportsOnRecord
    <3>7. OnceUnlessRacedOrInterrupted'
      BY DEF OnceUnlessRacedOrInterrupted
    <3> QED
      BY <3>1, <3>2, <3>3, <3>6, <3>7
  <2>13. ASSUME NEW n \in Notification, PublishSent(n)
         PROVE  DeliveryInv'
    <3> USE <2>13 DEF PublishSent, LoopsOK
    <3>1. DigestOwnsItsRows'
      BY DEF DigestOwnsItsRows, DigestAlerts, DigestNotices
    <3>2. RequeuedWereRaced'
      BY DEF RequeuedWereRaced
    <3>3. EmailsAccountedFor'
      BY DEF EmailsAccountedFor, DigestAlerts
    <3>4. NoticesAndReportsOnRecord' /\ OnceUnlessRacedOrInterrupted'
      BY DEF NoticesAndReportsOnRecord, OnceUnlessRacedOrInterrupted, DigestNotices
    <3> QED
      BY <3>1, <3>2, <3>3, <3>4
  <2>14. CASE EndDigest
    <3> USE <2>14 DEF EndDigest, Asleep, NoNotices
    <3>1. DigestOwnsItsRows'
      BY DEF DigestOwnsItsRows, DigestAlerts, DigestNotices
    <3>2. RequeuedWereRaced'
      BY DEF RequeuedWereRaced
    <3>3. EmailsAccountedFor'
      BY DEF EmailsAccountedFor, DigestAlerts
    <3>4. NoticesAndReportsOnRecord' /\ OnceUnlessRacedOrInterrupted'
      BY DEF NoticesAndReportsOnRecord, OnceUnlessRacedOrInterrupted, DigestNotices
    <3> QED
      BY <3>1, <3>2, <3>3, <3>4
  <2>15. CASE DigestFails \/ Crash
    BY <2>15, DeliveryAfterRollBack DEF DigestFails, Crash, RollBack
  <2>16. CASE UNCHANGED vars
    BY <2>16, DeliveryUndisturbed DEF vars
  <2> QED
    BY <2>1, <2>2, <2>3, <2>4, <2>5, <2>6, <2>7, <2>8, <2>9, <2>10, <2>11, <2>12, <2>13,
       <2>14, <2>15, <2>16 DEF Next, Consume, RunDigest
<1>3. QED
  BY <1>1, <1>2, TypeCorrect, PTL DEF Spec

\* Nobody gets a second email about one new show, however often the match is
\* proposed or redelivered, unless a match was being handled while the digest
\* recorded the first email or a digest transaction rolled back after its email.
THEOREM OnlyOnce == Spec => []OnceUnlessRacedOrInterrupted
<1>1. DeliveryInv => OnceUnlessRacedOrInterrupted
  BY DEF DeliveryInv
<1> QED
  BY <1>1, DeliveryCorrect, PTL

\* An update about a show only reaches people who were emailed about the show.
THEOREM NoticesFollowAlerts == Spec => []NoticeFollowsAlert
<1>1. TypeOK /\ DeliveryInv => NoticeFollowsAlert
  BY DEF TypeOK, HistoryOK, DeliveryInv, NoticeFollowsAlert, NoticesAndReportsOnRecord,
         EmailsAccountedFor
<1> QED
  BY <1>1, TypeCorrect, DeliveryCorrect, PTL

\* notifications.sent reports nothing that is not on record in alerts_sent.
THEOREM ReportsAreRecorded == Spec => []PublishedWereRecorded
<1>1. DeliveryInv => PublishedWereRecorded
  BY DEF DeliveryInv, NoticesAndReportsOnRecord, PublishedWereRecorded
<1> QED
  BY <1>1, DeliveryCorrect, PTL
-----------------------------------------------------------------------------
(* Who learns that a show fell through *)

\* A queue and its tail: what is left, and that the newest message stays the newest.
LEMMA QueueTail ==
  ASSUME NEW S, NEW s \in Seq(S)
  PROVE  /\ s # <<>> <=> Len(s) > 0
         /\ Len(s) > 0 => Tail(s) \in Seq(S) /\ Len(Tail(s)) = Len(s) - 1
         /\ Len(s) > 1 => Tail(s)[Len(Tail(s))] = s[Len(s)]
<1>1. s # <<>> <=> Len(s) > 0
  BY EmptySeq
<1>2. Len(s) > 0 => Tail(s) \in Seq(S) /\ Len(Tail(s)) = Len(s) - 1
  BY <1>1, HeadTailProperties
<1>3. Len(s) > 1 => Tail(s)[Len(Tail(s))] = s[Len(s)]
  BY <1>1, <1>2, HeadTailProperties, LenProperties
<1> QED
  BY <1>1, <1>2, <1>3

\* An announced change is the newest message of its show, and the consumer has yet
\* to handle it even if it holds an older one.
LEMMA AnnouncedChange ==
  ASSUME NEW e \in Shows, NEW s \in NewStatuses, UpsertShow(e, s), TypeOK,
         s # status[e], s \in DisruptedStatuses
  PROVE  /\ changes'[e] = Append(changes[e], s)
         /\ changes'[e][Len(changes'[e])] = s
         /\ Unhandled(e)'
<1> USE DEF UpsertShow, Update
<1>1. changes[e] \in Seq(EventStatus) /\ s \in EventStatus
  BY DEF TypeOK, TopicsOK
<1>2. changes'[e] = Append(changes[e], s)
  BY DEF DisruptedStatuses, TypeOK, TopicsOK
<1>3. Len(changes'[e]) = Len(changes[e]) + 1 /\ changes'[e][Len(changes'[e])] = s
  BY <1>1, <1>2
<1>4. (consumer.at = "commitChange" /\ consumer.message = e) => Len(changes[e]) > 0
  BY <1>1 DEF TypeOK, TopicsOK, InHand, Polling
<1>5. Unhandled(e)'
  <2>1. consumer' = consumer /\ Len(changes[e]) \in Nat
    BY <1>1, LenProperties
  <2>2. changes'[e] # <<>>
    BY <1>1, <1>2, AppendProperties
  <2> QED
    BY ONLY <1>3, <1>4, <2>1, <2>2 DEF Unhandled
<1> QED
  BY <1>2, <1>3, <1>5

\* Handling the only message of a show that fell through queues everyone on record;
\* with more messages to come the show stays unhandled.
LEMMA HandledChange ==
  ASSUME NEW e \in Shows, HandleChange(e), TypeOK, LastChangeIsCurrent,
         status[e] \in DisruptedStatuses, ~Unhandled(e)'
  PROVE  /\ Informed(e) \subseteq pendingChanges'
         /\ Informed(e) \cap digest.dropChanges = {}
<1>1. changes[e] \in Seq(EventStatus) /\ changes[e] # <<>> /\ changes' = changes
  BY DEF HandleChange, TypeOK, TopicsOK, topics
<1>2. Len(changes[e]) = 1
  <2>1. Len(changes[e]) > 0 /\ Len(changes[e]) \in Nat
    BY <1>1, QueueTail
  <2>2. consumer'.at = "commitChange" /\ consumer'.message = e
    BY DEF HandleChange
  <2>3. ~(Len(changes[e]) > 1)
    BY <1>1, <2>2 DEF Unhandled
  <2>4. \A n \in Nat : n > 0 /\ ~(n > 1) => n = 1
    OBVIOUS
  <2> QED
    BY <2>1, <2>3, <2>4
<1>3. Head(changes[e]) = status[e]
  BY <1>1, <1>2 DEF LastChangeIsCurrent
<1> QED
  BY <1>3 DEF HandleChange

\* Committing the message in hand leaves unhandled what was unhandled.
LEMMA CommittedChange ==
  ASSUME NEW e \in Shows, CommitChange, TypeOK, Unhandled(e)
  PROVE  Unhandled(e)'
<1>1. /\ consumer.message \in Shows
      /\ changes' = [changes EXCEPT ![consumer.message] = Tail(@)]
      /\ consumer' = Polling
  BY DEF CommitChange, TypeOK, TopicsOK, InHand, Polling
<1>2. changes \in [Shows -> Seq(EventStatus)]
  BY DEF TypeOK, TopicsOK
<1>3. CASE consumer.message = e
  <2>1. Len(changes[e]) > 1
    BY <1>3 DEF Unhandled, CommitChange
  <2>2. changes'[e] = Tail(changes[e]) /\ changes[e] \in Seq(EventStatus)
    BY <1>1, <1>2, <1>3
  <2>3. changes'[e] # <<>>
    <3>1. Tail(changes[e]) \in Seq(EventStatus) /\ Len(Tail(changes[e])) > 0
      BY <2>1, <2>2, QueueTail
    <3> QED
      BY <2>2, <3>1, QueueTail
  <2> QED
    BY <1>1, <2>3 DEF Unhandled, Polling
<1>4. CASE consumer.message # e
  BY <1>1, <1>2, <1>4 DEF Unhandled, Polling
<1> QED
  BY <1>3, <1>4

\* Steps that touch none of what DisruptionInv reads, except that the consumer may
\* pick up or let go of a message other than a status change.
LEMMA DisruptionUndisturbed ==
  ASSUME DisruptionInv,
         UNCHANGED <<status, changes, alertsSent, pendingChanges, lastTold, slipped, waived>>,
         digest'.dropChanges \subseteq digest.dropChanges,
         digest'.at = "commitUser" => digest' = digest,
         consumer' = consumer \/ consumer'.at # "commitChange"
  PROVE  DisruptionInv'
<1> USE DEF DisruptionInv
<1>1. LastChangeIsCurrent'
  BY DEF LastChangeIsCurrent
<1>2. \A e \in Shows : Unhandled(e) => Unhandled(e)'
  BY DEF Unhandled
<1>3. \A e : Unhandled(e) => Unhandled(e)'
  BY DEF Unhandled
<1>4. NobodyForgotten' /\ DroppedWithReason'
  BY <1>3 DEF NobodyForgotten, DroppedWithReason
<1>5. ToldAsRead'
  BY DEF ToldAsRead, DigestNotices
<1> QED
  BY <1>1, <1>4, <1>5

\* Whoever is on record for a show that fell through, and was told otherwise last,
\* waits for a notice, or a message that will queue one is on its way, or there is
\* a reason for the silence.
THEOREM DisruptionCorrect == Spec => []DisruptionInv
<1>1. Init => DisruptionInv
  BY DEF Init, DisruptionInv, LastChangeIsCurrent, NobodyForgotten, DroppedWithReason,
         ToldAsRead, Asleep
<1>2. TypeOK /\ DeliveryInv /\ DisruptionInv /\ [Next]_vars => DisruptionInv'
  <2> SUFFICES ASSUME TypeOK, DeliveryInv, DisruptionInv, [Next]_vars PROVE DisruptionInv'
    OBVIOUS
  <2> USE DEF DisruptionInv
  <2>0. digest.dropChanges \subseteq pendingChanges /\ pendingChanges \subseteq alertsSent
    BY DEF DeliveryInv, DigestOwnsItsRows, NoticesAndReportsOnRecord
  <2>a. /\ alertsSent \subseteq Pairs
        /\ status \in [Shows -> EventStatus]
        /\ lastTold \in [Pairs -> EventStatus \cup {"nothing", "new_show"}]
        /\ changes \in [Shows -> Seq(EventStatus)]
    BY DEF TypeOK, TablesOK, HistoryOK, TopicsOK
  <2>13. ASSUME NEW e \in Shows, NEW s \in NewStatuses, UpsertShow(e, s), s = status[e]
         PROVE  DisruptionInv'
    <3>1. UNCHANGED <<status, changes, tables, lastTold, slipped, waived, digest, consumer>>
      BY <2>13, <2>a DEF UpsertShow, Update, history
    <3> QED
      BY <3>1, DisruptionUndisturbed DEF tables
  <2>1. ASSUME NEW e \in Shows, NEW s \in NewStatuses, UpsertShow(e, s), s # status[e]
        PROVE  DisruptionInv'
    <3> USE <2>1 DEF UpsertShow, Update, tables, history
    <3>1. \A d \in Shows \ {e} :
            /\ status'[d] = status[d] /\ changes'[d] = changes[d]
            /\ Unhandled(d) => Unhandled(d)'
      BY <2>a DEF Unhandled
    <3>2. status'[e] = s
      BY <2>a
    <3>3. s \in DisruptedStatuses => /\ changes'[e][Len(changes'[e])] = s
                                     /\ Unhandled(e)'
      BY AnnouncedChange
    <3>4. LastChangeIsCurrent'
      BY <3>1, <3>2, <3>3 DEF LastChangeIsCurrent
    <3>5. NobodyForgotten'
      BY <2>a, <3>1, <3>2, <3>3 DEF NobodyForgotten
    <3>6. DroppedWithReason'
      BY <2>0, <2>a, <3>1, <3>2, <3>3 DEF DroppedWithReason
    <3>7. ToldAsRead'
      BY DEF ToldAsRead, DigestNotices
    <3> QED
      BY <3>4, <3>5, <3>6, <3>7
  <2>2. CASE \/ \E e \in Shows : ShowStarts(e)
             \/ \E u \in Users : SetAlertEmail(u)
             \/ \E u \in Users, near \in SUBSET Shows : MoveHome(u, near)
             \/ \E u \in Users, e \in Shows : DismissEvent(u, e)
             \/ \E p \in Pairs : ProposeMatch(p)
    <3>1. UNCHANGED <<status, changes, tables, lastTold, slipped, waived, digest, consumer>>
      BY <2>2 DEF Update, ShowStarts, SetAlertEmail, MoveHome, DismissEvent, ProposeMatch,
                  topics, world, history
    <3> QED
      BY <3>1, DisruptionUndisturbed DEF tables
  <2>3. CASE (\E p \in Pairs : ReceiveMatch(p)) \/ CheckSent \/ QueueAlert \/ CommitMatch
    <3>1. /\ UNCHANGED <<status, changes, alertsSent, pendingChanges, lastTold, slipped,
                         waived, digest>>
          /\ consumer'.at # "commitChange"
      BY <2>3 DEF ReceiveMatch, CheckSent, QueueAlert, CommitMatch, AfterCheck, Polling,
                  TypeOK, LoopsOK, tables, topics, world, history
    <3> QED
      BY <3>1, DisruptionUndisturbed
  <2>4. ASSUME NEW e \in Shows, HandleChange(e)
        PROVE  DisruptionInv'
    <3> USE <2>4
    <3>1. /\ UNCHANGED <<status, changes, alertsSent, lastTold, slipped, waived, digest>>
          /\ pendingChanges \subseteq pendingChanges'
          /\ consumer' = [at |-> "commitChange", message |-> e, optedIn |-> FALSE]
          /\ consumer.at = "poll"
      BY DEF HandleChange, world, topics, history
    <3>2. \A d \in Shows \ {e} : Unhandled(d) => Unhandled(d)'
      BY <3>1 DEF Unhandled
    <3>3. \A p \in alertsSent : p[2] = e => p \in Informed(e)
      BY DEF Informed
    <3>4. status[e] \in DisruptedStatuses /\ ~Unhandled(e)'
            => /\ Informed(e) \subseteq pendingChanges'
               /\ Informed(e) \cap digest.dropChanges = {}
      BY HandledChange
    <3>5. LastChangeIsCurrent'
      BY <3>1 DEF LastChangeIsCurrent
    <3>6. NobodyForgotten'
      BY <2>a, <3>1, <3>2, <3>3, <3>4 DEF NobodyForgotten
    <3>7. DroppedWithReason'
      BY <2>0, <2>a, <3>1, <3>2, <3>3, <3>4 DEF DroppedWithReason
    <3>8. ToldAsRead'
      BY <3>1 DEF ToldAsRead, DigestNotices
    <3> QED
      BY <3>5, <3>6, <3>7, <3>8
  <2>5. CASE CommitChange
    <3>1. /\ UNCHANGED <<status, tables, lastTold, slipped, waived, digest>>
          /\ consumer.message \in Shows /\ changes[consumer.message] # <<>>
          /\ changes' = [changes EXCEPT ![consumer.message] = Tail(@)]
      BY <2>5 DEF CommitChange, world, history, TypeOK, TopicsOK, InHand, Polling
    <3>2. \A e \in Shows : Unhandled(e) => Unhandled(e)'
      BY <2>5, CommittedChange
    <3>3. ASSUME NEW e \in Shows, changes'[e] # <<>>
          PROVE  changes[e] # <<>> /\ changes'[e][Len(changes'[e])] = changes[e][Len(changes[e])]
      <4>1. CASE e = consumer.message
        <5>1. changes'[e] = Tail(changes[e]) /\ changes[e] \in Seq(EventStatus)
          BY <2>a, <3>1, <4>1
        <5>2. Len(changes[e]) > 0
          BY <3>1, <4>1, <5>1, QueueTail
        <5>3. Tail(changes[e]) \in Seq(EventStatus) /\ Len(Tail(changes[e])) = Len(changes[e]) - 1
          BY <5>1, <5>2, QueueTail
        <5>4. Len(changes[e]) > 1
          BY <3>3, <5>1, <5>3, QueueTail
        <5> QED
          BY <3>1, <4>1, <5>1, <5>4, QueueTail
      <4>2. CASE e # consumer.message
        BY <2>a, <3>1, <3>3, <4>2
      <4> QED
        BY <4>1, <4>2
    <3>4. LastChangeIsCurrent'
      BY <3>1, <3>3 DEF LastChangeIsCurrent
    <3>5. NobodyForgotten' /\ DroppedWithReason'
      BY <2>0, <2>a, <3>1, <3>2 DEF NobodyForgotten, DroppedWithReason, tables
    <3>6. ToldAsRead'
      BY <3>1 DEF ToldAsRead, DigestNotices
    <3> QED
      BY <3>4, <3>5, <3>6
  <2>14. CASE DropStaleAlerts
    <3>1. /\ UNCHANGED <<status, changes, tables, lastTold, slipped, waived, consumer>>
          /\ digest'.dropChanges = digest.dropChanges
          /\ digest'.at # "commitUser"
      BY <2>14 DEF DropStaleAlerts, world, topics, history, TypeOK, LoopsOK
    <3> QED
      BY <3>1, DisruptionUndisturbed DEF tables
  <2>6. CASE DropStaleChanges
    <3>1. /\ UNCHANGED <<status, changes, tables, lastTold, slipped, consumer>>
          /\ waived' = waived \cup {p \in pendingChanges : StaleChange(p) /\ Excused(p)}
          /\ digest'.at = "listUsers"
          /\ digest'.dropChanges = {p \in pendingChanges : StaleChange(p)}
      BY <2>6 DEF DropStaleChanges, world, topics, TypeOK, LoopsOK
    <3>2. \A e : Unhandled(e)' = Unhandled(e)
      BY <3>1 DEF Unhandled
    <3>3. LastChangeIsCurrent' /\ NobodyForgotten'
      BY <3>1, <3>2 DEF LastChangeIsCurrent, NobodyForgotten, tables
    <3>4. \A p \in pendingChanges :
            StaleChange(p) /\ status[p[2]] \in DisruptedStatuses => Excused(p)
      BY DEF StaleChange, Excused
    <3>5. DroppedWithReason' /\ ToldAsRead'
      BY <3>1, <3>4 DEF DroppedWithReason, ToldAsRead
    <3> QED
      BY <3>3, <3>5
  <2>7. CASE ListUsers
    <3>1. /\ UNCHANGED <<status, changes, alertsSent, lastTold, slipped, waived, consumer>>
          /\ pendingChanges' = pendingChanges \ digest.dropChanges
          /\ digest'.at = "nextUser"
          /\ digest'.dropChanges = {}
      BY <2>7 DEF ListUsers, world, topics, history, TypeOK, LoopsOK
    <3>2. \A e : Unhandled(e)' = Unhandled(e)
      BY <3>1 DEF Unhandled
    <3>3. NobodyForgotten'
      BY <3>1, <3>2 DEF NobodyForgotten, DroppedWithReason
    <3> QED
      BY <3>1, <3>3 DEF LastChangeIsCurrent, DroppedWithReason, ToldAsRead
  <2>8. CASE \/ \E u \in Users : ReadNewShows(u)
             \/ ReadChanges
             \/ \E n \in Notification : PublishSent(n)
             \/ EndDigest
    <3>1. /\ UNCHANGED <<status, changes, tables, lastTold, slipped, waived, consumer>>
          /\ digest'.dropChanges \subseteq digest.dropChanges
          /\ digest'.at # "commitUser"
      <4>1. digest \in [at : DigestSteps, dropAlerts : SUBSET Pairs, dropChanges : SUBSET Pairs,
                        todo : SUBSET Users, user : Users \cup {NoUser}, shows : SUBSET Shows,
                        notices : [Shows -> EventStatus \cup {"none"}],
                        outbox : SUBSET Notification]
        BY DEF TypeOK, LoopsOK
      <4>2. CASE \E u \in Users : ReadNewShows(u)
        BY <4>1, <4>2 DEF ReadNewShows, world, topics, history
      <4>3. CASE ReadChanges
        BY <4>1, <4>3 DEF ReadChanges, world, topics, history
      <4>4. CASE \E n \in Notification : PublishSent(n)
        BY <4>1, <4>4 DEF PublishSent, world, topics, history
      <4>5. CASE EndDigest
        BY <4>5 DEF EndDigest, Asleep, world, topics, history
      <4> QED
        BY <2>8, <4>2, <4>3, <4>4, <4>5
    <3> QED
      BY <3>1, DisruptionUndisturbed DEF tables
  <2>9. CASE SendEmail
    <3>1. /\ UNCHANGED <<status, changes, tables, waived, consumer>>
          /\ slipped' = slipped \cup Overtaken
          /\ digest' = [digest EXCEPT !.at = "commitUser"]
          /\ lastTold' = [p \in Pairs |->
                            IF p \in DigestNotices THEN digest.notices[p[2]]
                            ELSE IF p \in DigestAlerts THEN "new_show"
                            ELSE lastTold[p]]
      BY <2>9 DEF SendEmail, world, topics
    <3>2. /\ digest'.dropChanges = digest.dropChanges
          /\ digest'.notices = digest.notices
          /\ digest'.user = digest.user
          /\ digest.user \in Users
      BY <2>9, <3>1 DEF SendEmail, TypeOK, LoopsOK
    <3>0. DigestNotices' = DigestNotices /\ DigestNotices \subseteq Pairs
      BY <3>2 DEF DigestNotices
    <3>3. \A e : Unhandled(e)' = Unhandled(e)
      BY <3>1 DEF Unhandled
    <3>4. \A p \in Pairs : (status[p[2]] \in DisruptedStatuses /\ lastTold'[p] # status[p[2]])
                             => p \in Overtaken \/ lastTold'[p] = lastTold[p]
      BY <3>1 DEF Overtaken, DisruptedStatuses, LiveStatuses
    <3>5. NobodyForgotten'
      BY <2>a, <3>1, <3>3, <3>4 DEF NobodyForgotten, tables
    <3>6. ToldAsRead'
      BY <3>0, <3>1, <3>2 DEF ToldAsRead
    <3>7. LastChangeIsCurrent' /\ DroppedWithReason'
      BY <3>1, <3>2, <3>3 DEF LastChangeIsCurrent, DroppedWithReason
    <3> QED
      BY <3>5, <3>6, <3>7
  <2>10. CASE CommitUserDigest
    <3>1. /\ UNCHANGED <<status, changes, lastTold, waived, consumer>>
          /\ slipped' = slipped \cup Overtaken
          /\ alertsSent' = alertsSent \cup DigestAlerts
          /\ pendingChanges' = pendingChanges \ DigestNotices
          /\ digest'.at = "nextUser" /\ digest'.dropChanges = digest.dropChanges
          /\ digest.at = "commitUser"
      BY <2>10 DEF CommitUserDigest, RecordedAlerts, ClearedChanges, world, topics, TypeOK,
                   LoopsOK
    <3>2. \A e : Unhandled(e)' = Unhandled(e)
      BY <3>1 DEF Unhandled
    <3>3. \A p \in DigestAlerts : status[p[2]] \in DisruptedStatuses => p \in Overtaken
      BY DEF Overtaken, DisruptedStatuses, LiveStatuses
    <3>4. \A p \in DigestNotices : lastTold[p] # status[p[2]] => p \in Overtaken
      BY <3>1 DEF Overtaken, ToldAsRead
    <3>5. NobodyForgotten'
      BY <3>1, <3>2, <3>3, <3>4 DEF NobodyForgotten
    <3> QED
      BY <3>1, <3>2, <3>5 DEF LastChangeIsCurrent, DroppedWithReason, ToldAsRead
  <2>11. CASE DigestFails \/ Crash
    <3>1. /\ UNCHANGED <<status, changes, tables, lastTold, slipped, waived>>
          /\ digest' = Asleep
          /\ consumer' = consumer \/ consumer' = Polling
      BY <2>11 DEF DigestFails, Crash, RollBack, world, topics
    <3> QED
      BY <3>1, DisruptionUndisturbed DEF tables, Asleep, Polling
  <2>12. CASE UNCHANGED vars
    BY <2>12, DisruptionUndisturbed DEF vars, world, tables, topics, history
  <2> QED
    BY <2>1, <2>2, <2>3, <2>4, <2>5, <2>6, <2>7, <2>8, <2>9, <2>10, <2>11, <2>12, <2>13,
       <2>14
       DEF Next, Environment, Consume, RunDigest
<1>3. QED
  BY <1>1, <1>2, TypeCorrect, DeliveryCorrect, PTL DEF Spec

\* A disruption reaches everyone on record with the status the show has now, unless
\* a digest worked from a reading that was overtaken or dropped the notice because
\* the reader was excused.
THEOREM DisruptionsAreReported == Spec => []DisruptionReachesUnlessSlipped
<1>1. TypeOK /\ DisruptionInv => DisruptionReachesUnlessSlipped
  BY DEF DisruptionInv, NobodyForgotten, DisruptionReachesUnlessSlipped, Uninformed, Unhandled
<1> QED
  BY <1>1, TypeCorrect, DisruptionCorrect, PTL

-----------------------------------------------------------------------------
(* The notifier implements the alert book: every step of its two loops is  *)
(* an operation on the book or none.                                       *)

\* A set of notifications and the two sets of rows it stands for.
LEMMA NotificationsOfRows ==
  ASSUME NEW A \in SUBSET Pairs, NEW B \in SUBSET Pairs
  PROVE  /\ AsNotifications(A, B) \subseteq Notification
         /\ \A n \in Notification :
              n \in AsNotifications(A, B) <=>
                \/ n.kind = "new_show" /\ <<n.user, n.show>> \in A
                \/ n.kind = "show_change" /\ <<n.user, n.show>> \in B
<1>1. \A p \in Pairs : NewShow(p) \in Notification /\ ShowChange(p) \in Notification
  BY DEF NewShow, ShowChange
<1>2. \A p \in Pairs : /\ NewShow(p).kind = "new_show"
                       /\ <<NewShow(p).user, NewShow(p).show>> = p
                       /\ ShowChange(p).kind = "show_change"
                       /\ <<ShowChange(p).user, ShowChange(p).show>> = p
  BY DEF NewShow, ShowChange
<1>3. \A n \in Notification :
        /\ <<n.user, n.show>> \in Pairs
        /\ n.kind = "new_show" => n = NewShow(<<n.user, n.show>>)
        /\ n.kind = "show_change" => n = ShowChange(<<n.user, n.show>>)
  BY DEF NewShow, ShowChange
<1>4. AsNotifications(A, B) \subseteq Notification
  BY <1>1 DEF AsNotifications
<1>5. ASSUME NEW n \in Notification
      PROVE  n \in AsNotifications(A, B) <=>
                \/ n.kind = "new_show" /\ <<n.user, n.show>> \in A
                \/ n.kind = "show_change" /\ <<n.user, n.show>> \in B
  <2>1. ASSUME n \in AsNotifications(A, B)
        PROVE  \/ n.kind = "new_show" /\ <<n.user, n.show>> \in A
               \/ n.kind = "show_change" /\ <<n.user, n.show>> \in B
    <3>1. CASE \E p \in A : n = NewShow(p)
      BY <1>2, <3>1
    <3>2. CASE \E p \in B : n = ShowChange(p)
      BY <1>2, <3>2
    <3> QED
      BY <2>1, <3>1, <3>2 DEF AsNotifications
  <2>2. ASSUME \/ n.kind = "new_show" /\ <<n.user, n.show>> \in A
               \/ n.kind = "show_change" /\ <<n.user, n.show>> \in B
        PROVE  n \in AsNotifications(A, B)
    BY <1>3, <2>2 DEF AsNotifications
  <2> QED
    BY <2>1, <2>2
<1> QED
  BY <1>4, <1>5

\* Adding rows adds their notifications.
LEMMA NotificationsOfMoreRows ==
  ASSUME NEW A, NEW B, NEW C, NEW D, NEW E, NEW F, E = A \cup C, F = B \cup D
  PROVE  AsNotifications(E, F) = AsNotifications(A, B) \cup AsNotifications(C, D)
BY DEF AsNotifications

\* Removing rows removes theirs.
LEMMA NotificationsOfOtherRows ==
  ASSUME NEW A \in SUBSET Pairs, NEW B \in SUBSET Pairs,
         NEW C \in SUBSET Pairs, NEW D \in SUBSET Pairs,
         NEW E, NEW F, E = A \ C, F = B \ D
  PROVE  AsNotifications(E, F) = AsNotifications(A, B) \ AsNotifications(C, D)
<1>1. E \in SUBSET Pairs /\ F \in SUBSET Pairs
  OBVIOUS
<1>2. AsNotifications(E, F) \subseteq Notification /\ AsNotifications(A, B) \subseteq Notification
  BY <1>1, NotificationsOfRows
<1>3. ASSUME NEW n \in Notification
      PROVE  n \in AsNotifications(E, F)
               <=> n \in AsNotifications(A, B) \ AsNotifications(C, D)
  <2>1. n \in AsNotifications(E, F) <=>
          \/ n.kind = "new_show" /\ <<n.user, n.show>> \in E
          \/ n.kind = "show_change" /\ <<n.user, n.show>> \in F
    BY <1>1, NotificationsOfRows
  <2>2. n \in AsNotifications(A, B) <=>
          \/ n.kind = "new_show" /\ <<n.user, n.show>> \in A
          \/ n.kind = "show_change" /\ <<n.user, n.show>> \in B
    BY NotificationsOfRows
  <2>3. n \in AsNotifications(C, D) <=>
          \/ n.kind = "new_show" /\ <<n.user, n.show>> \in C
          \/ n.kind = "show_change" /\ <<n.user, n.show>> \in D
    BY NotificationsOfRows
  <2>4. E = A \ C /\ F = B \ D
    OBVIOUS
  <2> QED
    BY ONLY <2>1, <2>2, <2>3, <2>4
<1> QED
  BY <1>2, <1>3

\* Fewer rows, fewer notifications.
LEMMA NotificationsOfFewerRows ==
  ASSUME NEW A, NEW B, NEW C \in SUBSET A, NEW D \in SUBSET B
  PROVE  AsNotifications(C, D) \subseteq AsNotifications(A, B)
BY DEF AsNotifications

\* The notifications of each kind come from one of the two sets of rows.
LEMMA NotificationsByKind ==
  ASSUME NEW A, NEW B, NEW S, S = AsNotifications(A, B)
  PROVE  /\ {n \in S : n.kind = "new_show"} = AsNotifications(A, {})
         /\ {n \in S : n.kind = "show_change"} = AsNotifications({}, B)
<1>1. (\A p : NewShow(p).kind = "new_show") /\ (\A p : ShowChange(p).kind = "show_change")
  BY DEF NewShow, ShowChange
<1> QED
  BY <1>1 DEF AsNotifications

\* What is worth sending depends on the world only.
LEMMA WorthUndisturbed ==
  ASSUME UNCHANGED world
  PROVE  /\ {p \in Pairs : ~StaleAlert(p)}' = {p \in Pairs : ~StaleAlert(p)}
         /\ {p \in Pairs : ~StaleChange(p)}' = {p \in Pairs : ~StaleChange(p)}
BY DEF world, StaleAlert, StaleChange

-----------------------------------------------------------------------------
\* Every behaviour of the notifier is one of the alert book: a notification leaves
\* the tables only because it was found stale while it waited or because an email
\* listed it, whatever crashes, failed digests and rows queued meanwhile.
THEOREM NotifierImplementsAlertBook == Spec => ImplementsAlertBook
<1>1. Init => Book!Init
  <2> SUFFICES ASSUME Init PROVE Book!Init
    OBVIOUS
  <2>1. AsNotifications({}, {}) = {}
    BY DEF AsNotifications
  <2>2. AsNotifications({p \in Pairs : ~StaleAlert(p)}, {p \in Pairs : ~StaleChange(p)})
          \subseteq Notification
    BY NotificationsOfRows
  <2>3. {p \in Pairs : mailed[p] > 0} = {}
    BY DEF Init
  <2> QED
    BY <2>1, <2>2, <2>3 DEF Init, Asleep, Book!Init, Book!Notification
<1>2. TypeOK /\ DeliveryInv /\ [Next]_vars => [Book!Next]_Book!vars
  <2> SUFFICES ASSUME TypeOK, DeliveryInv, [Next]_vars
               PROVE  Book!Next \/ UNCHANGED Book!vars
    OBVIOUS
  <2> DEFINE worth == AsNotifications({p \in Pairs : ~StaleAlert(p)},
                                      {p \in Pairs : ~StaleChange(p)})
             waiting == AsNotifications(pendingAlerts, pendingChanges)
             doomed == AsNotifications(digest.dropAlerts, digest.dropChanges)
             listed == AsNotifications(DigestAlerts, DigestNotices)
             sent == AsNotifications({p \in Pairs : mailed[p] > 0}, noticed)
  <2>0. /\ pendingAlerts \in SUBSET Pairs /\ pendingChanges \in SUBSET Pairs
        /\ digest.dropAlerts \in SUBSET Pairs /\ digest.dropChanges \in SUBSET Pairs
        /\ noticed \in SUBSET Pairs /\ alertsSent \in SUBSET Pairs
        /\ {p \in Pairs : mailed[p] > 0} \in SUBSET Pairs
    BY DEF TypeOK, TablesOK, LoopsOK, HistoryOK
  <2>a. UNCHANGED world => worth' = worth
    BY WorthUndisturbed
  <2>b. waiting \ worth = AsNotifications(pendingAlerts \ {p \in Pairs : ~StaleAlert(p)},
                                           pendingChanges \ {p \in Pairs : ~StaleChange(p)})
    BY <2>0, NotificationsOfOtherRows
  <2>c. /\ {n \in waiting \ worth : n.kind = "new_show"}
             = AsNotifications(pendingAlerts \ {p \in Pairs : ~StaleAlert(p)}, {})
        /\ {n \in waiting \ worth : n.kind = "show_change"}
             = AsNotifications({}, pendingChanges \ {p \in Pairs : ~StaleChange(p)})
    <3> HIDE DEF waiting, worth
    <3> QED
      BY ONLY ZenonT(30), <2>b, NotificationsByKind
  <2>1. CASE Environment
    <3>1. UNCHANGED <<waiting, doomed, sent, alertsSent>>
      BY <2>1 DEF Environment, Update, UpsertShow, ShowStarts, SetAlertEmail, MoveHome,
                  DismissEvent, ProposeMatch, tables, history
    <3>2. worth' \in SUBSET Notification
      BY NotificationsOfRows
    <3> QED
      BY <3>1, <3>2 DEF Book!Next, Book!WorldChanges, Book!Notification
  <2>2. CASE (\E p \in Pairs : ReceiveMatch(p)) \/ CheckSent \/ CommitMatch \/ CommitChange
    <3>1. UNCHANGED <<waiting, doomed, sent, alertsSent>> /\ UNCHANGED world
      BY <2>2 DEF ReceiveMatch, CheckSent, CommitMatch, CommitChange, tables, history
    <3> QED
      BY <2>a, <3>1 DEF Book!vars
  <2>3. CASE QueueAlert
    <3>1. UNCHANGED <<doomed, sent, alertsSent>> /\ UNCHANGED world
      BY <2>3 DEF QueueAlert, tables, history
    <3>2. consumer.message \in Pairs
      BY <2>3 DEF QueueAlert, TypeOK, TopicsOK, InHand, Polling
    <3>3. Book!NewShow(consumer.message) \notin doomed
      <4>1. consumer.message \notin digest.dropAlerts
        BY <2>3 DEF QueueAlert
      <4>2. /\ NewShow(consumer.message) \in Notification
            /\ NewShow(consumer.message).kind = "new_show"
            /\ <<NewShow(consumer.message).user, NewShow(consumer.message).show>>
                  = consumer.message
        BY <3>2 DEF NewShow
      <4>3. NewShow(consumer.message) \notin doomed
        BY SMTT(30), <2>0, <4>1, <4>2, NotificationsOfRows
      <4> QED
        BY <4>3 DEF NewShow, Book!NewShow
    <3>4. waiting' = waiting \cup {Book!NewShow(consumer.message)}
      BY <2>3 DEF QueueAlert, AsNotifications, NewShow, Book!NewShow
    <3> QED
      BY <2>a, <3>1, <3>2, <3>3, <3>4 DEF Book!Next, Book!Alert, Book!Pairs
  <2>4. ASSUME NEW e \in Shows, HandleChange(e)
        PROVE  Book!Next \/ UNCHANGED Book!vars
    <3>1. UNCHANGED <<doomed, sent, alertsSent, pendingAlerts>> /\ UNCHANGED world
      BY <2>4 DEF HandleChange, history
    <3>2. CASE Head(changes[e]) \in DisruptedStatuses
      <4>1. pendingChanges' = pendingChanges \cup {p \in alertsSent : p[2] = e}
        BY <2>4, <3>2 DEF HandleChange, Informed
      <4>2. waiting' = waiting \cup {Book!ShowChange(p) : p \in {q \in alertsSent : q[2] = e}}
        BY <3>1, <4>1 DEF AsNotifications, ShowChange, Book!ShowChange
      <4> QED
        BY <2>a, <3>1, <4>2 DEF Book!Next, Book!Notify
    <3>3. CASE Head(changes[e]) \notin DisruptedStatuses
      <4>1. UNCHANGED waiting
        BY <2>4, <3>1, <3>3 DEF HandleChange
      <4> QED
        BY <2>a, <3>1, <4>1 DEF Book!vars
    <3> QED
      BY <3>2, <3>3
  <2>5. CASE DropStaleAlerts
    <3>1. UNCHANGED <<waiting, sent, alertsSent>> /\ UNCHANGED world
      BY <2>5 DEF DropStaleAlerts, tables, history
    <3>2. /\ digest'.dropAlerts = pendingAlerts \ {p \in Pairs : ~StaleAlert(p)}
          /\ digest'.dropChanges = digest.dropChanges
      BY <2>0, <2>5 DEF DropStaleAlerts, TypeOK, LoopsOK
    <3>3. digest.dropAlerts = {} /\ digest.dropChanges = {}
      BY <2>5 DEF DropStaleAlerts, DeliveryInv, DigestOwnsItsRows
    <3>4. doomed' = doomed \cup {n \in waiting \ worth : n.kind = "new_show"}
      <4>1. {n \in waiting \ worth : n.kind = "new_show"}
              = AsNotifications(pendingAlerts \ {p \in Pairs : ~StaleAlert(p)}, {})
        BY <2>c
      <4>2. doomed = {}
        BY <3>3 DEF AsNotifications
      <4>3. AsNotifications(digest'.dropAlerts, digest'.dropChanges)
              = AsNotifications(pendingAlerts \ {p \in Pairs : ~StaleAlert(p)}, {})
        BY <3>2, <3>3
      <4>4. doomed' = AsNotifications(digest'.dropAlerts, digest'.dropChanges)
        BY DEF AsNotifications
      <4> HIDE DEF waiting, worth, doomed
      <4> QED
        BY <4>1, <4>2, <4>3, <4>4
    <3> QED
      BY <2>a, <3>1, <3>4 DEF Book!Next, Book!Judge
  <2>12. CASE DropStaleChanges
    <3>1. UNCHANGED <<waiting, sent, alertsSent>> /\ UNCHANGED world
      BY <2>12 DEF DropStaleChanges, tables
    <3>2. /\ digest'.dropAlerts = digest.dropAlerts
          /\ digest'.dropChanges = pendingChanges \ {p \in Pairs : ~StaleChange(p)}
      BY <2>0, <2>12 DEF DropStaleChanges, TypeOK, LoopsOK
    <3>3. digest.dropChanges = {}
      BY <2>12 DEF DropStaleChanges, DeliveryInv, DigestOwnsItsRows
    <3>4. doomed' = doomed \cup {n \in waiting \ worth : n.kind = "show_change"}
      <4>1. {n \in waiting \ worth : n.kind = "show_change"}
              = AsNotifications({}, pendingChanges \ {p \in Pairs : ~StaleChange(p)})
        BY <2>c
      <4>2. AsNotifications(digest'.dropAlerts, digest'.dropChanges)
              = doomed \cup AsNotifications({}, pendingChanges \ {p \in Pairs : ~StaleChange(p)})
        BY <3>2, <3>3, NotificationsOfMoreRows
      <4>3. doomed' = AsNotifications(digest'.dropAlerts, digest'.dropChanges)
        BY DEF AsNotifications
      <4> HIDE DEF waiting, worth, doomed
      <4> QED
        BY <4>1, <4>2, <4>3
    <3> QED
      BY <2>a, <3>1, <3>4 DEF Book!Next, Book!Judge
  <2>6. CASE ListUsers
    <3>1. UNCHANGED <<sent, alertsSent>> /\ UNCHANGED world
      BY <2>6 DEF ListUsers, history
    <3>2. digest'.dropAlerts = {} /\ digest'.dropChanges = {}
      BY <2>6 DEF ListUsers, TypeOK, LoopsOK
    <3>3. doomed' = {}
      BY <3>2 DEF AsNotifications
    <3>4. waiting' = waiting \ doomed
      <4>1. /\ pendingAlerts' = pendingAlerts \ digest.dropAlerts
            /\ pendingChanges' = pendingChanges \ digest.dropChanges
        BY <2>6 DEF ListUsers
      <4>2. AsNotifications(pendingAlerts', pendingChanges') = waiting \ doomed
        BY <2>0, <4>1, NotificationsOfOtherRows
      <4> QED
        BY <4>2
    <3> QED
      BY <2>a, <3>1, <3>3, <3>4 DEF Book!Next, Book!Discard
  <2>7. CASE (\E u \in Users : ReadNewShows(u)) \/ ReadChanges
             \/ (\E n \in Notification : PublishSent(n))
    <3>1. UNCHANGED <<waiting, sent, alertsSent>> /\ UNCHANGED world
      BY <2>7 DEF ReadNewShows, ReadChanges, PublishSent, tables, history
    <3>2. digest'.dropAlerts = digest.dropAlerts /\ digest'.dropChanges = digest.dropChanges
      <4>1. digest \in [at : DigestSteps, dropAlerts : SUBSET Pairs,
                        dropChanges : SUBSET Pairs, todo : SUBSET Users,
                        user : Users \cup {NoUser}, shows : SUBSET Shows,
                        notices : [Shows -> EventStatus \cup {"none"}],
                        outbox : SUBSET Notification]
        BY DEF TypeOK, LoopsOK
      <4>2. CASE \E u \in Users : ReadNewShows(u)
        BY <4>1, <4>2 DEF ReadNewShows
      <4>3. CASE ReadChanges
        BY <4>1, <4>3 DEF ReadChanges
      <4>4. CASE \E n \in Notification : PublishSent(n)
        BY <4>1, <4>4 DEF PublishSent
      <4> QED
        BY <2>7, <4>2, <4>3, <4>4
    <3> QED
      BY <2>a, <3>1, <3>2 DEF Book!vars
  <2>8. CASE SendEmail
    <3>1. UNCHANGED <<waiting, alertsSent>> /\ UNCHANGED world
      BY <2>8 DEF SendEmail, tables
    <3>2. digest.user \in Users
      BY <2>8 DEF SendEmail, TypeOK, LoopsOK
    <3>3. DigestAlerts \in SUBSET Pairs /\ DigestNotices \in SUBSET Pairs
      BY <3>2 DEF DigestAlerts, DigestNotices, TypeOK, LoopsOK
    <3>4. UNCHANGED doomed
      BY <2>8 DEF SendEmail, TypeOK, LoopsOK
    <3>5. listed \subseteq {n \in waiting : n.user = digest.user}
      <4>1. listed \subseteq waiting
        BY NotificationsOfFewerRows DEF DeliveryInv, DigestOwnsItsRows
      <4>2. \A n \in listed : n.user = digest.user
        BY DEF AsNotifications, NewShow, ShowChange, DigestAlerts, DigestNotices
      <4> QED
        BY <4>1, <4>2
    <3>6. sent' = sent \cup listed
      <4>1. {p \in Pairs : mailed[p] > 0}' = {p \in Pairs : mailed[p] > 0} \cup DigestAlerts
        BY <2>8, <3>3 DEF SendEmail, TypeOK, HistoryOK
      <4>2. noticed' = noticed \cup DigestNotices
        BY <2>8 DEF SendEmail
      <4>3. AsNotifications({p \in Pairs : mailed[p] > 0}', noticed') = sent \cup listed
        BY <4>1, <4>2, NotificationsOfMoreRows
      <4> QED
        BY <4>3
    <3>7. listed \subseteq Notification
      BY <3>3, NotificationsOfRows
    <3> QED
      BY <2>a, <3>1, <3>2, <3>4, <3>5, <3>6, <3>7 DEF Book!Next, Book!Mail, Book!Notification
  <2>9. CASE CommitUserDigest
    <3>1. UNCHANGED sent /\ UNCHANGED world
      BY <2>9 DEF CommitUserDigest
    <3>2. digest.user \in Users
      BY <2>9 DEF CommitUserDigest, TypeOK, LoopsOK
    <3>3. DigestAlerts \in SUBSET Pairs /\ DigestNotices \in SUBSET Pairs
      BY <3>2 DEF DigestAlerts, DigestNotices, TypeOK, LoopsOK
    <3>4. UNCHANGED doomed
      BY <2>9 DEF CommitUserDigest, TypeOK, LoopsOK
    <3>5. listed \subseteq {n \in waiting \cap sent : n.user = digest.user}
      <4>1. listed \subseteq waiting
        BY NotificationsOfFewerRows DEF DeliveryInv, DigestOwnsItsRows
      <4>2. DigestAlerts \subseteq {p \in Pairs : mailed[p] > 0} /\ DigestNotices \subseteq noticed
        BY <2>9, <3>3 DEF CommitUserDigest, DeliveryInv, EmailsAccountedFor,
                          NoticesAndReportsOnRecord
      <4>3. listed \subseteq sent
        BY <4>2, NotificationsOfFewerRows
      <4>4. \A n \in listed : n.user = digest.user
        BY DEF AsNotifications, NewShow, ShowChange, DigestAlerts, DigestNotices
      <4> QED
        BY <4>1, <4>3, <4>4
    <3>6. waiting' = waiting \ listed
      <4>1. /\ pendingAlerts' = pendingAlerts \ DigestAlerts
            /\ pendingChanges' = pendingChanges \ DigestNotices
        BY <2>9 DEF CommitUserDigest, ClearedAlerts, ClearedChanges
      <4>2. AsNotifications(pendingAlerts', pendingChanges') = waiting \ listed
        BY <2>0, <3>3, <4>1, NotificationsOfOtherRows
      <4> QED
        BY <4>2
    <3>7. alertsSent' = alertsSent \cup {p \in Pairs : Book!NewShow(p) \in listed}
      <4>1. ASSUME NEW p \in Pairs
            PROVE  Book!NewShow(p) \in listed <=> p \in DigestAlerts
        <5>1. /\ Book!NewShow(p) \in Notification
              /\ Book!NewShow(p).kind = "new_show"
              /\ <<Book!NewShow(p).user, Book!NewShow(p).show>> = p
          BY DEF Book!NewShow
        <5> QED
          BY <3>3, <5>1, NotificationsOfRows
      <4> QED
        BY <2>9, <3>3, <4>1 DEF CommitUserDigest, RecordedAlerts
    <3>8. listed \subseteq Notification
      BY <3>3, NotificationsOfRows
    <3> QED
      BY <2>a, <3>1, <3>2, <3>4, <3>5, <3>6, <3>7, <3>8
         DEF Book!Next, Book!Deliver, Book!Notification, Book!Pairs
  <2>10. CASE EndDigest \/ DigestFails \/ Crash
    <3>1. UNCHANGED <<waiting, sent, alertsSent>> /\ UNCHANGED world /\ digest' = Asleep
      BY <2>10 DEF EndDigest, DigestFails, Crash, RollBack, tables, history
    <3>2. doomed' = {}
      BY <3>1 DEF Asleep, AsNotifications
    <3> QED
      BY <2>a, <3>1, <3>2 DEF Book!Next, Book!Abandon
  <2>11. CASE UNCHANGED vars
    <3>1. UNCHANGED <<waiting, doomed, sent, alertsSent>> /\ UNCHANGED world
      BY <2>11 DEF vars, tables, history
    <3> QED
      BY <2>a, <3>1 DEF Book!vars
  <2> QED
    BY <2>1, <2>2, <2>3, <2>4, <2>5, <2>6, <2>7, <2>8, <2>9, <2>10, <2>11, <2>12
       DEF Next, Consume, RunDigest
<1>3. QED
  BY <1>1, <1>2, TypeCorrect, DeliveryCorrect, PTL DEF Spec, ImplementsAlertBook, Book!Spec
=============================================================================
