------------------------------- MODULE Notifier -------------------------------
(***************************************************************************)
(* services/notifier: one process that runs two loops over one database.   *)
(*                                                                         *)
(* consume_loop takes one Kafka message at a time (matches.proposed or     *)
(* events.status_changed), handles it in one READ COMMITTED transaction    *)
(* and then commits its offset; a crash in between redelivers the message. *)
(* daily_digests wakes once a day, drops what went stale in the queues,    *)
(* then sends every remaining user one email, one transaction per user.    *)
(* The two loops interleave at every await, so a step here is a statement  *)
(* or a commit, never a whole transaction.                                 *)
(*                                                                         *)
(* Around them the deduper updates shows, users change their settings and  *)
(* the matcher proposes matches.  Rows of users and events are never       *)
(* deleted by the code, so process_match's MISSING outcome cannot happen   *)
(* and is left out.                                                        *)
(***************************************************************************)
EXTENDS Integers, Sequences, FiniteSets

CONSTANTS
  Users, Shows,
  NoUser,        \* the digest is not writing to anyone
  NoMessage,     \* the consumer holds no message
  NewStatuses,   \* the statuses a re-scrape writes in this instance
  MaxUpdates,    \* bound: re-scrapes, settings changes and shows that start
  MaxProposals,  \* bound: matches the matcher publishes
  MaxFaults      \* bound: crashes and failed digest runs

\* The event_status enum of the events table.
EventStatus ==
  {"announced", "on_sale", "sold_out", "cancelled", "rescheduled", "postponed"}

\* The statuses of a show worth announcing.
LiveStatuses == {"announced", "on_sale"}

\* The statuses that break the plans of someone who was told about the show.
DisruptedStatuses == {"cancelled", "postponed", "rescheduled"}

Pairs == Users \X Shows

ASSUME NotifierAssumption ==
  /\ NoUser \notin Users
  /\ NoMessage \notin Pairs \cup Shows
  /\ Pairs \cap Shows = {}
  /\ NewStatuses \subseteq EventStatus
  /\ MaxUpdates \in Nat /\ MaxProposals \in Nat /\ MaxFaults \in Nat

Notification == [kind : {"new_show", "show_change"}, user : Users, show : Shows]

NewShow(p) == [kind |-> "new_show", user |-> p[1], show |-> p[2]]

ShowChange(p) == [kind |-> "show_change", user |-> p[1], show |-> p[2]]

VARIABLES
  \* the shared database, as far as the notifier reads it
  status,          \* events.status
  started,         \* the shows whose starts_at has passed
  alertEmail,      \* users.alert_email
  reach,           \* the pairs whose venue is within the user's radius of home
  dismissed,       \* dismissals
  \* the tables the notifier writes
  pendingAlerts,   \* pending_alerts
  pendingChanges,  \* pending_show_changes
  alertsSent,      \* alerts_sent, channel email
  \* the topics: what each key still has past the committed offset
  matches,         \* matches.proposed, keyed user:event; equal messages, so a count
  changes,         \* events.status_changed, keyed by event, with the new status
  published,       \* notifications.sent
  \* the two loops
  consumer,
  digest,
  \* what reached the inboxes, and why a promise was missed (never read by the code)
  mailed,          \* how many emails listed the pair as a new show
  noticed,         \* the pairs some email listed as changed
  lastTold,        \* what the latest email about the pair said
  raced,           \* re-queued by a match checked before the digest recorded it
  interrupted,     \* emailed by a digest transaction that then rolled back
  slipped,         \* listed or recorded by a digest whose reading was overtaken
  waived,          \* change notices dropped because the reader was excused
  \* the bounds
  updates, proposals, faults

world == <<status, started, alertEmail, reach, dismissed>>
tables == <<pendingAlerts, pendingChanges, alertsSent>>
topics == <<matches, changes>>
history == <<mailed, noticed, lastTold, raced, interrupted, slipped, waived>>
bounds == <<updates, proposals, faults>>

vars == <<world, tables, topics, published, consumer, digest, history, bounds>>

ConsumerSteps == {"poll", "checkSent", "queueAlert", "commitMatch", "commitChange"}

Polling == [at |-> "poll", message |-> NoMessage, optedIn |-> FALSE]

DigestSteps ==
  {"asleep", "dropChanges", "listUsers", "nextUser", "readChanges", "sendEmail",
   "commitUser"}

NoNotices == [e \in Shows |-> "none"]

Asleep ==
  [at |-> "asleep", dropAlerts |-> {}, dropChanges |-> {}, todo |-> {},
   user |-> NoUser, shows |-> {}, notices |-> NoNotices, outbox |-> {}]

Init ==
  /\ status \in [Shows -> LiveStatuses \cap NewStatuses]
  /\ started = {}
  /\ alertEmail = [u \in Users |-> TRUE]
  /\ reach = Pairs
  /\ dismissed = {}
  /\ pendingAlerts = {} /\ pendingChanges = {} /\ alertsSent = {}
  /\ matches = [p \in Pairs |-> 0]
  /\ changes = [e \in Shows |-> <<>>]
  /\ published = {}
  /\ consumer = Polling
  /\ digest = Asleep
  /\ mailed = [p \in Pairs |-> 0]
  /\ noticed = {}
  /\ lastTold = [p \in Pairs |-> "nothing"]
  /\ raced = {} /\ interrupted = {} /\ slipped = {} /\ waived = {}
  /\ updates = 0 /\ proposals = 0 /\ faults = 0

-------------------------------------------------------------------------------
(* The rest of the system *)

Update ==
  /\ updates < MaxUpdates
  /\ updates' = updates + 1
  /\ UNCHANGED <<tables, published, consumer, digest, history, proposals, faults>>

\* The deduper overwrites a known show with a fresh scrape, which may change its
\* status, its date or both, and announces a changed status; the end of a sales
\* window (on_sale to announced) is not announced.
UpsertShow(e, s) ==
  /\ Update
  /\ status' = [status EXCEPT ![e] = s]
  /\ started' \in {started, started \ {e}}
  /\ s # status[e] \/ started' # started
  /\ changes' =
       IF s = status[e] \/ (status[e] = "on_sale" /\ s = "announced")
         THEN changes
         ELSE [changes EXCEPT ![e] = Append(@, s)]
  /\ UNCHANGED <<alertEmail, reach, dismissed, matches>>

ShowStarts(e) ==
  /\ Update
  /\ e \notin started
  /\ started' = started \cup {e}
  /\ UNCHANGED <<status, alertEmail, reach, dismissed, topics>>

SetAlertEmail(u) ==
  /\ Update
  /\ alertEmail' = [alertEmail EXCEPT ![u] = ~@]
  /\ UNCHANGED <<status, started, reach, dismissed, topics>>

\* A new home, radius or no home at all: any set of shows may be in range next.
MoveHome(u, near) ==
  /\ Update
  /\ reach' = {p \in reach : p[1] # u} \cup ({u} \X near)
  /\ reach' # reach
  /\ UNCHANGED <<status, started, alertEmail, dismissed, topics>>

DismissEvent(u, e) ==
  /\ Update
  /\ <<u, e>> \notin dismissed
  /\ dismissed' = dismissed \cup {<<u, e>>}
  /\ UNCHANGED <<status, started, alertEmail, reach, topics>>

\* The matcher proposes a live, upcoming, nearby, undismissed show; an enriched
\* event and a taste update may both propose the same pair.
ProposeMatch(p) ==
  /\ proposals < MaxProposals
  /\ status[p[2]] \in LiveStatuses
  /\ p[2] \notin started
  /\ p \in reach
  /\ p \notin dismissed
  /\ matches' = [matches EXCEPT ![p] = @ + 1]
  /\ proposals' = proposals + 1
  /\ UNCHANGED <<world, tables, changes, published, consumer, digest, history,
                 updates, faults>>

-------------------------------------------------------------------------------
(* consume_loop: a match *)

\* First statement of process_match: the user's preferences.
ReceiveMatch(p) ==
  /\ consumer.at = "poll"
  /\ matches[p] > 0
  /\ consumer' = [at |-> "checkSent", message |-> p, optedIn |-> alertEmail[p[1]]]
  /\ UNCHANGED <<world, tables, topics, published, digest, history, bounds>>

\* already_sent, then the opt-out: either ends the transaction without a write.
\* (AfterCheckUnrecorded: a mutant that never asks alerts_sent.)
AfterCheckUnrecorded(p, optedIn) ==
  IF ~optedIn THEN "commitMatch" ELSE "queueAlert"

AfterCheck(p, optedIn) ==
  IF p \in alertsSent \/ ~optedIn THEN "commitMatch" ELSE "queueAlert"

CheckSent ==
  /\ consumer.at = "checkSent"
  /\ consumer' =
       [at |-> AfterCheck(consumer.message, consumer.optedIn),
        message |-> consumer.message, optedIn |-> FALSE]
  /\ UNCHANGED <<world, tables, topics, published, digest, history, bounds>>

\* INSERT ... ON CONFLICT DO NOTHING, the transaction's last statement.  A row
\* that the digest's open transaction has deleted makes the insert wait for it.
QueueAlert ==
  /\ consumer.at = "queueAlert"
  /\ consumer.message \notin digest.dropAlerts
  /\ pendingAlerts' = pendingAlerts \cup {consumer.message}
  /\ consumer' = [consumer EXCEPT !.at = "commitMatch"]
  /\ UNCHANGED <<world, pendingChanges, alertsSent, topics, published, digest,
                 history, bounds>>

\* The offset is committed.  (Mutant: the consumer polls on without committing.)
CommitMatchNever ==
  /\ consumer.at = "commitMatch"
  /\ consumer' = Polling
  /\ UNCHANGED <<world, tables, topics, published, digest, history, bounds>>

CommitMatch ==
  /\ consumer.at = "commitMatch"
  /\ matches' = [matches EXCEPT ![consumer.message] = @ - 1]
  /\ consumer' = Polling
  /\ UNCHANGED <<world, tables, changes, published, digest, history, bounds>>

-------------------------------------------------------------------------------
(* consume_loop: a status change *)

\* Everyone recorded in alerts_sent for the show.  (Mutant: everyone whose alert
\* still waits as well.)
InformedOrWaiting(e) == {p \in alertsSent \cup pendingAlerts : p[2] = e}

Informed(e) == {p \in alertsSent : p[2] = e}

\* process_status_change: one INSERT ... SELECT, or nothing for a harmless status.
HandleChange(e) ==
  /\ consumer.at = "poll"
  /\ changes[e] # <<>>
  /\ IF Head(changes[e]) \in DisruptedStatuses
       THEN /\ Informed(e) \cap digest.dropChanges = {}
            /\ pendingChanges' = pendingChanges \cup Informed(e)
       ELSE UNCHANGED pendingChanges
  /\ consumer' = [at |-> "commitChange", message |-> e, optedIn |-> FALSE]
  /\ UNCHANGED <<world, pendingAlerts, alertsSent, topics, published, digest,
                 history, bounds>>

CommitChange ==
  /\ consumer.at = "commitChange"
  /\ changes' = [changes EXCEPT ![consumer.message] = Tail(@)]
  /\ consumer' = Polling
  /\ UNCHANGED <<world, tables, matches, published, digest, history, bounds>>

-------------------------------------------------------------------------------
(* daily_digests: drop what went stale *)

\* Not worth announcing any more (_DROP_STALE_NEW_SHOWS).
StaleAlert(p) ==
  \/ p[2] \in started
  \/ status[p[2]] \notin LiveStatuses
  \/ ~alertEmail[p[1]]
  \/ p \notin reach
  \/ p \in dismissed

\* Reasons, other than the show being back on, to leave a reader without a notice.
Excused(p) ==
  \/ p[2] \in started
  \/ ~alertEmail[p[1]]
  \/ p \in dismissed

\* Not worth a notice any more (_DROP_STALE_CHANGES); the range does not matter.
\* (Mutant: it does.)
StaleChangeOrFar(p) ==
  \/ p[2] \in started
  \/ status[p[2]] \notin DisruptedStatuses
  \/ ~alertEmail[p[1]]
  \/ p \notin reach
  \/ p \in dismissed

StaleChange(p) ==
  \/ p[2] \in started
  \/ status[p[2]] \notin DisruptedStatuses
  \/ ~alertEmail[p[1]]
  \/ p \in dismissed

\* The two DELETEs; their rows stay locked until the transaction ends.
DropStaleAlerts ==
  /\ digest.at = "asleep"
  /\ digest' = [digest EXCEPT !.at = "dropChanges",
                              !.dropAlerts = {p \in pendingAlerts : StaleAlert(p)}]
  /\ UNCHANGED <<world, tables, topics, published, consumer, history, bounds>>

DropStaleChanges ==
  /\ digest.at = "dropChanges"
  /\ digest' = [digest EXCEPT !.at = "listUsers",
                              !.dropChanges = {p \in pendingChanges : StaleChange(p)}]
  /\ waived' = waived \cup {p \in pendingChanges : StaleChange(p) /\ Excused(p)}
  /\ UNCHANGED <<world, tables, topics, published, consumer, mailed, noticed, lastTold,
                 raced, interrupted, slipped, bounds>>

\* _USERS_WITH_PENDING over the rows that remain.  (Mutants: one half of the UNION.)
UsersWithAlerts(alerts, notices) == {p[1] : p \in alerts}

UsersWithNotices(alerts, notices) == {p[1] : p \in notices}

UsersWithPending(alerts, notices) == {p[1] : p \in alerts \cup notices}

ListUsers ==
  /\ digest.at = "listUsers"
  /\ pendingAlerts' = pendingAlerts \ digest.dropAlerts
  /\ pendingChanges' = pendingChanges \ digest.dropChanges
  /\ digest' = [digest EXCEPT !.at = "nextUser", !.dropAlerts = {}, !.dropChanges = {},
                              !.todo = UsersWithPending(pendingAlerts', pendingChanges')]
  /\ UNCHANGED <<world, alertsSent, topics, published, consumer, history, bounds>>

-------------------------------------------------------------------------------
(* daily_digests: one transaction and one email per user *)

ReadNewShows(u) ==
  /\ digest.at = "nextUser"
  /\ u \in digest.todo
  /\ digest' = [digest EXCEPT !.at = "readChanges", !.user = u,
                              !.shows = {e \in Shows : <<u, e>> \in pendingAlerts}]
  /\ UNCHANGED <<world, tables, topics, published, consumer, history, bounds>>

\* The user's waiting change notices, each with the show's status as of now.
NoticesOf(u) == [e \in Shows |-> IF <<u, e>> \in pendingChanges THEN status[e] ELSE "none"]

\* A user whose rows are gone by now gets no email.
ReadChanges ==
  /\ digest.at = "readChanges"
  /\ LET notices == NoticesOf(digest.user) IN
     digest' =
       IF digest.shows = {} /\ notices = NoNotices
         THEN [digest EXCEPT !.at = "nextUser", !.user = NoUser, !.todo = @ \ {digest.user}]
         ELSE [digest EXCEPT !.at = "sendEmail", !.notices = notices]
  /\ UNCHANGED <<world, tables, topics, published, consumer, history, bounds>>

DigestAlerts == {digest.user} \X digest.shows

DigestNotices == {digest.user} \X {e \in Shows : digest.notices[e] # "none"}

\* What the open digest transaction says although the show's status has moved on.
Overtaken ==
  {p \in DigestAlerts : status[p[2]] \notin LiveStatuses}
    \cup {p \in DigestNotices : status[p[2]] # digest.notices[p[2]]}

SendEmail ==
  /\ digest.at = "sendEmail"
  /\ mailed' = [p \in Pairs |-> IF p \in DigestAlerts THEN mailed[p] + 1 ELSE mailed[p]]
  /\ noticed' = noticed \cup DigestNotices
  /\ lastTold' = [p \in Pairs |->
                    IF p \in DigestNotices THEN digest.notices[p[2]]
                    ELSE IF p \in DigestAlerts THEN "new_show"
                    ELSE lastTold[p]]
  /\ slipped' = slipped \cup Overtaken
  /\ digest' = [digest EXCEPT !.at = "commitUser"]
  /\ UNCHANGED <<world, tables, topics, published, consumer, raced, interrupted,
                 waived, bounds>>

\* The rows record_sent writes.  (Mutant: the bookkeeping is forgotten.)
NothingRecorded == {}

RecordedAlerts == DigestAlerts

\* The rows the two clearing DELETEs take: those the email listed, by event id.
\* (Mutant: all of the user's rows.)
AllAlertsCleared == {digest.user} \X Shows

ClearedAlerts == DigestAlerts

ClearedChanges == DigestNotices

\* record_sent for every new show, the clearing DELETEs and the commit.
CommitUserDigest ==
  /\ digest.at = "commitUser"
  /\ alertsSent' = alertsSent \cup RecordedAlerts
  /\ pendingAlerts' = pendingAlerts \ ClearedAlerts
  /\ pendingChanges' = pendingChanges \ ClearedChanges
  /\ digest' = [digest EXCEPT !.at = "nextUser", !.user = NoUser, !.shows = {},
                  !.notices = NoNotices, !.todo = @ \ {digest.user},
                  !.outbox = @ \cup {NewShow(p) : p \in DigestAlerts}
                               \cup {ShowChange(p) : p \in DigestNotices}]
  /\ raced' = raced \cup {p \in DigestAlerts : consumer.at = "queueAlert" /\ consumer.message = p}
  /\ slipped' = slipped \cup Overtaken
  /\ UNCHANGED <<world, topics, published, consumer, mailed, noticed, lastTold,
                 interrupted, waived, bounds>>

\* notifications.sent is published only after every user has been served.
PublishSent(n) ==
  /\ digest.at = "nextUser" /\ digest.todo = {}
  /\ n \in digest.outbox
  /\ published' = published \cup {n}
  /\ digest' = [digest EXCEPT !.outbox = @ \ {n}]
  /\ UNCHANGED <<world, tables, topics, consumer, history, bounds>>

EndDigest ==
  /\ digest.at = "nextUser" /\ digest.todo = {} /\ digest.outbox = {}
  /\ digest' = Asleep
  /\ UNCHANGED <<world, tables, topics, published, consumer, history, bounds>>

-------------------------------------------------------------------------------
(* Failures: an open transaction rolls back, an email is not unsent *)

RollBack ==
  /\ faults < MaxFaults
  /\ faults' = faults + 1
  /\ digest' = Asleep
  /\ interrupted' = interrupted \cup
       (IF digest.at = "commitUser" THEN DigestAlerts ELSE {})
  /\ UNCHANGED <<world, tables, topics, published, mailed, noticed, lastTold, raced,
                 slipped, waived, updates, proposals>>

\* An exception in the digest: logged, and tried again the next day.
DigestFails ==
  /\ digest # Asleep
  /\ RollBack
  /\ UNCHANGED consumer

\* The process dies (any other exception, or a kill) and restarts at once; the
\* message in hand is past no committed offset and is delivered again.
Crash ==
  /\ consumer # Polling \/ digest # Asleep
  /\ RollBack
  /\ consumer' = Polling

-------------------------------------------------------------------------------
Environment ==
  \/ \E e \in Shows, s \in NewStatuses : UpsertShow(e, s)
  \/ \E e \in Shows : ShowStarts(e)
  \/ \E u \in Users : SetAlertEmail(u)
  \/ \E u \in Users, near \in SUBSET Shows : MoveHome(u, near)
  \/ \E u \in Users, e \in Shows : DismissEvent(u, e)
  \/ \E p \in Pairs : ProposeMatch(p)

Consume ==
  \/ \E p \in Pairs : ReceiveMatch(p)
  \/ CheckSent
  \/ QueueAlert
  \/ CommitMatch
  \/ \E e \in Shows : HandleChange(e)
  \/ CommitChange

RunDigest ==
  \/ DropStaleAlerts
  \/ DropStaleChanges
  \/ ListUsers
  \/ \E u \in Users : ReadNewShows(u)
  \/ ReadChanges
  \/ SendEmail
  \/ CommitUserDigest
  \/ \E n \in Notification : PublishSent(n)
  \/ EndDigest

Next == Environment \/ Consume \/ RunDigest \/ DigestFails \/ Crash

Spec == Init /\ [][Next]_vars

\* The consumer keeps polling, the timer fires every day and what a digest
\* started goes on; nothing obliges the world to change or the process to fail.
FairSpec == Spec /\ WF_vars(Consume) /\ WF_vars(RunDigest)

-------------------------------------------------------------------------------
(* Properties *)

TablesOK ==
  /\ status \in [Shows -> EventStatus]
  /\ started \subseteq Shows
  /\ alertEmail \in [Users -> BOOLEAN]
  /\ reach \subseteq Pairs
  /\ dismissed \subseteq Pairs
  /\ pendingAlerts \subseteq Pairs
  /\ pendingChanges \subseteq Pairs
  /\ alertsSent \subseteq Pairs

\* The message in hand is past no committed offset: a crash delivers it again.
InHand ==
  \/ consumer = Polling
  \/ /\ consumer.at \in {"checkSent", "queueAlert", "commitMatch"}
     /\ consumer.message \in Pairs
     /\ matches[consumer.message] > 0
  \/ /\ consumer.at = "commitChange"
     /\ consumer.message \in Shows
     /\ changes[consumer.message] # <<>>

TopicsOK ==
  /\ matches \in [Pairs -> Nat]
  /\ changes \in [Shows -> Seq(EventStatus)]
  /\ published \subseteq Notification
  /\ InHand

LoopsOK ==
  /\ consumer \in [at : ConsumerSteps, message : Pairs \cup Shows \cup {NoMessage},
                    optedIn : BOOLEAN]
  /\ digest \in [at : DigestSteps, dropAlerts : SUBSET Pairs, dropChanges : SUBSET Pairs,
                  todo : SUBSET Users, user : Users \cup {NoUser}, shows : SUBSET Shows,
                  notices : [Shows -> EventStatus \cup {"none"}],
                  outbox : SUBSET Notification]
  /\ digest.at \in {"readChanges", "sendEmail", "commitUser"} => digest.user \in Users

HistoryOK ==
  /\ mailed \in [Pairs -> Nat]
  /\ noticed \subseteq Pairs
  /\ lastTold \in [Pairs -> EventStatus \cup {"nothing", "new_show"}]
  /\ raced \subseteq Pairs
  /\ interrupted \subseteq Pairs
  /\ slipped \subseteq Pairs
  /\ waived \subseteq Pairs

BoundsOK == updates \in Nat /\ proposals \in Nat /\ faults \in Nat

\* Every variable keeps its shape: tables hold rows of known users and shows, each
\* loop is at one of its steps, and the consumer works on an uncommitted message.
TypeOK == TablesOK /\ TopicsOK /\ LoopsOK /\ HistoryOK /\ BoundsOK

\* A user is emailed twice about one new show for two reasons only: a match that
\* was being handled while the digest recorded the first email, or a digest
\* transaction that rolled back after its email had left.  Duplicate matches,
\* redeliveries and repeated digests do not suffice.
OnceUnlessRacedOrInterrupted ==
  \A p \in Pairs : mailed[p] > 1 => p \in raced \cup interrupted

\* Nobody receives an update about a show they were never emailed about.
NoticeFollowsAlert == \A p \in noticed : mailed[p] > 0

\* notifications.sent never reports what is not on record in alerts_sent, even
\* though transactions roll back and the report comes much later.
PublishedWereRecorded == \A n \in published : <<n.user, n.show>> \in alertsSent

\* The user is on record for a show that fell through, nothing about it is under
\* way, nothing excuses silence, and yet their latest email says something else.
Uninformed(p) ==
  /\ p \in alertsSent
  /\ status[p[2]] \in DisruptedStatuses
  /\ changes[p[2]] = <<>>
  /\ p \notin pendingChanges
  /\ ~Excused(p)
  /\ lastTold[p] # status[p[2]]

\* A disruption reaches everyone on record, with the status the show has now,
\* unless a digest listed or recorded a status overtaken after it had been read.
DisruptionReachesUnlessSlipped ==
  \A p \in Pairs : Uninformed(p) => p \in slipped \cup waived

\* ADR 006: "users already emailed about a show get a notice in the next digest
\* if it is cancelled, postponed, or rescheduled, using its status at send time".
\* The code does not keep it: a show can fall through while a digest is running.
DisruptionReachesEveryoneTold == \A p \in Pairs : Uninformed(p) => p \in waived

\* dedup.py: "never notify a user twice about the same event on one channel".
\* The code does not keep it: already_sent and queue_alert are two statements
\* of a READ COMMITTED transaction and the digest can commit in between.
NeverNotifiedTwice == \A p \in Pairs : mailed[p] <= 1

\* The tables, the mailbox and the sweep behave like the abstract alert book.
AsNotifications(alerts, notices) ==
  {NewShow(p) : p \in alerts} \cup {ShowChange(p) : p \in notices}

Book == INSTANCE AlertBook WITH
  worth <- AsNotifications({p \in Pairs : ~StaleAlert(p)}, {p \in Pairs : ~StaleChange(p)}),
  waiting <- AsNotifications(pendingAlerts, pendingChanges),
  doomed <- AsNotifications(digest.dropAlerts, digest.dropChanges),
  mailed <- AsNotifications({p \in Pairs : mailed[p] > 0}, noticed),
  told <- alertsSent

\* A waiting notification disappears only because it was found stale while it
\* waited or because an email listed it: a row queued while a digest is writing
\* to its user survives that digest.
ImplementsAlertBook == Book!Spec

\* Every alert and every notice that is queued is eventually settled: sent or
\* dropped, however many digests fail on other users first.
AlertsSettle == \A p \in Pairs : (p \in pendingAlerts) ~> (p \notin pendingAlerts)

NoticesSettle == \A p \in Pairs : (p \in pendingChanges) ~> (p \notin pendingChanges)

\* No message wedges its partition.
MessagesDrain ==
  /\ \A p \in Pairs : (matches[p] > 0) ~> (matches[p] = 0)
  /\ \A e \in Shows : (changes[e] # <<>>) ~> (changes[e] = <<>>)

-------------------------------------------------------------------------------
(* Why the safety properties hold: inductive strengthenings *)

\* What the open digest transaction is about still waits: only a digest removes rows.
DigestOwnsItsRows ==
  /\ digest.at \notin {"readChanges", "sendEmail", "commitUser"} => digest.shows = {}
  /\ digest.at \notin {"sendEmail", "commitUser"} => digest.notices = NoNotices
  /\ digest.at \notin {"dropChanges", "listUsers"} => digest.dropAlerts = {}
  /\ digest.at # "listUsers" => digest.dropChanges = {}
  /\ DigestAlerts \subseteq pendingAlerts
  /\ DigestNotices \subseteq pendingChanges
  /\ digest.dropChanges \subseteq pendingChanges

\* A pair on record waits again, or is about to, only if it was raced.
RequeuedWereRaced ==
  /\ pendingAlerts \cap alertsSent \subseteq raced
  /\ (consumer.at = "queueAlert" /\ consumer.message \in alertsSent)
       => consumer.message \in raced

\* An email is on record, about to be, or belongs to a transaction that rolled back.
EmailsAccountedFor ==
  \A p \in Pairs :
    /\ mailed[p] > 0 => \/ p \in alertsSent \cup interrupted
                        \/ digest.at = "commitUser" /\ p \in DigestAlerts
    /\ p \in alertsSent => mailed[p] > 0
    /\ (digest.at = "commitUser" /\ p \in DigestAlerts) => mailed[p] > 0

\* Notices and reports concern pairs on record only, and no notice is cleared unsent.
NoticesAndReportsOnRecord ==
  /\ pendingChanges \subseteq alertsSent
  /\ noticed \subseteq alertsSent
  /\ digest.at = "commitUser" => DigestNotices \subseteq noticed
  /\ \A n \in digest.outbox \cup published : <<n.user, n.show>> \in alertsSent

DeliveryInv ==
  /\ DigestOwnsItsRows
  /\ RequeuedWereRaced
  /\ EmailsAccountedFor
  /\ NoticesAndReportsOnRecord
  /\ OnceUnlessRacedOrInterrupted

\* A status change the consumer has yet to handle.
Unhandled(e) ==
  /\ changes[e] # <<>>
  /\ (consumer.at = "commitChange" /\ consumer.message = e) => Len(changes[e]) > 1

\* The newest message about a show that fell through carries the status it has now.
LastChangeIsCurrent ==
  \A e \in Shows : (status[e] \in DisruptedStatuses /\ changes[e] # <<>>)
                     => changes[e][Len(changes[e])] = status[e]

\* Whoever was told something else waits for a notice or for the consumer, or has
\* a reason not to.
NobodyForgotten ==
  \A p \in alertsSent :
    (status[p[2]] \in DisruptedStatuses /\ lastTold[p] # status[p[2]])
      => p \in pendingChanges \cup slipped \cup waived \/ Unhandled(p[2])

\* A notice about to be dropped has such a reason, or another will follow it.
DroppedWithReason ==
  \A p \in digest.dropChanges :
    status[p[2]] \in DisruptedStatuses => p \in waived \/ Unhandled(p[2])

\* Between the email and its record, the email is the latest word.
ToldAsRead ==
  digest.at = "commitUser" => \A p \in DigestNotices : lastTold[p] = digest.notices[p[2]]

DisruptionInv ==
  LastChangeIsCurrent /\ NobodyForgotten /\ DroppedWithReason /\ ToldAsRead
==============================================================================
