------------------------------ MODULE AlertBook ------------------------------
(***************************************************************************)
(* What the notifier promises, without its transactions, its consumer loop *)
(* or its timer: a book of notifications waiting for the next email.       *)
(*                                                                         *)
(* A notification enters the book when a match is queued ("new_show") or   *)
(* when a show its reader was told about falls through ("show_change"). It *)
(* leaves the book in one of two ways only: it was found not worth sending *)
(* while it waited, or an email that lists it went out.                    *)
(***************************************************************************)
CONSTANTS Users, Shows

Pairs == Users \X Shows

Notification == [kind : {"new_show", "show_change"}, user : Users, show : Shows]

NewShow(p) == [kind |-> "new_show", user |-> p[1], show |-> p[2]]

ShowChange(p) == [kind |-> "show_change", user |-> p[1], show |-> p[2]]

VARIABLES
  worth,    \* the notifications that are worth sending at the moment
  waiting,  \* the notifications in the book
  doomed,   \* those a running sweep has found not worth sending
  mailed,   \* those some email has listed
  told      \* the pairs (user, show) recorded as alerted

vars == <<worth, waiting, doomed, mailed, told>>

TypeOK ==
  /\ worth \subseteq Notification
  /\ waiting \subseteq Notification
  /\ doomed \subseteq Notification
  /\ mailed \subseteq Notification
  /\ told \subseteq Pairs

Init ==
  /\ worth \in SUBSET Notification
  /\ waiting = {}
  /\ doomed = {}
  /\ mailed = {}
  /\ told = {}

\* Shows sell out, start or fall through; users move, opt out or dismiss a show.
WorldChanges ==
  /\ worth' \in SUBSET Notification
  /\ UNCHANGED <<waiting, doomed, mailed, told>>

\* A match is queued for the next digest.
Alert(p) ==
  /\ NewShow(p) \notin doomed
  /\ waiting' = waiting \cup {NewShow(p)}
  /\ UNCHANGED <<worth, doomed, mailed, told>>

\* A show fell through: everyone recorded as alerted about it gets a notice.
Notify(e) ==
  /\ waiting' = waiting \cup {ShowChange(p) : p \in {q \in told : q[2] = e}}
  /\ UNCHANGED <<worth, doomed, mailed, told>>

\* A sweep judges what waits, one kind after the other; what it finds stale is
\* discarded when it ends.
Judge(kind) ==
  /\ doomed' = doomed \cup {n \in waiting \ worth : n.kind = kind}
  /\ UNCHANGED <<worth, waiting, mailed, told>>

Discard ==
  /\ waiting' = waiting \ doomed
  /\ doomed' = {}
  /\ UNCHANGED <<worth, mailed, told>>

\* A sweep that fails discards nothing.
Abandon ==
  /\ doomed' = {}
  /\ UNCHANGED <<worth, waiting, mailed, told>>

\* One email to one user lists notifications that wait for that user.
Mail(u, S) ==
  /\ S \subseteq {n \in waiting : n.user = u}
  /\ mailed' = mailed \cup S
  /\ UNCHANGED <<worth, waiting, doomed, told>>

\* The email is on record: exactly what it listed leaves the book.
Deliver(u, S) ==
  /\ S \subseteq {n \in waiting \cap mailed : n.user = u}
  /\ waiting' = waiting \ S
  /\ told' = told \cup {p \in Pairs : NewShow(p) \in S}
  /\ UNCHANGED <<worth, doomed, mailed>>

Next ==
  \/ WorldChanges
  \/ \E p \in Pairs : Alert(p)
  \/ \E e \in Shows : Notify(e)
  \/ Judge("new_show") \/ Judge("show_change")
  \/ Discard
  \/ Abandon
  \/ \E u \in Users, S \in SUBSET Notification : Mail(u, S) \/ Deliver(u, S)

Spec == Init /\ [][Next]_vars
==============================================================================
