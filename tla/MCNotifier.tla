----------------------------- MODULE MCNotifier -----------------------------
(* Instances of Notifier for TLC. *)
EXTENDS Notifier

CONSTANTS u1, u2, e1, e2

OneUser == {u1}
TwoUsers == {u1, u2}
OneShow == {e1}
TwoShows == {e1, e2}

\* A live status, one that is neither live nor disrupted, and two disrupted ones.
SomeStatuses == {"on_sale", "sold_out", "postponed", "cancelled"}

\* A live status and two disrupted ones, for notices that are overtaken.
Disruptions == {"on_sale", "postponed", "cancelled"}

\* One of each kind, for runs in which a status changes once.
OneDisruption == {"on_sale", "cancelled"}
==============================================================================
