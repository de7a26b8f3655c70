------------------------------ MODULE MCEnricher ------------------------------
(* Instances of Enricher for TLC: two spellings of one artist. *)
EXTENDS Enricher

CONSTANTS u1, e1, i1, i2, m1, p1

OneUser == {u1}
OneShow == {e1}
TwoIds == {i1, i2}
Spellings == {"Beyonce", "BEYONCE Knowles"}
OneMbid == {m1}
OneSpotifyId == {p1}
SameMbid == [n \in Names |-> m1]
SameSpotifyId == [n \in Names |-> p1]
==============================================================================
