------------------------------- MODULE MCFollows -------------------------------
(* Instances of Follows for TLC. *)
EXTENDS Follows, TLC

CONSTANTS u1, a1, a2, e1, p1, h1, h2

OneUser == {u1}
TwoArtists == {a1, a2}
OneShow == {e1}
OnePlace == {p1}
Listing(lineup, headliners) ==
  [live |-> TRUE, place |-> p1, lineup |-> lineup, headliners |-> headliners]
\* A show of one artist, with a support act, and what a folded listing with the other
\* headliner makes of that.
ThreeRows == {Listing({a1}, {a1}), Listing({a1, a2}, {a1}), Listing({a1, a2}, {a1, a2})}
TwoHandlers == {h1, h2}
\* No step tells one handler from another.
Alike == Permutations(TwoHandlers)
================================================================================
