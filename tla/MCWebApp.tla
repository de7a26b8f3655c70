------------------------------- MODULE MCWebApp -------------------------------
(* Instances of WebApp for TLC. *)
EXTENDS WebApp

CONSTANTS u1, u2, a1, e1, e2, e3

TwoUsers == {u1, u2}
OneArtist == {a1}
ThreeEvents == {e1, e2, e3}
AllOrSome == {{e1, e2, e3}, {e1, e3}}
TwoRankings == {<<e1, e2, e3>>, <<e3, e1>>}

Symmetry == Permutations(TwoUsers)
===============================================================================
