------------------------- MODULE MCHandoverManager -------------------------
(***************************************************************************)
(* Small constellations for TLC.  Ring: four satellites in a ring, the     *)
(* smallest cycle of the +grid of the constellations that the scenarios    *)
(* use, and one more behind c, which is out of reach of a with hop limit 3 *)
(* while requests between the four go both ways round.  Pair: two          *)
(* neighbours.                                                             *)
(***************************************************************************)
EXTENDS HandoverManagerProperties, TLC

CONSTANTS a, b, c, d, e, ab, bc, cd, da, ce

RingSat == {a, b, c, d, e}
RingIsl == {ab, bc, cd, da, ce}
RingEnds ==
  (ab :> <<a, b>>) @@ (bc :> <<b, c>>) @@ (cd :> <<d, c>>) @@ (da :> <<a, d>>) @@ (ce :> <<c, e>>)

\* Exchanging b and d, and the links on either side, leaves the ring as it is.
Reflections ==
  {p \in Permutations({b, d, ab, bc, cd, da}) :
     \/ \A x \in DOMAIN p : p[x] = x
     \/ p[b] = d /\ p[d] = b /\ p[ab] = da /\ p[da] = ab /\ p[bc] = cd}

PairSat == {a, b}
PairIsl == {ab}
PairEnds == ab :> <<a, b>>
=============================================================================
