--------------------------- MODULE MCRouteUpdate ---------------------------
(***************************************************************************)
(* Paths on a square of satellites a, b, c, d: they share links, run       *)
(* against each other, and include the path of a pair with one satellite.  *)
(***************************************************************************)
EXTENDS RouteUpdate

CONSTANTS a, b, c, d

Paths == {<<a, b, c>>, <<b, c>>, <<b, c, d>>, <<c, b, a>>, <<d, a>>, <<a, b>>, <<c>>}
=============================================================================
