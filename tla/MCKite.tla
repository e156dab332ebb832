-------------------------------- MODULE MCKite --------------------------------
(***************************************************************************)
(* A producer that moves from s1 to s2, below a node x and the RV's node   *)
(* r; the consumer reaches the RV over s1.                                 *)
(***************************************************************************)
EXTENDS Kite

CONSTANTS c, p, r, x, s1, s2, app

Both(S) == S \cup {<<e[2], e[1]>> : e \in S}
Links == Both({<<r, x>>, <<x, s1>>, <<x, s2>>, <<s1, c>>, <<s1, p>>, <<s2, p>>})
ToRv == [n \in Node \ {p} |-> CASE n = r -> app [] n = x -> r [] n = s1 -> x [] n = s2 -> x [] n = c -> s1]
=============================================================================
