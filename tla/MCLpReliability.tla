--------------------------- MODULE MCLpReliability ---------------------------
(***************************************************************************)
(* One end sends packets of one or two fragments, the other a packet that  *)
(* may carry Acks.  Numbers start before and behind the end of the range.  *)
(* The options change once or twice, but not in the longest traffic.       *)
(***************************************************************************)
EXTENDS LpReliability

CONSTANTS a, b

Sent(fromA, fromB) == (a :> fromA) @@ (b :> fromB)
Longest == Sent(<<2, 1>>, <<>>)
Patterns == {Longest, Sent(<<2>>, <<>>), Sent(<<1, 1>>, <<>>), Sent(<<1>>, <<1>>)}
Switches == [t \in Patterns |-> IF t = Longest THEN 0 ELSE 2]
=============================================================================
