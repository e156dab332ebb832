---------------------------- MODULE MCSatUpdate ----------------------------
(***************************************************************************)
(* A ring of four satellites; the consumer is above a or b, the mobile     *)
(* producer above c or d, or out of range.  Paths share links, and there   *)
(* are two shortest ones between opposite satellites: distances decide     *)
(* between them when one is computed.                                      *)
(***************************************************************************)
EXTENDS SatUpdate, TLC

CONSTANTS a, b, c, d, st1, st2

Stations == <<st1, st2>>
Roles == (st1 :> "consumer") @@ (st2 :> "m_producer")
Views == (st1 :> {a, b, Gap}) @@ (st2 :> {c, d, Gap})
Paths == {<<a, d>>, <<b, c>>, <<a, b, c>>, <<a, d, c>>, <<b, c, d>>, <<b, a, d>>}
=============================================================================
