-------------------------------- MODULE MCRib --------------------------------
(***************************************************************************)
(* Two faces of applications that stay and one that may go.  As with the   *)
(* registrants of the simulator, a face has one origin, every route of a   *)
(* name has the same flags, and all are handed down.                       *)
(***************************************************************************)
EXTENDS Rib

CONSTANTS f1, f2, f3, app

a == <<"a">>
ab == <<"a", "b">>
ac == <<"a", "c">>
m == <<"m">>
Names == {a, ab, ac, m}

Use(n, f, cost, capture, expires) ==
  [name |-> n, face |-> f, origin |-> app, cost |-> cost, inherit |-> TRUE,
   capture |-> capture, expires |-> expires]

\* The face that may go uses a name of its own.
FlatUse ==
  {Use(a, f1, 1, FALSE, FALSE), Use(ab, f1, 1, FALSE, FALSE), Use(ab, f2, 1, FALSE, FALSE),
   Use(ac, f2, 1, TRUE, FALSE), Use(m, f3, 1, FALSE, TRUE), Use(m, f3, 2, FALSE, FALSE)}

\* It uses a name above another one, so that its update takes two commands.
NestedUse ==
  {Use(a, f3, 1, FALSE, FALSE), Use(ab, f1, 1, FALSE, FALSE), Use(m, f2, 1, FALSE, FALSE)}

\* It uses a name below that of another face, so that its update has a command
\* on the other face as well.
BelowUse == {Use(a, f1, 1, FALSE, FALSE), Use(ab, f3, 1, FALSE, FALSE)}
=============================================================================
