---------------------------- MODULE MCForwarding ----------------------------
(***************************************************************************)
(* A consumer that moves from s1 to s2 on a square of satellites, with the *)
(* producer at s3.  The path goes over s4 before and from s2 to s3 after.  *)
(* A satellite without a route for the name has its default routes, to all *)
(* neighbours: s2 before, and after the move s1 and s4 if their routes are *)
(* cleared.                                                                *)
(***************************************************************************)
EXTENDS Forwarding

CONSTANTS c, s1, s2, s3, s4, p, app

Both(S) == S \cup {<<e[2], e[1]>> : e \in S}
Links == Both({<<c, s1>>, <<c, s2>>, <<s1, s2>>, <<s2, s3>>, <<s3, s4>>, <<s4, s1>>, <<s3, p>>})

Fib(C, S1, S2, S3, S4, P) ==
  [n \in Node |-> CASE n = c -> C [] n = s1 -> S1 [] n = s2 -> S2
                    [] n = s3 -> S3 [] n = s4 -> S4 [] n = p -> P]

Before == Fib({s1}, {s4}, {s1, s3}, {p}, {s3}, {app})
After == {Fib({s2}, {s4}, {s3}, {p}, {s3}, {app}),
          Fib({s2}, {s2, s4}, {s3}, {p}, {s1, s3}, {app})}
\* Global routes to s1, of the satellites only.
ToOldSat == Fib({s2}, {}, {s1}, {s2}, {s1}, {s3})
=============================================================================
