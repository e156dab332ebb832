--------------------------- MODULE AccessStrategy ---------------------------
(***************************************************************************)
(* How Leo.py (class Attachment) chooses the access satellite of a ground  *)
(* station for every epoch, by three strategies over the same distances.   *)
(* A satellite <<o, n>> is number n of orbit o; satDict holds them in that *)
(* order.  Orbital mechanics are left out: any satellite may be at any     *)
(* distance in any epoch.                                                  *)
(***************************************************************************)
EXTENDS Integers, Sequences

CONSTANTS
  NUM_ORBITS, NUM_SATS_PER_ORBIT,
  Dist,             \* distances
  MAX_DISTANCE,     \* a satellite nearer than this is visible
  None              \* no satellite

ASSUME SizeAssumption == NUM_ORBITS \in Nat \ {0} /\ NUM_SATS_PER_ORBIT \in Nat \ {0, 1}
ASSUME DistAssumption == Dist \subseteq Nat /\ MAX_DISTANCE \in Nat

Num == 0..NUM_SATS_PER_ORBIT - 1
Sat == (0..NUM_ORBITS - 1) \X Num

ASSUME NoneAssumption == None \notin Sat

VARIABLES
  dist,             \* distances of the satellites in this epoch
  active, lazy, orbitLazy   \* the satellite by each strategy

vars == <<dist, active, lazy, orbitLazy>>

Before(s, u) == s[1] < u[1] \/ (s[1] = u[1] /\ s[2] < u[2])
Visible(d, s) == d[s] < MAX_DISTANCE

\* The nearest of a set of satellites; among equals the first.
Nearest(d, S, precedes(_, _)) ==
  CHOOSE s \in S : \A u \in S \ {s} : d[s] < d[u] \/ (d[s] = d[u] /\ precedes(s, u))

\* getClosest: the very first satellite is taken visible or not, and another
\* one in its place if that is visible and nearer.
First == <<0, 0>>
GetClosestVisible(d) ==
  LET S == {s \in Sat : Visible(d, s)}
  IN  IF S = {} THEN First ELSE CHOOSE s \in S : \A u \in S : ~Before(u, s)

GetClosest(d) == Nearest(d, {First} \cup {s \in Sat : Visible(d, s)}, Before)

\* The numbers getOrbitClosest looks at, in its order.
Span(i, j) == [k \in 1..(IF j > i THEN j - i ELSE 0) |-> i + k - 1]
OrderedSatNums(n) ==
  LET N == NUM_SATS_PER_ORBIT
  IN  IF n = 0 THEN <<N - 1>> \o Span(1, N - 1)
      ELSE IF n = N - 1 THEN <<n - 1>> \o Span(0, n - 2)
      ELSE <<n - 1>> \o Span(n + 1, N - 1) \o Span(0, n - 1)

GetOrbitClosestAny(d, last) ==
  LET order == OrderedSatNums(last[2])
      at(s) == CHOOSE i \in DOMAIN order : order[i] = s[2]
      S == {s \in Sat : s[1] = last[1] /\ \E i \in DOMAIN order : order[i] = s[2]}
  IN  IF S = {} THEN None ELSE Nearest(d, S, LAMBDA s, u : at(s) < at(u))

GetOrbitClosest(d, last) ==
  LET order == OrderedSatNums(last[2])
      at(s) == CHOOSE i \in DOMAIN order : order[i] = s[2]
      S == {s \in Sat : /\ s[1] = last[1] /\ Visible(d, s)
                        /\ \E i \in DOMAIN order : order[i] = s[2]}
  IN  IF S = {} THEN None ELSE Nearest(d, S, LAMBDA s, u : at(s) < at(u))

ClosestActive(d) == GetClosest(d)

ClosestLazy(d, last) ==
  IF last = None THEN None
  ELSE IF Visible(d, last) THEN last ELSE GetClosest(d)

OrbitClosestEager(d, last) ==
  LET near == IF last = None THEN None ELSE GetOrbitClosest(d, last)
  IN  IF near = None THEN GetClosest(d) ELSE near

OrbitClosestLazy(d, last) ==
  LET near == IF last = None THEN None
              ELSE IF Visible(d, last) THEN last
              ELSE GetOrbitClosest(d, last)
  IN  IF near = None THEN GetClosest(d) ELSE near

Init ==
  /\ dist \in [Sat -> Dist]
  /\ active = ClosestActive(dist)
  /\ lazy = ClosestLazy(dist, None)
  /\ orbitLazy = OrbitClosestLazy(dist, None)

NextEpoch ==
  /\ dist' \in [Sat -> Dist]
  /\ active' = ClosestActive(dist')
  /\ lazy' = ClosestLazy(dist', lazy)
  /\ orbitLazy' = OrbitClosestLazy(dist', orbitLazy)

Next == NextEpoch
Spec == Init /\ [][Next]_vars

----------------------------------------------------------------------------
(* Properties.                                                             *)

TypeOK ==
  /\ dist \in [Sat -> Dist]
  /\ active \in Sat /\ orbitLazy \in Sat
  /\ lazy \in Sat \cup {None}

SomeVisible == \E s \in Sat : Visible(dist, s)

\* While some satellite is visible, closestActive has a nearest one, although
\* the search starts from a satellite that may be out of sight.
ActiveNearest == SomeVisible => \A s \in Sat : dist[active] <= dist[s]

\* While some satellite is visible, orbitClosestLazy has a visible one.
OrbitLazyVisible == SomeVisible => Visible(dist, orbitLazy)

\* "handover->invisible" (Leo.py:241): orbitClosestLazy leaves a satellite only
\* when it is out of sight, and for one of another orbit only when its
\* predecessor, which follows the same ground track, is out of sight too.
OrbitLazyKeeps ==
  [][LET before == (orbitLazy[2] + NUM_SATS_PER_ORBIT - 1) % NUM_SATS_PER_ORBIT
     IN  /\ orbitLazy' # orbitLazy => ~Visible(dist', orbitLazy)
         /\ orbitLazy'[1] # orbitLazy[1] => ~Visible(dist', <<orbitLazy[1], before>>)]_vars
=============================================================================
