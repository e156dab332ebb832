----------------------------- MODULE FibUpdater -----------------------------
(***************************************************************************)
(* How a change of one route of the RIB changes the FIB: the operations of *)
(* NFD/rib/rib-entry.cpp and the computation of NFD/rib/fib-updater.cpp.   *)
(* An entry of the FIB has, besides the next hops of its own routes, those *)
(* that routes of shorter prefixes hand down to it (child inherit), unless *)
(* a route between them stops that (capture).                              *)
(***************************************************************************)
EXTENDS Integers, Sequences, FiniteSets, SequencesExt

CONSTANTS
  Name,             \* name prefixes, sequences of components
  Face,
  Origin,           \* who may register routes: applications, announcements, ...
  Cost,
  Event,            \* expiration events of the scheduler
  None,
  Keep, Removal     \* in a plan: no update, RemoveNextHop

\* `event' is the expiration event of a route, None when it does not expire.
Route == [face : Face, origin : Origin, cost : Cost, inherit : BOOLEAN,
          capture : BOOLEAN, event : Event \cup {None}]

\* The faces of m_inheritedRoutes are all that is read of them.  A name that is
\* not in the RIB has no routes; parents and children are given by the names.
Entry == [routes : Seq(Route), nCapture : Int, inherited : SUBSET Face]
NoEntry == [routes |-> <<>>, nCapture |-> 0, inherited |-> {}]

(***************************************************************************)
(* One entry.                                                              *)
(***************************************************************************)
OnFace(e, f) == {i \in DOMAIN e.routes : e.routes[i].face = f}
Inheriting(e, f) == {i \in OnFace(e, f) : e.routes[i].inherit}
HasFaceId(e, f) == OnFace(e, f) # {}
HasCapture(e) == e.nCapture > 0

\* At most one route has the face and origin of r.
FindRoute(e, r) ==
  {i \in DOMAIN e.routes : e.routes[i].face = r.face /\ e.routes[i].origin = r.origin}
HasRoute(e, r) == FindRoute(e, r) # {}
At(e, r) == CHOOSE i \in FindRoute(e, r) : TRUE

MinCost(e, is) ==
  IF is = {} THEN None
  ELSE LET costs == {e.routes[i].cost : i \in is}
       IN  CHOOSE c \in costs : \A k \in costs : c <= k
LowestCost(e, f) == MinCost(e, OnFace(e, f))
LowestInheriting(e, f) == MinCost(e, Inheriting(e, f))
NotAbove(c, lowest) == lowest = None \/ c <= lowest

\* The order nth_element leaves up to three routes in.
Cheaper(e, i, j) ==
  \/ e.routes[i].cost < e.routes[j].cost
  \/ e.routes[i].cost = e.routes[j].cost /\ i < j
SecondLowest(e, f) ==
  {j \in OnFace(e, f) : Cardinality({i \in OnFace(e, f) : Cheaper(e, i, j)}) = 1}

EraseRoute(e, r) ==
  IF ~HasRoute(e, r) THEN e
  ELSE [e EXCEPT !.routes = RemoveAt(@, At(e, r)),
                 !.nCapture = IF e.routes[At(e, r)].capture THEN @ - 1 ELSE @]

InsertRoute(e, r) ==
  IF HasRoute(e, r) THEN [e EXCEPT !.routes[At(e, r)] = r]
  ELSE [e EXCEPT !.routes = Append(@, r), !.nCapture = IF r.capture THEN @ + 1 ELSE @]

(***************************************************************************)
(* The tree.                                                               *)
(***************************************************************************)
Entries(rib) == {n \in Name : rib[n].routes # <<>>}
Between(rib, m, n) == {k \in Entries(rib) : IsStrictPrefix(m, k) /\ IsStrictPrefix(k, n)}
Nearest(names) == CHOOSE m \in names : \A k \in names : Len(k) <= Len(m)

\* getAncestorRoutes: per face the cost of the route handed down, or None.  The
\* set keeps the first route it meets of a face.
AncestorRoutes(rib, n) ==
  [f \in Face |->
     LET from == {m \in Entries(rib) :
                    /\ IsStrictPrefix(m, n) /\ Inheriting(rib[m], f) # {}
                    /\ \A k \in Between(rib, m, n) : ~HasCapture(rib[k])}
         e == rib[Nearest(from)]
     IN  IF from = {} THEN None
         ELSE e.routes[CHOOSE i \in Inheriting(e, f) : \A j \in Inheriting(e, f) : i <= j].cost]

NoRoutes == [f \in Face |-> None]
Only(r) == [NoRoutes EXCEPT ![r.face] = r.cost]

\* traverseSubTree gets past every entry between n and d, and to d, with face f.
Reaches(rib, n, d, f) ==
  /\ d \in Entries(rib) /\ IsStrictPrefix(n, d)
  /\ \A e \in Between(rib, n, d) \cup {d} : ~HasCapture(rib[e]) /\ Inheriting(rib[e], f) = {}

(***************************************************************************)
(* A plan gives for every name and face what addFibUpdate recorded last:   *)
(* the cost of an AddNextHop, Removal, or Keep for no update; and how the   *)
(* record of inherited faces changes.                                      *)
(***************************************************************************)
Pair == Name \X Face
Nothing == [fib |-> [p \in Pair |-> Keep], inherited |-> [p \in Pair |-> Keep]]

Over(new, old) == [p \in Pair |-> IF new[p] = Keep THEN old[p] ELSE new[p]]
Then(first, second) == [fib |-> Over(second.fib, first.fib),
                        inherited |-> Over(second.inherited, first.inherited)]

NextHop(n, f, change) == [Nothing EXCEPT !.fib[<<n, f>>] = change]

\* addInheritedRoutes and removeInheritedRoutes, for the faces of a set.
AddInheritedUnseen(n, routes, faces) ==
  LET change(p, new) == IF p[1] = n /\ p[2] \in faces THEN new ELSE Keep
  IN  [fib |-> [p \in Pair |-> change(p, routes[p[2]])],
       inherited |-> [p \in Pair |-> change(p, "add")]]

AddInherited(n, routes, faces) ==
  LET change(p, new) == IF p[1] = n /\ p[2] \in faces /\ routes[p[2]] # None THEN new ELSE Keep
  IN  [fib |-> [p \in Pair |-> change(p, routes[p[2]])],
       inherited |-> [p \in Pair |-> change(p, "add")]]

RemoveInherited(n, routes, faces) ==
  LET change(p) == IF p[1] = n /\ p[2] \in faces /\ routes[p[2]] # None THEN Removal ELSE Keep
  IN  [fib |-> [p \in Pair |-> change(p)], inherited |-> [p \in Pair |-> change(p)]]

ModifyChildrens(rib, n, add, remove) ==
  LET adds(p) == /\ Reaches(rib, n, p[1], p[2])
                 /\ add[p[2]] # None /\ ~HasFaceId(rib[p[1]], p[2])
      removes(p) == /\ Reaches(rib, n, p[1], p[2])
                    /\ remove[p[2]] # None /\ p[2] \in rib[p[1]].inherited
      change(p, new) == IF adds(p) THEN new ELSE IF removes(p) THEN Removal ELSE Keep
  IN  [fib |-> [p \in Pair |-> change(p, add[p[2]])],
       inherited |-> [p \in Pair |-> change(p, "add")]]

(***************************************************************************)
(* createFibUpdatesFor...                                                  *)
(***************************************************************************)
ForNewRibEntry(rib, n, r) ==
  LET ancestors == AncestorRoutes(rib, n)
      own == NextHop(n, r.face, r.cost)
      self == IF r.capture THEN Nothing ELSE AddInherited(n, ancestors, Face \ {r.face})
      add == CASE ~r.inherit -> NoRoutes
               [] r.inherit /\ r.capture -> Only(r)
               [] OTHER -> [ancestors EXCEPT ![r.face] = r.cost]
  IN  Then(Then(own, self), ModifyChildrens(rib, n, add, IF r.capture THEN ancestors ELSE NoRoutes))

ForNewRoute(rib, n, e, r, captureWasTurnedOn) ==
  LET add == IF r.inherit /\ NotAbove(r.cost, LowestInheriting(e, r.face)) THEN Only(r) ELSE NoRoutes
      remove == IF captureWasTurnedOn THEN AncestorRoutes(rib, n) ELSE NoRoutes
      own == IF NotAbove(r.cost, LowestCost(e, r.face)) THEN NextHop(n, r.face, r.cost) ELSE Nothing
  IN  Then(Then(RemoveInherited(n, remove, e.inherited), ModifyChildrens(rib, n, add, remove)), own)

\* e already has the route r in the place of `old'.
ForUpdatedRoute(rib, n, e, r, old) ==
  LET ancestors == AncestorRoutes(rib, n)
      prev == LowestInheriting(e, r.face)
      costDidChange == r.cost # old.cost
      sameFlags == r.inherit = old.inherit /\ r.capture = old.capture
      own == CASE costDidChange /\ r.cost <= LowestCost(e, r.face) -> NextHop(n, r.face, r.cost)
               [] costDidChange /\ old.cost < LowestCost(e, r.face) /\ LowestCost(e, r.face) < r.cost ->
                    NextHop(n, r.face, prev)
               [] OTHER -> Nothing
      turnedOff == [NoRoutes EXCEPT ![r.face] = IF prev # None THEN prev ELSE ancestors[r.face]]
      children ==
        CASE r.inherit /\ (IF sameFlags THEN costDidChange ELSE ~old.inherit) /\ NotAbove(r.cost, prev) ->
               ModifyChildrens(rib, n, Only(r), NoRoutes)
          [] old.inherit /\ ~r.inherit -> ModifyChildrens(rib, n, turnedOff, Only(r))
          [] OTHER -> Nothing
      capture ==
        CASE ~old.capture /\ r.capture ->
               Then(RemoveInherited(n, ancestors, e.inherited), ModifyChildrens(rib, n, NoRoutes, ancestors))
          [] old.capture /\ ~r.capture ->
               Then(AddInherited(n, ancestors, {f \in Face : ~HasFaceId(e, f)}),
                    ModifyChildrens(rib, n, ancestors, NoRoutes))
          [] OTHER -> Nothing
  IN  Then(Then(own, children), capture)

\* prevRoute is a null pointer where the cost went up and another route, which
\* is not handed down, has the lowest now.
NullPrevRoute(e, r, old) ==
  /\ old.cost < LowestCost(e, r.face) /\ LowestCost(e, r.face) < r.cost
  /\ LowestInheriting(e, r.face) = None

\* A route handed down that the erased one was blocking comes back.
UnblockedForAny(rib, n, e, r) ==
  IF HasCapture(e) THEN Nothing ELSE AddInherited(n, AncestorRoutes(rib, n), {r.face})
UnblockedNever(rib, n, e, r) == Nothing
Unblocked(rib, n, e, r) ==
  IF HasCapture(e) \/ e.routes = <<>> THEN Nothing
  ELSE AddInherited(n, AncestorRoutes(rib, n), {r.face})

\* e no longer has the route r.
ForErasedRoute(rib, n, e, r, captureWasTurnedOff) ==
  LET ancestors == AncestorRoutes(rib, n)
      back == IF captureWasTurnedOff /\ e.routes # <<>> THEN ancestors ELSE NoRoutes
      self == IF r.capture THEN AddInherited(n, back, {f \in Face : ~HasFaceId(e, f)}) ELSE Nothing
      add == CASE r.capture -> back
               [] ~r.capture /\ r.inherit /\ ~HasCapture(e) -> ancestors
               [] OTHER -> NoRoutes
      children == ModifyChildrens(rib, n, add, IF r.inherit THEN Only(r) ELSE NoRoutes)
  IN  Then(Then(Then(NextHop(n, r.face, Removal), self), children), Unblocked(rib, n, e, r))

ForErasedRibEntry(n, e) ==
  [Nothing EXCEPT !.fib = [p \in Pair |-> IF p[1] = n /\ p[2] \in e.inherited THEN Removal ELSE Keep]]

(***************************************************************************)
(* computeUpdates.                                                         *)
(***************************************************************************)
ForRegistration(rib, n, r) ==
  LET e == rib[n]
      old == e.routes[At(e, r)]
  IN  IF e.routes = <<>> THEN ForNewRibEntry(rib, n, r)
      ELSE IF ~HasRoute(e, r) THEN ForNewRoute(rib, n, e, r, ~HasCapture(e) /\ r.capture)
      ELSE ForUpdatedRoute(rib, n, [e EXCEPT !.routes[At(e, r)] = r], r, old)

ForUnregistration(rib, n, r) ==
  LET e == rib[n]
      temp == EraseRoute(e, r)
      erased == ForErasedRoute(rib, n, temp, e.routes[At(e, r)], HasCapture(e) /\ ~HasCapture(temp))
      second == {e.routes[i] : i \in SecondLowest(e, r.face)}
      next == IF second = {} THEN Nothing
              ELSE ForNewRoute(rib, n, temp, CHOOSE s \in second : TRUE, FALSE)
      gone == IF Len(e.routes) = 1 THEN ForErasedRibEntry(n, e) ELSE Nothing
  IN  IF ~HasRoute(e, r) THEN Nothing ELSE Then(Then(erased, next), gone)
=============================================================================
