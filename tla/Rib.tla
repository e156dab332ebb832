--------------------------------- MODULE Rib ---------------------------------
(***************************************************************************)
(* The RIB of one node: NFD/rib/rib.cpp and NFD/rib/rib-manager.cpp, which *)
(* take registrations, expirations and destroyed faces, and the exchange   *)
(* of NFD/rib/fib-updater.cpp with the FIB.  Updates wait in a queue; one  *)
(* at a time goes to the FIB as commands over the internal face, and       *)
(* changes the RIB when the FIB has taken them.  The forwarder has the FIB *)
(* and the faces (NFD/daemon/mgmt/fib-manager.cpp, table/cleanup.cpp); the *)
(* two sides meet in `commands' and `inbox'.                               *)
(***************************************************************************)
EXTENDS FibUpdater

CONSTANTS
  Usage,            \* what is registered: [name, face, origin, cost, inherit, capture, expires]
  Mortal,           \* the faces that may be destroyed
  MaxQueue          \* bound on the updates that wait when one is added

RibAssumption ==
  /\ Cost \subseteq Nat /\ {None, Keep, Removal} \cap (Nat \cup Event) = {}
  /\ None # Keep /\ None # Removal /\ Keep # Removal
  /\ Mortal \subseteq Face /\ MaxQueue \in Nat
ASSUME RibAssumption

Action == {"register", "unregister", "removeFace"}
RibUpdate == [action : Action, name : Name, route : Route]
FibUpdate == [name : Name, face : Face, change : Cost \cup {Removal}]
Command == [update : FibUpdate, batch : RibUpdate]

VARIABLES
  rib, fib,         \* m_rib; the next hops of the FIB with their costs
  up,               \* the faces that exist
  registered,       \* m_registeredFaces
  queue,            \* m_updateBatches, one update each
  inProgress,       \* m_isUpdateInProgress
  updater,          \* members of FibUpdater: the batch's face, two lists, inherited routes
  commands,         \* commands on their way to the FIB, each with the batch its callbacks hold
  inbox,            \* answers, notifications and datasets on their way to the RIB
  destroyed,        \* faces with an onFaceDestroyedEvent scheduled
  timers,           \* expiration events not yet fired, [event, name, route]
  aborted           \* a null pointer or failed assertion has ended the program

vars == <<rib, fib, up, registered, queue, inProgress, updater, commands, inbox,
          destroyed, timers, aborted>>

(***************************************************************************)
(* The RIB's side.  A step changes several of its variables in turn.       *)
(***************************************************************************)
Now == [rib |-> rib, queue |-> queue, inProgress |-> inProgress, updater |-> updater,
        commands |-> commands, timers |-> timers, aborted |-> aborted]

Become(s) ==
  /\ rib' = s.rib /\ queue' = s.queue /\ inProgress' = s.inProgress
  /\ updater' = s.updater /\ commands' = s.commands /\ timers' = s.timers
  /\ aborted' = s.aborted

RoutesAt(s, u) == {s.rib[u.name].routes[i] : i \in FindRoute(s.rib[u.name], u.route)}
Cancelled(s, routes) == {t \in s.timers : t.event \notin {r.event : r \in routes}}

Send(s, updates, batch) ==
  LET list == SetToSeq(updates)
  IN  [s EXCEPT !.commands = @ \o [i \in DOMAIN list |-> [update |-> list[i], batch |-> batch]]]

\* Rib::insert or Rib::erase, then modifyInheritedRoutes, with what FibUpdater
\* has recorded by now.
OnFibUpdateSuccess(s, u) ==
  LET put == IF u.action = "register" THEN InsertRoute(s.rib[u.name], u.route)
             ELSE EraseRoute(s.rib[u.name], u.route)
      entries == [s.rib EXCEPT ![u.name] = IF put.routes = <<>> THEN NoEntry ELSE put]
      change == s.updater.inherited
      lost == \E p \in Pair : change[p] # Keep /\ entries[p[1]].routes = <<>>
      add(n) == {f \in Face : change[<<n, f>>] = "add"}
      remove(n) == {f \in Face : change[<<n, f>>] = Removal}
  IN  [s EXCEPT !.rib = [n \in Name |-> [entries[n] EXCEPT !.inherited = (@ \cup add(n)) \ remove(n)]],
                !.timers = Cancelled(s, RoutesAt(s, u)),
                !.inProgress = FALSE,
                !.aborted = @ \/ lost]

SendOthers(s, u) ==
  IF s.updater.others # {} THEN Send(s, s.updater.others, u) ELSE OnFibUpdateSuccess(s, u)

\* Unregistering erases the route from a copy of the entry first, and that
\* already cancels its expiration event.
TimersEarly(s, u) == Cancelled(s, RoutesAt(s, u))
TimersAtStart(s, u) == IF u.action = "register" THEN s.timers ELSE Cancelled(s, RoutesAt(s, u))

\* computeAndSendFibUpdates for the update u: what changes in the FIB, apart for
\* the batch's face and for the others.
Plan(s, u) ==
  IF u.action = "register" THEN ForRegistration(s.rib, u.name, u.route)
  ELSE ForUnregistration(s.rib, u.name, u.route)

Changes(plan, faces) ==
  {[name |-> p[1], face |-> p[2], change |-> plan.fib[p]] :
     p \in {q \in Name \X faces : plan.fib[q] # Keep}}

Record(s, u, plan) ==
  LET f == u.route.face
  IN  [s EXCEPT !.inProgress = TRUE,
                !.updater = [face |-> f,
                             mine |-> IF u.action = "removeFace" THEN {} ELSE Changes(plan, {f}),
                             others |-> Changes(plan, Face \ {f}),
                             inherited |-> plan.inherited],
                !.timers = TimersAtStart(s, u)]

SendFirst(s, u) ==
  IF s.updater.mine # {} THEN Send(s, s.updater.mine, u) ELSE SendOthers(s, u)

UsesNullRoute(s, u) ==
  LET new == [s.rib[u.name] EXCEPT !.routes[At(s.rib[u.name], u.route)] = u.route]
  IN  u.action = "register" /\ \E old \in RoutesAt(s, u) : NullPrevRoute(new, u.route, old)

Start(s, u) ==
  IF UsesNullRoute(s, u) THEN [s EXCEPT !.aborted = TRUE]
  ELSE SendFirst(Record(s, u, Plan(s, u)), u)

WaitsNot(t) == t.aborted
Waits(t) == t.inProgress \/ t.aborted

\* sendBatchFromQueue: updates that need no command follow each other at once.
SendBatchFromQueue(s) ==
  FoldLeft(LAMBDA t, u : IF Waits(t) THEN [t EXCEPT !.queue = Append(@, u)] ELSE Start(t, u),
           [s EXCEPT !.queue = <<>>], s.queue)

Enqueue(s, u) == [s EXCEPT !.queue = Append(@, u)]

\* After onFibUpdateSuccess or onFibUpdateFailure has been called back; as long
\* as neither has, an update is in progress or none waits.
Advance(s) == IF s.inProgress THEN s ELSE SendBatchFromQueue(s)

(***************************************************************************)
(* RibManager: routes are registered, withdrawn, and expire.               *)
(***************************************************************************)
Events(batches) == {b.route.event : b \in batches}
FreeEvent ==
  Event \ ({t.event : t \in timers}
             \cup UNION {{r.event : r \in ToSet(rib[n].routes)} : n \in Name}
             \cup Events(ToSet(queue)) \cup Events({c.batch : c \in ToSet(commands)})
             \cup Events({m.batch : m \in {k \in ToSet(inbox) : k.kind = "answer"}}))

Registration(x, e) ==
  [action |-> "register", name |-> x.name,
   route |-> [face |-> x.face, origin |-> x.origin, cost |-> x.cost,
              inherit |-> x.inherit, capture |-> x.capture, event |-> e]]

\* The command register, and slAnnounce.
BeginAddRoute ==
  /\ Len(queue) < MaxQueue
  /\ \E x \in Usage :
       /\ x.expires => FreeEvent # {}
       /\ LET e == IF x.expires THEN CHOOSE e \in FreeEvent : TRUE ELSE None
              u == Registration(x, e)
              timed == IF x.expires THEN {[event |-> e, name |-> x.name, route |-> u.route]} ELSE {}
          IN  Become(SendBatchFromQueue(Enqueue([Now EXCEPT !.timers = @ \cup timed], u)))
       /\ registered' = registered \cup {x.face}
  /\ UNCHANGED <<fib, up, inbox, destroyed>>

Unregistration(n, r) == [action |-> "unregister", name |-> n, route |-> r]

\* The command unregister; an announcement that has already expired comes to
\* the same.
BeginRemoveRoute ==
  /\ Len(queue) < MaxQueue
  /\ \E x \in Usage :
       Become(SendBatchFromQueue(
         Enqueue(Now, Unregistration(x.name, Registration(x, None).route))))
  /\ UNCHANGED <<fib, up, registered, inbox, destroyed>>

OnRouteExpiration ==
  /\ \E t \in timers :
       Become(SendBatchFromQueue(
         Enqueue([Now EXCEPT !.timers = @ \ {t}], Unregistration(t.name, t.route))))
  /\ UNCHANGED <<fib, up, registered, inbox, destroyed>>

\* findRoutesWithFaceId, in some order.
LastingRoutesWithFaceId(f) ==
  {<<n, r>> \in UNION {{n} \X ToSet(rib[n].routes) : n \in Name} : r.face = f /\ r.event = None}
RoutesWithFaceId(f) ==
  {<<n, r>> \in UNION {{n} \X ToSet(rib[n].routes) : n \in Name} : r.face = f}

\* A face is gone: its routes are removed from the RIB.
OnFaceDestroyedEvent ==
  /\ \E f \in destroyed :
       LET list == SetToSeq(RoutesWithFaceId(f))
           updates == [i \in DOMAIN list |->
                         [action |-> "removeFace", name |-> list[i][1], route |-> list[i][2]]]
       IN  /\ Become(SendBatchFromQueue([Now EXCEPT !.queue = @ \o updates]))
           /\ registered' = registered \ {f}
           /\ destroyed' = destroyed \ {f}
  /\ UNCHANGED <<fib, up, inbox>>

(***************************************************************************)
(* What the RIB receives.                                                  *)
(***************************************************************************)
Receives(kind) == inbox # <<>> /\ Head(inbox).kind = kind /\ inbox' = Tail(inbox)

ListsWithout(s, x) ==
  [s EXCEPT !.updater = IF x.face = @.face THEN [@ EXCEPT !.mine = @ \ {x}]
                        ELSE [@ EXCEPT !.others = @ \ {x}]]

OthersTaken(s, u) == IF s.updater.others = {} THEN OnFibUpdateSuccess(s, u) ELSE s

OnUpdateSuccess ==
  /\ Receives("answer") /\ Head(inbox).found
  /\ LET m == Head(inbox)
         s == ListsWithout(Now, m.update)
     IN  Become(Advance(IF m.update.face = s.updater.face
                        THEN IF s.updater.mine = {} THEN SendOthers(s, m.batch) ELSE s
                        ELSE OthersTaken(s, m.batch)))
  /\ UNCHANGED <<fib, up, registered, destroyed>>

\* onFibUpdateFailure.
FailStuck(s) == s
Fail(s) == [s EXCEPT !.inProgress = FALSE]

OfOther(m) == FALSE
OfBatchFace(m) == m.update.face = updater.face

\* 410: the face does not exist.  It is the failure of the batch when it is the
\* batch's own face, and is ignored otherwise.
OnUpdateError ==
  /\ Receives("answer") /\ ~Head(inbox).found
  /\ LET m == Head(inbox)
     IN  Become(Advance(IF OfBatchFace(m) THEN Fail(Now)
                        ELSE OthersTaken(ListsWithout(Now, m.update), m.batch)))
  /\ UNCHANGED <<fib, up, registered, destroyed>>

OnNotification ==
  /\ Receives("notification")
  /\ destroyed' = destroyed \cup {Head(inbox).face}
  /\ UNCHANGED <<rib, fib, up, registered, queue, inProgress, updater, commands, timers, aborted>>

RemoveInvalidFaces ==
  /\ Receives("dataset")
  /\ destroyed' = destroyed \cup (registered \ Head(inbox).faces)
  /\ UNCHANGED <<rib, fib, up, registered, queue, inProgress, updater, commands, timers, aborted>>

Receive == OnUpdateSuccess \/ OnUpdateError \/ OnNotification \/ RemoveInvalidFaces

(***************************************************************************)
(* The forwarder's side.                                                   *)
(***************************************************************************)
Answer(c, found) == [kind |-> "answer", update |-> c.update, batch |-> c.batch, found |-> found]

AddNextHop ==
  /\ commands # <<>> /\ Head(commands).update.change # Removal
  /\ LET x == Head(commands).update
         found == x.face \in up
     IN  /\ fib' = IF found THEN [fib EXCEPT ![<<x.name, x.face>>] = x.change] ELSE fib
         /\ inbox' = Append(inbox, Answer(Head(commands), found))
  /\ commands' = Tail(commands)
  /\ UNCHANGED <<rib, up, registered, queue, inProgress, updater, destroyed, timers, aborted>>

RemoveNextHop ==
  /\ commands # <<>> /\ Head(commands).update.change = Removal
  /\ LET x == Head(commands).update IN fib' = [fib EXCEPT ![<<x.name, x.face>>] = None]
  /\ inbox' = Append(inbox, Answer(Head(commands), TRUE))
  /\ commands' = Tail(commands)
  /\ UNCHANGED <<rib, up, registered, queue, inProgress, updater, destroyed, timers, aborted>>

\* cleanupOnFaceRemoval, and the notification of the face monitor.
FaceDestroyed ==
  /\ \E f \in up \cap Mortal :
       /\ up' = up \ {f}
       /\ fib' = [p \in Pair |-> IF p[2] = f THEN None ELSE fib[p]]
       /\ inbox' = Append(inbox, [kind |-> "notification", face |-> f])
  /\ UNCHANGED <<rib, registered, queue, inProgress, updater, commands, destroyed, timers, aborted>>

\* The periodic check for missed notifications; one that finds nothing changes
\* nothing and is left out.
FetchActiveFaces ==
  /\ \A i \in DOMAIN inbox : inbox[i].kind # "dataset"
  /\ registered \ up # {}
  /\ inbox' = Append(inbox, [kind |-> "dataset", faces |-> up])
  /\ UNCHANGED <<rib, fib, up, registered, queue, inProgress, updater, commands, destroyed,
                 timers, aborted>>

FibManager == AddNextHop \/ RemoveNextHop

Init ==
  /\ rib = [n \in Name |-> NoEntry]
  /\ fib = [p \in Pair |-> None]
  /\ up = Face
  /\ registered = {}
  /\ queue = <<>> /\ inProgress = FALSE
  /\ updater = [face |-> None, mine |-> {}, others |-> {}, inherited |-> Nothing.inherited]
  /\ commands = <<>> /\ inbox = <<>>
  /\ destroyed = {} /\ timers = {} /\ aborted = FALSE

Next ==
  /\ ~aborted
  /\ \/ BeginAddRoute \/ BeginRemoveRoute \/ OnRouteExpiration
     \/ OnFaceDestroyedEvent \/ Receive
     \/ FibManager \/ FetchActiveFaces \/ FaceDestroyed

Spec == Init /\ [][Next]_vars

\* Both event loops run: what waits in commands and inbox is taken, a scheduled
\* event happens, and the faces are fetched again and again.
FairSpec ==
  /\ Spec
  /\ WF_inbox(~aborted /\ inbox # <<>> /\ inbox' = Tail(inbox))
  /\ WF_commands(~aborted /\ commands # <<>> /\ commands' = Tail(commands))
  /\ \A f \in Face : WF_destroyed(~aborted /\ f \in destroyed /\ destroyed' = destroyed \ {f})
  /\ WF_vars(~aborted /\ FetchActiveFaces)

----------------------------------------------------------------------------
(* Properties.                                                             *)

TypeOK ==
  /\ rib \in [Name -> Entry] /\ fib \in [Pair -> Cost \cup {None}]
  /\ up \subseteq Face /\ registered \subseteq Face /\ destroyed \subseteq Face
  /\ queue \in Seq(RibUpdate) /\ commands \in Seq(Command)
  /\ inProgress \in BOOLEAN /\ aborted \in BOOLEAN
  /\ updater.face \in Face \cup {None}
  /\ updater.mine \cup updater.others \subseteq FibUpdate
  /\ updater.inherited \in [Pair -> {Keep, "add", Removal}]
  /\ timers \subseteq [event : Event, name : Name, route : Route]

\* No null route is dereferenced, and the record of inherited routes that was
\* computed when an update started names only entries that still exist when it
\* is applied (the assertion of Rib::modifyInheritedRoutes).
NeverAborts == ~aborted

\* What the FIB should have: the faces of a name's own routes, and those handed
\* down to it by prefixes that no capturing route hides from it.
Capturing(e) == \E i \in DOMAIN e.routes : e.routes[i].capture
Sources(n, f) ==
  {m \in Entries(rib) :
     /\ IsStrictPrefix(m, n) /\ Inheriting(rib[m], f) # {}
     /\ \A k \in Between(rib, m, n) \cup {n} : ~Capturing(rib[k])}
Routed(n, f) == n \in Entries(rib) /\ (HasFaceId(rib[n], f) \/ Sources(n, f) # {})

\* Between two updates the FIB has exactly the next hops that the routes of the
\* RIB and their flags call for, over the faces that exist: the incremental
\* updates, one per change of a route, add up to it.
FibFollowsRib ==
  ~inProgress /\ ~aborted => \A n \in Name, f \in up : fib[<<n, f>>] # None <=> Routed(n, f)

Answers == {m \in ToSet(inbox) : m.kind = "answer"}
Batches == {c.batch : c \in ToSet(commands) \cup Answers}

\* "Caller must guarantee that the previous batch has either succeeded or
\* failed" (fib-updater.hpp:65): commands and answers on their way belong to one
\* update, the one in progress.
OneBatch == Cardinality(Batches) <= 1 /\ (Batches # {} => inProgress)

\* The removal of the route i of n waits or is in progress.
Leaving(n, i) ==
  \E u \in ToSet(queue) \cup Batches :
    u.action # "register" /\ u.name = n /\ FindRoute(rib[n], u.route) = {i}

\* An update of a route of f takes a command on another face only where a route
\* of that face is handed down from one of the two names to the other.
Apart(f) ==
  \A x, y \in Usage : x.face = f /\ y.face # f => ~IsPrefix(x.name, y.name) /\ ~IsPrefix(y.name, x.name)

\* The routes of a face that is gone are on their way out as soon as the RIB
\* knows of it, also one whose registration was under way, where no other face
\* has a name above or below one of its own.  (NoRouteOutlivesFace shows what
\* happens elsewhere.)
DeadFaceNoticed ==
  \A f \in (Face \ up) \ destroyed : Apart(f) =>
    \/ \E m \in ToSet(inbox) : m.kind = "notification" /\ m.face = f
    \/ \A n \in Name : \A i \in OnFace(rib[n], f) : Leaving(n, i)

\* A route that expires has its expiration event pending, whichever renewals,
\* refusals and removals it has seen, unless its removal is under way.
ExpiryArmed ==
  \A n \in Name : \A i \in DOMAIN rib[n].routes :
    LET e == rib[n].routes[i].event
    IN  e = None \/ Leaving(n, i) \/ \E t \in timers : t.event = e

\* "If the FIB update fails, onFibUpdateFailure() will be called, and the RIB
\* will not be updated" (rib.hpp:124): the answer that refuses a batch its own
\* face does not put the batch's route into the RIB.
Refusal(m) == m.kind = "answer" /\ ~m.found /\ m.update.face = m.batch.route.face
RefusedNotApplied ==
  [][inbox # <<>> /\ inbox' = Tail(inbox) /\ Refusal(Head(inbox)) =>
       LET u == Head(inbox).batch
       IN  HasRoute(rib'[u.name], u.route) => HasRoute(rib[u.name], u.route)]_vars

\* The RIB is in time rid of every route of a face that is gone, where no other
\* face has a name above or below one of its own.
DeadRoutesGo ==
  \A f \in Mortal : Apart(f) => (f \notin up ~> \A n \in Name : ~HasFaceId(rib[n], f))

\* A route is kept "until the nexthop face is destroyed" (nfdc-route.rst:66) and
\* no longer, whatever names its face has: when nothing waits or is on its way
\* and the periodic check will find nothing, no route has a face that is gone.
AtRest ==
  /\ ~inProgress /\ queue = <<>> /\ commands = <<>> /\ inbox = <<>>
  /\ destroyed = {} /\ registered \subseteq up
=============================================================================
