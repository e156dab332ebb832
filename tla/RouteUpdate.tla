----------------------------- MODULE RouteUpdate -----------------------------
(***************************************************************************)
(* The part of Update (extensions/sat/common.cpp) that installs the manual *)
(* routes of a pair of consumer and producer on the satellites.  The       *)
(* schedule names a path from the consumer's to the producer's access      *)
(* satellite for some epochs.  Leo.py (pairRoutes, storeGtPairs) writes    *)
(* every epoch; EveryEpoch = FALSE allows any that has all the changes.    *)
(***************************************************************************)
EXTENDS Integers, Sequences, FiniteSets, SequencesExt

CONSTANTS
  Path,             \* the paths that occur, sequences of satellites
  Interval,         \* minutes between updates
  EndTime,          \* minutes of route data
  StopTime,         \* minutes the simulation runs
  EveryEpoch        \* whether the schedule has an entry for every epoch

Epoch == 0..EndTime

PathAssumption == \A p \in Path : DOMAIN p = 1..Len(p) /\ Len(p) > 0
EpochAssumption == Interval \in Nat \ {0} /\ EveryEpoch \in BOOLEAN

VARIABLES
  route,            \* the path of each epoch, as Leo.py has it
  time,             \* when Update runs next
  items,            \* what is left of the schedule, [time, path]
  fib,              \* next hops of the producer's prefix, <<satellite, satellite>>
  aborted           \* BOOST_ASSERT(links.size() > 1) has failed

vars == <<route, time, items, fib, aborted>>

Links(p) == {<<p[i], p[i+1]>> : i \in 1..Len(p)-1}

\* From one epoch to the next the path changes only with an access satellite.
PairRoutes ==
  {r \in [Epoch -> Path] :
     \A t \in Epoch \ {0} :
       r[t] # r[t-1] => Head(r[t]) # Head(r[t-1]) \/ Last(r[t]) # Last(r[t-1])}

Entries(r) ==
  {e \in SUBSET Epoch : /\ {0} \cup {t \in Epoch \ {0} : r[t] # r[t-1]} \subseteq e
                        /\ EveryEpoch => e = Epoch}

\* The element of e that i elements of e do not exceed, and the entries in order.
Nth(e, i) == CHOOSE t \in e : Cardinality({u \in e : u <= t}) = i
Schedule(r, e) ==
  [i \in 1..Cardinality(e) |-> [time |-> Nth(e, i), path |-> r[Nth(e, i)]]]

Init ==
  /\ route \in PairRoutes
  /\ \E e \in Entries(route) : items = Schedule(route, e)
  /\ time = 0
  /\ fib = {}
  /\ aborted = FALSE

(***************************************************************************)
(* Where the schedule stands.                                              *)
(***************************************************************************)

\* The index the search ends at; reading the element behind the last one
\* there has no effect.
Search ==
  CHOOSE j \in 2..Len(items)+1 :
    /\ j <= Len(items) => time <= items[j].time
    /\ \A i \in 2..j-1 : items[i].time < time

IsFirst == items # <<>> /\ items[1].time = 0
Due == Len(items) >= 2 /\ items[1].time # 0 /\ time > items[1].time

\* The index whose path is to be installed: a hit, or the one before a gap.
Latest ==
  IF items[Search].time = time THEN {Search}
  ELSE IF Search # 2 THEN {Search - 1} ELSE {}

\* "clear station pairs with no new routes"
Cleared(s) == IF Len(s) < 2 THEN <<>> ELSE s

\* "pop out stale routes": the entry before the new one stays in front.
EraseNone(i) == items
Erase(i) == SubSeq(items, i - 1, Len(items))

(***************************************************************************)
(* One update event.                                                       *)
(***************************************************************************)
ReplaceAddFirst(old, new) ==
  fib' = (fib \cup Links(new)) \ Links(old)

Replace(old, new) ==
  fib' = (fib \ Links(old)) \cup Links(new)

Tick ==
  /\ time <= StopTime /\ ~aborted
  /\ time' = time + Interval
  /\ UNCHANGED route

FirstTime ==
  /\ Tick /\ IsFirst
  /\ items' = Cleared([items EXCEPT ![1].time = -1])
  /\ fib' = fib \cup Links(items[1].path)
  /\ aborted' = (Len(items[1].path) <= 1)

Exhausted ==
  /\ Tick /\ Due /\ Search > Len(items)
  /\ items' = <<>>
  /\ UNCHANGED <<fib, aborted>>

Renew ==
  /\ Tick /\ Due /\ Search <= Len(items)
  /\ \E i \in Latest :
       /\ Replace(items[1].path, items[i].path)
       /\ aborted' = (Len(items[1].path) <= 1 \/ Len(items[i].path) <= 1)
       /\ items' = Cleared(Erase(i))

\* No entry is left, or the next one is still to come.
SameRoute ==
  /\ Tick
  /\ ~IsFirst /\ (Due => Search <= Len(items) /\ Latest = {})
  /\ items' = Cleared(items)
  /\ UNCHANGED <<fib, aborted>>

Update == FirstTime \/ Exhausted \/ Renew \/ SameRoute

Next == Update
Spec == Init /\ [][Next]_vars

----------------------------------------------------------------------------
(* Properties.                                                             *)

TypeOK ==
  /\ time \in 0..StopTime + Interval
  /\ items \in Seq([time : Epoch \cup {-1}, path : Path])
  /\ fib \subseteq UNION {Links(p) : p \in Path}
  /\ aborted \in BOOLEAN

Now == time - Interval
InForce == route[IF Now <= EndTime THEN Now ELSE EndTime]

\* No next hop is forgotten: what is installed and not of the present path is
\* of the path in front of the schedule, which the next change removes.
StaleRemembered ==
  items # <<>> /\ time > 0 /\ ~aborted => fib \subseteq Links(InForce) \cup Links(items[1].path)

\* "determine latest route, clear last route" (common.cpp:325): the path that
\* was installed before is removed when the new one is installed.
LastRouteCleared ==
  time > 0 /\ ~aborted => fib = Links(InForce)
=============================================================================
