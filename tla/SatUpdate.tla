------------------------------ MODULE SatUpdate ------------------------------
(***************************************************************************)
(* Update (extensions/sat/common.cpp) as a whole: the user links of the    *)
(* stations (Attachment) and the routes of the pair (RouteUpdate) change   *)
(* in one event, from two files that Leo.py derives from the same access   *)
(* satellites.                                                             *)
(***************************************************************************)
EXTENDS Integers, Sequences, SequencesExt

CONSTANTS
  Sat, Gap, StationOrder, Role, InView, Interval, EndTime, StopTime, EveryEpoch, Null,
  Path,             \* the shortest paths between satellites that occur
  Consumer, Producer

VARIABLES
  access, time, idx, lastIdx, handover, net, scheduled, lastSatPrefix,
  route, items, fib, aborted

vars == <<access, time, idx, lastIdx, handover, net, scheduled, lastSatPrefix,
          route, items, fib, aborted>>

A == INSTANCE Attachment
R == INSTANCE RouteUpdate

ASSUME UpdateAssumption ==
  /\ A!StationAssumption /\ A!TimeAssumption /\ R!PathAssumption /\ R!EpochAssumption
  /\ {Consumer, Producer} \subseteq A!Station /\ Role[Producer] # "consumer"
  /\ Path \subseteq Seq(Sat)

\* pairRoutes: the path of an epoch joins the access satellites of that epoch.
Joining ==
  {r \in [A!Epoch -> Path] :
     \A t \in A!Epoch : /\ Head(r[t]) = access[Consumer][t]
                        /\ Last(r[t]) = access[Producer][t]}

\* A run without manual routes: that of a mobile producer KITE routes to, or of
\* a pair that has an epoch without an access satellite, for which Leo.py
\* writes no paths.
NoRoutes ==
  /\ route = [t \in A!Epoch |-> <<>>] /\ items = <<>>
  /\ fib = {} /\ aborted = FALSE

Init ==
  /\ A!Init
  /\ \/ route \in Joining /\ R!Init
     \/ NoRoutes

Update == A!Update /\ R!Update

Next == Update
Spec == Init /\ [][Next]_vars

----------------------------------------------------------------------------
(* Properties.                                                             *)

\* Both parts keep their types.
TypeOK == A!TypeOK /\ R!TypeOK

\* The properties of the two parts, in their composition: see Attachment and
\* RouteUpdate.
Attached == A!Attached
RouteFollowsStation == A!RouteFollowsStation
AwakeAtHandover == A!AwakeAtHandover
StaleRemembered == R!StaleRemembered

\* After every update an Interest finds its way: the consumer has a working
\* link to the first satellite of the path in force, each satellite of the
\* path has the next one as a next hop, and the last has the producer's, over
\* a working link.
PathJoinsStations ==
  time > 0 /\ ~aborted /\ R!InForce # <<>> =>
    LET p == R!InForce
        joined(sat, st) == /\ net.device[st] # Null
                           /\ net.links[net.device[st]] = <<st, sat>>
                           /\ net.device[st] \notin net.goneSt \cup net.goneSat
    IN  /\ joined(Head(p), Consumer) /\ joined(Last(p), Producer)
        /\ \A i \in 1..Len(p)-1 : <<p[i], p[i+1]>> \in fib
        /\ <<Last(p), Producer, net.device[Producer]>> \in net.routes
=============================================================================
