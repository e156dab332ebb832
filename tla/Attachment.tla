----------------------------- MODULE Attachment -----------------------------
(***************************************************************************)
(* The part of Update (extensions/sat/common.cpp) that follows the         *)
(* attachment schedule of every host station: it predicts at each update   *)
(* which satellite the station will have at the next one, and at the next  *)
(* one exchanges the user link, the routes of the station's prefix, and    *)
(* the tunnel request.  The schedules are those that Leo.py writes         *)
(* (storeAttachments): one entry per change of the access satellite.       *)
(***************************************************************************)
EXTENDS Naturals, Sequences, FiniteSets, SequencesExt

CONSTANTS
  Sat, Gap,         \* satellites; "-", no satellite within range
  StationOrder,     \* the host stations in the order of the std::map
  Role,             \* the role of each station
  InView,           \* the satellites, and Gap, each station may get
  Interval,         \* minutes between updates
  EndTime,          \* minutes of attachment data
  StopTime,         \* minutes the simulation runs
  Null

Station == {StationOrder[i] : i \in DOMAIN StationOrder}
Epoch == 0..EndTime

StationAssumption ==
  /\ StationOrder \in Seq(Station)
  /\ \A i, j \in DOMAIN StationOrder : StationOrder[i] = StationOrder[j] => i = j
  /\ Role \in [Station -> {"consumer", "producer", "m_producer"}]
  /\ Gap \notin Sat /\ InView \in [Station -> SUBSET (Sat \cup {Gap})]
  /\ Sat \cap Station = {} /\ Null \notin Nat
TimeAssumption == Interval \in Nat \ {0} /\ EndTime \in Nat /\ StopTime \in Nat

VARIABLES
  access,           \* the access satellite in each epoch, as Leo.py has it
  time,             \* when Update runs next
  idx, lastIdx,     \* curAttachmentIdx and lastAttachmentIdx, counted from 1
  handover,         \* the flag of each station
  net,              \* links, faces and routes, see Network
  scheduled,        \* application events put on the simulator's queue
  lastSatPrefix     \* the satellite named by a consumer's forwarding hints

vars == <<access, time, idx, lastIdx, handover, net, scheduled, lastSatPrefix>>

(***************************************************************************)
(* The schedule of a station.                                              *)
(***************************************************************************)
Changes(sats) == {t \in Epoch : t = 0 \/ sats[t] # sats[t-1]}

Attachments(st) ==
  LET t[i \in 1..Cardinality(Changes(access[st]))] ==
        CHOOSE u \in Changes(access[st]) :
          Cardinality({v \in Changes(access[st]) : v <= u}) = i
  IN  [i \in DOMAIN t |-> [time |-> t[i], sat |-> access[st][t[i]]]]

(***************************************************************************)
(* The network: user links made so far, the device each station and        *)
(* satellite has now (one slot each), the station and satellite faces      *)
(* marked m_isGone, the routes <<satellite, station, link>> of station     *)
(* prefixes, tunnel requests <<station, link, time>>, and whether a null   *)
(* face was dereferenced, which ends the program.                          *)
(***************************************************************************)
Network == [links : Seq(Station \X Sat), device : [Station \cup Sat -> Nat \cup {Null}],
            goneSt : SUBSET Nat, goneSat : SUBSET Nat,
            routes : SUBSET (Sat \X Station \X Nat),
            requests : SUBSET (Station \X Nat \X Nat), aborted : BOOLEAN]

HasPrefix(st) == Role[st] # "consumer"

\* DetachPrefix and the reset of both device slots.  It takes the satellite's
\* face from the satellite's slot, whatever link is there.
DetachKeepRoute(n, st, sat) ==
  IF n.device[sat] = Null THEN [n EXCEPT !.aborted = TRUE]
  ELSE [n EXCEPT !.goneSt = @ \cup {n.device[st]},
                 !.goneSat = @ \cup {n.device[sat]},
                 !.device = [@ EXCEPT ![st] = Null, ![sat] = Null]]

Detach(n, st, sat) ==
  IF n.device[sat] = Null THEN [n EXCEPT !.aborted = TRUE]
  ELSE [n EXCEPT !.goneSt = @ \cup {n.device[st]},
                 !.goneSat = @ \cup {n.device[sat]},
                 !.routes = @ \ {<<sat, st, n.device[sat]>>},
                 !.device = [@ EXCEPT ![st] = Null, ![sat] = Null]]

\* The new link with its faces, AttachPrefix, and the tunnel request for the
\* link that was left, if there was one.
Connect(n, st, sat, oldId) ==
  LET id == Len(n.links) + 1
  IN  [n EXCEPT !.links = Append(@, <<st, sat>>),
                !.device = [@ EXCEPT ![st] = id, ![sat] = id],
                !.routes = IF HasPrefix(st) THEN @ \cup {<<sat, st, id>>} ELSE @,
                !.requests = IF oldId # Null /\ Role[st] \in {"consumer", "m_producer"}
                             THEN @ \cup {<<st, oldId, time>>} ELSE @]

\* One station in the first loop of Update.
Attach(n, st) ==
  LET att == Attachments(st)
      leaves == handover[st] /\ n.device[st] # Null
      detached == IF leaves THEN Detach(n, st, att[lastIdx[st]].sat) ELSE n
  IN  IF n.aborted \/ idx[st] > Len(att) THEN n
      ELSE IF \/ detached.aborted
              \/ att[idx[st]].sat = Gap
              \/ ~handover[st] /\ time > 0
           THEN detached
           ELSE Connect(detached, st, att[idx[st]].sat, IF leaves THEN n.device[st] ELSE Null)

(***************************************************************************)
(* The last loop of Update: what the station will have at time `next'.     *)
(* Reading attachments[size] when the schedule is used up has no effect,   *)
(* whatever value it yields: both ways the station is skipped.             *)
(***************************************************************************)
FirstAfter(att, from, next) ==
  CHOOSE j \in from..Len(att)+1 :
    /\ j <= Len(att) => next < att[j].time
    /\ \A i \in from..j-1 : att[i].time <= next

FirstNotBefore(att, from, next) ==
  CHOOSE j \in from..Len(att)+1 :
    /\ j <= Len(att) => next <= att[j].time
    /\ \A i \in from..j-1 : att[i].time < next

Prediction(st, next) ==
  LET att == Attachments(st)
      cur == idx[st]
      j == FirstNotBefore(att, cur, next)
      stay == [idx |-> cur, lastIdx |-> lastIdx[st], handover |-> FALSE]
      to(i) == [idx |-> i, lastIdx |-> cur, handover |-> TRUE]
  IN  IF cur > Len(att) \/ j = cur THEN stay                \* nothing due yet
      ELSE IF j > Len(att) THEN [stay EXCEPT !.idx = j]     \* used up
      ELSE IF att[j].time = next THEN to(j)
      ELSE IF j - 1 = cur THEN stay ELSE to(j - 1)

(***************************************************************************)
(* A predicted handover from satellite to satellite schedules applications *)
(* and, for a consumer, sets the satellite its forwarding hints name.      *)
(***************************************************************************)
IsHandover(st, p) == p.handover
IsSatHandover(st, p) ==
  LET att == Attachments(st)
  IN  p.handover /\ att[p.idx].sat # Gap /\ att[p.lastIdx].sat # Gap

AppEvents(predicted) ==
  {<<"ResumeAround", st, time + Interval>> :
       st \in {u \in Station : Role[u] = "consumer" /\ IsSatHandover(u, predicted[u])}}
    \cup
  {<<"OnAssociation", st, time>> :
       st \in {u \in Station : Role[u] = "m_producer" /\ IsSatHandover(u, predicted[u])}}

\* A mobile producer that has just got a link starts a KITE update too.
AttachEvents(links) ==
  {<<"OnAssociation", links[i][1], time>> :
       i \in {k \in DOMAIN links \ DOMAIN net.links : Role[links[k][1]] = "m_producer"}}

Hint(st, p) ==
  IF Role[st] = "consumer" /\ IsSatHandover(st, p)
  THEN Attachments(st)[p.lastIdx].sat ELSE lastSatPrefix[st]

(***************************************************************************)
(* The specification.                                                      *)
(***************************************************************************)
Init ==
  /\ access \in [Station -> [Epoch -> Sat \cup {Gap}]]
  /\ \A st \in Station, t \in Epoch : access[st][t] \in InView[st]
  /\ time = 0
  /\ idx = [st \in Station |-> 1]
  /\ lastIdx = [st \in Station |-> 1]
  /\ handover = [st \in Station |-> FALSE]
  /\ net = [links |-> <<>>, device |-> [n \in Station \cup Sat |-> Null],
            goneSt |-> {}, goneSat |-> {}, routes |-> {}, requests |-> {}, aborted |-> FALSE]
  /\ scheduled = {}
  /\ lastSatPrefix = [st \in Station |-> Null]

\* One Update event.
Update ==
  LET predicted == [st \in Station |-> Prediction(st, time + Interval)]
  IN  /\ time <= StopTime /\ ~net.aborted
      /\ net' = FoldLeft(Attach, net, StationOrder)
      /\ idx' = [st \in Station |-> predicted[st].idx]
      /\ lastIdx' = [st \in Station |-> predicted[st].lastIdx]
      /\ handover' = [st \in Station |-> predicted[st].handover]
      /\ scheduled' = scheduled \cup AppEvents(predicted) \cup AttachEvents(net'.links)
      /\ lastSatPrefix' = [st \in Station |-> Hint(st, predicted[st])]
      /\ time' = time + Interval
      /\ UNCHANGED access

Next == Update
Spec == Init /\ [][Next]_vars

----------------------------------------------------------------------------
(* Properties.                                                             *)

TypeOK ==
  /\ time \in 0..StopTime + Interval
  /\ \A st \in Station :
       /\ idx[st] \in 1..Len(Attachments(st)) + 1
       /\ lastIdx[st] \in 1..Len(Attachments(st))
  /\ handover \in [Station -> BOOLEAN]
  /\ net \in Network
  /\ lastSatPrefix \in [Station -> Sat \cup {Null}]

\* The epoch of the Update that ran last; the data's last one stays in force.
Now == IF time - Interval <= EndTime THEN time - Interval ELSE EndTime

\* After every Update each station has a working link, alive at both ends, to
\* the satellite that Leo.py computed for this very minute, and none when no
\* satellite is within range.
Attached ==
  time > 0 => ~net.aborted /\ \A st \in Station :
    LET id == net.device[st]
    IN  IF access[st][Now] = Gap THEN id = Null
        ELSE /\ id # Null /\ net.links[id] = <<st, access[st][Now]>>
             /\ id \notin net.goneSt \cup net.goneSat
             /\ net.device[access[st][Now]] = id

\* A station's prefix is routed to it by its access satellite over the present
\* user link, and by no other satellite or link.
RouteFollowsStation ==
  time > 0 => \A st \in Station :
    {r \in net.routes : r[2] = st} =
      IF HasPrefix(st) /\ access[st][Now] # Gap
      THEN {<<access[st][Now], st, net.device[st]>>} ELSE {}

\* The consumer is awake around exactly those handovers, predicted one
\* interval ahead, at which it then really leaves one satellite for another
\* and requests a tunnel.
AwakeAtHandover ==
  \A st \in Station : Role[st] = "consumer" =>
    {t \in 0..Now : <<"ResumeAround", st, t>> \in scheduled}
      = {t \in 0..Now : \E id \in DOMAIN net.links : <<st, id, t>> \in net.requests}
=============================================================================
