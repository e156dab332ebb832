------------------------- MODULE HandoverEnds_proofs -------------------------
(***************************************************************************)
(* Proofs about the two ends of a tunnel, for every constellation, set of  *)
(* stations and number of handovers.  Once the ack has reached the station *)
(* payload gets from either end to the other, with any hop limit up to 3.  *)
(* With no three satellites linked to each other, or a hop limit up to 2,  *)
(* the ack reaches the station if and only if the satellite that was left  *)
(* is in reach of the new one.                                             *)
(***************************************************************************)
EXTENDS HandoverService_proofs

----------------------------------------------------------------------------
(* Both ends of a tunnel.                                                  *)

\* The device by which n leads, or will lead once the ack has passed, towards
\* the station of id; m is the node behind it.
Via(n, id) == IF HasEntry(n, id) THEN tib[n][id][2] ELSE prt[n][id]
PointsTo(n, m, id) == HasDevice(userLink, n, Via(n, id)) /\ Peer(n, Via(n, id)) = m

\* The station is at most three such devices away from the satellite it left.
WayToOwner(id) ==
  /\ HopLimit \in 1..3
  /\ \E x \in Node :
       /\ PointsTo(Target(id), x, id)
       /\ \/ x = Owner(id)
          \/ \E y \in Node : /\ PointsTo(x, y, id)
                             /\ y = Owner(id) \/ PointsTo(y, Owner(id), id)
ShortWay == \A id \in DOMAIN userLink : HasEntry(Target(id), id) => WayToOwner(id)

\* The steps that change a PRT or TIB, or create a link.
LEMMA TableSteps ==
  ASSUME [Next]_vars
  PROVE  \/ UNCHANGED <<prt, tib>>
         \/ tib' = tib /\ \E st \in Station : \E s \in Sat : Move(st, s)
         \/ \E n \in Node, l \in Link : ReqAtTarget(n, l) \/ ReqRelay(n, l) \/ AckTaken(n, l)
<1>1. CASE UNCHANGED vars \/ UpdateStart
  BY <1>1 DEF vars, shimVars, UpdateStart
<1>2. ASSUME NEW st \in Station, UpdateStation(st)
      PROVE  UNCHANGED <<prt, tib>> \/ (tib' = tib /\ \E s \in Sat : Move(st, s))
  <2>1. CASE Stay(st) \/ Leave(st)
    BY <2>1 DEF Stay, Leave, shimVars
  <2>2. ASSUME NEW s \in Sat, Enter(st, s) PROVE UNCHANGED <<prt, tib>>
    BY <2>2 DEF Enter
  <2>3. ASSUME NEW s \in Sat, Move(st, s) PROVE tib' = tib
    BY <2>3 DEF Move
  <2> QED BY <1>2, <2>1, <2>2, <2>3 DEF UpdateStation
<1>3. ASSUME NEW n \in Node, NEW id \in UserLink, DoSend(n, id) PROVE UNCHANGED <<prt, tib>>
  BY <1>3 DEF DoSend, SendDirect, SendTunnelled, SendBuffered, shimVars
<1>4. ASSUME NEW n \in Node, NEW l \in Link, Receive(n, l)
      PROVE  UNCHANGED <<prt, tib>> \/ ReqAtTarget(n, l) \/ ReqRelay(n, l) \/ AckTaken(n, l)
  <2>1. ReceiveNdn(n, l) => UNCHANGED <<prt, tib>>
    BY DEF ReceiveNdn, shimVars
  <2>2. ReqLoop(n, l) \/ AckUnsolicited(n, l) => UNCHANGED <<prt, tib>>
    BY DEF ReqLoop, AckUnsolicited, shimVars
  <2>3. PayloadDiscarded(n, l) \/ PayloadHandedUp(n, l) \/ PayloadRelayed(n, l)
          => UNCHANGED <<prt, tib>>
    BY DEF PayloadDiscarded, PayloadHandedUp, PayloadRelayed, shimVars
  <2> QED BY <1>4, <2>1, <2>2, <2>3 DEF Receive, ProcessPacket, ProcessAck
<1> QED BY <1>1, <1>2, <1>3, <1>4 DEF Next

LEMMA StepAddsLinks == ASSUME [Next]_vars PROVE LinksOnlyAdded
<1>1. CASE UNCHANGED vars \/ UpdateStart
  BY <1>1 DEF vars, linkVars, UpdateStart, LinksOnlyAdded
<1>2. ASSUME NEW st \in Station, UpdateStation(st) PROVE LinksOnlyAdded
  <2>1. CASE Stay(st) \/ Leave(st)
    BY <2>1 DEF Stay, Leave, LinksOnlyAdded
  <2>2. ASSUME NEW s \in Sat, Enter(st, s) \/ Move(st, s) PROVE LinksOnlyAdded
    BY <2>2 DEF Enter, Move, LinksOnlyAdded
  <2> QED BY <1>2, <2>1, <2>2 DEF UpdateStation
<1>3. ASSUME NEW n \in Node, NEW id \in UserLink, DoSend(n, id) PROVE userLink' = userLink
  BY <1>3 DEF DoSend, SendDirect, SendTunnelled, SendBuffered, linkVars
<1>4. ASSUME NEW n \in Node, NEW l \in Link, Receive(n, l) PROVE userLink' = userLink
  <2>1. ReceiveNdn(n, l) => userLink' = userLink
    BY DEF ReceiveNdn, linkVars
  <2>2. ReqAtTarget(n, l) \/ ReqLoop(n, l) \/ ReqRelay(n, l) => userLink' = userLink
    BY DEF ReqAtTarget, ReqLoop, ReqRelay, linkVars
  <2>3. AckUnsolicited(n, l) \/ AckTaken(n, l) => userLink' = userLink
    BY DEF AckUnsolicited, AckTaken, linkVars
  <2>4. PayloadDiscarded(n, l) \/ PayloadHandedUp(n, l) \/ PayloadRelayed(n, l)
          => userLink' = userLink
    BY DEF PayloadDiscarded, PayloadHandedUp, PayloadRelayed, linkVars
  <2> QED BY <1>4, <2>1, <2>2, <2>3, <2>4 DEF Receive, ProcessPacket, ProcessAck
<1> QED BY <1>1, <1>2, <1>3, <1>4 DEF Next, LinksOnlyAdded

\* A PRT entry that names a device stays until a TIB entry names it.
LEMMA PendingStays ==
  ASSUME TypeOK, TypeOK', LossInv, TunnelInv, [Next]_vars,
         NEW id \in UserLink, NEW n \in Node, NEW v, v = prt[n][id], v \notin {Null, Absent},
         tib[n][id] = Absent
  PROVE  \/ prt'[n][id] = v /\ tib'[n][id] = Absent
         \/ tib'[n][id] # Absent /\ tib'[n][id][2] = v
<1>1. ASSUME tib' = tib, NEW st \in Station, NEW s \in Sat, Move(st, s)
      PROVE  prt'[n][id] = v
  <2>1. PICK old : old = p2pDevice[st]
    OBVIOUS
  <2>2. /\ old \in UserLink /\ old \in DOMAIN userLink /\ Up(old) = old
        /\ prt' \in {prt, DestinationMark(prt, st, old)}
    <3>1. old # Null /\ prt' \in {prt, DestinationMark(prt, st, old)}
      BY <1>1, <2>1 DEF Move
    <3> QED BY <2>1, <3>1, EndsInUse DEF TunnelInv
  <2>3. id # old
    BY <2>2 DEF TunnelInv, LinkPlaced, Fresh
  <2>4. st \in Node /\ prt \in [Node -> [UserLink -> Link \cup {Null, Absent}]]
    BY Typed DEF Node
  <2>5. [prt EXCEPT ![st][old] = Null][n][id] = prt[n][id]
    BY <2>2, <2>3, <2>4, CellChanged
  <2> QED BY <2>2, <2>5 DEF DestinationMark
<1>2. ASSUME NEW x \in Node, NEW l \in Link, ReqAtTarget(x, l)
      PROVE  prt' = prt /\ tib'[n][id] = Absent
  <2>1. PICK k, q : k = Arriving(x, l).id /\ q = Peer(x, l)
    OBVIOUS
  <2>2. k \in UserLink /\ k \in DOMAIN userLink /\ LinkPlaced(k)
    BY <1>2, <2>1, ArrivalPlaced DEF ReqAtTarget
  <2>3. x = Target(k) /\ k \in idList[x]
    BY <1>2, <2>1, TargetAnswers DEF ReqAtTarget
  <2>4. prt[x][k] = Absent
    BY <2>2, <2>3 DEF LinkPlaced, Unanswered
  <2>5. ~(n = x /\ id = k)
    BY <2>4
  <2>6. prt' = prt /\ tib' = [tib EXCEPT ![x][k] = TargetEntry(l)]
    BY <1>2, <2>1 DEF ReqAtTarget
  <2>7. tib'[n][id] = tib[n][id]
    BY <2>2, <2>5, <2>6, Typed, CellChanged
  <2> QED BY <2>6, <2>7
<1>3. ASSUME NEW x \in Node, NEW l \in Link, ReqRelay(x, l)
      PROVE  prt'[n][id] = v /\ tib'[n][id] = Absent
  <2>1. PICK k, q : k = Arriving(x, l).id /\ q = Peer(x, l)
    OBVIOUS
  <2>2. k \in UserLink
    BY <1>3, <2>1, ArrivalPlaced DEF ReqRelay
  <2>3. /\ prt[x][k] = Absent /\ tib' = tib /\ prt' = [prt EXCEPT ![x][k] = l]
    BY <1>3, <2>1 DEF ReqRelay, Pending
  <2>4. prt'[n][id] = prt[n][id]
    BY <2>2, <2>3, Typed, CellChanged
  <2> QED BY <2>3, <2>4
<1>4. ASSUME NEW x \in Node, NEW l \in Link, AckTaken(x, l)
      PROVE  \/ prt'[n][id] = v /\ tib'[n][id] = Absent
             \/ tib'[n][id] # Absent /\ tib'[n][id][2] = v
  <2>1. PICK k, r : k = Arriving(x, l).id /\ r = prt[x][k]
    OBVIOUS
  <2>2. k \in UserLink
    BY <1>4, <2>1, ArrivalPlaced DEF AckTaken
  <2>3. /\ r # Absent /\ r \in Link \cup {Null}
        /\ tib' = [tib EXCEPT ![x][k] = <<l, r>>] /\ prt' = [prt EXCEPT ![x][k] = Absent]
    <3>1. r \in Link \cup {Null, Absent}
      BY <2>1, <2>2, Typed
    <3> QED BY <1>4, <2>1, <3>1 DEF AckTaken, RelayEntry
  <2>4. CASE n = x /\ id = k
    <3>1. tib'[n][id] = <<l, v>>
      BY <2>1, <2>2, <2>3, <2>4, Typed, CellChanged
    <3>2. <<l, v>> # Absent
      BY <2>1, <2>3, <2>4, MarkerAssumption
    <3> QED BY <3>1, <3>2
  <2>5. CASE ~(n = x /\ id = k)
    <3>1. prt'[n][id] = prt[n][id]
      BY <2>2, <2>3, <2>5, Typed, CellChanged
    <3>2. tib'[n][id] = tib[n][id]
      BY <2>2, <2>3, <2>5, Typed, CellChanged
    <3> QED BY <3>1, <3>2
  <2> QED BY <2>4, <2>5
<1> QED BY <1>1, <1>2, <1>3, <1>4, TableSteps

\* What a PRT entry says the TIB entry that replaces it says too.
LEMMA PointsStay ==
  ASSUME TypeOK, TypeOK', LossInv, TunnelInv, [Next]_vars,
         NEW id \in UserLink, NEW n \in Node, NEW m, PointsTo(n, m, id)
  PROVE  PointsTo(n, m, id)'
<1>1. PICK v : v = Via(n, id)
  OBVIOUS
<1>2. v \in Link /\ HasDevice(userLink, n, v) /\ Peer(n, v) = m
  BY <1>1, PeerOfPeer DEF PointsTo
<1>3. v # Null /\ v # Absent
  BY <1>2, MarkerAssumption
<1>4. LinksOnlyAdded
  BY StepAddsLinks
<1>5. HasDevice(userLink', n, v) /\ Peer(n, v)' = m
  BY <1>2, <1>4, PeerStays
<1>6. Via(n, id)' = v
  <2>1. CASE HasEntry(n, id)
    <3>1. tib'[n][id] = tib[n][id]
      BY <2>1, EntriesKept DEF HasEntry
    <3> QED BY <1>1, <2>1, <3>1 DEF Via, HasEntry
  <2>2. CASE ~HasEntry(n, id)
    <3>1. prt[n][id] = v /\ tib[n][id] = Absent
      BY <1>1, <2>2 DEF Via, HasEntry
    <3>2. \/ prt'[n][id] = v /\ tib'[n][id] = Absent
          \/ tib'[n][id] # Absent /\ tib'[n][id][2] = v
      BY <1>3, <3>1, PendingStays
    <3> QED BY <3>2 DEF Via, HasEntry
  <2> QED BY <2>1, <2>2
<1>7. Peer(n, Via(n, id))' = m
  BY <1>5, <1>6 DEF Peer
<1> QED BY <1>5, <1>6, <1>7 DEF PointsTo

\* The request that the satellite answers came along such a way.
LEMMA AnswerHasWay ==
  ASSUME TypeOK, TypeOK', LossInv, TunnelInv, [Next]_vars, HopLimit <= 3,
         NEW n \in Node, NEW l \in Link, ReqAtTarget(n, l), NEW id, id = Arriving(n, l).id
  PROVE  WayToOwner(id)' /\ n = Target(id) /\ id \in UserLink
<1>1. PICK q, m : q = Peer(n, l) /\ m = Arriving(n, l)
  OBVIOUS
<1>2. /\ q \in Node /\ q # n /\ Peer(n, l) = q /\ HasDevice(userLink, n, l)
      /\ m \in Message /\ m.type = "TunnelReq" /\ m.id = id /\ id \in UserLink /\ LinkPlaced(id)
      /\ ControlPlaced(q, l, 1, id, m) /\ id \in DOMAIN userLink /\ Up(id) # Null
  BY <1>1, ArrivalPlaced DEF ReqAtTarget
<1>3. /\ userLink' = userLink /\ id \in idList[n] /\ tib' = [tib EXCEPT ![n][id] = <<Null, l>>]
  BY <1>1, <1>2 DEF ReqAtTarget, TargetEntry, linkVars
<1>4. n = Target(id) /\ \A x \in Node : tib[x][id] = Absent
  BY TargetAnswers
<1>5. Unanswered(id)
  BY <1>3, <1>4 DEF Unanswered
<1>6. PICK o \in Node, s \in Node : o = Owner(id) /\ s = AccessSat(id)
  BY <1>2, OwnerType, UpJoins DEF TunnelInv
<1>7. AccessWaits(id) => PointsTo(s, o, id)
  <2>1. HasDevice(userLink, s, Up(id)) /\ Peer(s, Up(id)) = o
    BY <1>2, <1>6, UpJoins DEF TunnelInv
  <2> QED BY <1>4, <1>6, <2>1 DEF AccessWaits, PointsTo, Via, HasEntry
<1>8. RelaysToAccess(q, id) => PointsTo(q, s, id)
  BY <1>2, <1>4, <1>6 DEF RelaysToAccess, PointsTo, Via, HasEntry
<1>9. HopLimit \in 1..3
  <2>1. m.hopLimit \in 1..HopLimit
    BY <1>2, MessageFields
  <2> QED BY <2>1, BoundAssumption
<1>10. \/ q = o
       \/ q = s /\ PointsTo(s, o, id)
       \/ PointsTo(q, s, id) /\ PointsTo(s, o, id)
  <2>1. ReqPlaced(q, l, 1, id, m.hopLimit)
    BY <1>2 DEF ControlPlaced
  <2>2. \/ q = o
        \/ q = s /\ AccessWaits(id)
        \/ AccessWaits(id) /\ RelaysToAccess(q, id)
    BY <1>5, <1>6, <2>1 DEF ReqPlaced, FirstReq
  <2> QED BY <1>7, <1>8, <2>2
<1>11. q = o \/ \E y \in Node : PointsTo(q, y, id)' /\ (y = o \/ PointsTo(y, o, id)')
  <2>1. PointsTo(s, o, id) => PointsTo(s, o, id)'
    BY <1>2, PointsStay
  <2>2. PointsTo(q, s, id) => PointsTo(q, s, id)'
    BY <1>2, PointsStay
  <2> QED BY <1>6, <1>10, <2>1, <2>2
<1>12. PointsTo(n, q, id)'
  <2>1. tib'[n][id] = <<Null, l>> /\ <<Null, l>> # Absent
    BY <1>2, <1>3, Typed, CellChanged, MarkerAssumption
  <2>2. Via(n, id)' = l
    BY <2>1 DEF Via, HasEntry
  <2>3. HasDevice(userLink', n, l) /\ Peer(n, l)' = q
    BY <1>2, <1>3 DEF Peer
  <2> QED BY <2>2, <2>3 DEF PointsTo, Peer
<1>13. Owner(id)' = o /\ Target(id)' = n
  BY <1>3, <1>4, <1>6 DEF Owner, Target
<1>14. WayToOwner(id)'
  <2>1. \E x \in Node : /\ PointsTo(n, x, id)'
                        /\ x = o \/ \E y \in Node : PointsTo(x, y, id)' /\ (y = o \/ PointsTo(y, o, id)')
    BY <1>2, <1>11, <1>12
  <2> QED BY <1>9, <1>13, <2>1 DEF WayToOwner
<1> QED BY <1>2, <1>4, <1>14

LEMMA WayStays ==
  ASSUME TypeOK, TypeOK', LossInv, TunnelInv, [Next]_vars, NEW id \in DOMAIN userLink, WayToOwner(id)
  PROVE  WayToOwner(id)'
<1>1. LinksOnlyAdded
  BY StepAddsLinks
<1>2. PICK o \in Node, t \in Node : o = Owner(id) /\ t = Target(id)
  BY OwnerType
<1>3. id \in UserLink /\ Owner(id)' = o /\ Target(id)' = t
  BY <1>1, <1>2, EndsStay
<1>4. \A x, y \in Node : PointsTo(x, y, id) => PointsTo(x, y, id)'
  BY <1>3, PointsStay
<1>5. PICK x \in Node : /\ PointsTo(t, x, id)
                        /\ x = o \/ \E y \in Node : PointsTo(x, y, id) /\ (y = o \/ PointsTo(y, o, id))
  BY <1>2 DEF WayToOwner
<1>6. /\ PointsTo(t, x, id)'
      /\ x = o \/ \E y \in Node : PointsTo(x, y, id)' /\ (y = o \/ PointsTo(y, o, id)')
  BY <1>2, <1>4, <1>5
<1> QED BY <1>3, <1>6 DEF WayToOwner

LEMMA LinkNumbersNext ==
  ASSUME TypeOK', NEW id \in DOMAIN userLink'
  PROVE  id \in UserLink /\ userLink'[id][1] \in Station /\ userLink'[id][2] \in Sat
<1>1. userLink' \in Seq(Station \X Sat) /\ Len(userLink') <= MaxLink
  BY DEF TypeOK
<1>2. id \in 1..Len(userLink') /\ userLink'[id] \in Station \X Sat
  BY <1>1
<1> QED BY <1>1, <1>2, BoundAssumption DEF UserLink

\* The satellite that was left gets its entry when it answers: no ack is taken there.
LEMMA TargetEntryNew ==
  ASSUME TypeOK, TypeOK', LossInv, TunnelInv, BufferInv, [Next]_vars,
         NEW id \in DOMAIN userLink', HasEntry(Target(id), id)'
  PROVE  \/ id \in DOMAIN userLink /\ HasEntry(Target(id), id)
         \/ \E n \in Node, l \in Link : ReqAtTarget(n, l) /\ Arriving(n, l).id = id
<1>1. LinksOnlyAdded
  BY StepAddsLinks
<1>2. PICK t : t = Target(id)'
  OBVIOUS
<1>3. tib'[t][id] # Absent
  BY <1>2 DEF HasEntry
<1>4. t \in Node /\ id \in UserLink
  BY <1>2, LinkNumbersNext DEF Target, Node
<1>5. CASE id \in DOMAIN userLink /\ tib[t][id] # Absent
  <2>1. t = Target(id)
    BY <1>1, <1>2, <1>5, EndsStay
  <2> QED BY <1>5, <2>1 DEF HasEntry
<1>6. CASE tib[t][id] = Absent
  <2>1. tib' # tib
    BY <1>3, <1>6
  <2>2. PICK n \in Node, l \in Link : ReqAtTarget(n, l) \/ ReqRelay(n, l) \/ AckTaken(n, l)
    BY <2>1, TableSteps
  <2>3. PICK k : k = Arriving(n, l).id
    OBVIOUS
  <2>4. CASE ReqAtTarget(n, l)
    <3>1. k \in UserLink
      BY <2>3, <2>4, ArrivalPlaced DEF ReqAtTarget
    <3>2. tib' = [tib EXCEPT ![n][k] = TargetEntry(l)]
      BY <2>3, <2>4 DEF ReqAtTarget
    <3>3. id = k
      BY <1>3, <1>4, <1>6, <3>1, <3>2, Typed, CellChanged
    <3> QED BY <2>3, <2>4, <3>3
  <2>5. CASE ReqRelay(n, l)
    BY <2>1, <2>5 DEF ReqRelay
  <2>6. CASE AckTaken(n, l)
    <3>1. /\ k \in UserLink /\ k \in DOMAIN userLink
          /\ tib' = [tib EXCEPT ![n][k] = RelayEntry(l, prt[n][k])] /\ UNCHANGED userLink
      BY <2>3, <2>6, ArrivalPlaced DEF AckTaken, linkVars
    <3>2. t = n /\ id = k
      BY <1>3, <1>4, <1>6, <3>1, Typed, CellChanged
    <3>3. ~Unanswered(k)
      BY <2>3, <2>6, AckPassedOn DEF AckFindsWay
    <3>4. t = Target(k) /\ tib[t][k] = Absent
      BY <1>2, <1>6, <3>1, <3>2 DEF Target
    <3> QED BY <3>1, <3>3, <3>4 DEF BufferInv, TargetOrTunnel, Unanswered, Target
  <2> QED BY <2>2, <2>4, <2>5, <2>6
<1>7. CASE id \notin DOMAIN userLink
  <2>1. tib[t][id] = Absent
    BY <1>4, <1>7 DEF TunnelInv, LinkPlaced, Fresh
  <2> QED BY <1>6, <2>1
<1> QED BY <1>5, <1>6, <1>7

LEMMA ShortWayStep ==
  ASSUME TypeOK, TypeOK', LossInv, TunnelInv, BufferInv, ShortWay, [Next]_vars, HopLimit <= 3
  PROVE  ShortWay'
<1> SUFFICES ASSUME NEW id \in DOMAIN userLink', HasEntry(Target(id), id)'
             PROVE  WayToOwner(id)'
  BY DEF ShortWay
<1>1. CASE id \in DOMAIN userLink /\ HasEntry(Target(id), id)
  BY <1>1, WayStays DEF ShortWay
<1>2. ASSUME NEW n \in Node, NEW l \in Link, ReqAtTarget(n, l), Arriving(n, l).id = id
      PROVE  WayToOwner(id)'
  BY <1>2, AnswerHasWay
<1> QED BY <1>1, <1>2, TargetEntryNew

\* m is the next node of the chain after n.
Joint(n, m, id) ==
  /\ HasEntry(n, id) /\ HasEntry(m, id)
  /\ tib[n][id][2] # Null /\ tib[m][id][1] = tib[n][id][2]
  /\ Peer(n, tib[n][id][2]) = m /\ Peer(m, tib[n][id][2]) = n

LEMMA ChainNext ==
  ASSUME TypeOK, LossInv, NEW id \in UserLink, NEW rank \in [Node -> Nat], Chain(id, rank),
         NEW o \in Node, o = Owner(id), HasEntry(o, id),
         NEW n \in Node, NEW m \in Node, HasEntry(n, id), n # o, rank[n] < rank[o], PointsTo(n, m, id)
  PROVE  Joint(n, m, id) /\ rank[m] = rank[n] + 1 /\ (m # o => rank[m] < rank[o])
<1>1. PICK d : d = tib[n][id][2]
  OBVIOUS
<1>2. HasDevice(userLink, n, d) /\ Peer(n, d) = m
  BY <1>1 DEF PointsTo, Via
<1>3. d # Null /\ m # n /\ Peer(m, d) = n
  BY <1>2, PeerOfPeer, MarkerAssumption
<1>4. HasEntry(m, id) /\ tib[m][id][1] = d
  <2>1. KnowsOnward(n, id, rank) /\ Onward(n, id) = m
    BY <1>1, <1>2 DEF Chain, Onward
  <2>2. ~(rank[o] <= rank[n])
    <3>1. rank[o] \in Nat /\ rank[n] \in Nat
      OBVIOUS
    <3> QED BY <3>1
  <2> QED BY <1>1, <2>1, <2>2 DEF KnowsOnward
<1>5. rank[m] = rank[n] + 1
  <2>1. KnowsBack(m, id, rank) /\ Back(m, id) = n
    BY <1>3, <1>4 DEF Chain, Back
  <2> QED BY <1>3, <1>4, <2>1 DEF KnowsBack
<1>6. m # o => rank[m] # rank[o]
  BY <1>4 DEF Chain
<1>7. rank[m] \in Nat /\ rank[o] \in Nat /\ rank[n] \in Nat
  OBVIOUS
<1> QED BY <1>1, <1>2, <1>3, <1>4, <1>5, <1>6, <1>7 DEF Joint

\* The chain has both ends, and at most two nodes between them.
LEMMA TunnelPath ==
  ASSUME TypeOK, LossInv, TunnelInv, BufferInv, ShortWay,
         NEW id \in DOMAIN userLink, Served(id), HasEntry(Owner(id), id)
  PROVE  /\ HasEntry(Target(id), id) /\ tib[Target(id)][id][1] = Null
         /\ tib[Owner(id)][id][2] = Null /\ HopLimit \in 1..3
         /\ \/ Joint(Target(id), Owner(id), id)
            \/ \E x \in Node : Joint(Target(id), x, id) /\ Joint(x, Owner(id), id)
            \/ \E x, y \in Node : /\ Joint(Target(id), x, id) /\ Joint(x, y, id)
                                  /\ Joint(y, Owner(id), id) /\ y # Target(id) /\ x # Owner(id)
<1>1. PICK o \in Node, t \in Node : o = Owner(id) /\ t = Target(id) /\ o # t /\ id \in UserLink
  BY OwnerType
<1>2. HasEntry(o, id) /\ HasEntry(t, id)
  <2>1. ~Unanswered(id)
    BY <1>1 DEF TunnelInv, LinkPlaced, HasEntry
  <2> QED BY <1>1, <2>1 DEF BufferInv, TargetOrTunnel, Unanswered, Target, HasEntry
<1>3. PICK rank \in [Node -> Nat] : Chain(id, rank)
  BY DEF Served
<1>4. tib[t][id][1] = Null /\ rank[t] = 0 /\ tib[o][id][2] = Null
  BY <1>1, <1>2, <1>3 DEF Chain, KnowsBack, KnowsOnward
<1>5. rank[t] < rank[o]
  <2>1. rank[o] # rank[t]
    BY <1>1, <1>2, <1>3 DEF Chain
  <2>2. rank[o] \in Nat
    OBVIOUS
  <2> QED BY <1>4, <2>1, <2>2
<1>6. \A n, m \in Node : HasEntry(n, id) /\ n # o /\ rank[n] < rank[o] /\ PointsTo(n, m, id)
        => /\ Joint(n, m, id) /\ HasEntry(m, id) /\ rank[m] = rank[n] + 1
           /\ m # o => rank[m] < rank[o]
  BY <1>1, <1>2, <1>3, ChainNext DEF Joint
<1>7. /\ HopLimit \in 1..3
      /\ \E x \in Node :
           /\ PointsTo(t, x, id)
           /\ x = o \/ \E y \in Node : PointsTo(x, y, id) /\ (y = o \/ PointsTo(y, o, id))
  BY <1>1, <1>2 DEF ShortWay, WayToOwner
<1>8. PICK x \in Node :
        /\ PointsTo(t, x, id)
        /\ x = o \/ \E y \in Node : PointsTo(x, y, id) /\ (y = o \/ PointsTo(y, o, id))
  BY <1>7
<1>9. /\ Joint(t, x, id) /\ HasEntry(x, id) /\ rank[x] = rank[t] + 1
      /\ x # o => rank[x] < rank[o]
  BY <1>1, <1>2, <1>5, <1>6, <1>8
<1>10. \/ Joint(t, o, id)
       \/ \E a \in Node : Joint(t, a, id) /\ Joint(a, o, id)
       \/ \E a, b \in Node : /\ Joint(t, a, id) /\ Joint(a, b, id) /\ Joint(b, o, id)
                             /\ b # t /\ a # o
  <2>1. CASE x = o
    BY <1>9, <2>1
  <2>2. CASE x # o
    <3>1. PICK y \in Node : PointsTo(x, y, id) /\ (y = o \/ PointsTo(y, o, id))
      BY <1>8, <2>2
    <3>2. /\ Joint(x, y, id) /\ HasEntry(y, id) /\ rank[y] = rank[x] + 1
          /\ y # o => rank[y] < rank[o]
      BY <1>6, <1>9, <2>2, <3>1
    <3>3. CASE y = o
      BY <1>9, <3>2, <3>3
    <3>4. CASE y # o
      <4>1. Joint(y, o, id)
        BY <1>6, <3>1, <3>2, <3>4
      <4>2. y # t
        BY <1>4, <1>9, <3>2
      <4> QED BY <1>9, <2>2, <3>2, <4>1, <4>2
    <3> QED BY <3>3, <3>4
  <2> QED BY <2>1, <2>2
<1> QED BY <1>1, <1>2, <1>4, <1>7, <1>10

----------------------------------------------------------------------------
(* Walks along a tunnel.                                                   *)

Hop(n, l) == [node |-> n, by |-> l]
FirstHop(n, id) ==
  Hop(Peer(n, TunnelDevice(tib[n][id])), TunnelDevice(tib[n][id]))
NextHop(h, id) ==
  LET entry == tib[h.node][id]
  IN  IF entry = Absent \/ IsTunnelEnd(entry, h.by) THEN h
      ELSE Hop(Peer(h.node, PayloadDevice(entry, h.by)), PayloadDevice(entry, h.by))
IsWalk(f, n, id) ==
  f = [i \in Nat |-> IF i = 0 THEN FirstHop(n, id) ELSE NextHop(f[i-1], id)]

LEMMA WalkDef ==
  ASSUME NEW n, NEW id, NEW f, IsWalk(f, n, id)
  PROVE  \E w : IsWalk(w, n, id) /\ \A hops : Walk(n, id, hops) = w[hops]
<1> DEFINE at == CHOOSE w : IsWalk(w, n, id)
<1>1. IsWalk(at, n, id)
  OBVIOUS
<1>2. ASSUME NEW hops PROVE Walk(n, id, hops) = at[hops]
  BY Zenon DEF Walk, IsWalk, NextHop, FirstHop, Hop
<1> QED BY <1>1, <1>2

\* A walk that comes to its end after at most two more hops ends there.
LEMMA WalkEnds ==
  ASSUME NEW n, NEW id, NEW h0, NEW h1, NEW h2,
         h0 = FirstHop(n, id), h1 = NextHop(h0, id), h2 = NextHop(h1, id), NextHop(h2, id) = h2,
         HopLimit \in 1..3
  PROVE  Walk(n, id, HopLimit + 1) = h2
<1>1. PICK f : f = [i \in Nat |-> IF i = 0 THEN h0 ELSE IF i = 1 THEN h1 ELSE h2]
  OBVIOUS
<1>2. IsWalk(f, n, id)
  <2>1. ASSUME NEW i \in Nat PROVE f[i] = IF i = 0 THEN FirstHop(n, id) ELSE NextHop(f[i-1], id)
    <3>1. CASE i = 0
      BY <1>1, <3>1
    <3>2. CASE i = 1
      BY <1>1, <3>2
    <3>3. CASE i = 2
      BY <1>1, <3>3
    <3>4. CASE i \notin {0, 1, 2}
      <4>1. i - 1 \in Nat /\ i - 1 \notin {0, 1}
        BY <3>4
      <4>2. f[i] = h2 /\ f[i-1] = h2
        BY <1>1, <3>4, <4>1
      <4> QED BY <3>4, <4>2
    <3> QED BY <3>1, <3>2, <3>3, <3>4
  <2>2. f = [i \in Nat |-> f[i]]
    BY <1>1
  <2> QED BY <2>1, <2>2 DEF IsWalk
<1>3. PICK w : IsWalk(w, n, id) /\ \A hops : Walk(n, id, hops) = w[hops]
  BY <1>2, WalkDef
<1>4. w[0] = h0 /\ \A i \in Nat : i # 0 => w[i] = NextHop(w[i-1], id)
  BY <1>3 DEF IsWalk
<1>5. w[1] = h1
  BY <1>4
<1>6. w[2] = h2
  BY <1>4, <1>5
<1>7. w[3] = h2
  BY <1>4, <1>6
<1>8. w[4] = h2
  BY <1>4, <1>7
<1>9. HopLimit + 1 \in {2, 3, 4}
  OBVIOUS
<1> QED BY <1>3, <1>6, <1>7, <1>8, <1>9

LEMMA EntryIsPair ==
  ASSUME TypeOK, NEW n \in Node, NEW id \in UserLink, HasEntry(n, id)
  PROVE  tib[n][id] = <<tib[n][id][1], tib[n][id][2]>>
BY Typed DEF HasEntry

\* Hops in the middle of a tunnel, one way and the other.
LEMMA HopsOn ==
  ASSUME TypeOK, NEW id \in UserLink, NEW n \in Node, NEW m \in Node, NEW k \in Node,
         Joint(n, m, id), Joint(m, k, id), n # k
  PROVE  /\ NextHop(Hop(m, tib[n][id][2]), id) = Hop(k, tib[m][id][2])
         /\ NextHop(Hop(m, tib[m][id][2]), id) = Hop(n, tib[n][id][2])
<1>1. PICK d, e : d = tib[n][id][2] /\ e = tib[m][id][2]
  OBVIOUS
<1>2. /\ tib[m][id] = <<d, e>> /\ tib[m][id] # Absent /\ d # Null /\ e # Null
      /\ Peer(m, d) = n /\ Peer(m, e) = k /\ d # e
  BY <1>1, EntryIsPair DEF Joint, HasEntry
<1>3. ~IsTunnelEnd(tib[m][id], d) /\ ~IsTunnelEnd(tib[m][id], e)
  BY <1>2 DEF IsTunnelEnd
<1>4. PayloadDevice(tib[m][id], d) = e /\ PayloadDevice(tib[m][id], e) = d
  BY <1>2 DEF PayloadDevice
<1> QED BY <1>1, <1>2, <1>3, <1>4 DEF NextHop, Hop

\* The first hop and the last, one way and the other.
LEMMA HopsEnd ==
  ASSUME TypeOK, NEW id \in UserLink, NEW n \in Node, NEW m \in Node, Joint(n, m, id)
  PROVE  /\ tib[n][id][1] = Null =>
              /\ FirstHop(n, id) = Hop(m, tib[n][id][2])
              /\ NextHop(Hop(n, tib[n][id][2]), id) = Hop(n, tib[n][id][2])
              /\ IsTunnelEnd(tib[n][id], tib[n][id][2])
         /\ tib[m][id][2] = Null =>
              /\ FirstHop(m, id) = Hop(n, tib[n][id][2])
              /\ NextHop(Hop(m, tib[n][id][2]), id) = Hop(m, tib[n][id][2])
              /\ IsTunnelEnd(tib[m][id], tib[n][id][2])
<1>1. PICK d : d = tib[n][id][2] /\ d # Null /\ Peer(n, d) = m /\ Peer(m, d) = n
  BY DEF Joint
<1>2. tib[n][id] = <<tib[n][id][1], d>> /\ tib[m][id] = <<d, tib[m][id][2]>>
  BY <1>1, EntryIsPair DEF Joint
<1>3. ASSUME tib[n][id][1] = Null
      PROVE  /\ FirstHop(n, id) = Hop(m, d) /\ NextHop(Hop(n, d), id) = Hop(n, d)
             /\ IsTunnelEnd(tib[n][id], d)
  <2>1. tib[n][id] = <<Null, d>>
    BY <1>2, <1>3
  <2>2. TunnelDevice(tib[n][id]) = d /\ IsTunnelEnd(tib[n][id], d)
    BY <2>1 DEF TunnelDevice, IsTunnelEnd
  <2> QED BY <1>1, <2>2 DEF FirstHop, NextHop, Hop
<1>4. ASSUME tib[m][id][2] = Null
      PROVE  /\ FirstHop(m, id) = Hop(n, d) /\ NextHop(Hop(m, d), id) = Hop(m, d)
             /\ IsTunnelEnd(tib[m][id], d)
  <2>1. tib[m][id] = <<d, Null>>
    BY <1>2, <1>4
  <2>2. TunnelDevice(tib[m][id]) = d /\ IsTunnelEnd(tib[m][id], d)
    BY <1>1, <2>1 DEF TunnelDevice, IsTunnelEnd
  <2> QED BY <1>1, <2>2 DEF FirstHop, NextHop, Hop
<1> QED BY <1>1, <1>3, <1>4

LEMMA PathJoins ==
  ASSUME TypeOK, LossInv, TunnelInv, BufferInv, ShortWay,
         NEW id \in DOMAIN userLink, Served(id), HasEntry(Owner(id), id)
  PROVE  LeadsTo(Owner(id), Target(id), id) /\ LeadsTo(Target(id), Owner(id), id)
<1>1. PICK o \in Node, t \in Node : o = Owner(id) /\ t = Target(id) /\ o # t /\ id \in UserLink
  BY OwnerType
<1>2. /\ HasEntry(t, id) /\ tib[t][id][1] = Null /\ HasEntry(o, id) /\ tib[o][id][2] = Null
      /\ HopLimit \in 1..3
      /\ \/ Joint(t, o, id)
         \/ \E x \in Node : Joint(t, x, id) /\ Joint(x, o, id)
         \/ \E x, y \in Node : /\ Joint(t, x, id) /\ Joint(x, y, id) /\ Joint(y, o, id)
                               /\ y # t /\ x # o
  BY <1>1, TunnelPath
\* It suffices that two more hops after the first reach the other end.
<1>3. ASSUME NEW n \in Node, NEW m \in Node, HasEntry(n, id), HasEntry(m, id),
             NEW h0, NEW h1, NEW d, h0 = FirstHop(n, id), h1 = NextHop(h0, id),
             Hop(m, d) = NextHop(h1, id), NextHop(Hop(m, d), id) = Hop(m, d),
             IsTunnelEnd(tib[m][id], d)
      PROVE  LeadsTo(n, m, id)
  <2>1. Walk(n, id, HopLimit + 1) = Hop(m, d)
    BY <1>2, <1>3, WalkEnds
  <2> QED BY <1>3, <2>1 DEF LeadsTo, Hop, HasEntry
<1>4. CASE Joint(t, o, id)
  <2>1. PICK d : d = tib[t][id][2]
    OBVIOUS
  <2>2. /\ FirstHop(t, id) = Hop(o, d) /\ NextHop(Hop(o, d), id) = Hop(o, d)
        /\ FirstHop(o, id) = Hop(t, d) /\ NextHop(Hop(t, d), id) = Hop(t, d)
        /\ IsTunnelEnd(tib[t][id], d) /\ IsTunnelEnd(tib[o][id], d)
    BY <1>1, <1>2, <1>4, <2>1, HopsEnd
  <2> QED BY <1>1, <1>2, <1>3, <2>2
<1>5. ASSUME NEW x \in Node, Joint(t, x, id), Joint(x, o, id)
      PROVE  LeadsTo(o, t, id) /\ LeadsTo(t, o, id)
  <2>1. PICK d, e : d = tib[t][id][2] /\ e = tib[x][id][2]
    OBVIOUS
  <2>2. FirstHop(t, id) = Hop(x, d) /\ NextHop(Hop(t, d), id) = Hop(t, d) /\ IsTunnelEnd(tib[t][id], d)
    BY <1>1, <1>2, <1>5, <2>1, HopsEnd
  <2>3. FirstHop(o, id) = Hop(x, e) /\ NextHop(Hop(o, e), id) = Hop(o, e) /\ IsTunnelEnd(tib[o][id], e)
    BY <1>1, <1>2, <1>5, <2>1, HopsEnd
  <2>4. NextHop(Hop(x, d), id) = Hop(o, e) /\ NextHop(Hop(x, e), id) = Hop(t, d)
    BY <1>1, <1>5, <2>1, HopsOn
  <2> QED BY <1>2, <1>3, <2>2, <2>3, <2>4
<1>6. ASSUME NEW x \in Node, NEW y \in Node,
             Joint(t, x, id), Joint(x, y, id), Joint(y, o, id), y # t, x # o
      PROVE  LeadsTo(o, t, id) /\ LeadsTo(t, o, id)
  <2>1. PICK d, e, g : d = tib[t][id][2] /\ e = tib[x][id][2] /\ g = tib[y][id][2]
    OBVIOUS
  <2>2. FirstHop(t, id) = Hop(x, d) /\ NextHop(Hop(t, d), id) = Hop(t, d) /\ IsTunnelEnd(tib[t][id], d)
    BY <1>1, <1>2, <1>6, <2>1, HopsEnd
  <2>3. FirstHop(o, id) = Hop(y, g) /\ NextHop(Hop(o, g), id) = Hop(o, g) /\ IsTunnelEnd(tib[o][id], g)
    BY <1>1, <1>2, <1>6, <2>1, HopsEnd
  <2>4. NextHop(Hop(x, d), id) = Hop(y, e) /\ NextHop(Hop(x, e), id) = Hop(t, d)
    BY <1>1, <1>6, <2>1, HopsOn
  <2>5. NextHop(Hop(y, e), id) = Hop(o, g) /\ NextHop(Hop(y, g), id) = Hop(x, e)
    BY <1>1, <1>6, <2>1, HopsOn
  <2> QED BY <1>2, <1>3, <2>2, <2>3, <2>4, <2>5
<1> QED BY <1>1, <1>2, <1>4, <1>5, <1>6

\* Once the ack has reached the station, payload that either end of the link
\* it has left puts into the tunnel is handed up by the other end: the TIB
\* entries that ReqAtTarget and AckTaken made join into one path, and the
\* device that ProcessPacket picks at each of its nodes follows it both ways.
THEOREM TunnelsJoinEnds == HopLimit <= 3 => (Spec => []TunnelJoinsEnds)
<1> SUFFICES ASSUME HopLimit <= 3 PROVE Spec => []TunnelJoinsEnds
  OBVIOUS
<1> DEFINE IInv == TypeOK /\ LossInv /\ TunnelInv /\ BufferInv /\ ServiceInv /\ ShortWay
<1>1. Init => IInv
  <2>1. Init => ShortWay
    BY DEF Init, ShortWay
  <2> QED BY <2>1, InitType, LossInit, TunnelInit, BufferInit, ServiceInit
<1>2. IInv /\ [Next]_vars => IInv'
  BY TypeStep, LossStep, TunnelStep, BufferStep, ServiceStep, ShortWayStep
<1>3. IInv => TunnelJoinsEnds
  <2> SUFFICES ASSUME IInv, NEW id \in DOMAIN userLink, tib[userLink[id][1]][id] # Absent
               PROVE  /\ LeadsTo(userLink[id][1], userLink[id][2], id)
                      /\ LeadsTo(userLink[id][2], userLink[id][1], id)
    BY DEF TunnelJoinsEnds
  <2>1. Served(id)
    BY OwnerType DEF ServiceInv
  <2> QED BY <2>1, PathJoins DEF Owner, Target, HasEntry
<1> QED BY <1>1, <1>2, <1>3, PTL DEF Spec
----------------------------------------------------------------------------
(* What is said about a link.                                              *)

ControlType == {"TunnelReq", "TunnelAck"}
InFlight(id) ==
  \E n \in Node, l \in Link : \E i \in DOMAIN chan[n][l] : IsControl(chan[n][l][i], id)

\* The packets that a step emits after c are no requests and acks.
SaysNothing(c) ==
  \A n \in Node, l \in Link : \A i \in Added(chan', c, n, l) : chan'[n][l][i].type \notin ControlType
SaysAbout(c, id) ==
  \A n \in Node, l \in Link : \A i \in Added(chan', c, n, l) :
    chan'[n][l][i].type \in ControlType => chan'[n][l][i].id = id

SaidByMove(off, c) ==
  off = NoneTaken /\ \E st \in Station, s \in Sat : Move(st, s) /\ SaysAbout(c, p2pDevice[st])
SaidByReceive(off, c) ==
  \E n \in Node, l \in Link :
    /\ Receive(n, l) /\ HasDevice(userLink, n, l) /\ off = OneTaken(Peer(n, l), l)
    /\ \/ SaysNothing(c)
       \/ Arriving(n, l).type \in ControlType /\ SaysAbout(c, Arriving(n, l).id)
SaidIn(off, c) ==
  /\ Rest(off, c) /\ Extends(chan', c)
  /\ \/ off = NoneTaken /\ SaysNothing(c)
     \/ SaidByMove(off, c) \/ SaidByReceive(off, c)

\* Requests are sent by a station that moves, and are passed on or answered.
LEMMA ReceiveSays ==
  ASSUME TypeOK, TypeOK', LossInv, NEW n \in Node, NEW l \in Link, Receive(n, l)
  PROVE  SaidIn(OneTaken(Peer(n, l), l), Received(n, l))
<1>1. PICK t : /\ t \in {"Ndn", "LinkPayload", "TunnelReq", "TunnelAck"} /\ Arrives(n, l, t)
               /\ ReceiveNdn(n, l) => t = "Ndn"
               /\ ReqAtTarget(n, l) \/ ReqLoop(n, l) \/ ReqRelay(n, l) => t = "TunnelReq"
               /\ AckUnsolicited(n, l) \/ AckTaken(n, l) => t = "TunnelAck"
               /\ PayloadDiscarded(n, l) \/ PayloadHandedUp(n, l) \/ PayloadRelayed(n, l)
                    => t = "LinkPayload"
  BY DEF Receive, ProcessPacket, ProcessAck, ReceiveNdn, ReqAtTarget, ReqLoop, ReqRelay, AckUnsolicited,
         AckTaken, PayloadDiscarded, PayloadHandedUp, PayloadRelayed, PayloadArrives, Arrives
<1>2. /\ HasDevice(userLink, n, l) /\ Arriving(n, l) \in Message /\ Arriving(n, l).type = t
      /\ Received(n, l) \in Channels
  BY <1>1, ArrivalFits, ArrivalType
<1>3. Rest(OneTaken(Peer(n, l), l), Received(n, l))
  BY <1>1, RestOfReceived
<1>4. PICK c, off, m : c = Received(n, l) /\ off = OneTaken(Peer(n, l), l) /\ m = Arriving(n, l)
  OBVIOUS
<1>5. c \in Channels /\ m \in Message /\ m.type = t /\ HasDevice(userLink, n, l)
  BY <1>2, <1>4
<1>6. Rest(off, c)
  BY <1>3, <1>4
<1>7. ASSUME Extends(chan', c), SaysNothing(c) PROVE SaidIn(off, c)
  BY <1>4, <1>5, <1>6, <1>7 DEF SaidIn, SaidByReceive
<1>8. ASSUME Extends(chan', c), t \in ControlType, SaysAbout(c, m.id) PROVE SaidIn(off, c)
  BY <1>4, <1>5, <1>6, <1>8 DEF SaidIn, SaidByReceive
<1>9. CASE chan' = c
  <2>1. Extends(chan', c) /\ SaysNothing(c)
    BY <1>5, <1>9, NothingEmitted DEF SaysNothing
  <2> QED BY <1>4, <1>5, <1>6, <1>7, <2>1
<1>10. ASSUME NEW k, chan' = Emit(c, n, k, <<m>>) PROVE SaidIn(off, c)
  <2>1. /\ Extends(chan', c)
        /\ \A x \in Node, y \in Link : \A i \in Added(chan', c, x, y) : chan'[x][y][i] = m
    BY <1>5, <1>10, EmitOneExtends
  <2>2. CASE t \in ControlType
    BY <1>8, <2>1, <2>2 DEF SaysAbout
  <2>3. CASE t \notin ControlType
    BY <1>4, <1>5, <1>6, <1>7, <2>1, <2>3 DEF SaysNothing
  <2> QED BY <2>2, <2>3
<1>11. CASE ReqAtTarget(n, l)
  <2>1. t = "TunnelReq" /\ m.id \in UserLink
    BY <1>1, <1>4, <1>5, <1>6, <1>11, MessageFields
  <2>2. chan' = Emit(c, n, l, Answer(n, m.id))
    BY <1>4, <1>5, <1>6, <1>11 DEF ReqAtTarget
  <2>3. PICK a \in Seq(Message) :
          a = Answer(n, m.id) /\ \A i \in DOMAIN a : a[i].type \in ControlType => a[i].id = m.id
    BY <2>1, AnswerShape DEF TunnelAck, LinkPayload, ControlType
  <2>4. Extends(chan', c) /\ SaysAbout(c, m.id)
    BY <1>5, <2>2, <2>3, EmitExtends DEF SaysAbout
  <2> QED BY <1>4, <1>5, <1>6, <1>8, <2>1, <2>4 DEF ControlType
<1>12. CASE ReqRelay(n, l)
  <2>1. PICK h : chan' = BroadcastReq(c, userLink, isGone[n], n, m.id, h, l)
    BY <1>4, <1>5, <1>6, <1>12 DEF ReqRelay
  <2>2. /\ Extends(chan', c)
        /\ \A x \in Node, k \in Link : \A i \in Added(chan', c, x, k) :
             chan'[x][k][i] = TunnelReq(m.id, HopsLeft(h))
    BY <1>5, <2>1, BroadcastExtends
  <2>3. SaysAbout(c, m.id) /\ t \in ControlType
    BY <1>1, <1>12, <2>2 DEF SaysAbout, TunnelReq, ControlType
  <2> QED BY <1>4, <1>5, <1>6, <1>8, <2>2, <2>3
<1>13. CASE AckTaken(n, l) \/ PayloadRelayed(n, l)
  <2>1. chan' = c \/ \E k : chan' = Emit(c, n, k, <<m>>)
    BY <1>4, <1>5, <1>6, <1>13 DEF AckTaken, PayloadRelayed
  <2> QED BY <1>4, <1>5, <1>6, <1>9, <1>10, <2>1
<1>14. CASE \/ ReceiveNdn(n, l) \/ ReqLoop(n, l) \/ AckUnsolicited(n, l)
            \/ PayloadDiscarded(n, l) \/ PayloadHandedUp(n, l)
  BY <1>4, <1>5, <1>6, <1>9, <1>14
  DEF ReceiveNdn, ReqLoop, AckUnsolicited, PayloadDiscarded, PayloadHandedUp
<1> QED BY <1>4, <1>5, <1>6, <1>11, <1>12, <1>13, <1>14 DEF Receive, ProcessPacket, ProcessAck

LEMMA StepSays ==
  ASSUME TypeOK, TypeOK', LossInv, [Next]_vars
  PROVE  \E off, c : SaidIn(off, c)
<1>1. chan \in Channels /\ Rest(NoneTaken, chan)
  BY Typed, RestOfAll
<1>2. ASSUME chan' = chan PROVE SaidIn(NoneTaken, chan)
  <2>1. Extends(chan', chan) /\ SaysNothing(chan)
    BY <1>1, <1>2, NothingEmitted DEF SaysNothing
  <2> QED BY <1>1, <2>1 DEF SaidIn
<1>3. CASE UNCHANGED vars \/ UpdateStart
  BY <1>2, <1>3 DEF vars, UpdateStart
<1>4. ASSUME NEW st \in Station, UpdateStation(st) PROVE SaidIn(NoneTaken, chan)
  <2>1. CASE Stay(st) \/ Leave(st)
    BY <1>2, <2>1 DEF Stay, Leave
  <2>2. ASSUME NEW s \in Sat, Enter(st, s) PROVE SaidIn(NoneTaken, chan)
    BY <1>2, <2>2 DEF Enter
  <2>3. ASSUME NEW s \in Sat, Move(st, s) PROVE SaidIn(NoneTaken, chan)
    <3>1. CASE chan' = chan
      BY <1>2, <3>1
    <3>2. CASE chan' # chan
      <4>1. PICK old, links, gone :
              old = p2pDevice[st] /\ chan' = BroadcastReq(chan, links, gone, st, old, 0, Null)
        BY <2>3, <3>2 DEF Move
      <4>2. st \in Node
        BY DEF Node
      <4>3. /\ Extends(chan', chan)
            /\ \A x \in Node, k \in Link : \A i \in Added(chan', chan, x, k) :
                 chan'[x][k][i] = TunnelReq(old, HopsLeft(0))
        BY <1>1, <4>1, <4>2, BroadcastExtends
      <4>4. SaysAbout(chan, old)
        BY <4>3 DEF SaysAbout, TunnelReq
      <4> QED BY <1>1, <2>3, <4>1, <4>3, <4>4 DEF SaidIn, SaidByMove
    <3> QED BY <3>1, <3>2
  <2> QED BY <1>4, <2>1, <2>2, <2>3 DEF UpdateStation
<1>5. ASSUME NEW n \in Node, NEW id \in UserLink, DoSend(n, id) PROVE SaidIn(NoneTaken, chan)
  <2>1. CanSend(n, id)
    BY <1>5 DEF DoSend, SendDirect, SendTunnelled, SendBuffered
  <2>2. /\ Ndn(NextPacket(n, id)) \in Message /\ LinkPayload(NextPacket(n, id)) \in Message
    BY <2>1, SendType, MessageKinds
  <2>3. \/ chan' = chan
        \/ \E l, msg : /\ msg \in Message /\ msg.type \in {"Ndn", "LinkPayload"}
                       /\ chan' = Emit(chan, n, l, <<msg>>)
    BY <1>5, <2>2 DEF DoSend, SendDirect, SendTunnelled, SendBuffered, Ndn, LinkPayload
  <2>4. ASSUME NEW l, NEW msg \in Message, msg.type \in {"Ndn", "LinkPayload"},
               chan' = Emit(chan, n, l, <<msg>>)
        PROVE  SaidIn(NoneTaken, chan)
    <3>1. Extends(chan', chan) /\ SaysNothing(chan)
      BY <1>1, <2>4, EmitOneExtends DEF SaysNothing, ControlType
    <3> QED BY <1>1, <3>1 DEF SaidIn
  <2> QED BY <1>2, <2>3, <2>4
<1>6. ASSUME NEW n \in Node, NEW l \in Link, Receive(n, l) PROVE \E off, c : SaidIn(off, c)
  BY <1>6, ReceiveSays
<1> QED BY <1>2, <1>3, <1>4, <1>5, <1>6 DEF Next

\* The first that is said about a link is the request of a station that moves.
LEMMA ControlOrigin ==
  ASSUME TypeOK, TypeOK', LossInv, [Next]_vars, NEW id \in UserLink, InFlight(id)'
  PROVE  InFlight(id) \/ \E st \in Station, s \in Sat : Move(st, s) /\ p2pDevice[st] = id
<1>1. PICK off, c : SaidIn(off, c)
  BY StepSays
<1>2. Rest(off, c) /\ Extends(chan', c)
  BY <1>1 DEF SaidIn
<1>3. PICK n \in Node, l \in Link : \E i \in DOMAIN chan'[n][l] : IsControl(chan'[n][l][i], id)
  BY DEF InFlight
<1>4. PICK i \in DOMAIN chan'[n][l] : IsControl(chan'[n][l][i], id)
  BY <1>3
<1>5. CASE i \notin Added(chan', c, n, l)
  <2>1. PICK j \in DOMAIN chan[n][l] : chan'[n][l][i] = chan[n][l][j]
    BY <1>2, <1>5, OldOrAdded
  <2> QED BY <1>4, <2>1 DEF InFlight
<1>6. CASE i \in Added(chan', c, n, l)
  <2>1. ~SaysNothing(c) /\ \A k : SaysAbout(c, k) => k = id
    BY <1>4, <1>6 DEF SaysNothing, SaysAbout, IsControl, ControlType
  <2>2. CASE SaidByMove(off, c)
    BY <2>1, <2>2 DEF SaidByMove
  <2>3. CASE SaidByReceive(off, c)
    <3>1. PICK m \in Node, k \in Link :
            /\ Receive(m, k) /\ HasDevice(userLink, m, k) /\ off = OneTaken(Peer(m, k), k)
            /\ Arriving(m, k).type \in ControlType /\ Arriving(m, k).id = id
      BY <2>1, <2>3 DEF SaidByReceive
    <3>2. PICK q \in Node : q = Peer(m, k)
      BY <3>1, PeerOfPeer
    <3>3. PICK t : Arrives(m, k, t)
      BY <3>1 DEF Receive, ProcessPacket, ProcessAck, ReceiveNdn, ReqAtTarget, ReqLoop, ReqRelay,
         AckUnsolicited, AckTaken, PayloadDiscarded, PayloadHandedUp, PayloadRelayed, PayloadArrives
    <3>4. chan[q][k] \in Seq(Message) /\ chan[q][k] # <<>> /\ Head(chan[q][k]) = Arriving(m, k)
      BY <3>2, <3>3, Typed DEF Arrives, Arriving
    <3>5. 1 \in DOMAIN chan[q][k] /\ chan[q][k][1] = Arriving(m, k)
      BY <3>4
    <3> QED BY <3>1, <3>5 DEF InFlight, IsControl, ControlType
  <2> QED BY <1>1, <2>1, <2>2, <2>3 DEF SaidIn
<1> QED BY <1>5, <1>6

\* What is in flight stays so until it is received.
LEMMA StaysOrTaken ==
  ASSUME TypeOK, TypeOK', LossInv, [Next]_vars,
         NEW n \in Node, NEW l \in Link, NEW i \in DOMAIN chan[n][l]
  PROVE  \/ \E j \in DOMAIN chan'[n][l] : chan'[n][l][j] = chan[n][l][i]
         \/ i = 1 /\ \E m \in Node : Receive(m, l) /\ HasDevice(userLink, m, l) /\ Peer(m, l) = n
<1>1. PICK off, c : SaidIn(off, c)
  BY StepSays
<1>2. Rest(off, c) /\ Extends(chan', c)
  BY <1>1 DEF SaidIn
<1>3. /\ chan[n][l] \in Seq(Message) /\ c[n][l] \in Seq(Message) /\ chan'[n][l] \in Seq(Message)
      /\ off[n][l] \in {0, 1} /\ Len(chan[n][l]) = Len(c[n][l]) + off[n][l]
      /\ Len(c[n][l]) <= Len(chan'[n][l])
      /\ \A j \in DOMAIN c[n][l] :
           c[n][l][j] = chan[n][l][j + off[n][l]] /\ chan'[n][l][j] = c[n][l][j]
  BY <1>2, Typed, TypedNext DEF Rest, Extends, Channels
<1>4. i \in Nat /\ i >= 1 /\ i <= Len(chan[n][l])
  BY <1>3
<1>5. CASE i - off[n][l] >= 1
  <2>1. i - off[n][l] \in DOMAIN c[n][l]
    BY <1>3, <1>4, <1>5
  <2>2. PICK j \in DOMAIN c[n][l] : j = i - off[n][l]
    BY <2>1
  <2>3. j + off[n][l] = i
    BY <1>3, <1>4, <2>2
  <2>4. chan'[n][l][j] = chan[n][l][i]
    BY <1>3, <2>3
  <2>5. j \in DOMAIN chan'[n][l]
    BY <1>3
  <2> QED BY <2>4, <2>5
<1>6. CASE i - off[n][l] < 1
  <2>1. i = 1 /\ off[n][l] = 1
    BY <1>3, <1>4, <1>6
  <2>2. off # NoneTaken
    BY <2>1 DEF NoneTaken
  <2>3. PICK m \in Node, k \in Link :
          Receive(m, k) /\ HasDevice(userLink, m, k) /\ off = OneTaken(Peer(m, k), k)
    BY <1>1, <2>2 DEF SaidIn, SaidByMove, SaidByReceive
  <2>4. n = Peer(m, k) /\ l = k
    BY <2>1, <2>3 DEF OneTaken
  <2> QED BY <2>1, <2>3, <2>4
<1>7. i - off[n][l] \in Int
  BY <1>3, <1>4
<1> QED BY <1>5, <1>6, <1>7

----------------------------------------------------------------------------
(* The next link of a station, and the satellites a request reaches.       *)

Later(id) == {j \in DOMAIN userLink : j > id /\ userLink[j][1] = userLink[id][1]}
IsNext(j, id) == j \in Later(id) /\ \A i \in Later(id) : j <= i

\* No link of a station is newer than the one it has.
LastIsUp ==
  \A st \in Station : p2pDevice[st] # Null =>
    \A i \in DOMAIN userLink : userLink[i][1] = st => i <= p2pDevice[st]

GoneKnown == \A n \in Node : isGone[n] \subseteq DOMAIN userLink

LEMMA NextStays ==
  ASSUME TypeOK, TypeOK', LinksOnlyAdded, NEW id \in DOMAIN userLink, NEW j, IsNext(j, id)
  PROVE  IsNext(j, id)' /\ j \in DOMAIN userLink /\ userLink'[j] = userLink[j]
<1>1. /\ DOMAIN userLink \subseteq DOMAIN userLink'
      /\ \A i \in DOMAIN userLink : userLink'[i] = userLink[i]
  BY LinksStay
<1>2. j \in DOMAIN userLink /\ j > id /\ userLink[j][1] = userLink[id][1]
  BY DEF IsNext, Later
<1>3. ASSUME NEW i \in DOMAIN userLink', i \notin DOMAIN userLink PROVE j <= i
  BY <1>2, <1>3, Typed DEF LinksOnlyAdded
<1>4. j \in Later(id)'
  BY <1>1, <1>2 DEF Later
<1>5. ASSUME NEW i \in Later(id)' PROVE j <= i
  <2>1. CASE i \in DOMAIN userLink
    BY <1>1, <1>5, <2>1 DEF IsNext, Later
  <2> QED BY <1>3, <1>5, <2>1 DEF Later
<1> QED BY <1>1, <1>2, <1>4, <1>5 DEF IsNext

LEMMA NewAccessIs ==
  ASSUME TypeOK, NEW id \in DOMAIN userLink, NEW j, IsNext(j, id)
  PROVE  NewAccess(id) = userLink[j][2]
<1>1. Later(id) \subseteq Int
  BY Typed DEF Later
<1>2. \A k : k \in Later(id) /\ (\A i \in Later(id) : k <= i) => k = j
  BY <1>1 DEF IsNext
<1>3. j = CHOOSE k \in Later(id) : \A i \in Later(id) : k <= i
  BY <1>2 DEF IsNext
<1> QED BY <1>3 DEF NewAccess, Later

\* Packets arrive without a change of links.
LEMMA ReceiveKeepsLinks ==
  ASSUME NEW n \in Node, NEW l \in Link, Receive(n, l)
  PROVE  UNCHANGED linkVars
<1>1. ReceiveNdn(n, l) \/ ReqAtTarget(n, l) \/ ReqLoop(n, l) \/ ReqRelay(n, l) => UNCHANGED linkVars
  BY DEF ReceiveNdn, ReqAtTarget, ReqLoop, ReqRelay
<1>2. AckUnsolicited(n, l) \/ AckTaken(n, l) => UNCHANGED linkVars
  BY DEF AckUnsolicited, AckTaken
<1>3. PayloadDiscarded(n, l) \/ PayloadHandedUp(n, l) \/ PayloadRelayed(n, l) => UNCHANGED linkVars
  BY DEF PayloadDiscarded, PayloadHandedUp, PayloadRelayed
<1> QED BY <1>1, <1>2, <1>3 DEF Receive, ProcessPacket, ProcessAck

LEMMA LastIsUpStep ==
  ASSUME TypeOK, TypeOK', TunnelInv, LastIsUp, [Next]_vars
  PROVE  LastIsUp'
<1>1. ASSUME UNCHANGED userLink,
             \A st \in Station : p2pDevice'[st] \in {p2pDevice[st], Null}
      PROVE  LastIsUp'
  BY <1>1 DEF LastIsUp
<1>2. ASSUME NEW st \in Station, NEW s \in Sat, NewId <= MaxLink,
             userLink' = Append(userLink, <<st, s>>), p2pDevice'[st] = NewId,
             \A u \in Station : u # st => p2pDevice'[u] \in {p2pDevice[u], Null}
      PROVE  LastIsUp'
  <2>1. /\ DOMAIN userLink' = DOMAIN userLink \cup {NewId}
        /\ userLink'[NewId] = <<st, s>>
        /\ \A i \in DOMAIN userLink : userLink'[i] = userLink[i]
    BY <1>2, LinkNumbers
  <2>2. \A i \in DOMAIN userLink' : i <= NewId
    BY <2>1, Typed DEF NewId
  <2>3. ASSUME NEW u \in Station, u # st, p2pDevice'[u] # Null,
               NEW i \in DOMAIN userLink', userLink'[i][1] = u
        PROVE  i <= p2pDevice'[u]
    <3>1. i \in DOMAIN userLink
      BY <2>1, <2>3
    <3> QED BY <1>2, <2>1, <2>3, <3>1 DEF LastIsUp
  <2> QED BY <1>2, <2>2, <2>3 DEF LastIsUp
<1>3. CASE UNCHANGED vars \/ UpdateStart
  BY <1>1, <1>3 DEF vars, linkVars, UpdateStart
<1>4. ASSUME NEW st \in Station, UpdateStation(st) PROVE LastIsUp'
  <2>1. p2pDevice \in [Node -> UserLink \cup {Null}] /\ st \in Node /\ Station \subseteq Node
    BY DEF TypeOK, Node
  <2>2. CASE Stay(st)
    BY <1>1, <2>2 DEF Stay
  <2>3. CASE Leave(st)
    <3>1. \A u \in Node : p2pDevice'[u] \in {p2pDevice[u], Null}
      BY <2>1, <2>3 DEF Leave
    <3> QED BY <1>1, <2>1, <2>3, <3>1 DEF Leave
  <2>4. ASSUME NEW s \in Sat, Enter(st, s) PROVE LastIsUp'
    <3>1. \A u \in Station : u # s
      BY NodeAssumption
    <3>2. s \in Node
      BY DEF Node
    <3> QED BY <1>2, <2>1, <2>4, <3>1, <3>2 DEF Enter
  <2>5. ASSUME NEW s \in Sat, Move(st, s) PROVE LastIsUp'
    <3>1. s \in Node /\ \A u \in Station : u # s
      BY NodeAssumption DEF Node
    <3>2. PICK t : t = userLink[p2pDevice[st]][2]
      OBVIOUS
    <3>3. p2pDevice' = [p2pDevice EXCEPT ![t] = Null, ![st] = NewId, ![s] = NewId]
      BY <2>5, <3>2 DEF Move
    <3>4. p2pDevice'[st] = NewId /\ \A u \in Station : u # st => p2pDevice'[u] \in {p2pDevice[u], Null}
      BY <2>1, <3>1, <3>3
    <3> QED BY <1>2, <2>5, <3>4 DEF Move
  <2> QED BY <1>4, <2>2, <2>3, <2>4, <2>5 DEF UpdateStation
<1>5. ASSUME NEW n \in Node, NEW id \in UserLink, DoSend(n, id) PROVE UNCHANGED linkVars
  BY <1>5 DEF DoSend, SendDirect, SendTunnelled, SendBuffered
<1>6. ASSUME NEW n \in Node, NEW l \in Link, Receive(n, l) PROVE UNCHANGED linkVars
  BY <1>6, ReceiveKeepsLinks
<1>7. UNCHANGED linkVars => LastIsUp'
  BY <1>1 DEF linkVars
<1> QED BY <1>3, <1>4, <1>5, <1>6, <1>7 DEF Next

\* Two satellites an inter-satellite link joins.
Linked(s, t) == \E l \in Isl : {IslEnds[l][1], IslEnds[l][2]} = {s, t}

\* With hop limit 1 a request reaches the access satellite, with 2 also the
\* satellites next to it, with 3 those next to them.
InReach(s, t) ==
  \/ s = t
  \/ HopLimit >= 2 /\ Linked(s, t)
  \/ HopLimit >= 3 /\ \E u \in Sat : Linked(s, u) /\ Linked(u, t)

\* No copy of a request comes to a satellite by another one before it comes
\* from the access satellite itself.
NoDetour ==
  \/ HopLimit <= 2
  \/ /\ HopLimit = 3
     /\ \A s, t, u \in Sat : ~(Linked(s, t) /\ Linked(t, u) /\ Linked(u, s))

LEMMA LinkedSats ==
  ASSUME NEW s, NEW t, Linked(s, t)
  PROVE  Linked(t, s) /\ s \in Sat /\ t \in Sat /\ s # t
<1>1. PICK l \in Isl : {IslEnds[l][1], IslEnds[l][2]} = {s, t}
  BY DEF Linked
<1>2. IslEnds[l][1] \in Sat /\ IslEnds[l][2] \in Sat /\ IslEnds[l][1] # IslEnds[l][2]
  BY IslAssumption
<1>3. {s, t} = {t, s}
  OBVIOUS
<1> QED BY <1>1, <1>2, <1>3 DEF Linked

\* Two satellites with devices on the same link are linked.
LEMMA DeviceLinks ==
  ASSUME TypeOK, NEW n \in Sat, NEW l, HasDevice(userLink, n, l), Peer(n, l) \in Sat
  PROVE  Linked(n, Peer(n, l))
<1>1. {EndsOf(userLink, l)[1], EndsOf(userLink, l)[2]} = {n, Peer(n, l)}
  BY DEF HasDevice, Peer
<1>2. l \in Isl
  <2> SUFFICES ASSUME l \in DOMAIN userLink, l \notin Isl PROVE FALSE
    BY DEF HasDevice
  <2>1. userLink[l][1] \in Station /\ EndsOf(userLink, l) = userLink[l]
    BY LinkNumbers DEF EndsOf
  <2> QED BY <1>1, <2>1, NodeAssumption
<1> QED BY <1>1, <1>2 DEF Linked, EndsOf

\* A satellite has a device towards each one it is linked with.
LEMMA LinkedDevice ==
  ASSUME TypeOK, NEW s \in Node, NEW t, Linked(s, t)
  PROVE  \E k \in Isl : /\ k \in Link /\ HasDevice(userLink, s, k) /\ Peer(s, k) = t
                        /\ k \notin isGone[s]
<1>1. PICK k \in Isl : {IslEnds[k][1], IslEnds[k][2]} = {s, t}
  BY DEF Linked
<1>2. k \in Link /\ HasDevice(userLink, s, k) /\ Peer(s, k) = t
  BY <1>1 DEF HasDevice, EndsOf, Peer, Link
<1>3. k \notin isGone[s]
  BY IslAssumption DEF TypeOK, UserLink
<1> QED BY <1>2, <1>3

\* The function that Within defines: the satellites at the end of a path of
\* i steps, each over an inter-satellite link or none.
IsBall(ball, s) ==
  ball = [i \in Nat |->
            IF i = 0 THEN {s}
            ELSE ball[i-1] \cup
                 {t \in Sat : \E l \in Isl : {IslEnds[l][1], IslEnds[l][2]} \in {{t, u} : u \in ball[i-1]}}]
IsPath(p, i, s, t) ==
  /\ p \in [0..i -> Sat] /\ p[0] = s /\ p[i] = t
  /\ \A k \in 0..(i-1) : p[k+1] = p[k] \/ Linked(p[k+1], p[k])
Reached(s, i) == {t \in Sat : \E p : IsPath(p, i, s, t)}

LEMMA PathGrows ==
  ASSUME NEW s, NEW i \in Nat \ {0}, NEW u, NEW p, IsPath(p, i-1, s, u), NEW t \in Sat, t = u \/ Linked(t, u)
  PROVE  \E q : IsPath(q, i, s, t)
<1> DEFINE q == [k \in 0..i |-> IF k = i THEN t ELSE p[k]]
<1>1. p \in [0..(i-1) -> Sat] /\ p[0] = s /\ p[i-1] = u
  BY DEF IsPath
<1>2. ASSUME NEW k \in 0..i, k # i PROVE q[k] = p[k] /\ p[k] \in Sat
  BY <1>1, <1>2
<1>3. q \in [0..i -> Sat] /\ q[0] = s /\ q[i] = t
  BY <1>1, <1>2
<1>4. ASSUME NEW k \in 0..(i-1) PROVE q[k+1] = q[k] \/ Linked(q[k+1], q[k])
  <2>1. CASE k = i-1
    <3>1. q[k] = u /\ q[k+1] = t
      BY <1>1, <2>1
    <3> QED BY <3>1
  <2>2. CASE k # i-1
    <3>1. k \in 0..((i-1)-1) /\ q[k] = p[k] /\ q[k+1] = p[k+1]
      BY <2>2
    <3> QED BY <3>1 DEF IsPath
  <2> QED BY <2>1, <2>2
<1>5. IsPath(q, i, s, t)
  BY <1>3, <1>4 DEF IsPath
<1> QED BY <1>5

LEMMA PathBefore ==
  ASSUME NEW s, NEW i \in Nat \ {0}, NEW t, NEW p, IsPath(p, i, s, t)
  PROVE  \E u \in Sat : \E q : IsPath(q, i-1, s, u) /\ (t = u \/ Linked(t, u))
<1> DEFINE q == [k \in 0..(i-1) |-> p[k]]
<1>1. p \in [0..i -> Sat] /\ p[0] = s /\ p[i] = t
  BY DEF IsPath
<1>2. q \in [0..(i-1) -> Sat] /\ q[0] = s /\ q[i-1] = p[i-1] /\ p[i-1] \in Sat
  BY <1>1
<1>3. ASSUME NEW k \in 0..((i-1)-1) PROVE q[k+1] = q[k] \/ Linked(q[k+1], q[k])
  <2>1. k \in 0..(i-1) /\ q[k] = p[k] /\ q[k+1] = p[k+1]
    OBVIOUS
  <2> QED BY <2>1 DEF IsPath
<1>4. IsPath(q, i-1, s, p[i-1])
  BY <1>2, <1>3 DEF IsPath
<1>5. i-1 \in 0..(i-1) /\ (i-1)+1 = i
  OBVIOUS
<1>6. t = p[i-1] \/ Linked(t, p[i-1])
  BY <1>1, <1>5 DEF IsPath
<1> QED BY <1>2, <1>4, <1>6

LEMMA BallExists ==
  ASSUME NEW s \in Sat
  PROVE  IsBall([i \in Nat |-> Reached(s, i)], s)
<1>1. Reached(s, 0) = {s}
  <2>1. ASSUME NEW t \in Reached(s, 0) PROVE t = s
    BY <2>1 DEF Reached, IsPath
  <2>2. IsPath([k \in 0..0 |-> s], 0, s, s)
    BY DEF IsPath
  <2> QED BY <2>1, <2>2 DEF Reached
<1>2. ASSUME NEW i \in Nat \ {0}
      PROVE  Reached(s, i) = Reached(s, i-1) \cup
               {t \in Sat : \E l \in Isl : {IslEnds[l][1], IslEnds[l][2]} \in {{t, u} : u \in Reached(s, i-1)}}
  <2>1. ASSUME NEW t \in Reached(s, i)
        PROVE  t \in Sat /\ \E u \in Reached(s, i-1) : t = u \/ Linked(t, u)
    BY <2>1, PathBefore DEF Reached
  <2>2. ASSUME NEW t \in Sat, NEW u \in Reached(s, i-1), t = u \/ Linked(t, u)
        PROVE  t \in Reached(s, i)
    BY <2>2, PathGrows DEF Reached
  <2>3. Reached(s, i-1) \subseteq Sat
    BY DEF Reached
  <2>4. \A t, u : Linked(t, u) <=> \E l \in Isl : {IslEnds[l][1], IslEnds[l][2]} = {t, u}
    BY DEF Linked
  <2> HIDE DEF Reached
  <2> QED BY <2>1, <2>2, <2>3, <2>4
<1> DEFINE f == [i \in Nat |-> Reached(s, i)]
<1>3. ASSUME NEW i \in Nat
      PROVE  f[i] = IF i = 0 THEN {s}
                    ELSE f[i-1] \cup
                         {t \in Sat : \E l \in Isl : {IslEnds[l][1], IslEnds[l][2]} \in {{t, u} : u \in f[i-1]}}
  <2>1. CASE i = 0
    BY <1>1, <2>1
  <2>2. CASE i # 0
    <3>1. i \in Nat \ {0} /\ i-1 \in Nat
      BY <2>2
    <3>2. f[i] = Reached(s, i) /\ f[i-1] = Reached(s, i-1)
      BY <3>1
    <3> HIDE DEF f
    <3> QED BY <1>2, <2>2, <3>1, <3>2
  <2> QED BY <2>1, <2>2
<1>4. f = [i \in Nat |-> f[i]]
  OBVIOUS
<1> HIDE DEF f
<1>5. IsBall(f, s)
  BY <1>3, <1>4 DEF IsBall
<1> QED BY <1>5 DEF f

LEMMA WithinIs ==
  ASSUME NEW s \in Sat
  PROVE  \E ball : IsBall(ball, s) /\ \A k : Within(s, k) = ball[k]
<1> DEFINE b == CHOOSE ball : IsBall(ball, s)
<1>1. IsBall(b, s)
  BY BallExists
<1>2. ASSUME NEW k PROVE Within(s, k) = b[k]
  BY Zenon DEF Within, IsBall
<1> QED BY <1>1, <1>2

LEMMA BallGrows ==
  ASSUME NEW ball, NEW s, IsBall(ball, s), NEW i \in Nat \ {0}, NEW t \in Sat
  PROVE  t \in ball[i] <=> t \in ball[i-1] \/ \E u \in ball[i-1] : Linked(t, u)
<1>1. ball[i] = ball[i-1] \cup
        {x \in Sat : \E l \in Isl : {IslEnds[l][1], IslEnds[l][2]} \in {{x, u} : u \in ball[i-1]}}
  BY DEF IsBall
<1>2. PICK b : b = ball[i-1]
  OBVIOUS
<1>3. t \in ball[i] <=> t \in b \/ \E l \in Isl : {IslEnds[l][1], IslEnds[l][2]} \in {{t, u} : u \in b}
  BY <1>1, <1>2
<1>4. (\E l \in Isl : {IslEnds[l][1], IslEnds[l][2]} \in {{t, u} : u \in b}) <=> \E u \in b : Linked(t, u)
  BY DEF Linked
<1> QED BY <1>2, <1>3, <1>4

LEMMA WithinReach ==
  ASSUME NEW s \in Sat, NEW t \in Sat, HopLimit \in 1..3
  PROVE  t \in Within(s, HopLimit - 1) <=> InReach(s, t)
<1>1. PICK ball : IsBall(ball, s) /\ \A k : Within(s, k) = ball[k]
  BY WithinIs
<1>2. ball[0] = {s}
  BY <1>1 DEF IsBall
<1>3. \A x \in Sat : x \in ball[1] <=> x = s \/ Linked(s, x)
  <2> SUFFICES ASSUME NEW x \in Sat PROVE x \in ball[1] <=> x = s \/ Linked(s, x)
    OBVIOUS
  <2>1. x \in ball[1] <=> x \in ball[0] \/ \E u \in ball[0] : Linked(x, u)
    BY <1>1, BallGrows
  <2> QED BY <1>2, <2>1, LinkedSats
<1>4. t \in ball[2] <=> t \in ball[1] \/ \E u \in Sat : u \in ball[1] /\ Linked(u, t)
  <2>1. t \in ball[2] <=> t \in ball[1] \/ \E u \in ball[1] : Linked(t, u)
    BY <1>1, BallGrows
  <2> QED BY <2>1, LinkedSats
<1>5. CASE HopLimit = 1
  BY <1>1, <1>2, <1>5 DEF InReach
<1>6. CASE HopLimit = 2
  BY <1>1, <1>3, <1>6 DEF InReach
<1>7. CASE HopLimit = 3
  BY <1>1, <1>3, <1>4, <1>7 DEF InReach
<1> QED BY <1>5, <1>6, <1>7

----------------------------------------------------------------------------
(* A tunnel that is requested is established if the hop limit allows it.   *)

\* A satellite next to the target that would pass a request on to it.
PassedOnAt(x, id) == prt[x][id] = Absent /\ Linked(x, Target(id))

\* A packet that is the ack, or a request that is going to be answered.
BringsAnswer(n, l, m, id) ==
  /\ IsControl(m, id)
  /\ \/ m.type = "TunnelAck"
     \/ /\ Unanswered(id)
        /\ \/ n = Owner(id)
           \/ Peer(n, l) = Target(id)
           \/ /\ HopLimit = 3 /\ m.hopLimit = 2
              /\ n = AccessSat(id) /\ PassedOnAt(Peer(n, l), id)
Answering(id) ==
  \E n \in Node, l \in Link : \E i \in DOMAIN chan[n][l] : BringsAnswer(n, l, chan[n][l][i], id)

\* The next link of the station, from where the target is in reach.
NextInReach(id) == \E j \in DOMAIN userLink : IsNext(j, id) /\ InReach(userLink[j][2], Target(id))

NextIsUp == \A id \in DOMAIN userLink : InFlight(id) => IsNext(Up(id), id)
AnsweredInReach == \A id \in DOMAIN userLink : HasEntry(Target(id), id) => NextInReach(id)
AnswerComes(id) ==
  \E j \in DOMAIN userLink :
    IsNext(j, id) /\ (InReach(userLink[j][2], Target(id)) => Answering(id))
RequestAlive ==
  \A id \in DOMAIN userLink : Requested(id) /\ ~HasEntry(Owner(id), id) => AnswerComes(id)

AnswerInv == LastIsUp /\ GoneKnown /\ NextIsUp /\ AnsweredInReach /\ RequestAlive

\* Control packets emitted are in flight.
LEMMA EmitHolds ==
  ASSUME NEW c \in Channels, NEW n \in Node, NEW l \in Link, NEW msgs \in Seq(Message),
         NEW x \in DOMAIN msgs, NEW d, d = Emit(c, n, l, msgs)
  PROVE  \E i \in DOMAIN d[n][l] : d[n][l][i] = msgs[x]
<1>1. c[n][l] \in Seq(Message) /\ d[n][l] = c[n][l] \o msgs
  BY DEF Emit, Channels
<1>2. PICK a, b : a = c[n][l] /\ b = a \o msgs
  OBVIOUS
<1>3. a \in Seq(Message) /\ x \in Nat /\ 1 <= x /\ x <= Len(msgs)
  BY <1>1, <1>2
<1>4. Len(a) + x \in 1..Len(b) /\ b[Len(a) + x] = msgs[x]
  <2>1. /\ Len(a) \in Nat /\ Len(msgs) \in Nat /\ Len(b) = Len(a) + Len(msgs)
        /\ \A y \in 1..Len(b) : b[y] = IF y <= Len(a) THEN a[y] ELSE msgs[y - Len(a)]
    BY <1>2, <1>3
  <2>2. PICK y \in Nat : y = Len(a) + x
    BY <1>3, <2>1
  <2>3. y \in 1..Len(b) /\ ~(y <= Len(a)) /\ y - Len(a) = x
    BY <1>3, <2>1, <2>2
  <2> QED BY <2>1, <2>2, <2>3
<1>5. b \in Seq(Message)
  BY <1>2, <1>3
<1> QED BY <1>1, <1>2, <1>4, <1>5

LEMMA BroadcastHolds ==
  ASSUME NEW c \in Channels, NEW links, NEW gone, NEW n \in Node, NEW id, NEW h, NEW lasthop,
         NEW d, d = BroadcastReq(c, links, gone, n, id, h, lasthop),
         HopsLeft(h) # 0, NEW k \in ReqDevices(links, gone, n, lasthop)
  PROVE  k \in Link /\ \E i \in DOMAIN d[n][k] : d[n][k][i] = TunnelReq(id, HopsLeft(h))
<1>1. k \in Link /\ c[n][k] \in Seq(Message)
  BY DEF Channels, ReqDevices
<1>2. d[n][k] = Append(c[n][k], TunnelReq(id, HopsLeft(h)))
  BY <1>1 DEF BroadcastReq, Channels
<1>3. PICK a, b, e : a = c[n][k] /\ e = TunnelReq(id, HopsLeft(h)) /\ b = Append(a, e)
  OBVIOUS
<1>4. Len(a) + 1 \in DOMAIN b /\ b[Len(a) + 1] = e
  BY <1>1, <1>3
<1> QED BY <1>1, <1>2, <1>3, <1>4

\* Only its own turn in Update gives a station another link.
LEMMA UpStays ==
  ASSUME TypeOK, TunnelInv, [Next]_vars, NEW u \in Station, u \notin todo
  PROVE  p2pDevice'[u] = p2pDevice[u]
<1>1. CASE UNCHANGED vars \/ UpdateStart
  BY <1>1 DEF vars, linkVars, UpdateStart
<1>2. ASSUME NEW st \in Station, UpdateStation(st) PROVE p2pDevice'[u] = p2pDevice[u]
  <2>1. st # u /\ u \in Node
    BY <1>2 DEF UpdateStation, Stay, Leave, Enter, Move, Node
  <2>2. p2pDevice \in [Node -> UserLink \cup {Null}] /\ \A s \in Sat : s # u
    BY NodeAssumption DEF TypeOK
  <2>3. CASE Stay(st)
    BY <2>3 DEF Stay
  <2>4. ASSUME p2pDevice[st] # Null PROVE userLink[p2pDevice[st]][2] # u
    <3>1. userLink[p2pDevice[st]][2] \in Sat
      BY <2>4, EndsInUse DEF TunnelInv
    <3> QED BY <2>2, <3>1
  <2>5. CASE Leave(st)
    BY <2>1, <2>2, <2>4, <2>5 DEF Leave
  <2>6. ASSUME NEW s \in Sat, Enter(st, s) PROVE p2pDevice'[u] = p2pDevice[u]
    BY <2>1, <2>2, <2>6 DEF Enter
  <2>7. ASSUME NEW s \in Sat, Move(st, s) PROVE p2pDevice'[u] = p2pDevice[u]
    BY <2>1, <2>2, <2>4, <2>7 DEF Move
  <2> QED BY <1>2, <2>3, <2>5, <2>6, <2>7 DEF UpdateStation
<1>3. ASSUME NEW n \in Node, NEW id \in UserLink, DoSend(n, id) PROVE UNCHANGED linkVars
  BY <1>3 DEF DoSend, SendDirect, SendTunnelled, SendBuffered
<1>4. ASSUME NEW n \in Node, NEW l \in Link, Receive(n, l) PROVE UNCHANGED linkVars
  BY <1>4, ReceiveKeepsLinks
<1>5. UNCHANGED linkVars => p2pDevice'[u] = p2pDevice[u]
  BY DEF linkVars
<1> QED BY <1>1, <1>2, <1>3, <1>4, <1>5 DEF Next

\* A station that moves asks about the link it has left until now.
LEMMA MoveIsNext ==
  ASSUME TypeOK, TypeOK', LossInv, TunnelInv, BufferInv, LastIsUp,
         NEW st \in Station, NEW s \in Sat, Move(st, s), NEW old, old = p2pDevice[st],
         NEW new, new = NewId
  PROVE  /\ old \in UserLink /\ old \in DOMAIN userLink /\ Owner(old)' = st
         /\ Up(old)' = new /\ new \in DOMAIN userLink' /\ IsNext(new, old)'
         /\ Unanswered(old)'
<1>1. /\ old # Null /\ NewId <= MaxLink /\ userLink' = Append(userLink, <<st, s>>)
      /\ p2pDevice' = [p2pDevice EXCEPT ![userLink[old][2]] = Null, ![st] = new, ![s] = new]
      /\ idList' = AddUserLink(idList, st, s)
  BY DEF Move
<1>2. /\ old \in UserLink /\ old \in DOMAIN userLink /\ st \in Node
      /\ Owner(old) = st /\ Up(old) = old /\ Target(old) \in Node
  BY <1>1, EndsInUse DEF TunnelInv
<1>3. /\ DOMAIN userLink' = DOMAIN userLink \cup {new} /\ userLink'[new] = <<st, s>>
      /\ \A i \in DOMAIN userLink : userLink'[i] = userLink[i]
  BY <1>1, LinkNumbers
<1>4. Owner(old)' = st /\ Target(old)' = Target(old)
  BY <1>2, <1>3 DEF Owner, Target
<1>5. Up(old)' = new
  <2>1. p2pDevice \in [Node -> UserLink \cup {Null}] /\ s # st
    BY NodeAssumption DEF TypeOK
  <2>2. p2pDevice'[st] = new
    BY <1>1, <1>2, <2>1
  <2>3. Up(old)' = p2pDevice'[Owner(old)']
    BY DEF Up
  <2> QED BY <1>4, <2>2, <2>3
<1>6. \A i \in DOMAIN userLink' : i > old /\ userLink'[i][1] = userLink'[old][1] => i = new
  <2> SUFFICES ASSUME NEW i \in DOMAIN userLink, i > old, userLink[i][1] = userLink[old][1]
               PROVE  FALSE
    BY <1>2, <1>3
  <2>1. i <= old
    BY <1>1, <1>2 DEF LastIsUp, Owner
  <2> QED BY <1>2, <2>1, LinkNumbers DEF UserLink
<1>7. new > old /\ new \in Nat
  BY <1>2, Typed DEF NewId
<1>8. new \in Later(old)' /\ \A i \in Later(old)' : i = new
  BY <1>2, <1>3, <1>4, <1>6, <1>7 DEF Later, Owner
<1>9. IsNext(new, old)'
  BY <1>7, <1>8 DEF IsNext
<1>10. Unanswered(old)'
  <2>1. old \in idList[Target(old)]
    BY <1>2 DEF BufferInv, TargetOrTunnel, TunnelInv, LinkPlaced, Fresh, Target
  <2>2. old \in idList'[Target(old)]
    BY <1>1, <1>2, <2>1 DEF AddUserLink
  <2> QED BY <1>4, <2>2 DEF Unanswered
<1> QED BY <1>2, <1>3, <1>4, <1>5, <1>9, <1>10

LEMMA NextIsUpStep ==
  ASSUME TypeOK, TypeOK', LossInv, TunnelInv, BufferInv, LastIsUp, NextIsUp, [Next]_vars
  PROVE  NextIsUp'
<1> SUFFICES ASSUME NEW id \in DOMAIN userLink', InFlight(id)'
             PROVE  IsNext(Up(id), id)'
  BY DEF NextIsUp
<1>1. id \in UserLink
  BY LinkNumbersNext
<1>2. LinksOnlyAdded
  BY StepAddsLinks
<1>3. CASE InFlight(id)
  <2>1. PICK n \in Node, l \in Link : \E i \in DOMAIN chan[n][l] : IsControl(chan[n][l][i], id)
    BY <1>3 DEF InFlight
  <2>2. id \in DOMAIN userLink /\ Owner(id) \notin todo
    BY <1>1, <2>1 DEF TunnelInv, LinkPlaced, ControlPlaced
  <2>3. PICK j : j = Up(id) /\ IsNext(j, id)
    BY <1>3, <2>2 DEF NextIsUp
  <2>4. p2pDevice'[Owner(id)] = p2pDevice[Owner(id)] /\ Owner(id)' = Owner(id)
    BY <1>2, <2>2, UpStays, OwnerType, EndsStay
  <2>5. Up(id)' = j
    BY <2>3, <2>4 DEF Up
  <2>6. IsNext(j, id)'
    BY <1>2, <2>2, <2>3, NextStays
  <2> QED BY <2>5, <2>6 DEF IsNext
<1>4. ASSUME NEW st \in Station, NEW s \in Sat, Move(st, s), p2pDevice[st] = id
      PROVE  IsNext(Up(id), id)'
  <2>1. PICK new : new = NewId
    OBVIOUS
  <2>2. Up(id)' = new /\ IsNext(new, id)'
    BY <1>4, <2>1, MoveIsNext
  <2> QED BY <2>2 DEF IsNext
<1> QED BY <1>1, <1>3, <1>4, ControlOrigin

\* Where the target takes a request it is in reach.
LEMMA AnswerInReach ==
  ASSUME TypeOK, TypeOK', LossInv, TunnelInv, NextIsUp, HopLimit <= 3,
         NEW n \in Node, NEW l \in Link, ReqAtTarget(n, l), NEW id, id = Arriving(n, l).id
  PROVE  id \in DOMAIN userLink /\ n = Target(id) /\ NextInReach(id)
<1>1. PICK q, m : q = Peer(n, l) /\ m = Arriving(n, l)
  OBVIOUS
<1>2. /\ q \in Node /\ q # n /\ Peer(n, l) = q /\ Peer(q, l) = n /\ HasDevice(userLink, n, l)
      /\ m \in Message /\ m.type = "TunnelReq" /\ m.id = id /\ id \in UserLink
      /\ 1 \in DOMAIN chan[q][l] /\ IsControl(chan[q][l][1], id)
      /\ ControlPlaced(q, l, 1, id, m) /\ id \in DOMAIN userLink /\ Up(id) # Null
  BY <1>1, ArrivalPlaced DEF ReqAtTarget
<1>3. n = Target(id)
  BY TargetAnswers
<1>4. IsNext(Up(id), id) /\ Up(id) \in DOMAIN userLink
  BY <1>2 DEF NextIsUp, InFlight, IsNext, Later
<1>5. m.hopLimit \in Nat /\ m.hopLimit >= 1 /\ m.hopLimit <= HopLimit
  BY <1>2, MessageFields, BoundAssumption
<1>6. InReach(AccessSat(id), n)
  <2>1. CASE m.hopLimit = HopLimit
    <3>1. q = Owner(id) /\ l = Up(id)
      BY <1>2, <1>5, <2>1, BoundAssumption DEF ControlPlaced, ReqPlaced, FirstReq
    <3>2. n = AccessSat(id)
      BY <1>2, <3>1, UpJoins DEF TunnelInv
    <3> QED BY <3>2 DEF InReach
  <2>2. CASE m.hopLimit = HopLimit - 1
    <3>1. HopLimit >= 2 /\ q = AccessSat(id)
      BY <1>2, <1>5, <2>2, BoundAssumption DEF ControlPlaced, ReqPlaced
    <3>2. q \in Sat /\ n \in Sat
      BY <1>2, <1>3, <3>1, UpJoins, OwnerType DEF TunnelInv
    <3>3. Linked(q, n)
      BY <1>2, <3>2, DeviceLinks, LinkedSats
    <3> QED BY <3>1, <3>3 DEF InReach
  <2>3. CASE m.hopLimit = HopLimit - 2
    <3>1. HopLimit = 3 /\ q \in Sat /\ RelaysToAccess(q, id)
      <4>1. Unanswered(id)
        BY <1>2, <1>3 DEF ReqAtTarget, Unanswered
      <4> QED BY <1>2, <1>5, <2>3, <4>1, BoundAssumption DEF ControlPlaced, ReqPlaced
    <3>2. n \in Sat /\ AccessSat(id) \in Sat
      BY <1>2, <1>3, UpJoins, OwnerType DEF TunnelInv
    <3>3. Linked(q, n)
      BY <1>2, <3>1, <3>2, DeviceLinks, LinkedSats
    <3>4. Linked(AccessSat(id), q)
      BY <3>1, <3>2, DeviceLinks, LinkedSats DEF RelaysToAccess
    <3> QED BY <3>1, <3>3, <3>4 DEF InReach
  <2> QED BY <1>2, <2>1, <2>2, <2>3 DEF ControlPlaced, ReqPlaced
<1> QED BY <1>2, <1>3, <1>4, <1>6 DEF NextInReach, AccessSat

LEMMA ReachStays ==
  ASSUME TypeOK, TypeOK', LinksOnlyAdded, NEW id \in DOMAIN userLink, NextInReach(id)
  PROVE  NextInReach(id)'
<1>1. PICK j \in DOMAIN userLink : IsNext(j, id) /\ InReach(userLink[j][2], Target(id))
  BY DEF NextInReach
<1>2. IsNext(j, id)' /\ userLink'[j] = userLink[j] /\ j \in DOMAIN userLink'
  BY <1>1, NextStays, LinksStay
<1>3. Target(id)' = Target(id)
  BY EndsStay
<1>4. InReach(userLink'[j][2], Target(id)')
  BY <1>1, <1>2, <1>3
<1>5. InReach(userLink[j][2], Target(id))'
  BY <1>4 DEF InReach, Linked
<1> QED BY <1>2, <1>5 DEF NextInReach

LEMMA AnsweredInReachStep ==
  ASSUME TypeOK, TypeOK', LossInv, TunnelInv, BufferInv, NextIsUp, AnsweredInReach, HopLimit <= 3,
         [Next]_vars
  PROVE  AnsweredInReach'
<1> SUFFICES ASSUME NEW id \in DOMAIN userLink', HasEntry(Target(id), id)'
             PROVE  NextInReach(id)'
  BY DEF AnsweredInReach
<1>1. LinksOnlyAdded
  BY StepAddsLinks
<1>2. CASE id \in DOMAIN userLink /\ HasEntry(Target(id), id)
  BY <1>1, <1>2, ReachStays DEF AnsweredInReach
<1>3. ASSUME NEW n \in Node, NEW l \in Link, ReqAtTarget(n, l), Arriving(n, l).id = id
      PROVE  NextInReach(id)'
  BY <1>1, <1>3, AnswerInReach, ReachStays
<1> QED BY <1>2, <1>3, TargetEntryNew

\* Faces are gone of links there are.
LEMMA GoneKnownStep ==
  ASSUME TypeOK, TypeOK', TunnelInv, GoneKnown, [Next]_vars
  PROVE  GoneKnown'
<1>1. DOMAIN userLink \subseteq DOMAIN userLink'
  BY StepAddsLinks, LinksStay
<1>2. CASE isGone' = isGone
  BY <1>1, <1>2 DEF GoneKnown
<1>3. ASSUME NEW st \in Station, p2pDevice[st] # Null, isGone' = Detached(st) PROVE GoneKnown'
  <2>1. p2pDevice[st] \in DOMAIN userLink
    BY <1>3, EndsInUse DEF TunnelInv
  <2>2. \A n \in Node : isGone'[n] \subseteq isGone[n] \cup {p2pDevice[st]}
    BY <1>3 DEF Detached
  <2> QED BY <1>1, <2>1, <2>2 DEF GoneKnown
<1>4. CASE UNCHANGED vars \/ UpdateStart
  BY <1>2, <1>4 DEF vars, linkVars, UpdateStart
<1>5. ASSUME NEW st \in Station, UpdateStation(st) PROVE GoneKnown'
  BY <1>2, <1>3, <1>5 DEF UpdateStation, Stay, Leave, Enter, Move
<1>6. ASSUME NEW n \in Node, NEW id \in UserLink, DoSend(n, id) PROVE UNCHANGED linkVars
  BY <1>6 DEF DoSend, SendDirect, SendTunnelled, SendBuffered
<1>7. ASSUME NEW n \in Node, NEW l \in Link, Receive(n, l) PROVE UNCHANGED linkVars
  BY <1>7, ReceiveKeepsLinks
<1>8. UNCHANGED linkVars => GoneKnown'
  BY <1>2 DEF linkVars
<1> QED BY <1>4, <1>5, <1>6, <1>7, <1>8 DEF Next

\* A node remains a target until it answers.
LEMMA TargetStays ==
  ASSUME TypeOK, TunnelInv, LossInv, [Next]_vars, NEW n \in Node, NEW id \in UserLink, id \in idList[n]
  PROVE  \/ id \in idList'[n]
         \/ \E l \in Link : ReqAtTarget(n, l) /\ Arriving(n, l).id = id
<1>1. CASE UNCHANGED vars \/ UpdateStart
  BY <1>1 DEF vars, shimVars, UpdateStart
<1>2. ASSUME NEW st \in Station, UpdateStation(st) PROVE id \in idList'[n]
  <2>1. CASE Stay(st) \/ Leave(st)
    BY <2>1 DEF Stay, Leave, shimVars
  <2>2. ASSUME NEW s \in Sat, Enter(st, s) \/ Move(st, s) PROVE id \in idList'[n]
    BY <2>2 DEF Enter, Move, AddUserLink
  <2> QED BY <1>2, <2>1, <2>2 DEF UpdateStation
<1>3. ASSUME NEW m \in Node, NEW k \in UserLink, DoSend(m, k) PROVE id \in idList'[n]
  BY <1>3 DEF DoSend, SendDirect, SendTunnelled, SendBuffered, shimVars
<1>4. ASSUME NEW m \in Node, NEW l \in Link, Receive(m, l)
      PROVE  id \in idList'[n] \/ (m = n /\ ReqAtTarget(m, l) /\ Arriving(m, l).id = id)
  <2>1. CASE ReqAtTarget(m, l)
    <3>1. idList' = [idList EXCEPT ![m] = @ \ {Arriving(m, l).id}]
      BY <2>1 DEF ReqAtTarget, TargetErased
    <3>2. idList \in [Node -> SUBSET UserLink]
      BY DEF TypeOK
    <3> QED BY <2>1, <3>1, <3>2
  <2>2. ReceiveNdn(m, l) \/ ReqLoop(m, l) \/ ReqRelay(m, l) => idList' = idList
    BY DEF ReceiveNdn, ReqLoop, ReqRelay, shimVars
  <2>3. AckUnsolicited(m, l) \/ AckTaken(m, l) => idList' = idList
    BY DEF AckUnsolicited, AckTaken, shimVars
  <2>4. PayloadDiscarded(m, l) \/ PayloadHandedUp(m, l) \/ PayloadRelayed(m, l) => idList' = idList
    BY DEF PayloadDiscarded, PayloadHandedUp, PayloadRelayed, shimVars
  <2> QED BY <1>4, <2>1, <2>2, <2>3, <2>4 DEF Receive, ProcessPacket, ProcessAck
<1> QED BY <1>1, <1>2, <1>3, <1>4 DEF Next

\* The answer ends with the ack.
LEMMA AckSent ==
  ASSUME TypeOK, TypeOK', LossInv, TunnelInv, NEW n \in Node, NEW l \in Link, ReqAtTarget(n, l),
         NEW id, id = Arriving(n, l).id
  PROVE  \E i \in DOMAIN chan'[n][l] : chan'[n][l][i] = TunnelAck(id)
<1>1. id \in UserLink /\ Received(n, l) \in Channels
  BY ArrivalPlaced DEF ReqAtTarget
<1>2. PICK c \in Channels, a \in Seq(Message) : c = Received(n, l) /\ a = Answer(n, id)
  BY <1>1, AnswerShape
<1>3. chan' = Emit(c, n, l, a)
  BY <1>2 DEF ReqAtTarget
<1>4. \E x \in DOMAIN a : a[x] = TunnelAck(id)
  <2>1. FlushedPayloads(n, id) \in Seq(Message)
    <3>1. dt[n][id] \in Seq(NdnPacket)
      BY <1>1, Typed
    <3> QED BY <3>1, MessageKinds DEF FlushedPayloads
  <2>2. PICK f \in Seq(Message), e \in Message : e = TunnelAck(id) /\ f = FlushedPayloads(n, id)
    BY <1>1, <2>1, MessageKinds
  <2>3. a = Append(f, e)
    BY <1>2, <2>2, AppendIsConcat DEF Answer
  <2>4. Len(f) + 1 \in DOMAIN a /\ a[Len(f) + 1] = e
    BY <2>3
  <2> QED BY <2>2, <2>4
<1>5. PICK x \in DOMAIN a : a[x] = TunnelAck(id)
  BY <1>4
<1>6. \E i \in DOMAIN chan'[n][l] : chan'[n][l][i] = a[x]
  BY <1>2, <1>3, EmitHolds
<1> QED BY <1>5, <1>6

\* The ack is passed on until the station has taken it.
LEMMA AckGoesOn ==
  ASSUME TypeOK, TypeOK', LossInv, TunnelInv, NEW n \in Node, NEW l \in Link,
         Receive(n, l), Arriving(n, l).type = "TunnelAck", NEW id, id = Arriving(n, l).id,
         tib'[Owner(id)][id] = Absent
  PROVE  \E k \in Link : \E i \in DOMAIN chan'[n][k] :
           IsControl(chan'[n][k][i], id) /\ chan'[n][k][i].type = "TunnelAck"
<1>1. Arrives(n, l, "TunnelAck") /\ (AckUnsolicited(n, l) \/ AckTaken(n, l))
  BY DEF Receive, ProcessPacket, ProcessAck, ReceiveNdn, ReqAtTarget, ReqLoop, ReqRelay, AckUnsolicited,
         AckTaken, PayloadDiscarded, PayloadHandedUp, PayloadRelayed, PayloadArrives, Arrives, Arriving
<1>2. PICK q, m : q = Peer(n, l) /\ m = Arriving(n, l)
  OBVIOUS
<1>3. /\ q \in Node /\ Peer(q, l) = n /\ m \in Message /\ m.type = "TunnelAck" /\ m.id = id
      /\ id \in UserLink /\ ControlPlaced(q, l, 1, id, m)
      /\ id \in DOMAIN userLink /\ Up(id) # Null /\ Received(n, l) \in Channels
  BY <1>1, <1>2, ArrivalPlaced
<1>4. AckFindsWay(n, id)
  BY <1>3 DEF ControlPlaced, AckPlaced
<1>5. prt[n][id] # Absent
  BY <1>1, AckExpected
<1>6. AckTaken(n, l)
  BY <1>1, <1>2, <1>3, <1>5 DEF AckUnsolicited
<1>7. PICK r : r = prt[n][id]
  OBVIOUS
<1>8. /\ tib' = [tib EXCEPT ![n][id] = <<l, r>>]
      /\ chan' = IF r = Null THEN Received(n, l) ELSE Emit(Received(n, l), n, r, <<m>>)
  BY <1>2, <1>3, <1>6, <1>7 DEF AckTaken, RelayEntry
<1>9. r \in Link \cup {Null}
  BY <1>3, <1>5, <1>7, Typed
<1>10. r # Null
  <2> SUFFICES ASSUME r = Null PROVE FALSE
    OBVIOUS
  <2>1. prt[n][id] = Null <=> n = Owner(id)
    BY <1>6, AckPassedOn
  <2>2. n = Owner(id)
    BY <1>7, <2>1
  <2>3. tib'[n][id] = <<l, r>>
    BY <1>3, <1>8, Typed, CellChanged
  <2>4. <<l, r>> # Absent
    BY <1>9, MarkerAssumption
  <2> QED BY <2>2, <2>3, <2>4
<1>11. PICK c \in Channels : c = Received(n, l)
  BY <1>3
<1>12. PICK msgs \in Seq(Message) : msgs = <<m>>
  <2>1. <<m>> \in Seq(Message)
    BY <1>3
  <2> QED BY <2>1
<1>13. PICK x \in DOMAIN msgs : msgs[x] = m
  <2>1. 1 \in DOMAIN msgs /\ msgs[1] = m
    BY <1>12
  <2> QED BY <2>1
<1>14. r \in Link /\ chan' = Emit(c, n, r, msgs)
  BY <1>8, <1>9, <1>10, <1>12, <1>11
<1>15. \E i \in DOMAIN chan'[n][r] : chan'[n][r][i] = msgs[x]
  BY <1>14, EmitHolds
<1> QED BY <1>3, <1>13, <1>14, <1>15 DEF IsControl

\* A satellite that relays a request sends a copy to each one it is linked with.
LEMMA RelayHolds ==
  ASSUME TypeOK, LossInv, TunnelInv, NEW n \in Node, NEW l \in Link, ReqRelay(n, l),
         NEW id, id = Arriving(n, l).id, NEW h, h = Arriving(n, l).hopLimit, h > 1,
         NEW t, Linked(n, t), t # Peer(n, l)
  PROVE  \E k \in Link : /\ Peer(n, k)' = t
                         /\ \E i \in DOMAIN chan'[n][k] : chan'[n][k][i] = TunnelReq(id, h - 1)
<1>1. /\ Received(n, l) \in Channels /\ Arriving(n, l) \in Message
      /\ Arriving(n, l).type = "TunnelReq"
  BY ArrivalPlaced DEF ReqRelay
<1>2. h \in Nat
  BY <1>1, MessageFields, BoundAssumption
<1>3. PICK k \in Isl : /\ k \in Link /\ HasDevice(userLink, n, k) /\ Peer(n, k) = t
                       /\ k \notin isGone[n]
  BY LinkedDevice
<1>4. PICK c \in Channels : c = Received(n, l)
  BY <1>1
<1>5. PICK gone : gone = isGone[n]
  OBVIOUS
<1>6. PICK d : d = chan' /\ d = BroadcastReq(c, userLink, gone, n, id, h, l)
  BY <1>4, <1>5 DEF ReqRelay
<1>7. HopsLeft(h) # 0
  BY <1>2 DEF HopsLeft
<1>8. k \in ReqDevices(userLink, gone, n, l)
  BY <1>3, <1>5 DEF ReqDevices
<1>9. \E i \in DOMAIN d[n][k] : d[n][k][i] = TunnelReq(id, HopsLeft(h))
  BY <1>6, <1>7, <1>8, BroadcastHolds
<1>10. Peer(n, k)' = t
  BY <1>3 DEF ReqRelay, linkVars, Peer
<1>11. HopsLeft(h) = h - 1
  BY <1>2 DEF HopsLeft
<1> QED BY <1>3, <1>6, <1>9, <1>10, <1>11

LEMMA RelayFrame ==
  ASSUME NEW n, NEW l, ReqRelay(n, l), NEW id
  PROVE  /\ Owner(id)' = Owner(id) /\ Target(id)' = Target(id) /\ AccessSat(id)' = AccessSat(id)
         /\ Unanswered(id)' <=> Unanswered(id)
<1>1. UNCHANGED <<userLink, p2pDevice, idList>>
  BY DEF ReqRelay, linkVars
<1> QED BY <1>1 DEF Owner, Target, AccessSat, Up, Unanswered

\* The new access satellite passes the request of its station on, to the
\* target or to a satellite between them.
LEMMA RequestGoesOn ==
  ASSUME TypeOK, TypeOK', LossInv, TunnelInv, HopLimit <= 3,
         NEW n \in Node, NEW l \in Link, Receive(n, l), Arriving(n, l).type = "TunnelReq",
         NEW id, id = Arriving(n, l).id, Unanswered(id), n # Target(id), Peer(n, l) = Owner(id),
         InReach(AccessSat(id), Target(id))
  PROVE  \E k \in Link : \E i \in DOMAIN chan'[n][k] : BringsAnswer(n, k, chan[n][k][i], id)'
<1>1. Arrives(n, l, "TunnelReq") /\ (ReqAtTarget(n, l) \/ ReqLoop(n, l) \/ ReqRelay(n, l))
  BY DEF Receive, ProcessPacket, ProcessAck, ReceiveNdn, ReqAtTarget, ReqLoop, ReqRelay, AckUnsolicited,
         AckTaken, PayloadDiscarded, PayloadHandedUp, PayloadRelayed, PayloadArrives, Arrives, Arriving
<1>2. PICK q, m : q = Peer(n, l) /\ m = Arriving(n, l)
  OBVIOUS
<1>3. /\ q \in Node /\ q # n /\ Peer(q, l) = n /\ m \in Message /\ m.type = "TunnelReq" /\ m.id = id
      /\ id \in UserLink /\ ControlPlaced(q, l, 1, id, m)
      /\ id \in DOMAIN userLink /\ Up(id) # Null /\ q \notin Sat
  BY <1>1, <1>2, ArrivalPlaced, OwnerType, NodeAssumption
<1>4. ~ReqAtTarget(n, l)
  BY TargetAnswers
<1>5. /\ Up(id) \in Link /\ AccessSat(id) # Owner(id) /\ AccessSat(id) \in Sat
      /\ Peer(Owner(id), Up(id)) = AccessSat(id)
  BY <1>3, UpJoins DEF TunnelInv
<1>6. m.hopLimit = HopLimit /\ FirstReq(q, l, 1, id)
  BY <1>2, <1>3, <1>5 DEF ControlPlaced, ReqPlaced
<1>7. n = AccessSat(id) /\ \A x \in Sat : prt[x][id] = Absent
  BY <1>2, <1>3, <1>5, <1>6 DEF FirstReq, Node
<1>8. ReqRelay(n, l)
  BY <1>1, <1>2, <1>3, <1>4, <1>5, <1>7 DEF ReqLoop
<1>9. PICK t : /\ Linked(n, t) /\ HopLimit > 1
               /\ t = Target(id) \/ (HopLimit = 3 /\ Linked(t, Target(id)))
  BY <1>7, BoundAssumption DEF InReach
<1>10. t \in Sat /\ t \in Node /\ t # n
  BY <1>9, LinkedSats DEF Node
<1>11. PICK k \in Link : /\ Peer(n, k)' = t
                         /\ \E i \in DOMAIN chan'[n][k] : chan'[n][k][i] = TunnelReq(id, HopLimit - 1)
  BY <1>2, <1>3, <1>6, <1>8, <1>9, <1>10, RelayHolds
<1>12. PICK i \in DOMAIN chan'[n][k] : chan'[n][k][i] = TunnelReq(id, HopLimit - 1)
  BY <1>11
<1>13. prt'[t][id] = Absent
  <2>1. prt' = [prt EXCEPT ![n][id] = l]
    BY <1>8 DEF ReqRelay, Pending
  <2> QED BY <1>3, <1>7, <1>10, <2>1, Typed, CellChanged
<1>14. /\ Target(id)' = Target(id) /\ AccessSat(id)' = AccessSat(id) /\ Unanswered(id)'
  BY <1>8, RelayFrame
<1>15. IsControl(chan'[n][k][i], id)
  BY <1>12 DEF IsControl, TunnelReq
<1>16. CASE t = Target(id)
  BY <1>11, <1>14, <1>15, <1>16 DEF BringsAnswer
<1>17. CASE HopLimit = 3 /\ Linked(t, Target(id))
  <2>1. PassedOnAt(t, id)'
    BY <1>13, <1>14, <1>17 DEF PassedOnAt, Linked
  <2>2. chan'[n][k][i].hopLimit = 2
    BY <1>12, <1>17 DEF TunnelReq
  <2>3. PassedOnAt(Peer(n, k), id)'
    BY <1>11, <2>1 DEF PassedOnAt
  <2> QED BY <1>7, <1>14, <1>15, <1>17, <2>2, <2>3 DEF BringsAnswer
<1> QED BY <1>9, <1>16, <1>17

\* A satellite next to both gets its first copy from the access satellite, with
\* a hop left to the target.
LEMMA CopyGoesOn ==
  ASSUME TypeOK, TypeOK', LossInv, TunnelInv, NoDetour, HopLimit = 3,
         NEW id, NEW n \in Node, NEW l \in Link, NEW i \in DOMAIN chan[n][l], NEW m, m = chan[n][l][i],
         IsControl(m, id), m.type = "TunnelReq", m.hopLimit = 2, n = AccessSat(id),
         Unanswered(id), HasDevice(userLink, n, l), NEW x \in Node, x = Peer(n, l), Linked(x, Target(id)),
         NEW k \in Link, ReqRelay(x, k), id = Arriving(x, k).id
  PROVE  \E z \in Link : \E j \in DOMAIN chan'[x][z] : BringsAnswer(x, z, chan[x][z][j], id)'
<1>1. x \in Sat
  BY LinkedSats
<1>2. PICK q, r : q = Peer(x, k) /\ r = Arriving(x, k) /\ id = r.id /\ Arrives(x, k, "TunnelReq")
  BY DEF ReqRelay
<1>3. /\ q \in Node /\ Peer(q, k) = x /\ HasDevice(userLink, x, k)
      /\ r \in Message /\ r.type = "TunnelReq" /\ r.id = id /\ id \in UserLink /\ LinkPlaced(id)
      /\ ControlPlaced(q, k, 1, id, r) /\ id \in DOMAIN userLink /\ Up(id) # Null
  BY <1>2, ArrivalPlaced
<1>4. ControlPlaced(n, l, i, id, m)
  BY <1>3 DEF LinkPlaced
<1>5. AccessWaits(id)
  BY <1>4 DEF ControlPlaced, ReqPlaced
<1>6. Up(id) \in Link /\ AccessSat(id) \in Sat /\ AccessSat(id) # Owner(id)
  BY <1>3, UpJoins DEF TunnelInv
<1>7. n # Target(id)
  BY <1>3, <1>5, <1>6, MarkerAssumption DEF LinkPlaced, AccessWaits
<1>8. r.hopLimit = 2 /\ q = n
  <2>1. ReqPlaced(q, k, 1, id, r.hopLimit)
    BY <1>3 DEF ControlPlaced
  <2>2. ~FirstReq(q, k, 1, id)
    BY <1>6 DEF FirstReq, OnlyControl
  <2>3. ~(q \in Sat /\ RelaysToAccess(q, id))
    <3> SUFFICES ASSUME q \in Sat, RelaysToAccess(q, id) PROVE FALSE
      OBVIOUS
    <3>1. Linked(q, n)
      BY <1>6, DeviceLinks DEF RelaysToAccess
    <3>2. Linked(n, x)
      BY <1>1, <1>6, DeviceLinks
    <3>3. Linked(x, q)
      BY <1>1, <1>2, <1>3, DeviceLinks
    <3> QED BY <1>1, <1>6, <3>1, <3>2, <3>3 DEF NoDetour
  <2> QED BY <2>1, <2>2, <2>3 DEF ReqPlaced
<1>9. PICK h, t : h = Arriving(x, k).hopLimit /\ h = 2 /\ t = Target(id) /\ t # Peer(x, k) /\ Linked(x, t)
  BY <1>2, <1>7, <1>8
<1>10. PICK z \in Link : /\ Peer(x, z)' = t
                         /\ \E j \in DOMAIN chan'[x][z] : chan'[x][z][j] = TunnelReq(id, h - 1)
  BY <1>9, RelayHolds
<1>11. Target(id)' = Target(id) /\ Unanswered(id)'
  BY RelayFrame
<1>12. PICK j \in DOMAIN chan'[x][z] : chan'[x][z][j] = TunnelReq(id, h - 1)
  BY <1>10
<1>13. IsControl(chan'[x][z][j], id)
  BY <1>12 DEF IsControl, TunnelReq
<1> QED BY <1>9, <1>10, <1>11, <1>13 DEF BringsAnswer

\* A station keeps its new satellite while its request is on the way.
LEMMA AccessStays ==
  ASSUME TypeOK, TypeOK', LossInv, TunnelInv, [Next]_vars, NEW id \in DOMAIN userLink, InFlight(id)
  PROVE  AccessSat(id)' = AccessSat(id)
<1>1. LinksOnlyAdded /\ id \in UserLink /\ Owner(id) \in Station
  BY StepAddsLinks, OwnerType
<1>2. PICK n \in Node, l \in Link : \E i \in DOMAIN chan[n][l] : IsControl(chan[n][l][i], id)
  BY DEF InFlight
<1>3. Owner(id) \notin todo /\ Up(id) # Null
  BY <1>1, <1>2 DEF TunnelInv, LinkPlaced, ControlPlaced
<1>4. p2pDevice'[Owner(id)] = p2pDevice[Owner(id)] /\ Owner(id)' = Owner(id)
  BY <1>1, <1>3, UpStays, EndsStay
<1>5. PICK u : u = Up(id) /\ Up(id)' = u
  BY <1>4 DEF Up
<1>6. u \in DOMAIN userLink
  BY <1>1, <1>3, <1>5 DEF TunnelInv, UserLinksJoin, Up, Node
<1>7. userLink'[u] = userLink[u]
  BY <1>1, <1>6, LinksStay
<1> QED BY <1>5, <1>7 DEF AccessSat

\* A satellite gets a PRT entry where it relays a request.
LEMMA FirstCopy ==
  ASSUME TypeOK, TypeOK', LossInv, TunnelInv, [Next]_vars, NEW x \in Sat, NEW id \in UserLink,
         prt[x][id] = Absent, prt'[x][id] # Absent
  PROVE  \E k \in Link : ReqRelay(x, k) /\ Arriving(x, k).id = id
<1>1. prt' # prt /\ x \in Node
  BY DEF Node
<1>2. ASSUME NEW st \in Station, NEW s \in Sat, Move(st, s) PROVE FALSE
  <2>1. p2pDevice[st] \in UserLink /\ st \in Node /\ st # x
    BY <1>2, NodeAssumption DEF Move, TypeOK, Node
  <2>2. prt' = [prt EXCEPT ![st][p2pDevice[st]] = Null]
    BY <1>1, <1>2 DEF Move, DestinationMark
  <2> QED BY <1>1, <2>1, <2>2, Typed, CellChanged
<1>3. ASSUME NEW n \in Node, NEW l \in Link, ReqAtTarget(n, l) \/ ReqRelay(n, l) \/ AckTaken(n, l)
      PROVE  \E k \in Link : ReqRelay(x, k) /\ Arriving(x, k).id = id
  <2>1. PICK k : k = Arriving(n, l).id
    OBVIOUS
  <2>2. k \in UserLink
    BY <1>3, <2>1, ArrivalPlaced DEF ReqAtTarget, ReqRelay, AckTaken
  <2>3. CASE ReqAtTarget(n, l)
    BY <1>1, <2>3 DEF ReqAtTarget
  <2>4. CASE AckTaken(n, l)
    <3>1. prt' = [prt EXCEPT ![n][k] = Absent]
      BY <2>1, <2>4 DEF AckTaken
    <3> QED BY <1>1, <2>2, <3>1, Typed, CellChanged
  <2>5. CASE ReqRelay(n, l)
    <3>1. prt' = [prt EXCEPT ![n][k] = l]
      BY <2>1, <2>5 DEF ReqRelay, Pending
    <3>2. x = n /\ id = k
      BY <1>1, <2>2, <3>1, Typed, CellChanged
    <3> QED BY <2>1, <2>5, <3>2
  <2> QED BY <1>3, <2>3, <2>4, <2>5
<1> QED BY <1>1, <1>2, <1>3, TableSteps

LEMMA AnswerGoesOn ==
  ASSUME TypeOK, TypeOK', LossInv, TunnelInv, GoneKnown, NextIsUp, NoDetour, [Next]_vars,
         NEW id \in DOMAIN userLink, tib'[Owner(id)][id] = Absent,
         NEW j \in DOMAIN userLink, IsNext(j, id), InReach(userLink[j][2], Target(id)), Answering(id)
  PROVE  Answering(id)'
<1>1. PICK n \in Node, l \in Link : \E i \in DOMAIN chan[n][l] : BringsAnswer(n, l, chan[n][l][i], id)
  BY DEF Answering
<1>2. PICK i \in DOMAIN chan[n][l] : BringsAnswer(n, l, chan[n][l][i], id)
  BY <1>1
<1>3. PICK m : m = chan[n][l][i]
  OBVIOUS
<1>4. IsControl(m, id) /\ m.type \in {"TunnelReq", "TunnelAck"} /\ m.id = id
  BY <1>2, <1>3 DEF BringsAnswer, IsControl
<1>5. /\ id \in UserLink /\ Owner(id) \in Node /\ Target(id) \in Node /\ Owner(id) # Target(id)
      /\ Owner(id)' = Owner(id) /\ Target(id)' = Target(id) /\ LinksOnlyAdded
  BY StepAddsLinks, EndsStay
<1>6. HasDevice(userLink, n, l) /\ Peer(n, l)' = Peer(n, l)
  <2>1. HasDevice(userLink, n, l)
    BY DEF LossInv, PacketFits, Fits
  <2> QED BY <1>5, <2>1, PeerStays
<1>7. ASSUME NEW x \in Node, NEW k \in Link, NEW y \in DOMAIN chan'[x][k],
             IsControl(chan'[x][k][y], id), chan'[x][k][y].type = "TunnelAck"
      PROVE  Answering(id)'
  BY <1>7 DEF Answering, BringsAnswer
<1>8. CASE m.type = "TunnelReq" /\ ~Unanswered(id)'
  <2>1. Unanswered(id)
    BY <1>2, <1>3, <1>8 DEF BringsAnswer
  <2>2. Target(id) \in Node /\ id \in idList[Target(id)] /\ id \notin idList'[Target(id)]
    BY <1>5, <1>8, <2>1 DEF Unanswered
  <2>3. PICK k \in Link : ReqAtTarget(Target(id), k) /\ Arriving(Target(id), k).id = id
    BY <1>5, <2>2, TargetStays
  <2>4. \E y \in DOMAIN chan'[Target(id)][k] : chan'[Target(id)][k][y] = TunnelAck(id)
    BY <1>5, <2>3, AckSent
  <2> QED BY <1>5, <1>7, <2>4 DEF IsControl, TunnelAck
<1>9. CASE m.type = "TunnelAck" \/ Unanswered(id)'
  <2>1. ASSUME NEW y \in DOMAIN chan'[n][l], chan'[n][l][y] = m PROVE Answering(id)'
    <3>1. SUFFICES ASSUME ~BringsAnswer(n, l, m, id)' PROVE Answering(id)'
      BY <2>1 DEF Answering
    <3>2. m.type # "TunnelAck" /\ n # Owner(id) /\ Peer(n, l) # Target(id)
      BY <1>4, <1>5, <1>6, <1>9, <3>1 DEF BringsAnswer
    <3>3. /\ HopLimit = 3 /\ m.hopLimit = 2 /\ n = AccessSat(id) /\ PassedOnAt(Peer(n, l), id)
          /\ Unanswered(id)
      BY <1>2, <1>3, <3>2 DEF BringsAnswer
    <3>4. PICK x \in Node : x = Peer(n, l)
      BY <1>6, PeerOfPeer
    <3>5. AccessSat(id)' = AccessSat(id)
      BY <1>3, <1>4, AccessStays DEF InFlight
    <3>6. prt'[x][id] # Absent
      <4> SUFFICES ASSUME prt'[x][id] = Absent PROVE FALSE
        OBVIOUS
      <4>1. PassedOnAt(Peer(n, l), id)'
        BY <1>5, <1>6, <3>3, <3>4 DEF PassedOnAt, Linked
      <4> QED BY <1>4, <1>9, <3>1, <3>2, <3>3, <3>5, <4>1 DEF BringsAnswer
    <3>7. PICK k \in Link : ReqRelay(x, k) /\ Arriving(x, k).id = id
      BY <1>5, <3>3, <3>4, <3>6, LinkedSats, FirstCopy DEF PassedOnAt
    <3>8. \E z \in Link : \E w \in DOMAIN chan'[x][z] : BringsAnswer(x, z, chan[x][z][w], id)'
      BY <1>3, <1>4, <1>6, <3>2, <3>3, <3>4, <3>7, CopyGoesOn DEF PassedOnAt
    <3> QED BY <3>8 DEF Answering
  <2>2. ASSUME i = 1, NEW x \in Node, Receive(x, l), HasDevice(userLink, x, l), Peer(x, l) = n
        PROVE  Answering(id)'
    <3>1. Peer(n, l) = x /\ n # x /\ Arriving(x, l) = m
      <4>1. Peer(n, l) = x /\ n # x
        BY <2>2, PeerOfPeer
      <4>2. chan[n][l] \in Seq(Message) /\ 1 \in DOMAIN chan[n][l] /\ chan[n][l][1] = m
        BY <1>3, <2>2, Typed
      <4>3. Head(chan[n][l]) = m
        BY <4>2
      <4> QED BY <2>2, <4>1, <4>3 DEF Arriving
    <3>2. CASE m.type = "TunnelAck"
      BY <1>4, <1>7, <2>2, <3>1, <3>2, AckGoesOn
    <3>3. CASE m.type = "TunnelReq"
      <4>1. /\ Unanswered(id)
            /\ \/ n = Owner(id) \/ x = Target(id)
               \/ /\ HopLimit = 3 /\ m.hopLimit = 2 /\ n = AccessSat(id)
                  /\ PassedOnAt(x, id)
        BY <1>2, <1>3, <3>1, <3>3 DEF BringsAnswer
      <4>2. x # Target(id)
        <5> SUFFICES ASSUME x = Target(id) PROVE FALSE
          OBVIOUS
        <5>1. id \in idList[x]
          BY <4>1 DEF Unanswered
        <5>2. ReqAtTarget(x, l)
          BY <1>4, <2>2, <3>1, <3>3, <5>1
          DEF Receive, ProcessPacket, ProcessAck, ReceiveNdn, ReqLoop, ReqRelay, AckUnsolicited,
              AckTaken, PayloadDiscarded, PayloadHandedUp, PayloadRelayed, PayloadArrives, Arrives,
              Arriving
        <5>3. idList' = [idList EXCEPT ![x] = @ \ {id}]
          BY <1>4, <3>1, <5>2 DEF ReqAtTarget, TargetErased
        <5>4. id \notin idList'[x]
          BY <5>3 DEF TypeOK
        <5> QED BY <1>5, <1>9, <3>3, <5>4 DEF Unanswered
      <4>3. j = Up(id)
        <5>1. InFlight(id)
          BY <1>3, <1>4 DEF InFlight
        <5>2. IsNext(Up(id), id)
          BY <5>1 DEF NextIsUp
        <5>3. Later(id) \subseteq Int
          BY Typed DEF Later
        <5> QED BY <5>2, <5>3 DEF IsNext
      <4>4. InReach(AccessSat(id), Target(id))
        BY <4>3 DEF AccessSat
      <4>5. CASE n = Owner(id)
        <5>1. HopLimit <= 3
          BY BoundAssumption DEF NoDetour
        <5>2. \E k \in Link : \E y \in DOMAIN chan'[x][k] : BringsAnswer(x, k, chan[x][k][y], id)'
          BY <1>4, <2>2, <3>1, <3>3, <4>1, <4>2, <4>4, <4>5, <5>1, RequestGoesOn
        <5> QED BY <5>2 DEF Answering
      <4>6. CASE HopLimit = 3 /\ m.hopLimit = 2 /\ n = AccessSat(id) /\ PassedOnAt(x, id)
        <5>1. ~ReqAtTarget(x, l)
          BY <1>4, <3>1, <4>2, TargetAnswers
        <5>2. ReqLoop(x, l) \/ ReqRelay(x, l)
          BY <2>2, <3>1, <3>3, <5>1
          DEF Receive, ProcessPacket, ProcessAck, ReceiveNdn, ReqLoop, ReqRelay, AckUnsolicited,
              AckTaken, PayloadDiscarded, PayloadHandedUp, PayloadRelayed, PayloadArrives, Arrives,
              Arriving
        <5>3. ReqRelay(x, l)
          BY <1>4, <3>1, <4>6, <5>2 DEF PassedOnAt, ReqLoop
        <5>4. \E k \in Link : \E y \in DOMAIN chan'[x][k] : BringsAnswer(x, k, chan[x][k][y], id)'
          BY <1>3, <1>4, <1>6, <3>1, <3>3, <4>1, <4>6, <5>3, CopyGoesOn DEF PassedOnAt
        <5> QED BY <5>4 DEF Answering
      <4> QED BY <4>1, <4>2, <4>5, <4>6
    <3> QED BY <1>4, <3>2, <3>3
  <2> QED BY <1>3, <2>1, <2>2, StaysOrTaken
<1> QED BY <1>4, <1>8, <1>9

\* A station that moves has its request on its new link.
LEMMA MoveAsks ==
  ASSUME TypeOK, TypeOK', LossInv, TunnelInv, BufferInv, GoneKnown, LastIsUp,
         NEW st \in Station, NEW s \in Sat, Move(st, s), NEW old, old = p2pDevice[st], prt' # prt
  PROVE  /\ old \in UserLink /\ prt' = [prt EXCEPT ![st][old] = Null] /\ AnswerComes(old)'
<1>1. PICK new, gone, links : new = NewId /\ gone = Detached(st)[st] /\ links = Append(userLink, <<st, s>>)
  OBVIOUS
<1>2. /\ old \in UserLink /\ old \in DOMAIN userLink /\ Owner(old)' = st
      /\ new \in DOMAIN userLink' /\ IsNext(new, old)' /\ Unanswered(old)'
  BY <1>1, MoveIsNext
<1>3. /\ userLink' = links /\ chan' = BroadcastReq(chan, links, gone, st, old, 0, Null)
      /\ prt' = DestinationMark(prt, st, old) /\ NewId <= MaxLink
  BY <1>1 DEF Move
<1>4. HopsLeft(0) # 0 /\ prt' = [prt EXCEPT ![st][old] = Null]
  BY <1>3 DEF DestinationMark
<1>5. /\ new \in UserLink /\ new \notin DOMAIN userLink /\ userLink'[new] = <<st, s>> /\ st \in Node
  BY <1>1, <1>3, LinkCreated DEF Node
<1>6. new \in Link /\ new \notin Isl /\ new # Null
  BY <1>5, IslAssumption, MarkerAssumption DEF Link, UserLink
<1>7. new \notin gone
  BY <1>1, <1>2, <1>5 DEF GoneKnown, Detached
<1>8. HasDevice(links, st, new)
  BY <1>2, <1>3, <1>5, <1>6 DEF HasDevice, EndsOf
<1>9. new \in ReqDevices(links, gone, st, Null)
  BY <1>6, <1>7, <1>8 DEF ReqDevices
<1>10. \E i \in DOMAIN chan'[st][new] : chan'[st][new][i] = TunnelReq(old, HopsLeft(0))
  <2>1. PICK c, h : c = chan /\ c \in Channels /\ h = 0
    BY Typed
  <2>2. PICK d : d = chan' /\ d = BroadcastReq(c, links, gone, st, old, h, Null)
    BY <1>3, <2>1
  <2>3. HopsLeft(h) # 0 /\ st \in Node
    BY <1>4, <1>5, <2>1
  <2>4. \E i \in DOMAIN d[st][new] : d[st][new][i] = TunnelReq(old, HopsLeft(h))
    BY <1>9, <2>1, <2>2, <2>3, BroadcastHolds
  <2> QED BY <2>1, <2>2, <2>4
<1>11. PICK i \in DOMAIN chan'[st][new] : chan'[st][new][i] = TunnelReq(old, HopsLeft(0))
  BY <1>10
<1>12. BringsAnswer(st, new, chan[st][new][i], old)'
  BY <1>2, <1>11 DEF BringsAnswer, IsControl, TunnelReq
<1>13. Answering(old)'
  BY <1>5, <1>6, <1>12 DEF Answering
<1> QED BY <1>2, <1>4, <1>13 DEF AnswerComes

LEMMA RequestAliveStep ==
  ASSUME TypeOK, TypeOK', LossInv, TunnelInv, BufferInv, AnswerInv, NoDetour, [Next]_vars
  PROVE  RequestAlive'
<1> SUFFICES ASSUME NEW id \in DOMAIN userLink', Requested(id)', ~HasEntry(Owner(id), id)'
             PROVE  AnswerComes(id)'
  BY DEF RequestAlive
<1>1. LinksOnlyAdded /\ id \in UserLink
  BY StepAddsLinks, LinkNumbersNext
<1>2. PICK o \in Node : o = Owner(id)'
  BY LinkNumbersNext DEF Owner, Node
<1>3. prt'[o][id] = Null /\ tib'[o][id] = Absent
  BY <1>2 DEF Requested, HasEntry, Owner
<1>4. CASE id \in DOMAIN userLink /\ prt[o][id] = Null
  <2>1. o = Owner(id) /\ Target(id)' = Target(id)
    BY <1>1, <1>2, <1>4, EndsStay
  <2>2. tib[o][id] = Absent
    BY <1>1, <1>3, EntriesKept
  <2>3. AnswerComes(id)
    BY <1>4, <2>1, <2>2 DEF AnswerInv, RequestAlive, Requested, HasEntry, Owner
  <2>4. PICK j \in DOMAIN userLink :
          IsNext(j, id) /\ (InReach(userLink[j][2], Target(id)) => Answering(id))
    BY <2>3 DEF AnswerComes
  <2>5. IsNext(j, id)' /\ userLink'[j] = userLink[j] /\ j \in DOMAIN userLink'
    BY <1>1, <1>4, <2>4, NextStays, LinksStay
  <2>6. InReach(userLink[j][2], Target(id)) => Answering(id)'
    BY <1>3, <1>4, <2>1, <2>4, AnswerGoesOn DEF AnswerInv
  <2>7. InReach(userLink'[j][2], Target(id)') => Answering(id)'
    BY <2>1, <2>5, <2>6
  <2>8. InReach(userLink[j][2], Target(id))' => Answering(id)'
    BY <2>7 DEF InReach, Linked
  <2> QED BY <2>5, <2>8 DEF AnswerComes
<1>5. CASE prt[o][id] # Null
  <2>1. prt' # prt
    BY <1>3, <1>5
  <2>2. ASSUME NEW st \in Station, NEW s \in Sat, Move(st, s) PROVE AnswerComes(id)'
    <3>1. PICK old : old = p2pDevice[st]
      OBVIOUS
    <3>2. old \in UserLink /\ prt' = [prt EXCEPT ![st][old] = Null] /\ AnswerComes(old)'
      BY <2>1, <2>2, <3>1, MoveAsks DEF AnswerInv
    <3>3. st \in Node
      BY DEF Node
    <3>4. o = st /\ id = old
      BY <1>1, <1>3, <1>5, <3>2, <3>3, Typed, CellChanged
    <3> QED BY <3>2, <3>4
  <2>3. ASSUME NEW n \in Node, NEW l \in Link, ReqAtTarget(n, l) \/ ReqRelay(n, l) \/ AckTaken(n, l)
        PROVE  FALSE
    <3>1. PICK k : k = Arriving(n, l).id
      OBVIOUS
    <3>2. k \in UserLink
      BY <2>3, <3>1, ArrivalPlaced DEF ReqAtTarget, ReqRelay, AckTaken
    <3>3. prt' = prt \/ \E v \in {l, Absent} : prt' = [prt EXCEPT ![n][k] = v]
      BY <2>3, <3>1 DEF ReqAtTarget, ReqRelay, AckTaken, Pending
    <3>4. PICK v \in {l, Absent} : prt' = [prt EXCEPT ![n][k] = v]
      BY <2>1, <3>3
    <3>5. v # Null
      BY <3>4, MarkerAssumption
    <3>6. prt'[o][id] \in {prt[o][id], v}
      BY <1>1, <3>2, <3>4, Typed, CellChanged
    <3> QED BY <1>3, <1>5, <3>5, <3>6
  <2> QED BY <2>1, <2>2, <2>3, TableSteps
<1>6. CASE id \notin DOMAIN userLink
  <2>1. prt[o][id] = Absent
    BY <1>1, <1>6 DEF TunnelInv, LinkPlaced, Fresh
  <2> QED BY <1>5, <2>1, MarkerAssumption
<1> QED BY <1>4, <1>5, <1>6

LEMMA HopsOfNoDetour == ASSUME NoDetour PROVE HopLimit \in 0..3
BY BoundAssumption DEF NoDetour

LEMMA AnswerStep ==
  NoDetour /\ TypeOK /\ TypeOK' /\ LossInv /\ TunnelInv /\ BufferInv /\ AnswerInv /\ [Next]_vars
    => AnswerInv'
BY HopsOfNoDetour, LastIsUpStep, GoneKnownStep, NextIsUpStep, AnsweredInReachStep, RequestAliveStep DEF AnswerInv

\* Once all packets have arrived a requested tunnel is established if and
\* only if the hop limit lets the request reach the satellite that was left:
\* BroadcastReq floods no further, and no node passes a request on twice.
THEOREM RequestsAnswered == NoDetour => (Spec => []RequestAnswered)
<1> SUFFICES ASSUME NoDetour PROVE Spec => []RequestAnswered
  OBVIOUS
<1> DEFINE IInv == TypeOK /\ LossInv /\ TunnelInv /\ BufferInv /\ ServiceInv /\ ShortWay /\ AnswerInv
<1>1. Init => IInv
  <2>1. Init => ShortWay
    BY DEF Init, ShortWay
  <2>2. Init => AnswerInv
    BY DEF Init, AnswerInv, LastIsUp, GoneKnown, NextIsUp, AnsweredInReach, RequestAlive
  <2> QED BY <2>1, <2>2, InitType, LossInit, TunnelInit, BufferInit, ServiceInit
<1>2. IInv /\ [Next]_vars => IInv'
  <2>1. HopLimit <= 3
    BY HopsOfNoDetour
  <2> QED BY <2>1, TypeStep, LossStep, TunnelStep, BufferStep, ServiceStep, ShortWayStep, AnswerStep
<1>3. IInv => RequestAnswered
  <2> SUFFICES ASSUME IInv, Quiet, HopLimit > 0, NEW id \in DOMAIN userLink, Requested(id)
               PROVE  HasEntry(Owner(id), id) <=> Target(id) \in Within(NewAccess(id), HopLimit - 1)
    BY DEF RequestAnswered, HasEntry, Owner, Target
  <2>1. HopLimit \in 1..3
    BY HopsOfNoDetour
  <2>2. ASSUME NEW j \in DOMAIN userLink, IsNext(j, id)
        PROVE  Target(id) \in Within(NewAccess(id), HopLimit - 1) <=> InReach(userLink[j][2], Target(id))
    <3>1. NewAccess(id) = userLink[j][2] /\ userLink[j][2] \in Sat /\ Target(id) \in Sat
      BY <2>2, NewAccessIs, LinkNumbers, OwnerType
    <3> QED BY <2>1, <3>1, WithinReach
  <2>3. CASE HasEntry(Owner(id), id)
    <3>1. Served(id)
      BY OwnerType DEF ServiceInv
    <3>2. HasEntry(Target(id), id)
      BY <2>3, <3>1, TunnelPath
    <3>3. PICK j \in DOMAIN userLink : IsNext(j, id) /\ InReach(userLink[j][2], Target(id))
      BY <3>2 DEF AnswerInv, AnsweredInReach, NextInReach
    <3> QED BY <2>2, <2>3, <3>3
  <2>4. CASE ~HasEntry(Owner(id), id)
    <3>1. PICK j \in DOMAIN userLink :
            IsNext(j, id) /\ (InReach(userLink[j][2], Target(id)) => Answering(id))
      BY <2>4 DEF AnswerInv, RequestAlive, AnswerComes
    <3>2. ~Answering(id)
      BY DEF Quiet, Answering
    <3> QED BY <2>2, <2>4, <3>1, <3>2
  <2> QED BY <2>3, <2>4
<1> QED BY <1>1, <1>2, <1>3, PTL DEF Spec
=============================================================================
